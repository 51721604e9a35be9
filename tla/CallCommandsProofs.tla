-------------------------- MODULE CallCommandsProofs --------------------------
(***************************************************************************)
(* Proofs about CallCommands, for every number of slots, every set of call  *)
(* ids, every set of options and every configuration: the types, that a     *)
(* command leaves nothing behind, that recorders and players are owned, what*)
(* an exit status of 0 means, and what the codec filter enables.            *)
(*                                                                          *)
(* The lemmas about single actions are also those of TestEngineProofs: the  *)
(* `test` command is made of the same actions.                              *)
(***************************************************************************)
EXTENDS CallCommands, CallManagerProofs, FiniteSetTheorems

\* What remains true of the call table and PJSUA in a whole command.  (That the
\* ids in the table are live ends with the detachment of the call manager.)
TableInv == TypeOK /\ MarkedId /\ CallbackOfSession

Entry == [id : Ids \cup {Invalid}, state : CallState]
AppRecord ==
  [pc : {"idle", "claimed", "stored", "marked", "asked", "draining", "closed"},
   slot : Slots \cup {NoSlot}, id : Ids \cup {Invalid}]

----------------------------------------------------------------------------
\* The worker.

LEMMA ReportTable ==
  ASSUME TableInv, NEW c \in Ids, OnCallState(c) \/ OnCallStateUnattached(c)
  PROVE  TableInv'
<1> USE DEF TableInv
<1>1. /\ Live(c) /\ cb[c].at = "none"
      /\ UNCHANGED <<command, call, answered, told, app>>
  BY DEF OnCallState, OnCallStateUnattached
<1>2. PICK st \in InvNext[inv[c]] : inv' = [inv EXCEPT ![c] = st]
  BY DEF OnCallState, OnCallStateUnattached
<1>3. PICK t \in Slots \cup {NoSlot} : cb' = [cb EXCEPT ![c] = [at |-> "state", slot |-> t]]
  BY DEF OnCallState, OnCallStateUnattached
<1>4. st \in InvState /\ st # "FREE"
  <2>1. inv[c] \in InvState \ {"FREE", "DISCONNECTED"}
    BY <1>1 DEF Live, TypeOK
  <2>2. QED BY <2>1, InvNextStates
<1>5. [at |-> "state", slot |-> t] \in Callback
  BY DEF Callback
<1>6. TypeOK' BY <1>1, <1>2, <1>3, <1>4, <1>5 DEF TypeOK
<1>7. CallbackOfSession'
  BY <1>1, <1>2, <1>3, <1>4 DEF TypeOK, CallbackOfSession
<1>8. MarkedId' BY <1>1 DEF MarkedId
<1>9. QED BY <1>6, <1>7, <1>8

LEMMA ReturnTable ==
  ASSUME TableInv, NEW c \in Ids, CallbackReturns(c), call' \in [Slots -> Entry],
         UNCHANGED <<command, app>>
  PROVE  TableInv'
<1> USE DEF TableInv
<1>1. TypeOK' BY CallbackReturnsTypes DEF TypeOK, Entry
<1>2. CallbackOfSession'
  <2>1. \A d \in Ids : cb'[d].at # "none" => d # c /\ cb[d] = cb'[d] /\ inv'[d] = inv[d]
    BY CallbackReturnsTypes
  <2>2. QED BY <2>1 DEF CallbackOfSession
<1>3. MarkedId' BY DEF MarkedId
<1>4. QED BY <1>1, <1>2, <1>3

LEMMA ApplyTable ==
  ASSUME TableInv, NEW c \in Ids, ApplyState(c)
  PROVE  TableInv'
<1> USE DEF TableInv
<1> DEFINE t == cb[c].slot
           e == StateChanged(call[t], inv[c])
<1>1. t \in Slots /\ inv[c] \in InvState \ {"FREE"}
  BY DEF ApplyState, TypeOK, Callback, CallbackOfSession
<1>2. e \in Entry
  BY <1>1, StateChangedEntry DEF TypeOK, Entry
<1>3. call' = [call EXCEPT ![t] = e]
  BY DEF ApplyState
<1> HIDE DEF t, e
<1>4. call' \in [Slots -> Entry]
  BY <1>1, <1>2, <1>3 DEF TypeOK, Entry
<1>5. QED BY <1>4, ReturnTable DEF ApplyState

LEMMA WorkerTable ==
  ASSUME TableInv, NEW c \in Ids,
         \/ Arrive(c) \/ OnCallState(c) \/ OnCallStateUnattached(c)
         \/ ApplyState(c) \/ IgnoreState(c) \/ TrackIncoming(c) \/ RejectIncoming(c)
         \/ CallbackReturns(c) /\ UNCHANGED <<command, call, app>>
         \/ cb' = [cb EXCEPT ![c] = NoCallback] /\ answered' \subseteq Ids
            /\ UNCHANGED <<command, call, inv, told, app>>
  PROVE  TableInv'
<1> USE DEF TableInv
<1>1. CASE Arrive(c)
  <2>1. [at |-> "arrived", slot |-> NoSlot] \in Callback
    BY DEF Callback, NoSlot
  <2>2. TypeOK' BY <1>1, <2>1 DEF Arrive, TypeOK, InvState, CallState
  <2>3. CallbackOfSession' /\ MarkedId'
    BY <1>1 DEF Arrive, TypeOK, CallbackOfSession, MarkedId
  <2>4. QED BY <2>2, <2>3
<1>2. CASE OnCallState(c) \/ OnCallStateUnattached(c)
  BY <1>2, ReportTable
<1>3. CASE ApplyState(c)
  BY <1>3, ApplyTable
<1>4. CASE IgnoreState(c) \/ (CallbackReturns(c) /\ UNCHANGED <<command, call, app>>)
  <2>1. CallbackReturns(c) /\ UNCHANGED <<command, call, app>>
    BY <1>4 DEF IgnoreState
  <2>2. call' \in [Slots -> Entry] BY <2>1 DEF TypeOK, Entry
  <2>3. QED BY <2>1, <2>2, ReturnTable
<1>5. CASE TrackIncoming(c)
  <2>1. PICK s \in Slots :
          /\ call' \in {call, [call EXCEPT ![s] = [id |-> c, state |-> "INCOMING"]]}
          /\ cb' = [cb EXCEPT ![c] = [at |-> "claimed", slot |-> s]]
          /\ cb[c].at = "arrived" /\ UNCHANGED <<command, inv, answered, told, app>>
    BY <1>5 DEF TrackIncoming
  <2>2. [at |-> "claimed", slot |-> s] \in Callback
    BY DEF Callback
  <2>3. TypeOK' BY <2>1, <2>2 DEF TypeOK, CallState
  <2>4. CallbackOfSession' /\ MarkedId'
    BY <2>1 DEF TypeOK, CallbackOfSession, MarkedId
  <2>5. QED BY <2>3, <2>4
<1>6. CASE RejectIncoming(c)
  <2>1. [at |-> "state", slot |-> NoSlot] \in Callback
    BY DEF Callback
  <2>2. TypeOK' BY <1>6, <2>1 DEF RejectIncoming, TypeOK, InvState, CallState
  <2>3. CallbackOfSession' /\ MarkedId'
    BY <1>6 DEF RejectIncoming, TypeOK, CallbackOfSession, MarkedId
  <2>4. QED BY <2>2, <2>3
<1>7. CASE cb' = [cb EXCEPT ![c] = NoCallback] /\ answered' \subseteq Ids
           /\ UNCHANGED <<command, call, inv, told, app>>
  <2>1. NoCallback \in Callback
    BY DEF Callback, NoCallback
  <2>2. TypeOK' BY <1>7, <2>1 DEF TypeOK
  <2>3. CallbackOfSession' /\ MarkedId'
    BY <1>7 DEF TypeOK, CallbackOfSession, MarkedId, NoCallback
  <2>4. QED BY <2>2, <2>3
<1>8. QED BY <1>1, <1>2, <1>3, <1>4, <1>5, <1>6, <1>7

----------------------------------------------------------------------------
\* The main thread.

LEMMA MakeTable ==
  ASSUME TableInv, Make
  PROVE  TableInv'
<1> USE DEF TableInv
<1>1. CASE MakeClaim
  <2>1. TypeOK' BY <1>1 DEF MakeClaim, TypeOK, CallState
  <2>2. QED BY <1>1, <2>1 DEF MakeClaim, MarkedId, CallbackOfSession
<1>2. CASE \E c \in Ids : MakeDialled(c)
  <2>1. PICK c \in Ids : MakeDialled(c) BY <1>2
  <2>2. call' \in [Slots -> Entry] /\ app' \in AppRecord /\ inv' \in [Ids -> InvState]
    <3>1. call' \in [Slots -> Entry] BY <2>1 DEF MakeDialled, TypeOK, Entry
    <3>2. app' \in AppRecord BY <2>1 DEF MakeDialled, TypeOK, AppRecord
    <3>3. inv' \in [Ids -> InvState] BY <2>1 DEF MakeDialled, TypeOK, InvState, CallState
    <3>4. QED BY <3>1, <3>2, <3>3
  <2>3. TypeOK' BY <2>1, <2>2 DEF MakeDialled, TypeOK, Entry, AppRecord
  <2>4. CallbackOfSession' BY <2>1 DEF MakeDialled, TypeOK, CallbackOfSession
  <2>5. MarkedId' BY <2>1 DEF MakeDialled, TypeOK, MarkedId
  <2>6. QED BY <2>3, <2>4, <2>5
<1>3. CASE MakeFailed
  <2>1. TypeOK' BY <1>3 DEF MakeFailed, TypeOK, Idle
  <2>2. QED BY <1>3, <2>1 DEF MakeFailed, MarkedId, CallbackOfSession, Idle
<1>4. CASE MakeDone
  <2>1. TypeOK' BY <1>4 DEF MakeDone, TypeOK, Idle, CallState
  <2>2. QED BY <1>4, <2>1 DEF MakeDone, MarkedId, CallbackOfSession, Idle
<1>5. QED BY <1>1, <1>2, <1>3, <1>4 DEF Make

LEMMA HangupTable ==
  ASSUME TableInv, Hangup \/ HangupAll
  PROVE  TableInv'
<1> USE DEF TableInv
<1>1. CASE \E s \in Slots : HangupMark(s)
  <2>1. PICK s \in Slots : HangupMark(s) BY <1>1
  <2>2. TypeOK' BY <2>1 DEF HangupMark, TypeOK
  <2>3. QED BY <2>1, <2>2 DEF HangupMark, TypeOK, MarkedId, CallbackOfSession
<1>2. CASE HangupAsk
  <2>1. TypeOK' BY <1>2 DEF HangupAsk, TypeOK, MarkedId
  <2>2. QED BY <1>2, <2>1 DEF HangupAsk, TypeOK, MarkedId, CallbackOfSession
<1>3. CASE HangupDone
  <2>1. TypeOK' BY <1>3 DEF HangupDone, TypeOK, Idle, CallState
  <2>2. QED BY <1>3, <2>1 DEF HangupDone, MarkedId, CallbackOfSession, Idle
<1>4. CASE HangupAllAsk
  <2>1. TypeOK' BY <1>4 DEF HangupAllAsk, TypeOK
  <2>2. QED BY <1>4, <2>1 DEF HangupAllAsk, TypeOK, MarkedId, CallbackOfSession
<1>5. CASE HangupAllMark
  <2>1. call' \in [Slots -> Entry]
    BY <1>5 DEF HangupAllMark, TypeOK, Entry, CallState
  <2>2. TypeOK' BY <1>5, <2>1 DEF HangupAllMark, TypeOK, Entry
  <2>3. QED BY <1>5, <2>2 DEF HangupAllMark, TypeOK, MarkedId, CallbackOfSession
<1>6. QED BY <1>1, <1>2, <1>3, <1>4, <1>5 DEF Hangup, HangupAll

LEMMA EndTable ==
  ASSUME TableInv, Wipe \/ Shutdown
  PROVE  TableInv'
<1> USE DEF TableInv
<1>1. CASE Wipe
  <2>1. TypeOK' BY <1>1, ZeroIdAssumption DEF Wipe, TypeOK, CallState
  <2>2. QED BY <1>1, <2>1 DEF Wipe, MarkedId, CallbackOfSession
<1>2. CASE Shutdown
  <2>1. TypeOK' BY <1>2 DEF Shutdown, TypeOK, InvState
  <2>2. QED BY <1>2, <2>1 DEF Shutdown, MarkedId, CallbackOfSession, NoCallback
<1>3. QED BY <1>1, <1>2

LEMMA TableStays ==
  ASSUME TableInv, UNCHANGED vars
  PROVE  TableInv'
BY DEF TableInv, vars, TypeOK, MarkedId, CallbackOfSession

----------------------------------------------------------------------------
\* The recorders and players.  Held and Spare read a given assignment of media,
\* so that the lemmas can be used of a step's state before and after.

Held(m, kind) == {s \in Slots : kind \in m[s]}

\* How many more objects exist than are accounted for.
Spare(kind) == objects[kind] - (Cardinality(Held(media, kind)) + Making(kind))

LEMMA SlotsFinite == IsFiniteSet(Slots) /\ Cardinality(Slots) = MaxCalls
<1>1. 0 \in Int /\ MaxCalls - 1 \in Int /\ 0 <= MaxCalls - 1
  BY MaxCallsAssumption
<1>2. QED BY <1>1, FS_Interval, MaxCallsAssumption DEF Slots

LEMMA HeldFinite ==
  ASSUME NEW m, NEW kind
  PROVE  IsFiniteSet(Held(m, kind)) /\ Cardinality(Held(m, kind)) \in Nat
<1>1. Held(m, kind) \subseteq Slots BY DEF Held
<1>2. IsFiniteSet(Held(m, kind)) BY <1>1, SlotsFinite, FS_Subset
<1>3. QED BY <1>2, FS_CardinalityType

LEMMA HeldWithout ==
  ASSUME NEW m \in [Slots -> SUBSET Kinds], NEW s \in Slots, NEW kind \in Kinds,
         NEW n, n = [m EXCEPT ![s] = {}]
  PROVE  /\ kind \in m[s] => Cardinality(Held(n, kind)) = Cardinality(Held(m, kind)) - 1
         /\ kind \notin m[s] => Cardinality(Held(n, kind)) = Cardinality(Held(m, kind))
<1> DEFINE H == Held(m, kind)
           K == Held(n, kind)
<1>1. K = H \ {s} /\ (s \in H <=> kind \in m[s])
  BY DEF Held
<1>2. IsFiniteSet(H)
  BY HeldFinite
<1> HIDE DEF H, K
<1>3. /\ s \in H => Cardinality(K) = Cardinality(H) - 1
      /\ s \notin H => Cardinality(K) = Cardinality(H)
  BY <1>1, <1>2, FS_RemoveElement
<1>4. QED BY <1>1, <1>3 DEF H, K

LEMMA HeldWith ==
  ASSUME NEW m \in [Slots -> SUBSET Kinds], NEW s \in Slots, NEW kind \in Kinds, NEW k \in Kinds,
         NEW n, n[s] = m[s] \cup {k}, \A t \in Slots \ {s} : n[t] = m[t]
  PROVE  /\ kind = k /\ kind \notin m[s] =>
              Cardinality(Held(n, kind)) = Cardinality(Held(m, kind)) + 1
         /\ ~(kind = k /\ kind \notin m[s]) =>
              Cardinality(Held(n, kind)) = Cardinality(Held(m, kind))
<1>1. CASE kind = k
  <2>1. Held(n, kind) = Held(m, kind) \cup {s} /\ (s \in Held(m, kind) <=> kind \in m[s])
    BY <1>1 DEF Held
  <2>2. IsFiniteSet(Held(m, kind))
    BY HeldFinite
  <2>3. QED BY <1>1, <2>1, <2>2, FS_AddElement
<1>2. CASE kind # k
  <2>1. Held(n, kind) = Held(m, kind)
    BY <1>2 DEF Held
  <2>2. QED BY <1>2, <2>1
<1>3. QED BY <1>1, <1>2

LEMMA HeldNone ==
  ASSUME NEW m, \A s \in Slots : m[s] = {}, NEW kind
  PROVE  Cardinality(Held(m, kind)) = 0
<1>1. Held(m, kind) = {} BY DEF Held
<1>2. QED BY <1>1, FS_EmptySet

MediaTypes == media \in [Slots -> SUBSET Kinds] /\ objects \in [Kinds -> Int]

\* Any step that leaves the media alone and does not begin or end making one.
LEMMA SpareStays ==
  ASSUME UNCHANGED files, NEW kind \in Kinds,
         \/ UNCHANGED <<pc, todo>>
         \/ {pc, pc'} \cap {"connecting", "storing"} = {}
         \/ {pc, pc'} \subseteq {"connecting", "storing"} /\ UNCHANGED todo
  PROVE  Spare(kind)' = Spare(kind)
BY DEF files, Spare, Held, Making

LEMMA SpareStop ==
  ASSUME MediaTypes, NEW s \in Slots, StopMedia(s), UNCHANGED <<pc, todo>>, NEW kind \in Kinds
  PROVE  Spare(kind)' = Spare(kind)
<1>1. media' = [media EXCEPT ![s] = {}] /\ objects' = WithoutMediaOf(s)
  BY DEF StopMedia
<1>2. /\ kind \in media[s] => objects'[kind] = objects[kind] - 1
      /\ kind \notin media[s] => objects'[kind] = objects[kind]
  BY <1>1 DEF WithoutMediaOf
<1>3. /\ kind \in media[s] => Cardinality(Held(media', kind)) = Cardinality(Held(media, kind)) - 1
      /\ kind \notin media[s] => Cardinality(Held(media', kind)) = Cardinality(Held(media, kind))
  BY <1>1, HeldWithout DEF MediaTypes
<1>4. Making(kind)' = Making(kind) /\ Making(kind) \in Int
  BY DEF Making
<1>5. Cardinality(Held(media, kind)) \in Int /\ objects[kind] \in Int
  BY HeldFinite DEF MediaTypes
<1>6. QED BY <1>2, <1>3, <1>4, <1>5 DEF Spare

LEMMA SpareMade ==
  ASSUME MediaTypes, NEW k \in Kinds, NEW kind \in Kinds,
         \/ CreateMedia(k)
         \/ ConnectMedia
         \/ ConnectMediaFails /\ k = Head(todo)
         \/ StoreMedia /\ k = Head(todo) /\ at \in Slots
  PROVE  Spare(kind)' = Spare(kind)
           + (IF StoreMedia /\ kind = k /\ k \in media[at] THEN 1 ELSE 0)
<1> USE DEF Goto, Proceed
<1> DEFINE h == Cardinality(Held(media, kind))
<1>1. h \in Int /\ objects[kind] \in Int
  BY HeldFinite DEF MediaTypes
<1>2. CASE CreateMedia(k)
  <2>1. /\ objects'[kind] = objects[kind] + (IF kind = k THEN 1 ELSE 0)
        /\ Making(kind) = 0 /\ Making(kind)' = (IF kind = k THEN 1 ELSE 0)
        /\ UNCHANGED media /\ ~StoreMedia
    BY <1>2 DEF CreateMedia, Do, MediaTypes, Making, StoreMedia
  <2>2. QED BY <1>1, <2>1 DEF Spare
<1>3. CASE ConnectMedia
  <2>1. /\ UNCHANGED <<media, objects>> /\ Making(kind)' = Making(kind) /\ ~StoreMedia
        /\ Making(kind) \in Int
    BY <1>3 DEF ConnectMedia, files, Making, StoreMedia
  <2>2. QED BY <1>1, <2>1 DEF Spare
<1>4. CASE ConnectMediaFails /\ k = Head(todo)
  <2>1. /\ objects'[kind] = objects[kind] - (IF kind = k THEN 1 ELSE 0)
        /\ Making(kind) = (IF kind = k THEN 1 ELSE 0) /\ Making(kind)' = 0
        /\ UNCHANGED media /\ ~StoreMedia
    BY <1>4 DEF ConnectMediaFails, MediaTypes, Making, StoreMedia
  <2>2. QED BY <1>1, <2>1 DEF Spare
<1>5. CASE StoreMedia /\ k = Head(todo) /\ at \in Slots
  <2>1. /\ UNCHANGED objects
        /\ Making(kind) = (IF kind = k THEN 1 ELSE 0) /\ Making(kind)' = 0
        /\ media'[at] = media[at] \cup {k}
        /\ \A t \in Slots \ {at} : media'[t] = media[t]
    BY <1>5 DEF StoreMedia, Making, MediaTypes
  <2>2. /\ kind = k /\ kind \notin media[at] => Cardinality(Held(media', kind)) = h + 1
        /\ ~(kind = k /\ kind \notin media[at]) => Cardinality(Held(media', kind)) = h
    BY <1>5, <2>1, HeldWith DEF MediaTypes
  <2> HIDE DEF h
  <2>3. CASE kind = k /\ k \in media[at]
    BY <1>1, <1>5, <2>1, <2>2, <2>3 DEF Spare, h
  <2>4. CASE ~(kind = k /\ k \in media[at])
    BY <1>1, <1>5, <2>1, <2>2, <2>4 DEF Spare, h
  <2>5. QED BY <2>3, <2>4
<1>6. QED BY <1>2, <1>3, <1>4, <1>5

----------------------------------------------------------------------------
\* What the steps of the worker and of the main thread do to the table.

LEMMA WorkerFrame ==
  ASSUME TableInv, NEW c \in Ids, Incoming(c) \/ StateReported(c) \/ Returning(c)
  PROVE  /\ TableInv' /\ UNCHANGED <<uaVars, flow>>
         /\ UNCHANGED files \/ \E s \in Slots : StopMedia(s)
         /\ lib \/ cb[c].at # "none"
<1>1. CASE Incoming(c)
  BY <1>1, WorkerTable DEF Incoming, WorkerRuns
<1>2. CASE StateReported(c)
  BY <1>2, WorkerTable DEF StateReported, WorkerRuns
<1>3. CASE StateWritten(c)
  <2>1. ApplyState(c) /\ UNCHANGED <<uaVars, flow>> BY <1>3 DEF StateWritten
  <2>2. cb[c].slot \in Slots /\ cb[c].at # "none"
    BY <2>1 DEF ApplyState, TableInv, TypeOK, Callback
  <2>3. UNCHANGED files \/ StopMedia(cb[c].slot) BY <1>3 DEF StateWritten
  <2>4. QED BY <2>1, <2>2, <2>3, WorkerTable
<1>4. CASE StateIgnored(c)
  BY <1>4, WorkerTable DEF StateIgnored, IgnoreState
<1>5. CASE IncomingHandled(c)
  BY <1>5, WorkerTable DEF IncomingHandled, TrackIncoming, RejectIncoming
<1>6. CASE IncomingUnhandled(c)
  BY <1>6, WorkerTable DEF IncomingUnhandled
<1>7. CASE IncomingAnswered(c)
  <2>1. answered' \subseteq Ids
    BY <1>7 DEF IncomingAnswered, TableInv, TypeOK, Answerable
  <2>2. QED BY <1>7, <2>1, WorkerTable DEF IncomingAnswered, AnswerIncoming
<1>8. QED BY <1>1, <1>2, <1>3, <1>4, <1>5, <1>6, <1>7 DEF Returning

\* On a call the main thread works on a slot.
AtInv ==
  pc \in {"dialling", "connect", "act", "connecting", "storing", "talk", "hangup"}
    => at \in Slots

\* Which of its steps change the table.
LEMMA MainVars ==
  ASSUME Main \/ Poll, AtInv
  PROVE  /\ UNCHANGED vars \/ Make \/ Hangup \/ HangupAll \/ Wipe \/ Shutdown
         /\ UNCHANGED connected
<1>1. CASE HangupCall
  <2>1. at \in Slots BY <1>1 DEF HangupCall, AtInv
  <2>2. QED BY <1>1, <2>1 DEF HangupCall, Hangup
<1>2. CASE Dial \/ Dialling
  BY <1>2 DEF Dial, Dialling, Make
<1>3. CASE HangingUp \/ EndCalls \/ Wipe \/ Shutdown
  BY <1>3 DEF HangingUp, EndCalls, Wipe, Shutdown, Hangup, HangupAll
<1>4. CASE UNCHANGED <<vars, connected>>
  BY <1>4
<1>5. \/ UNCHANGED <<vars, connected>> \/ HangupCall \/ Dial \/ Dialling
      \/ HangingUp \/ EndCalls \/ Wipe \/ Shutdown
  BY DEF Main, Prepare, Connect, Act, End, FindAccount, StartAgent, NoFilter, BeginFilter,
         EnableNext, EndFilter, AttachAccounts, RegisterAccount, AttachCalls, CallConnects,
         CallFails, CallTimesOut, StopAwaiting, Check, Poll, CreateMedia, SkipMedia, ConnectMedia,
         ConnectMediaFails, StoreMedia, ActionsDone, StopTalking, HangupNothing, Detach, StopWorker
<1>6. QED BY <1>1, <1>2, <1>3, <1>4, <1>5

\* The options stay what they are.
LEMMA MainOptions ==
  ASSUME Main \/ Poll
  PROVE  UNCHANGED opts
BY DEF Stay, Goto, Fail, Main, Prepare, Connect, Act, End, FindAccount, StartAgent, NoFilter, BeginFilter,
       EnableNext, EndFilter, AttachAccounts, RegisterAccount, AttachCalls, Dial, Dialling,
       CallConnects, CallFails, CallTimesOut, StopAwaiting, Check, Connected, Poll, CreateMedia,
       SkipMedia, ConnectMedia, ConnectMediaFails, StoreMedia, Proceed, ActionsDone,
       StopTalking, HangupNothing, HangupCall, HangingUp, Detach, EndCalls, Wipe, StopWorker,
       Shutdown

LEMMA MainTable ==
  ASSUME TableInv, AtInv, Main \/ Poll
  PROVE  TableInv'
BY MainVars, TableStays, MakeTable, HangupTable, EndTable

----------------------------------------------------------------------------
\* The types of the rest.  That `objects` holds natural numbers is part of
\* ObjectsCover, below.

Items == Kinds \cup {"dtmf"}

FlowTypes ==
  /\ UATypeOK
  /\ opts \in Options /\ pc \in Places /\ at \in Slots \cup {NoSlot}
  /\ result \in {0, 1}
  /\ running \in BOOLEAN /\ stuck \in BOOLEAN /\ connected \in BOOLEAN
  /\ MediaTypes
  /\ todo \in Seq(Items)
  /\ pc \in {"connecting", "storing"} => todo # <<>> /\ Head(todo) \in Kinds

LEMMA AgentTypes ==
  ASSUME UATypeOK,
         \/ InitUA \/ InitUAFails \/ DisableCodecs \/ DetachManagers
         \/ BeginShutdown \/ EndShutdown \/ UNCHANGED uaVars
         \/ \E name : EnableOrSkip(name)
         \/ \E what \in SUBSET {"accounts", "calls", "handlers"} : Attach(what)
  PROVE  UATypeOK'
<1> USE PriorityAssumption DEF UATypeOK, UAState
<1>1. CASE InitUA \/ InitUAFails
  <2>1. ua' \in [state : UAState, pool : BOOLEAN, initialized : BOOLEAN]
    <3>1. CASE ua' = [state |-> "RUNNING", pool |-> TRUE, initialized |-> TRUE]
      BY <3>1
    <3>2. CASE ua' = [ua EXCEPT !.state = "UNINITIALIZED"]
      BY <3>2
    <3>3. QED BY <1>1, <3>1, <3>2 DEF InitUA, InitUAFails
  <2>2. lib' \in BOOLEAN /\ UNCHANGED <<links, codec, filter>>
    BY <1>1 DEF InitUA, InitUAFails
  <2>3. QED BY <2>1, <2>2
<1>2. CASE DisableCodecs
  <2>1. codec' \in [Codecs -> Priority] BY <1>2 DEF DisableCodecs, Priority
  <2>2. filter' \in [tried : Nat, next : Priority, enabled : Nat]
    BY <1>2 DEF DisableCodecs, NothingTried, Priority
  <2>3. QED BY <1>2, <2>1, <2>2 DEF DisableCodecs
<1>3. CASE DetachManagers
  BY <1>3 DEF DetachManagers
<1>4. CASE BeginShutdown \/ EndShutdown
  BY <1>4 DEF BeginShutdown, EndShutdown
<1>5. CASE UNCHANGED uaVars
  BY <1>5 DEF uaVars
<1>6. CASE \E name : EnableOrSkip(name)
  <2>1. PICK name : EnableOrSkip(name) BY <1>6
  <2>2. CASE name \in Codecs /\ Enable(name)
    <3>1. NextPriority \in Priority BY DEF NextPriority, Priority
    <3>2. QED BY <2>2, <3>1 DEF Enable
  <2>3. CASE SkipCodec
    BY <2>3 DEF SkipCodec
  <2>4. QED BY <2>1, <2>2, <2>3 DEF EnableOrSkip
<1>7. CASE \E what \in SUBSET {"accounts", "calls", "handlers"} : Attach(what)
  BY <1>7 DEF Attach
<1>8. QED BY <1>1, <1>2, <1>3, <1>4, <1>5, <1>6, <1>7

\* What the options ask for: at most one player.
LEMMA WantedItems ==
  /\ Wanted \in Seq(Items)
  /\ \A i, j \in DOMAIN Wanted : Wanted[i] = "player" /\ Wanted[j] = "player" => i = j
<1> DEFINE later == command = "call" /\ opts.delayed
           a == If(opts.record, "recorder")
           b == If(opts.play /\ ~later, "player")
           c == If(opts.dtmf, "dtmf")
           d == If(opts.play /\ later, "player")
<1>1. Wanted = a \o b \o c \o d
  BY DEF Wanted
<1>2. /\ a \in {<<>>, <<"recorder">>} /\ b \in {<<>>, <<"player">>}
      /\ c \in {<<>>, <<"dtmf">>} /\ d \in {<<>>, <<"player">>}
  BY DEF If
<1>3. b = <<>> \/ d = <<>>
  BY DEF If
<1> HIDE DEF a, b, c, d
<1>4. a \in Seq(Items) /\ b \in Seq(Items) /\ c \in Seq(Items) /\ d \in Seq(Items)
  <2>1. <<>> \in Seq(Items)
    OBVIOUS
  <2>2. \A x \in Items : <<x>> \in Seq(Items)
    OBVIOUS
  <2>3. QED BY <1>2, <2>1, <2>2 DEF Items, Kinds
<1>5. Wanted \in Seq(Items)
  BY <1>1, <1>4
<1>6. \A i, j \in DOMAIN Wanted : Wanted[i] = "player" /\ Wanted[j] = "player" => i = j
  <2>1. CASE b = <<>>
    BY <1>1, <1>2, <2>1
  <2>2. CASE d = <<>>
    BY <1>1, <1>2, <2>2
  <2>3. QED BY <1>3, <2>1, <2>2
<1>7. QED BY <1>5, <1>6

LEMMA MainAgent ==
  ASSUME UATypeOK, Main \/ Poll
  PROVE  UATypeOK'
<1>1. CASE StartAgent \/ BeginFilter \/ EnableNext \/ AttachAccounts \/ AttachCalls
  <2>1. CASE AttachAccounts \/ AttachCalls
    <3>1. \E what \in SUBSET {"accounts", "calls", "handlers"} : Attach(what)
      BY <2>1 DEF AttachAccounts, AttachCalls
    <3>2. QED BY <3>1, AgentTypes
  <2>2. QED BY <1>1, <2>1, AgentTypes DEF StartAgent, BeginFilter, EnableNext
<1>2. CASE Detach \/ StopWorker \/ Shutdown
  BY <1>2, AgentTypes DEF Detach, StopWorker, Shutdown
<1>3. CASE UNCHANGED uaVars
  BY <1>3, AgentTypes
<1>4. UNCHANGED uaVars \/ StartAgent \/ BeginFilter \/ EnableNext \/ AttachAccounts
        \/ AttachCalls \/ Detach \/ StopWorker \/ Shutdown
  BY DEF Main, Prepare, Connect, Act, End, FindAccount, NoFilter, EndFilter, RegisterAccount,
         Dial, Dialling, CallConnects, CallFails, CallTimesOut, StopAwaiting, Check, Poll,
         CreateMedia, SkipMedia, ConnectMedia, ConnectMediaFails, StoreMedia, ActionsDone,
         StopTalking, HangupNothing, HangupCall, HangingUp, EndCalls, Wipe
<1>5. QED BY <1>1, <1>2, <1>3, <1>4

\* Which steps of the main thread touch the media.
LEMMA MainFiles ==
  ASSUME Main \/ Poll
  PROVE  \/ UNCHANGED files
         \/ \E kind \in Kinds : CreateMedia(kind)
         \/ ConnectMediaFails \/ StoreMedia \/ Wipe \/ Shutdown
BY DEF Main, Prepare, Connect, Act, End, FindAccount, StartAgent, NoFilter, BeginFilter,
       EnableNext, EndFilter, AttachAccounts, RegisterAccount, AttachCalls,
       Dial, Dialling, CallConnects, CallFails, CallTimesOut, StopAwaiting, Check, Poll,
       SkipMedia, ConnectMedia, ActionsDone,
       StopTalking, HangupNothing, HangupCall, HangingUp, Detach, EndCalls, StopWorker

LEMMA MediaStepTypes ==
  ASSUME MediaTypes,
         \/ UNCHANGED files
         \/ \E s \in Slots : StopMedia(s)
         \/ \E kind \in Kinds : CreateMedia(kind)
         \/ ConnectMediaFails /\ Head(todo) \in Kinds
         \/ StoreMedia /\ at \in Slots /\ Head(todo) \in Kinds
         \/ Wipe \/ Shutdown
  PROVE  MediaTypes'
<1> USE DEF MediaTypes
<1>1. CASE UNCHANGED files
  BY <1>1 DEF files
<1>2. CASE \E s \in Slots : StopMedia(s)
  <2>1. PICK s \in Slots : StopMedia(s) BY <1>2
  <2>2. objects' \in [Kinds -> Int] BY <2>1 DEF StopMedia, WithoutMediaOf
  <2>3. QED BY <2>1, <2>2 DEF StopMedia
<1>3. CASE \E kind \in Kinds : CreateMedia(kind)
  BY <1>3 DEF CreateMedia
<1>4. CASE ConnectMediaFails /\ Head(todo) \in Kinds
  BY <1>4 DEF ConnectMediaFails
<1>5. CASE StoreMedia /\ at \in Slots /\ Head(todo) \in Kinds
  BY <1>5 DEF StoreMedia
<1>6. CASE Wipe
  BY <1>6 DEF Wipe
<1>7. CASE Shutdown
  BY <1>7 DEF Shutdown, NoObjects
<1>8. QED BY <1>1, <1>2, <1>3, <1>4, <1>5, <1>6, <1>7

\* Where a step of the main thread leads.
LEMMA MainPlaces ==
  ASSUME FlowTypes, AtInv, Main \/ Poll
  PROVE  /\ pc' \in Places /\ at' \in Slots \cup {NoSlot} /\ todo' \in Seq(Items)
         /\ pc' \in {"connecting", "storing"} => todo' # <<>> /\ Head(todo') \in Kinds
         /\ AtInv'
<1> USE DEF FlowTypes, AtInv, Goto, Fail, Stay, Proceed, Connected
<1>1. CASE Prepare
  BY <1>1 DEF Prepare, Places, FindAccount, StartAgent, NoFilter, BeginFilter,
       EnableNext, EndFilter, AttachAccounts, RegisterAccount, AttachCalls
<1>2. CASE Dial
  <2>1. app'.slot \in Slots BY <1>2 DEF Dial, MakeClaim
  <2>2. QED BY <1>2, <2>1 DEF Dial, Places
<1>3. CASE Dialling \/ CallFails \/ CallTimesOut \/ StopAwaiting
  BY <1>3 DEF Dialling, CallFails, CallTimesOut, StopAwaiting, Places
<1>4. CASE Poll
  BY <1>4 DEF Poll, Places
<1>5. CASE CallConnects \/ Check
  <2>1. Wanted \in Seq(Items) BY WantedItems
  <2>2. QED BY <1>5, <2>1 DEF CallConnects, Check, Places, NoSlot
<1>6. CASE Act
  <2>1. CASE \E kind \in Kinds : CreateMedia(kind)
    BY <2>1 DEF CreateMedia, Do, Places
  <2>2. CASE SkipMedia \/ ConnectMediaFails \/ StoreMedia
    <3>1. todo # <<>> /\ pc' = "act" /\ todo' = Tail(todo) /\ UNCHANGED at
          /\ pc \in {"act", "connecting", "storing"}
      BY <2>2 DEF SkipMedia, ConnectMediaFails, StoreMedia
    <3>2. todo' \in Seq(Items) BY <3>1
    <3>3. QED BY <3>1, <3>2 DEF Places
  <2>3. CASE ConnectMedia \/ ActionsDone
    BY <2>3 DEF ConnectMedia, ActionsDone, Places
  <2>4. QED BY <1>6, <2>1, <2>2, <2>3 DEF Act
<1>7. CASE End
  BY <1>7 DEF End, StopTalking, HangupNothing, HangupCall, HangingUp, Detach, EndCalls, Wipe,
       StopWorker, Shutdown, Places
<1>8. QED BY <1>1, <1>2, <1>3, <1>4, <1>5, <1>6, <1>7 DEF Main, Connect

LEMMA MainTypes ==
  ASSUME FlowTypes, AtInv, Main \/ Poll
  PROVE  FlowTypes' /\ AtInv'
<1> USE DEF FlowTypes, AtInv, Goto, Fail, Stay, Proceed, Connected
<1>1. MediaTypes'
  BY MainFiles, MediaStepTypes DEF StoreMedia, ConnectMediaFails
<1>2. UATypeOK'
  BY MainAgent
<1>3. connected' \in BOOLEAN /\ stuck' \in BOOLEAN /\ running' \in BOOLEAN /\ opts' \in Options
      /\ result' \in {0, 1}
  BY DEF Main, Prepare, Connect, Act, End, FindAccount, StartAgent, NoFilter, BeginFilter,
       EnableNext, EndFilter, AttachAccounts, RegisterAccount, AttachCalls,
       Dial, Dialling, CallConnects, CallFails, CallTimesOut, StopAwaiting, Check, Poll,
       CreateMedia, SkipMedia, ConnectMedia, ConnectMediaFails, StoreMedia, ActionsDone,
       StopTalking, HangupNothing, HangupCall, HangingUp, Detach, EndCalls, Wipe, StopWorker,
       Shutdown
<1>4. QED BY <1>1, <1>2, <1>3, MainPlaces

----------------------------------------------------------------------------
\* PJSUA lives as long as the command is between vu_ua_init and the end, and
\* what hangs on it is gone when it is.

LifeInv ==
  /\ lib <=> pc \notin {"begin", "init", "done"}
  /\ ua.initialized <=> lib
  /\ ua.pool => pc \notin {"begin", "init", "destroy", "done"}
  /\ "handlers" \in links => lib
  /\ ~lib => /\ objects = NoObjects
             /\ \A c \in Ids : inv[c] = "FREE" /\ cb[c] = NoCallback

\* A step of PJSUA's threads needs PJSUA.
LEMMA LifeWorker ==
  ASSUME LifeInv, NEW c \in Ids, UNCHANGED <<uaVars, pc>>, lib \/ cb[c].at # "none"
  PROVE  LifeInv' /\ lib
<1>1. lib BY DEF LifeInv, NoCallback
<1>2. UNCHANGED <<ua, lib, links, pc>> BY DEF uaVars
<1>3. QED BY <1>1, <1>2 DEF LifeInv

\* Nor does the main thread change anything of it on the way.
LEMMA LifeStays ==
  ASSUME LifeInv, UNCHANGED <<ua, lib>>, links' \ links \subseteq {"accounts", "calls", "handlers"},
         {pc, pc'} \cap {"begin", "init", "destroy", "done"} = {}
  PROVE  LifeInv'
BY DEF LifeInv

\* vu_ua_init, and pjsua_destroy in its two halves.
LEMMA LifeStarts ==
  ASSUME LifeInv, UATypeOK, pc = "init", UNCHANGED <<inv, cb, objects>>,
         \/ InitUA /\ pc' \notin {"begin", "init", "destroy", "done"}
         \/ InitUAFails /\ pc' = "done"
  PROVE  LifeInv'
<1>1. CASE InitUA /\ pc' \notin {"begin", "init", "destroy", "done"}
  BY <1>1 DEF LifeInv, InitUA
<1>2. CASE InitUAFails /\ pc' = "done"
  <2>1. ua'.initialized = ua.initialized /\ ua'.pool = ua.pool /\ ~lib' /\ ~lib /\ UNCHANGED links
    BY <1>2 DEF LifeInv, InitUAFails, UATypeOK
  <2>2. QED BY <1>2, <2>1 DEF LifeInv
<1>3. QED BY <1>1, <1>2

LEMMA LifeEnds ==
  ASSUME LifeInv, UATypeOK, StopWorker \/ Shutdown
  PROVE  LifeInv'
<1> USE DEF Goto
<1>1. CASE StopWorker
  <2>1. /\ UNCHANGED <<lib, links, inv, cb, objects>> /\ pc = "shutdown" /\ pc' = "destroy"
        /\ ua'.initialized = ua.initialized /\ ~ua'.pool
    BY <1>1 DEF StopWorker, BeginShutdown, vars, files, UATypeOK
  <2>2. QED BY <2>1 DEF LifeInv
<1>2. CASE Shutdown
  <2>1. /\ ~lib' /\ pc' = "done" /\ objects' = NoObjects
        /\ \A c \in Ids : inv'[c] = "FREE" /\ cb'[c] = NoCallback
        /\ ~ua'.initialized /\ "handlers" \notin links'
    BY <1>2 DEF Shutdown, EndShutdown, UATypeOK
  <2>2. ~ua'.pool
    BY <1>2 DEF Shutdown, EndShutdown, UATypeOK, LifeInv
  <2>3. QED BY <2>1, <2>2 DEF LifeInv
<1>3. QED BY <1>1, <1>2

LEMMA LifeMain ==
  ASSUME LifeInv, FlowTypes, Main \/ Poll
  PROVE  LifeInv'
<1> USE DEF Goto, Fail, Connected, Proceed
<1>1. CASE FindAccount
  <2>1. UNCHANGED <<ua, lib, links, inv, cb, objects>> /\ pc = "begin" /\ pc' \in {"init", "done"}
    BY <1>1 DEF FindAccount, uaVars, vars, files
  <2>2. QED BY <2>1 DEF LifeInv
<1>2. CASE StartAgent
  BY <1>2, LifeStarts DEF StartAgent, FlowTypes, vars, files
<1>3. CASE NoFilter \/ BeginFilter \/ EnableNext \/ EndFilter \/ AttachAccounts
             \/ RegisterAccount \/ AttachCalls
  BY <1>3, LifeStays
     DEF NoFilter, BeginFilter, EnableNext, EndFilter, AttachAccounts, RegisterAccount, AttachCalls,
         DisableCodecs, EnableOrSkip, Enable, SkipCodec, Attach, uaVars
<1>4. CASE Connect \/ Poll \/ Act
  BY <1>4, LifeStays
     DEF Connect, Act, Dial, Dialling, CallConnects, CallFails, CallTimesOut, StopAwaiting, Check,
         Poll, CreateMedia, Do, SkipMedia, ConnectMedia, ConnectMediaFails, StoreMedia, ActionsDone,
         uaVars
<1>5. CASE StopTalking \/ HangupNothing \/ HangupCall \/ HangingUp \/ Detach \/ EndCalls \/ Wipe
  BY <1>5, LifeStays
     DEF StopTalking, HangupNothing, HangupCall, HangingUp, Detach, EndCalls, Wipe,
         DetachManagers, uaVars
<1>6. CASE StopWorker \/ Shutdown
  BY <1>6, LifeEnds DEF FlowTypes
<1>7. QED BY <1>1, <1>2, <1>3, <1>4, <1>5, <1>6 DEF Main, Prepare, End

----------------------------------------------------------------------------
\* What a command may still play or record on its call, so that no slot is given
\* a second player: vu_media_play_file does not look for the first.

BeforeOrAfter ==
  {"begin", "init", "filter", "enable", "attach", "register", "manager", "dial",
   "dialling", "connect", "await", "check", "shutdown", "destroy", "done"}

OnCall == {"act", "connecting", "storing"}

OnePlayer ==
  /\ \A i, j \in DOMAIN todo : todo[i] = "player" /\ todo[j] = "player" => i = j
  /\ \A i \in DOMAIN todo : todo[i] = "player" => \A s \in Slots : "player" \notin media[s]

TodoInv ==
  /\ pc \in BeforeOrAfter => \A s \in Slots : media[s] = {}
  /\ pc \in OnCall => OnePlayer
  /\ pc \in {"connecting", "storing"} /\ Head(todo) = "recorder" => "recorder" \notin media[at]

LEMMA TodoWorker ==
  ASSUME TodoInv, FlowTypes, AtInv, UNCHANGED <<pc, todo, at>>,
         UNCHANGED files \/ \E s \in Slots : StopMedia(s)
  PROVE  TodoInv'
<1>1. \A s \in Slots : media'[s] \subseteq media[s]
  BY DEF files, StopMedia, FlowTypes, MediaTypes
<1>2. pc \in {"connecting", "storing"} => at \in Slots
  BY DEF AtInv
<1>3. QED BY <1>1, <1>2 DEF TodoInv, OnePlayer

\* Off the call, media can only be wiped.
LEMMA TodoStays ==
  ASSUME TodoInv, pc' \notin OnCall,
         \/ UNCHANGED media /\ (pc' \in BeforeOrAfter => pc \in BeforeOrAfter)
         \/ \A s \in Slots : media'[s] = {}
  PROVE  TodoInv'
BY DEF TodoInv, OnCall

\* After an action there is one less to do.
LEMMA TodoProceeds ==
  ASSUME TodoInv, FlowTypes, pc \in OnCall, todo # <<>>, Proceed,
         \A s \in Slots : media'[s] \subseteq media[s] \cup {Head(todo)}
  PROVE  TodoInv'
<1>1. /\ pc' = "act" /\ todo \in Seq(Items)
      /\ DOMAIN todo' = 1 .. Len(todo) - 1 /\ DOMAIN todo = 1 .. Len(todo)
      /\ \A i \in DOMAIN todo' : todo'[i] = todo[i + 1] /\ i + 1 \in DOMAIN todo /\ i \in Nat
      /\ 1 \in DOMAIN todo /\ Head(todo) = todo[1]
  BY DEF Proceed, FlowTypes
<1>2. OnePlayer
  BY DEF TodoInv
<1>3. \A i, j \in DOMAIN todo' : todo'[i] = "player" /\ todo'[j] = "player" => i = j
  BY <1>1, <1>2 DEF OnePlayer
<1>4. ASSUME NEW i \in DOMAIN todo', todo'[i] = "player", NEW s \in Slots
      PROVE  "player" \notin media'[s]
  <2>1. todo[i + 1] = "player" /\ i + 1 \in DOMAIN todo /\ i + 1 # 1
    BY <1>1, <1>4
  <2>2. Head(todo) # "player" /\ "player" \notin media[s]
    BY <1>1, <1>2, <2>1 DEF OnePlayer
  <2>3. QED BY <2>2
<1>5. OnePlayer'
  BY <1>3, <1>4 DEF OnePlayer
<1>6. QED BY <1>1, <1>5 DEF TodoInv, BeforeOrAfter

LEMMA TodoMain ==
  ASSUME TodoInv, FlowTypes, AtInv, Main \/ Poll
  PROVE  TodoInv'
<1> USE DEF Goto, Fail
<1>1. CASE Prepare
  BY <1>1, TodoStays
     DEF Prepare, FindAccount, StartAgent, NoFilter, BeginFilter, EnableNext, EndFilter,
         AttachAccounts, RegisterAccount, AttachCalls, files, BeforeOrAfter, OnCall
<1>2. CASE Dial \/ Dialling \/ CallFails \/ CallTimesOut \/ StopAwaiting \/ Poll
  BY <1>2, TodoStays
     DEF Dial, Dialling, CallFails, CallTimesOut, StopAwaiting, Poll, files, BeforeOrAfter, OnCall
<1>3. CASE CallConnects \/ Check
  <2>1. UNCHANGED media /\ \A s \in Slots : media[s] = {}
    BY <1>3 DEF CallConnects, Check, files, TodoInv, BeforeOrAfter
  <2>2. CASE Connected
    <3>1. OnePlayer'
      BY <2>1, <2>2, WantedItems DEF Connected, OnePlayer
    <3>2. QED BY <2>1, <2>2, <3>1 DEF Connected, TodoInv, BeforeOrAfter
  <2>3. CASE pc' = "detach"
    BY <2>1, <2>3 DEF TodoInv, BeforeOrAfter, OnCall
  <2>4. QED BY <1>3, <2>2, <2>3 DEF CallConnects, Check
<1>4. CASE \E kind \in Kinds : CreateMedia(kind)
  <2>1. /\ pc = "act" /\ pc' = "connecting" /\ UNCHANGED <<todo, at, media>>
        /\ Head(todo) = "recorder" => "recorder" \notin media[at]
    BY <1>4 DEF CreateMedia, Do
  <2>2. QED BY <2>1 DEF TodoInv, OnePlayer, OnCall, BeforeOrAfter
<1>5. CASE ConnectMedia
  BY <1>5 DEF ConnectMedia, files, TodoInv, OnePlayer, OnCall, BeforeOrAfter
<1>6. CASE SkipMedia \/ ConnectMediaFails \/ StoreMedia
  <2>1. pc \in OnCall /\ todo # <<>> /\ Proceed
    BY <1>6 DEF SkipMedia, ConnectMediaFails, StoreMedia, OnCall, FlowTypes
  <2>2. \A s \in Slots : media'[s] \subseteq media[s] \cup {Head(todo)}
    BY <1>6 DEF SkipMedia, ConnectMediaFails, StoreMedia, files, FlowTypes, MediaTypes
  <2>3. QED BY <2>1, <2>2, TodoProceeds
<1>7. CASE ActionsDone \/ End
  BY <1>7, TodoStays
     DEF ActionsDone, End, StopTalking, HangupNothing, HangupCall, HangingUp, Detach, EndCalls,
         Wipe, StopWorker, Shutdown, files, BeforeOrAfter, OnCall
<1>8. QED BY <1>1, <1>2, <1>3, <1>4, <1>5, <1>6, <1>7 DEF Main, Connect, Act

----------------------------------------------------------------------------
\* No more recorders and players are named than exist; and as long as the table
\* is in use, no fewer.

ObjectsCover == \A kind \in Kinds : Spare(kind) >= 0

LEMMA SpareType ==
  ASSUME MediaTypes, NEW kind \in Kinds
  PROVE  Spare(kind) \in Int
<1>1. Cardinality(Held(media, kind)) \in Int /\ objects[kind] \in Int
  BY HeldFinite DEF MediaTypes
<1>2. Making(kind) \in Int BY DEF Making
<1>3. QED BY <1>1, <1>2 DEF Spare

\* MediaIsOwned says that nothing is spare.
LEMMA OwnedIsSpare ==
  ASSUME MediaTypes
  PROVE  MediaIsOwned <=>
           (pc \notin {"shutdown", "destroy", "done"} => \A kind \in Kinds : Spare(kind) = 0)
<1>1. \A kind \in Kinds : Cardinality(Held(media, kind)) \in Int /\ objects[kind] \in Int
                            /\ Making(kind) \in Int
  BY HeldFinite DEF MediaTypes, Making
<1>2. QED BY <1>1 DEF MediaIsOwned, Spare, Held

\* From ObjectsCover, PJSUA never has a negative number of them.
LEMMA CoverIsNat ==
  ASSUME MediaTypes, ObjectsCover
  PROVE  objects \in [Kinds -> Nat]
<1>1. \A kind \in Kinds : objects[kind] \in Nat
  <2>1. TAKE kind \in Kinds
  <2>2. Cardinality(Held(media, kind)) \in Nat /\ objects[kind] \in Int
    BY HeldFinite DEF MediaTypes
  <2>3. Making(kind) \in Nat BY DEF Making
  <2>4. Spare(kind) >= 0 BY DEF ObjectsCover
  <2>5. QED BY <2>2, <2>3, <2>4 DEF Spare
<1>2. QED BY <1>1 DEF MediaTypes

LEMMA SpareMain ==
  ASSUME TodoInv, FlowTypes, AtInv, Main \/ Poll, ~Wipe, ~Shutdown, NEW kind \in Kinds
  PROVE  Spare(kind)' = Spare(kind)
<1> USE DEF Goto, Fail, FlowTypes
<1>1. CASE \/ Prepare \/ Dial \/ Dialling \/ CallFails \/ CallTimesOut \/ StopAwaiting \/ Poll
           \/ CallConnects \/ Check \/ ActionsDone \/ SkipMedia
  <2>1. UNCHANGED files /\ {pc, pc'} \cap {"connecting", "storing"} = {}
    BY <1>1
       DEF Prepare, FindAccount, StartAgent, NoFilter, BeginFilter, EnableNext, EndFilter,
           AttachAccounts, RegisterAccount, AttachCalls, Dial, Dialling, CallFails, CallTimesOut,
           StopAwaiting, Poll, CallConnects, Check, Connected, ActionsDone, SkipMedia, Proceed
  <2>2. QED BY <2>1, SpareStays
<1>2. CASE StopTalking \/ HangupNothing \/ HangupCall \/ HangingUp \/ Detach \/ EndCalls \/ StopWorker
  <2>1. UNCHANGED files /\ {pc, pc'} \cap {"connecting", "storing"} = {}
    BY <1>2 DEF StopTalking, HangupNothing, HangupCall, HangingUp, Detach, EndCalls, StopWorker
  <2>2. QED BY <2>1, SpareStays
<1>3. CASE (\E k \in Kinds : CreateMedia(k)) \/ ConnectMedia \/ ConnectMediaFails \/ StoreMedia
  <2>1. ~(StoreMedia /\ Head(todo) \in media[at])
    <3>1. SUFFICES ASSUME StoreMedia, Head(todo) \in media[at] PROVE FALSE
      OBVIOUS
    <3>2. pc = "storing" /\ at \in Slots /\ todo \in Seq(Items) /\ todo # <<>>
      BY <3>1 DEF StoreMedia, AtInv
    <3>3. 1 \in DOMAIN todo /\ Head(todo) = todo[1]
      BY <3>2
    <3>4. Head(todo) # "recorder" /\ Head(todo) \in Kinds
      BY <3>1, <3>2 DEF TodoInv
    <3>5. Head(todo) = "player" /\ OnePlayer
      BY <3>2, <3>4 DEF TodoInv, Kinds, OnCall
    <3>6. QED BY <3>1, <3>2, <3>3, <3>5 DEF OnePlayer
  <2>2. Spare(kind) \in Int BY SpareType
  <2>3. CASE StoreMedia
    <3>1. Head(todo) \in Kinds /\ at \in Slots BY <2>3 DEF StoreMedia, AtInv
    <3>2. QED BY <2>1, <2>2, <2>3, <3>1, SpareMade
  <2>4. CASE ~StoreMedia
    <3>1. PICK k \in Kinds : CreateMedia(k) \/ ConnectMedia \/ (ConnectMediaFails /\ k = Head(todo))
      BY <1>3, <2>4 DEF ConnectMediaFails, Kinds
    <3>2. QED BY <2>2, <2>4, <3>1, SpareMade
  <2>5. QED BY <2>3, <2>4
<1>4. QED BY <1>1, <1>2, <1>3 DEF Main, Connect, Act, End

\* Wiping the table forgets objects, destroying PJSUA destroys them: in both
\* nothing is named afterwards that does not exist.
LEMMA SpareEnds ==
  ASSUME MediaTypes, ObjectsCover, pc = "destroy" => \A s \in Slots : media[s] = {},
         Wipe \/ Shutdown, NEW kind \in Kinds
  PROVE  Spare(kind)' >= 0
<1> DEFINE h == Cardinality(Held(media, kind))
<1>1. h \in Nat /\ objects[kind] \in Int
  BY HeldFinite DEF MediaTypes
<1>2. Making(kind) = 0 /\ Making(kind)' = 0
  BY DEF Wipe, Shutdown, Goto, Making
<1>3. \A s \in Slots : media'[s] = {}
  BY DEF Wipe, Shutdown
<1>4. Cardinality(Held(media', kind)) = 0
  BY <1>3, HeldNone
<1>5. objects[kind] >= h
  BY <1>1, <1>2 DEF ObjectsCover, Spare
<1>6. objects'[kind] \in Int /\ objects'[kind] >= 0
  BY <1>1, <1>5 DEF Wipe, Shutdown, NoObjects
<1>7. QED BY <1>2, <1>4, <1>6 DEF Spare

----------------------------------------------------------------------------
\* Where a CONFIRMED stands, a session was connected; and the main thread gets to
\* act on a call, and to an exit status of 0, only past one.

ConfirmedSeen ==
  /\ \A c \in Ids : inv[c] = "CONFIRMED" => connected
  /\ \A s \in Slots : call[s].state = "CONFIRMED" => connected

Ending == {"detach", "ending", "wipe", "shutdown", "destroy", "done"}

\* What makes an exit status of 0 true.
Earned == connected \/ (command # "call" /\ ~opts.timed)

SuccessInv ==
  /\ ConfirmedSeen
  /\ pc \in {"act", "connecting", "storing", "talk", "hangup", "hanging"} => connected
  /\ pc \in {"await", "check"} => command # "call"
  /\ pc \in Ending /\ result = 0 => Earned

LEMMA ConfirmedStays ==
  ASSUME ConfirmedSeen, connected => connected',
         \A c \in Ids : inv'[c] = "CONFIRMED" => inv[c] = "CONFIRMED" \/ connected',
         \A s \in Slots : call'[s].state = "CONFIRMED" => call[s].state = "CONFIRMED" \/ connected'
  PROVE  ConfirmedSeen'
BY DEF ConfirmedSeen

\* An on_incoming_call confirms nothing.
LEMMA ConfirmedReturns ==
  ASSUME TableInv, ConfirmedSeen, NEW c \in Ids, UNCHANGED connected,
         \/ TrackIncoming(c) \/ RejectIncoming(c)
         \/ CallbackReturns(c) /\ UNCHANGED <<command, call>>
  PROVE  ConfirmedSeen' /\ UNCHANGED command
<1> USE DEF TableInv, TypeOK
<1>1. CASE CallbackReturns(c) /\ UNCHANGED <<command, call>>
  <2>1. \A d \in Ids : inv'[d] = "CONFIRMED" => inv[d] = "CONFIRMED"
    BY <1>1, CallbackReturnsTypes
  <2>2. QED BY <1>1, <2>1, ConfirmedStays
<1>2. CASE TrackIncoming(c)
  <2>1. UNCHANGED <<inv, command>> BY <1>2 DEF TrackIncoming
  <2>2. \A s \in Slots : call'[s].state = "CONFIRMED" => call[s].state = "CONFIRMED"
    BY <1>2 DEF TrackIncoming
  <2>3. QED BY <2>1, <2>2, ConfirmedStays
<1>3. CASE RejectIncoming(c)
  <2>1. inv' = [inv EXCEPT ![c] = "DISCONNECTED"] /\ UNCHANGED <<call, command>>
    BY <1>3 DEF RejectIncoming
  <2>2. QED BY <2>1, ConfirmedStays
<1>4. QED BY <1>1, <1>2, <1>3

LEMMA ConfirmedWorker ==
  ASSUME TableInv, ConfirmedSeen, NEW c \in Ids, Incoming(c) \/ StateReported(c) \/ Returning(c)
  PROVE  ConfirmedSeen' /\ (connected => connected') /\ UNCHANGED command
<1> USE DEF TableInv, TypeOK
<1>1. CASE Incoming(c)
  <2>1. inv' = [inv EXCEPT ![c] = "INCOMING"] /\ UNCHANGED <<call, connected, command>>
    BY <1>1 DEF Incoming, Arrive
  <2>2. QED BY <2>1, ConfirmedStays
<1>2. CASE StateReported(c)
  <2>1. PICK st : inv' = [inv EXCEPT ![c] = st] /\ UNCHANGED <<call, command>>
    BY <1>2 DEF StateReported, OnCallState, OnCallStateUnattached
  <2>2. connected' = (connected \/ inv'[c] = "CONFIRMED")
    BY <1>2 DEF StateReported
  <2>3. QED BY <2>1, <2>2, ConfirmedStays
<1>3. CASE StateWritten(c)
  <2>1. ApplyState(c) /\ UNCHANGED connected BY <1>3 DEF StateWritten
  <2>2. /\ cb[c].slot \in Slots /\ inv[c] \in InvState \ {"FREE"}
        /\ call' = [call EXCEPT ![cb[c].slot] = StateChanged(call[cb[c].slot], inv[c])]
        /\ CallbackReturns(c) /\ UNCHANGED command
    BY <2>1 DEF ApplyState, Callback, CallbackOfSession
  <2>3. StateChanged(call[cb[c].slot], inv[c]).state = inv[c]
    BY <2>2, StateChangedEntry
  <2>4. \A s \in Slots : call'[s].state = "CONFIRMED" => call[s].state = "CONFIRMED" \/ inv[c] = "CONFIRMED"
    BY <2>2, <2>3
  <2>5. \A d \in Ids : inv'[d] = "CONFIRMED" => inv[d] = "CONFIRMED"
    BY <2>2, CallbackReturnsTypes
  <2>6. inv[c] = "CONFIRMED" => connected'
    BY <2>1 DEF ConfirmedSeen
  <2>7. QED BY <2>1, <2>2, <2>4, <2>5, <2>6, ConfirmedStays
<1>4. CASE StateIgnored(c) \/ IncomingUnhandled(c) \/ IncomingHandled(c)
  BY <1>4, ConfirmedReturns DEF StateIgnored, IgnoreState, IncomingUnhandled, IncomingHandled
<1>5. CASE IncomingAnswered(c)
  BY <1>5, ConfirmedStays DEF IncomingAnswered, AnswerIncoming
<1>6. QED BY <1>1, <1>2, <1>3, <1>4, <1>5 DEF Returning

\* What the main thread does to the table, and the end.
LEMMA ConfirmedMain ==
  ASSUME TableInv, ConfirmedSeen, UNCHANGED connected,
         UNCHANGED vars \/ Make \/ Hangup \/ HangupAll \/ Wipe \/ Shutdown
  PROVE  ConfirmedSeen' /\ UNCHANGED command
<1> USE DEF TableInv, TypeOK
<1>1. CASE UNCHANGED vars
  BY <1>1, ConfirmedStays DEF vars
<1>2. CASE Make
  <2>1. UNCHANGED command BY <1>2 DEF Make, MakeClaim, MakeDialled, MakeFailed, MakeDone
  <2>2. \A s \in Slots : call'[s].state = "CONFIRMED" => call[s].state = "CONFIRMED"
    BY <1>2 DEF Make, MakeClaim, MakeDialled, MakeFailed, MakeDone
  <2>3. \A c \in Ids : inv'[c] = "CONFIRMED" => inv[c] = "CONFIRMED"
    BY <1>2 DEF Make, MakeClaim, MakeDialled, MakeFailed, MakeDone
  <2>4. QED BY <2>1, <2>2, <2>3, ConfirmedStays
<1>3. CASE Hangup \/ HangupAll
  <2>1. UNCHANGED <<command, inv>>
    BY <1>3 DEF Hangup, HangupMark, HangupAsk, HangupDone, HangupAll, HangupAllAsk, HangupAllMark
  <2>2. \A s \in Slots : call'[s].state = "CONFIRMED" => call[s].state = "CONFIRMED"
    BY <1>3 DEF Hangup, HangupMark, HangupAsk, HangupDone, HangupAll, HangupAllAsk, HangupAllMark
  <2>3. QED BY <2>1, <2>2, ConfirmedStays
<1>4. CASE Wipe \/ Shutdown
  BY <1>4, ConfirmedStays DEF Wipe, Shutdown
<1>5. QED BY <1>1, <1>2, <1>3, <1>4

LEMMA SuccessWorker ==
  ASSUME SuccessInv, TableInv, UNCHANGED flow, NEW c \in Ids,
         Incoming(c) \/ StateReported(c) \/ Returning(c)
  PROVE  SuccessInv'
<1>1. ConfirmedSeen' /\ (connected => connected') /\ UNCHANGED command
  BY ConfirmedWorker DEF SuccessInv
<1>2. Earned => Earned'
  BY <1>1 DEF Earned, flow
<1>3. UNCHANGED <<pc, result>>
  BY DEF flow
<1>4. QED BY <1>1, <1>2, <1>3 DEF SuccessInv

LEMMA SuccessMain ==
  ASSUME SuccessInv, TableInv, AtInv, FlowTypes, Main \/ Poll
  PROVE  SuccessInv'
<1> USE DEF Goto, Ending
<1>0. \A place : Fail(place) => pc' = place /\ result' # 0
  BY DEF Fail
<1>1. ConfirmedSeen' /\ UNCHANGED <<command, connected>>
  BY MainVars, ConfirmedMain DEF SuccessInv
<1>2. UNCHANGED opts
  BY MainOptions
<1>3. Earned' = Earned /\ (connected => Earned)
  BY <1>1, <1>2 DEF Earned
<1>4. CASE Prepare
  BY <1>0, <1>1, <1>3, <1>4
     DEF SuccessInv, Prepare, FindAccount, StartAgent, NoFilter, BeginFilter, EnableNext, EndFilter,
         AttachAccounts, RegisterAccount, AttachCalls
<1>5. CASE Dial \/ Dialling \/ CallFails \/ CallTimesOut
  BY <1>0, <1>1, <1>3, <1>5 DEF SuccessInv, Dial, Dialling, CallFails, CallTimesOut
<1>6. CASE CallConnects
  <2>1. connected BY <1>6 DEF CallConnects, AtInv, SuccessInv, ConfirmedSeen
  <2>2. QED BY <1>1, <1>3, <1>6, <2>1 DEF SuccessInv, CallConnects, Connected
<1>7. CASE StopAwaiting \/ Poll
  BY <1>1, <1>3, <1>7 DEF SuccessInv, StopAwaiting, Poll
<1>8. CASE Check
  <2>1. CASE Connected /\ at # NoSlot /\ call[at].state = "CONFIRMED"
    <3>1. connected BY <2>1 DEF FlowTypes, SuccessInv, ConfirmedSeen
    <3>2. QED BY <1>1, <1>3, <2>1, <3>1 DEF SuccessInv, Connected
  <2>2. CASE opts.timed /\ Fail("detach")
    <3>1. pc' = "detach" BY <2>2 DEF Fail
    <3>2. result' # 0 BY <2>2 DEF Fail
    <3>3. QED BY <1>1, <1>3, <3>1, <3>2 DEF SuccessInv
  <2>3. CASE ~opts.timed /\ Goto("detach")
    BY <1>1, <1>3, <1>8, <2>3 DEF SuccessInv, Check, Earned
  <2>4. QED BY <1>8, <2>1, <2>2, <2>3 DEF Check
<1>9. CASE Act
  BY <1>1, <1>3, <1>9
     DEF SuccessInv, Act, CreateMedia, Do, SkipMedia, ConnectMedia, ConnectMediaFails, StoreMedia,
         ActionsDone, Proceed
<1>10. CASE End
  BY <1>1, <1>3, <1>10
     DEF SuccessInv, End, StopTalking, HangupNothing, HangupCall, HangingUp, Detach, EndCalls, Wipe,
         StopWorker, Shutdown
<1>11. QED BY <1>4, <1>5, <1>6, <1>7, <1>8, <1>9, <1>10 DEF Main, Connect

----------------------------------------------------------------------------
\* The codec filter.  As long as no more codecs were tried than there are
\* priorities, each one enabled gets the next priority down, so that all those
\* enabled before lie above it; after that, at least not below it.

Room == HighestPriority - NormalPriority

LastTried(c, i) ==
  /\ i \in 1 .. filter.tried /\ Listed[i] = c
  /\ \A j \in 1 .. filter.tried : Listed[j] = c => j <= i

FilterInv ==
  /\ filter.tried <= Len(Listed)
  /\ filter.next \in NormalPriority .. HighestPriority
  /\ filter.enabled <= filter.tried
  /\ filter.tried <= Room => filter.next = HighestPriority - filter.enabled
  /\ \A c \in Codecs : codec[c] > 0 => \E i \in 1 .. filter.tried : LastTried(c, i)
  /\ \A i \in 1 .. filter.tried : Listed[i] \in Codecs =>
       /\ codec[Listed[i]] >= filter.next
       /\ filter.tried <= Room => codec[Listed[i]] > filter.next
  /\ \A c, d \in Codecs : \A i, j \in 1 .. filter.tried :
       LastTried(c, i) /\ LastTried(d, j) /\ i < j =>
         /\ codec[c] >= codec[d]
         /\ filter.tried <= Room + 1 => codec[c] > codec[d]

CodecTypes == UATypeOK /\ opts \in Options

\* What the buffer takes of the list is a list of names.
LEMMA ListedTypes == opts \in Options => Listed \in Seq(STRING)
BY CodecListsAssumption DEF Listed

LEMMA ListedStays == UNCHANGED opts => UNCHANGED Listed
BY DEF Listed

LEMMA FilterBegins ==
  ASSUME CodecTypes, DisableCodecs, UNCHANGED Listed
  PROVE  FilterInv'
<1>1. /\ filter' = [tried |-> 0, next |-> HighestPriority, enabled |-> 0]
      /\ \A c \in Codecs : codec'[c] = 0
  BY DEF DisableCodecs, NothingTried
<1>2. Listed \in Seq(STRING)
  BY ListedTypes DEF CodecTypes
<1>3. QED BY <1>1, <1>2, PriorityAssumption DEF FilterInv, Room

LEMMA FilterStays ==
  ASSUME FilterInv, UNCHANGED <<codec, filter, Listed>>
  PROVE  FilterInv'
BY DEF FilterInv, LastTried

LEMMA FilterSkips ==
  ASSUME CodecTypes, FilterInv, filter.tried < Len(Listed), UNCHANGED Listed,
         SkipCodec, Listed[filter.tried + 1] \notin Codecs
  PROVE  FilterInv'
<1> DEFINE n == filter.tried
<1>1. /\ n \in Nat /\ filter'.tried = n + 1 /\ UNCHANGED <<codec, Listed>>
      /\ filter'.next = filter.next /\ filter'.enabled = filter.enabled
      /\ filter.next \in Int /\ filter.enabled \in Nat
      /\ Listed \in Seq(STRING) /\ codec \in [Codecs -> Nat] /\ Room \in Nat
  BY ListedTypes, PriorityAssumption DEF CodecTypes, UATypeOK, Priority, SkipCodec, Room
<1>2. \A i \in 1 .. n + 1 : Listed[i] \in Codecs => i \in 1 .. n
  BY <1>1
<1>3. \A c \in Codecs : \A i : LastTried(c, i)' <=> LastTried(c, i)
  BY <1>1, <1>2 DEF LastTried
<1>4. \A c, d \in Codecs : \A i, j \in 1 .. n + 1 :
        LastTried(c, i)' /\ LastTried(d, j)' /\ i < j =>
          /\ codec[c] >= codec[d]
          /\ n <= Room + 1 => codec[c] > codec[d]
  BY <1>1, <1>3 DEF FilterInv, LastTried
<1>5. \A c \in Codecs : codec[c] > 0 => \E i \in 1 .. n + 1 : LastTried(c, i)'
  <2>1. TAKE c \in Codecs
  <2>2. HAVE codec[c] > 0
  <2>3. PICK i \in 1 .. n : LastTried(c, i) BY <2>2 DEF FilterInv
  <2>4. i \in 1 .. n + 1 /\ LastTried(c, i)' BY <1>1, <1>3, <2>3
  <2>5. QED BY <2>4
<1>6. QED BY <1>1, <1>2, <1>4, <1>5 DEF FilterInv

LEMMA FilterEnables ==
  ASSUME CodecTypes, FilterInv, filter.tried < Len(Listed), UNCHANGED Listed,
         NEW name \in Codecs, name = Listed[filter.tried + 1], Enable(name)
  PROVE  FilterInv'
<1> DEFINE n == filter.tried
           p == filter.next
           N == NormalPriority
<1>1. /\ n \in Nat /\ p \in N .. HighestPriority /\ filter.enabled \in Nat
      /\ N \in Nat /\ 0 < N /\ HighestPriority \in Nat /\ Room \in Nat /\ Room = HighestPriority - N
      /\ Listed \in Seq(STRING) /\ codec \in [Codecs -> Nat]
  BY ListedTypes, PriorityAssumption
     DEF CodecTypes, UATypeOK, Priority, Room, FilterInv
<1>2. /\ filter'.tried = n + 1 /\ filter'.enabled = filter.enabled + 1
      /\ filter'.next = (IF p > N THEN p - 1 ELSE p)
      /\ codec'[name] = p /\ \A c \in Codecs : c # name => codec'[c] = codec[c]
      /\ UNCHANGED Listed
  BY <1>1 DEF Enable, NextPriority
<1>3. \A i \in 1 .. n + 1 : Listed[i] # name => i \in 1 .. n
  BY <1>1
<1>4. \A i : LastTried(name, i)' <=> i = n + 1
  <2>1. n + 1 \in 1 .. n + 1 /\ Listed[n + 1] = name /\ \A j \in 1 .. n + 1 : j <= n + 1
    BY <1>1
  <2>2. ASSUME NEW i, i = n + 1 PROVE LastTried(name, i)'
    BY <1>2, <2>1, <2>2 DEF LastTried
  <2>3. ASSUME NEW i, LastTried(name, i)' PROVE i = n + 1
    <3>1. i \in 1 .. n + 1 /\ n + 1 <= i
      BY <1>2, <2>1, <2>3 DEF LastTried
    <3>2. QED BY <1>1, <3>1
  <2>4. QED BY <2>2, <2>3
<1>5. \A c \in Codecs : c # name => \A i : LastTried(c, i)' <=> LastTried(c, i)
  BY <1>1, <1>2, <1>3 DEF LastTried
<1>6. n + 1 <= Room => p > N /\ p = HighestPriority - filter.enabled
  BY <1>1 DEF FilterInv
<1>7. \A c \in Codecs : codec'[c] > 0 => \E i \in 1 .. n + 1 : LastTried(c, i)'
  <2>1. TAKE c \in Codecs
  <2>2. CASE c = name
    BY <1>1, <1>4, <2>2
  <2>3. CASE c # name
    BY <1>1, <1>2, <1>5, <2>3 DEF FilterInv
  <2>4. QED BY <2>2, <2>3
<1>8. \A i \in 1 .. n + 1 : Listed[i] \in Codecs =>
        /\ codec'[Listed[i]] >= filter'.next
        /\ n + 1 <= Room => codec'[Listed[i]] > filter'.next
  <2>1. SUFFICES ASSUME NEW i \in 1 .. n + 1, Listed[i] \in Codecs
                 PROVE  /\ codec'[Listed[i]] >= filter'.next
                        /\ n + 1 <= Room => codec'[Listed[i]] > filter'.next
    OBVIOUS
  <2>2. CASE Listed[i] = name
    BY <1>1, <1>2, <1>6, <2>2
  <2>3. CASE Listed[i] # name
    <3>1. codec[Listed[i]] >= p BY <1>3, <2>1, <2>3 DEF FilterInv
    <3>2. codec'[Listed[i]] = codec[Listed[i]] /\ codec[Listed[i]] \in Nat
      BY <1>1, <1>2, <2>1, <2>3
    <3>3. QED BY <1>1, <1>2, <1>6, <3>1, <3>2
  <2>4. QED BY <2>2, <2>3
<1>9. \A c, d \in Codecs : \A i, j \in 1 .. n + 1 :
        LastTried(c, i)' /\ LastTried(d, j)' /\ i < j =>
          /\ codec'[c] >= codec'[d]
          /\ n + 1 <= Room + 1 => codec'[c] > codec'[d]
  <2>1. SUFFICES ASSUME NEW c \in Codecs, NEW d \in Codecs, NEW i \in 1 .. n + 1, NEW j \in 1 .. n + 1,
                        LastTried(c, i)', LastTried(d, j)', i < j
                 PROVE  /\ codec'[c] >= codec'[d]
                        /\ n + 1 <= Room + 1 => codec'[c] > codec'[d]
    OBVIOUS
  <2>2. c # name
    BY <1>1, <1>4, <2>1
  <2>3. LastTried(c, i)
    BY <1>5, <2>1, <2>2
  <2>4. i \in 1 .. n /\ Listed[i] = c /\ codec'[c] = codec[c] /\ codec[c] \in Nat
    BY <1>1, <1>2, <2>2, <2>3 DEF LastTried
  <2>5. CASE d = name
    BY <1>1, <1>2, <2>4, <2>5 DEF FilterInv
  <2>6. CASE d # name
    <3>1. LastTried(d, j) /\ j \in 1 .. n /\ codec'[d] = codec[d]
      BY <1>2, <1>5, <2>1, <2>6 DEF LastTried
    <3>2. QED BY <1>1, <2>1, <2>3, <2>4, <3>1 DEF FilterInv
  <2>7. QED BY <2>5, <2>6
<1>10. QED BY <1>1, <1>2, <1>6, <1>7, <1>8, <1>9 DEF FilterInv

\* The filter is through, and in force, before there is an account.
CodecInv ==
  /\ "accounts" \in links => pc \notin {"begin", "init", "filter", "enable", "attach"}
  /\ opts.codecs # <<>> /\ ("accounts" \in links \/ pc = "attach")
       => filter.tried = Len(Listed)
  /\ opts.codecs # <<>> /\ ("accounts" \in links \/ pc \in {"enable", "attach"}) => FilterInv

LEMMA CodecStays ==
  ASSUME CodecInv, UNCHANGED <<codec, filter, opts>>, links' \subseteq links \cup {"calls", "handlers"},
         pc' \notin {"enable", "attach"},
         pc \in {"begin", "init"} \/ pc' \notin {"begin", "init", "filter"}
  PROVE  CodecInv'
<1>1. FilterInv => FilterInv'
  BY FilterStays, ListedStays
<1>2. UNCHANGED Listed
  BY ListedStays
<1>3. QED BY <1>1, <1>2 DEF CodecInv

LEMMA CodecMain ==
  ASSUME CodecInv, FlowTypes, Main \/ Poll
  PROVE  CodecInv'
<1> USE DEF Goto, Fail
<1>0. UNCHANGED opts /\ UNCHANGED Listed /\ CodecTypes
  BY MainOptions, ListedStays DEF FlowTypes, CodecTypes
<1>1. CASE FindAccount \/ StartAgent
  <2>1. UNCHANGED <<codec, filter, links>>
    BY <1>1 DEF FindAccount, StartAgent, InitUA, InitUAFails, uaVars
  <2>2. pc \in {"begin", "init"} /\ pc' \in {"init", "filter", "done"}
    BY <1>1 DEF FindAccount, StartAgent
  <2>3. QED BY <1>0, <2>1, <2>2, CodecStays
<1>2. CASE NoFilter
  <2>1. opts'.codecs = <<>> /\ UNCHANGED links /\ "accounts" \notin links
    BY <1>0, <1>2 DEF NoFilter, CodecInv, uaVars
  <2>2. QED BY <2>1 DEF CodecInv
<1>3. CASE BeginFilter
  <2>1. UNCHANGED links /\ "accounts" \notin links
    BY <1>3 DEF BeginFilter, CodecInv, uaVars, DisableCodecs
  <2>2. CASE DisableCodecs /\ pc' = "enable"
    BY <1>0, <2>1, <2>2, FilterBegins DEF CodecInv
  <2>3. CASE pc' = "shutdown"
    BY <2>1, <2>3 DEF CodecInv
  <2>4. QED BY <1>3, <2>2, <2>3 DEF BeginFilter
<1>4. CASE EnableNext
  <2>1. /\ pc = "enable" /\ pc' = "enable" /\ UNCHANGED links /\ "accounts" \notin links
        /\ filter.tried < Len(Listed) /\ EnableOrSkip(Listed[filter.tried + 1])
    BY <1>4 DEF EnableNext, CodecInv, EnableOrSkip, Enable, SkipCodec
  <2>2. opts.codecs # <<>>
    <3>1. filter.tried \in Nat /\ Listed \in Seq(STRING) /\ opts.codecs \in Seq(STRING)
      BY <1>0, ListedTypes, CodecListsAssumption DEF CodecTypes, UATypeOK
    <3>2. Len(Listed) > 0 BY <2>1, <3>1
    <3>3. DOMAIN Listed = DOMAIN opts.codecs BY DEF Listed, Copied
    <3>4. QED BY <3>1, <3>2, <3>3
  <2>3. FilterInv BY <2>1, <2>2 DEF CodecInv
  <2>4. FilterInv' BY <1>0, <2>1, <2>3, FilterSkips, FilterEnables DEF EnableOrSkip
  <2>5. QED BY <2>1, <2>4 DEF CodecInv
<1>5. CASE EndFilter
  <2>1. /\ pc = "enable" /\ pc' \in {"attach", "shutdown"} /\ "accounts" \notin links
        /\ UNCHANGED <<codec, filter, links>>
        /\ filter.tried >= Len(Listed)
    BY <1>5 DEF EndFilter, CodecInv, uaVars
  <2>2. opts.codecs # <<>> => filter.tried = Len(Listed)
    <3>1. filter.tried \in Nat /\ Len(Listed) \in Nat
      BY <1>0, ListedTypes DEF CodecTypes, UATypeOK
    <3>2. opts.codecs # <<>> => FilterInv BY <2>1 DEF CodecInv
    <3>3. QED BY <2>1, <3>1, <3>2 DEF FilterInv
  <2>3. FilterInv => FilterInv' BY <1>0, <2>1, FilterStays
  <2>4. QED BY <1>0, <2>1, <2>2, <2>3 DEF CodecInv
<1>6. CASE AttachAccounts
  <2>1. pc = "attach" /\ pc' = "register" /\ UNCHANGED <<codec, filter>>
    BY <1>6 DEF AttachAccounts, Attach
  <2>2. FilterInv => FilterInv' BY <1>0, <2>1, FilterStays
  <2>3. QED BY <1>0, <2>1, <2>2 DEF CodecInv
<1>7. CASE \/ RegisterAccount \/ AttachCalls \/ Connect \/ Poll \/ Act \/ End
  <2>1. UNCHANGED <<codec, filter>> /\ links' \subseteq links \cup {"calls", "handlers"}
    BY <1>7
       DEF RegisterAccount, AttachCalls, Attach, Connect, Dial, Dialling, CallFails, CallTimesOut,
           StopAwaiting, Poll, CallConnects, Check, Act, CreateMedia, SkipMedia, ConnectMedia,
           ConnectMediaFails, StoreMedia, ActionsDone, End, StopTalking, HangupNothing, HangupCall,
           HangingUp, Detach, DetachManagers, EndCalls, Wipe, StopWorker, BeginShutdown, Shutdown,
           EndShutdown, uaVars
  <2>2. pc' \notin {"begin", "init", "filter", "enable", "attach"}
    BY <1>7
       DEF RegisterAccount, AttachCalls, Connect, Dial, Dialling, CallFails, CallTimesOut,
           StopAwaiting, Poll, CallConnects, Check, Connected, Act, CreateMedia, SkipMedia,
           ConnectMedia, ConnectMediaFails, StoreMedia, Proceed, ActionsDone, End, StopTalking,
           HangupNothing, HangupCall, HangingUp, Detach, EndCalls, Wipe, StopWorker, Shutdown
  <2>3. QED BY <1>0, <2>1, <2>2, CodecStays
<1>8. QED BY <1>1, <1>2, <1>3, <1>4, <1>5, <1>6, <1>7 DEF Main, Prepare

\* The position of a codec in the list is where it was tried last.
LEMMA PositionIsLast ==
  ASSUME CodecTypes, filter.tried = Len(Listed), NEW c, NEW i, LastTried(c, i)
  PROVE  Position(Listed, c) = i
<1> DEFINE L == Listed
           P(k) == L[k] = c /\ \A j \in DOMAIN L : L[j] = c => j <= k
<1>1. DOMAIN L = 1 .. filter.tried
  BY ListedTypes DEF CodecTypes
<1>2. i \in DOMAIN L /\ P(i)
  BY <1>1 DEF LastTried
<1>3. Position(L, c) = CHOOSE k \in DOMAIN L : P(k)
  BY DEF Position
<1>4. \A k \in DOMAIN L : P(k) => k = i
  <2>1. TAKE k \in DOMAIN L
  <2>2. HAVE P(k)
  <2>3. k <= i /\ i <= k /\ k \in Int /\ i \in Int
    BY <1>1, <1>2, <2>2
  <2>4. QED BY <2>3
<1> HIDE DEF P
<1>5. QED BY <1>2, <1>3, <1>4

LEMMA CodecsFollow ==
  ASSUME CodecTypes, CodecInv
  PROVE  CodecsAsListed
<1> SUFFICES ASSUME opts.codecs # <<>>, "accounts" \in links PROVE
      LET listed == {c \in Codecs : \E i \in DOMAIN Listed : Listed[i] = c}
      IN  /\ \A c \in Codecs : codec[c] > 0 <=> c \in listed
          /\ \A c, d \in listed :
               Position(Listed, c) < Position(Listed, d) =>
                 /\ codec[c] >= codec[d]
                 /\ Len(Listed) <= HighestPriority - NormalPriority + 1 =>
                      codec[c] > codec[d]
  BY DEF CodecsAsListed
<1> DEFINE listed == {c \in Codecs : \E i \in DOMAIN Listed : Listed[i] = c}
<1>1. filter.tried = Len(Listed) /\ FilterInv
  BY DEF CodecInv
<1>2. DOMAIN Listed = 1 .. filter.tried
  BY <1>1, ListedTypes DEF CodecTypes
<1>3. /\ codec \in [Codecs -> Nat] /\ filter.next \in Nat /\ filter.next > 0
      /\ filter.tried \in Nat
  BY <1>1, PriorityAssumption DEF CodecTypes, UATypeOK, Priority, FilterInv
<1>4. \A c \in Codecs : codec[c] > 0 => c \in listed
  BY <1>1, <1>2 DEF FilterInv, LastTried
<1>5. \A c \in listed : codec[c] > 0
  <2>1. TAKE c \in listed
  <2>2. PICK i \in 1 .. filter.tried : Listed[i] = c BY <1>2
  <2>3. codec[c] >= filter.next BY <1>1, <2>2 DEF FilterInv
  <2>4. QED BY <1>3, <2>3
<1>6. \A c \in listed : \E i \in 1 .. filter.tried : LastTried(c, i)
  BY <1>1, <1>5 DEF FilterInv
<1>7. ASSUME NEW c \in listed, NEW d \in listed, Position(Listed, c) < Position(Listed, d)
      PROVE  /\ codec[c] >= codec[d]
             /\ Len(Listed) <= HighestPriority - NormalPriority + 1 => codec[c] > codec[d]
  <2>1. PICK i \in 1 .. filter.tried : LastTried(c, i) BY <1>6
  <2>2. PICK j \in 1 .. filter.tried : LastTried(d, j) BY <1>6
  <2>3. i < j BY <1>1, <1>7, <2>1, <2>2, PositionIsLast
  <2>4. QED BY <1>1, <2>1, <2>2, <2>3 DEF FilterInv, Room
<1>8. QED BY <1>4, <1>5, <1>7

----------------------------------------------------------------------------
\* All of it together.

OwnedInv ==
  pc \notin {"shutdown", "destroy", "done"} => \A kind \in Kinds : Spare(kind) = 0

CommandInv ==
  /\ TableInv /\ FlowTypes /\ AtInv /\ LifeInv
  /\ TodoInv /\ ObjectsCover /\ OwnedInv
  /\ SuccessInv /\ CodecInv

LEMMA InitTable == Init => TableInv
BY InitIdsInv DEF IdsInv, TableInv

LEMMA InitCommand == CommandInit => CommandInv
<1> SUFFICES ASSUME CommandInit PROVE CommandInv
  OBVIOUS
<1> USE DEF CommandInit
<1>1. TableInv BY InitTable
<1>2. UATypeOK
  <2>1. codec \in [Codecs -> Priority] /\ filter \in [tried : Nat, next : Priority, enabled : Nat]
    BY PriorityAssumption DEF UAInit, Priority
  <2>2. ua \in [state : UAState, pool : BOOLEAN, initialized : BOOLEAN]
    BY DEF UAInit, UAState
  <2>3. QED BY <2>1, <2>2 DEF UATypeOK, UAInit
<1>3. MediaTypes BY DEF MediaTypes, NoObjects
<1>4. todo \in Seq(Items) BY DEF Items
<1>5. FlowTypes BY <1>2, <1>3, <1>4 DEF FlowTypes, Places
<1>6. AtInv /\ TodoInv BY DEF AtInv, TodoInv, OnCall
<1>7. LifeInv BY DEF LifeInv, UAInit, Init
<1>8. \A kind \in Kinds : Spare(kind) = 0
  <2>1. TAKE kind \in Kinds
  <2>2. Cardinality(Held(media, kind)) = 0 BY HeldNone
  <2>3. objects[kind] = 0 /\ Making(kind) = 0 BY DEF NoObjects, Making
  <2>4. QED BY <2>2, <2>3 DEF Spare
<1>9. ObjectsCover /\ OwnedInv BY <1>8 DEF ObjectsCover, OwnedInv
<1>10. SuccessInv BY DEF SuccessInv, ConfirmedSeen, Ending, Init
<1>11. CodecInv BY DEF CodecInv, UAInit
<1>12. QED BY <1>1, <1>5, <1>6, <1>7, <1>9, <1>10, <1>11 DEF CommandInv

\* A signal, and a step of something else.
LEMMA CommandStays ==
  ASSUME CommandInv, running' \in BOOLEAN, stuck' \in BOOLEAN,
         UNCHANGED <<vars, uaVars, opts, config, pc, at, todo, result, files, connected>>
  PROVE  CommandInv'
<1> USE DEF CommandInv
<1>1. TableInv' BY TableStays
<1>2. UNCHANGED <<call, inv, cb, command, ua, lib, links, codec, filter, media, objects>>
  BY DEF vars, uaVars, files
<1>3. FlowTypes' BY <1>2 DEF FlowTypes, UATypeOK, MediaTypes
<1>4. AtInv' /\ TodoInv' BY <1>2 DEF AtInv, TodoInv, OnePlayer
<1>5. LifeInv' BY <1>2 DEF LifeInv
<1>6. \A kind \in Kinds : Spare(kind)' = Spare(kind) BY SpareStays
<1>7. ObjectsCover' /\ OwnedInv' BY <1>6 DEF ObjectsCover, OwnedInv
<1>8. SuccessInv'
  <2>1. ConfirmedSeen' BY <1>2 DEF SuccessInv, ConfirmedSeen
  <2>2. QED BY <1>2, <2>1 DEF SuccessInv, Earned
<1>9. CodecInv'
  <2>1. UNCHANGED Listed BY <1>2, ListedStays
  <2>2. FilterInv => FilterInv' BY <1>2, <2>1, FilterStays
  <2>3. QED BY <1>2, <2>1, <2>2 DEF CodecInv
<1>10. QED BY <1>1, <1>3, <1>4, <1>5, <1>7, <1>8, <1>9

LEMMA CommandWorker ==
  ASSUME CommandInv, NEW c \in Ids, Incoming(c) \/ StateReported(c) \/ Returning(c)
  PROVE  CommandInv'
<1> USE DEF CommandInv
<1>1. /\ TableInv' /\ UNCHANGED <<uaVars, flow>>
      /\ UNCHANGED files \/ \E s \in Slots : StopMedia(s)
      /\ lib \/ cb[c].at # "none"
  BY WorkerFrame
<1>2. UNCHANGED <<opts, pc, at, todo, result, running, stuck>>
  BY <1>1 DEF flow
<1>3. UNCHANGED <<ua, lib, links, codec, filter>>
  BY <1>1 DEF uaVars
<1>4. FlowTypes'
  <2>1. MediaTypes' BY <1>1, MediaStepTypes DEF FlowTypes
  <2>2. UATypeOK' BY <1>1, AgentTypes DEF FlowTypes
  <2>3. connected' \in BOOLEAN
    BY DEF FlowTypes, Incoming, StateReported, Returning, StateWritten, StateIgnored,
           IncomingHandled, IncomingUnhandled, IncomingAnswered
  <2>4. QED BY <1>2, <2>1, <2>2, <2>3 DEF FlowTypes
<1>5. AtInv' BY <1>2 DEF AtInv
<1>6. LifeInv' BY <1>1, <1>2, LifeWorker
<1>7. TodoInv' BY <1>1, <1>2, TodoWorker
<1>8. \A kind \in Kinds : Spare(kind)' = Spare(kind)
  BY <1>1, <1>2, SpareStays, SpareStop DEF FlowTypes
<1>9. ObjectsCover' /\ OwnedInv' BY <1>2, <1>8 DEF ObjectsCover, OwnedInv
<1>10. SuccessInv' BY <1>1, SuccessWorker
<1>11. CodecInv'
  <2>1. UNCHANGED Listed BY <1>2, ListedStays
  <2>2. FilterInv => FilterInv' BY <1>2, <1>3, <2>1, FilterStays
  <2>3. QED BY <1>2, <1>3, <2>1, <2>2 DEF CodecInv
<1>12. QED BY <1>1, <1>4, <1>5, <1>6, <1>7, <1>9, <1>10, <1>11

LEMMA CommandMain ==
  ASSUME CommandInv, Main \/ Poll
  PROVE  CommandInv'
<1> USE DEF CommandInv
<1>1. TableInv' BY MainTable
<1>2. FlowTypes' /\ AtInv' BY MainTypes
<1>3. LifeInv' BY LifeMain
<1>4. TodoInv' BY TodoMain
<1>5. ObjectsCover' /\ OwnedInv'
  <2>1. CASE Wipe \/ Shutdown
    <3>1. \A kind \in Kinds : Spare(kind)' >= 0
      BY <2>1, SpareEnds DEF FlowTypes, TodoInv, BeforeOrAfter
    <3>2. pc' \in {"shutdown", "done"} BY <2>1 DEF Wipe, Shutdown, Goto
    <3>3. QED BY <3>1, <3>2 DEF ObjectsCover, OwnedInv
  <2>2. CASE ~Wipe /\ ~Shutdown
    <3>1. \A kind \in Kinds : Spare(kind)' = Spare(kind)
      BY <2>2, SpareMain
    <3>2. \/ pc' \in {"shutdown", "destroy", "done"}
          \/ pc \notin {"shutdown", "destroy", "done"}
      BY <2>2 DEF Main, Prepare, Connect, Act, End, FindAccount, StartAgent, NoFilter, BeginFilter,
         EnableNext, EndFilter, AttachAccounts, RegisterAccount, AttachCalls, Dial, Dialling,
         CallConnects, CallFails, CallTimesOut, StopAwaiting, Check, Poll, CreateMedia, Do,
         SkipMedia, ConnectMedia, ConnectMediaFails, StoreMedia, ActionsDone, StopTalking,
         HangupNothing, HangupCall, HangingUp, Detach, EndCalls, StopWorker, Goto
    <3>3. QED BY <3>1, <3>2 DEF ObjectsCover, OwnedInv
  <2>3. QED BY <2>1, <2>2
<1>6. SuccessInv' BY SuccessMain
<1>7. CodecInv' BY CodecMain
<1>8. QED BY <1>1, <1>2, <1>3, <1>4, <1>5, <1>6, <1>7

LEMMA CommandStep == CommandInv /\ [CommandNext]_commandVars => CommandInv'
<1> SUFFICES ASSUME CommandInv, [CommandNext]_commandVars PROVE CommandInv'
  OBVIOUS
<1>1. CASE Main \/ Poll BY <1>1, CommandMain
<1>2. CASE \E c \in Ids : Incoming(c) \/ StateReported(c) \/ Returning(c)
  BY <1>2, CommandWorker
<1>3. CASE Interrupt
  <2>1. running' \in BOOLEAN /\ stuck' \in BOOLEAN BY <1>3 DEF Interrupt
  <2>2. QED BY <1>3, <2>1, CommandStays DEF Interrupt
<1>4. CASE UNCHANGED commandVars
  <2>1. running' \in BOOLEAN /\ stuck' \in BOOLEAN
    BY <1>4 DEF commandVars, flow, CommandInv, FlowTypes
  <2>2. QED BY <1>4, <2>1, CommandStays DEF commandVars, flow
<1>5. QED BY <1>1, <1>2, <1>3, <1>4 DEF CommandNext

LEMMA CommandInvariant == CommandSpec => []CommandInv
BY InitCommand, CommandStep, PTL DEF CommandSpec

\* Every variable of a command keeps its type; in particular PJSUA never has
\* fewer than no recorders or players (media.c:97, 172).
THEOREM CommandTypesHold == CommandSpec => []CommandTypeOK
<1>1. CommandInv => CommandTypeOK
  BY CoverIsNat DEF CommandInv, TableInv, FlowTypes, MediaTypes, CommandTypeOK
<1>2. QED BY <1>1, CommandInvariant, PTL

\* However a command ends, PJSUA is destroyed and with it every session,
\* callback, recorder and player (cmd_call.c:201-208).
THEOREM CommandLeavesNothing == CommandSpec => []NothingOutlivesCommand
<1>1. CommandInv => NothingOutlivesCommand
  BY DEF CommandInv, LifeInv, NothingOutlivesCommand
<1>2. QED BY <1>1, CommandInvariant, PTL

\* Until the table is wiped, the recorders and players that exist are those the
\* slots name and the one being made (media.c:66-102).
THEOREM ObjectsAreOwned == CommandSpec => []MediaIsOwned
<1>1. CommandInv => MediaIsOwned
  BY OwnedIsSpare DEF CommandInv, FlowTypes, OwnedInv
<1>2. QED BY <1>1, CommandInvariant, PTL

\* With a filter in force the codecs are enabled that the copy of the list names,
\* cut where the buffer ends, and no others, in its order (sip_ua.c:230-258).
THEOREM CodecsFollowTheList == CommandSpec => []CodecsAsListed
<1>1. CommandInv => CodecsAsListed
  BY CodecsFollow DEF CommandInv, FlowTypes, CodecTypes
<1>2. QED BY <1>1, CommandInvariant, PTL

\* An exit status of 0 means that a call was connected (cmd_call.c:142-150).
THEOREM SuccessMeansConnected == CommandSpec => []SuccessIsConnected
<1>1. CommandInv => SuccessIsConnected
  BY DEF CommandInv, SuccessInv, Earned, Ending, SuccessIsConnected
<1>2. QED BY <1>1, CommandInvariant, PTL
=============================================================================
