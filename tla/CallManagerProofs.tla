------------------------- MODULE CallManagerProofs -------------------------
(***************************************************************************)
(* Proofs about CallManager, for every number of slots, every set of call   *)
(* ids and every command: the types, and what the ids in the table name.    *)
(***************************************************************************)
EXTENDS CallManager, TLAPS

\* The id that vu_call_hangup captured is a call id.
MarkedId == app.pc = "marked" => app.id \in Ids

\* A session whose on_incoming_call has just begun is in no slot.
ArrivedUntracked ==
  \A c \in Ids : cb[c].at = "arrived" =>
    inv[c] = "INCOMING" /\ \A s \in Slots : call[s].id # c

\* An ended session is in its last callback, which holds the only slot that can
\* still carry its id.
EndingInCallback ==
  \A c \in Ids : inv[c] = "DISCONNECTED" =>
    /\ cb[c].at = "state"
    /\ \A s \in Slots : call[s].id = c => s = cb[c].slot

\* Callbacks are about sessions that PJSUA keeps.
CallbackOfSession == \A c \in Ids : cb[c].at # "none" => inv[c] # "FREE"

\* IdsAreLive alone is not inductive: that the id PJSUA releases has left the
\* table needs EndingInCallback, that a new session is not in it yet needs
\* ArrivedUntracked.
IdsInv ==
  /\ TypeOK /\ MarkedId /\ IdsAreLive
  /\ ArrivedUntracked /\ EndingInCallback /\ CallbackOfSession

\* The states a callback can report are states of a call.
LEMMA InvNextStates ==
  ASSUME NEW st \in InvState \ {"FREE", "DISCONNECTED"}
  PROVE  InvNext[st] \subseteq (InvState \ {"FREE"})
BY DEF InvNext, InvState, CallState

\* What a callback writes into a slot is an entry again, and keeps the slot's
\* call id or drops it.
LEMMA StateChangedEntry ==
  ASSUME NEW e \in [id : Ids \cup {Invalid}, state : CallState],
         NEW st \in InvState \ {"FREE"}
  PROVE  /\ StateChanged(e, st) \in [id : Ids \cup {Invalid}, state : CallState]
         /\ StateChanged(e, st).id \in {e.id, Invalid}
         /\ st = "DISCONNECTED" => StateChanged(e, st).id = Invalid
         /\ StateChanged(e, st).state = st
BY DEF StateChanged, InvState, CallState

LEMMA InitIdsInv == Init => IdsInv
BY CommandsAssumption, InvalidAssumption
   DEF Init, IdsInv, TypeOK, MarkedId, IdsAreLive, ArrivedUntracked,
       EndingInCallback, CallbackOfSession, NoCallback, Idle, Callback, CallState, InvState, NoSlot

----------------------------------------------------------------------------
\* What a returning callback does to PJSUA's view, as the steps below need it.
LEMMA CallbackReturnsTypes ==
  ASSUME TypeOK, NEW c \in Ids, CallbackReturns(c)
  PROVE  /\ inv' \in [Ids -> InvState] /\ cb' \in [Ids -> Callback]
         /\ answered' \subseteq Ids /\ told' \subseteq Ids
         /\ cb'[c].at = "none"
         /\ inv[c] = "DISCONNECTED" => inv'[c] = "FREE"
         /\ inv[c] # "DISCONNECTED" => inv'[c] = inv[c]
         /\ \A d \in Ids \ {c} : inv'[d] = inv[d] /\ cb'[d] = cb[d]
<1>1. NoCallback \in Callback
  BY DEF NoCallback, Callback, NoSlot
<1>2. inv' \in [Ids -> InvState] /\ answered' \subseteq Ids /\ told' \subseteq Ids
  BY DEF CallbackReturns, TypeOK, InvState
<1>3. cb' \in [Ids -> Callback] /\ cb'[c].at = "none"
  BY <1>1 DEF CallbackReturns, TypeOK, NoCallback
<1>4. /\ inv[c] = "DISCONNECTED" => inv'[c] = "FREE"
      /\ inv[c] # "DISCONNECTED" => inv'[c] = inv[c]
      /\ \A d \in Ids \ {c} : inv'[d] = inv[d] /\ cb'[d] = cb[d]
  BY DEF CallbackReturns, TypeOK
<1>5. QED BY <1>2, <1>3, <1>4

LEMMA ArriveIdsInv ==
  ASSUME IdsInv, NEW c \in Ids, Arrive(c)
  PROVE  IdsInv'
<1> USE DEF IdsInv, Arrive
<1>1. TypeOK'
  <2>1. [at |-> "arrived", slot |-> NoSlot] \in Callback
    BY DEF Callback, NoSlot
  <2>2. QED BY <2>1 DEF TypeOK, InvState, CallState
<1>2. \A s \in Slots : call[s].id # c
  BY InvalidAssumption DEF IdsAreLive
<1>3. IdsAreLive' /\ ArrivedUntracked' /\ EndingInCallback' /\ CallbackOfSession'
  BY <1>2 DEF TypeOK, IdsAreLive, ArrivedUntracked, EndingInCallback, CallbackOfSession
<1>4. MarkedId'
  BY DEF MarkedId
<1>5. QED BY <1>1, <1>3, <1>4

LEMMA OnCallStateIdsInv ==
  ASSUME IdsInv, NEW c \in Ids, OnCallState(c)
  PROVE  IdsInv'
<1> USE DEF IdsInv
<1>1. PICK st \in InvNext[inv[c]] : inv' = [inv EXCEPT ![c] = st]
  BY DEF OnCallState
<1>2. PICK t \in Slots \cup {NoSlot} :
        /\ IF SlotsWith(c) = {} THEN t = NoSlot ELSE First(t, SlotsWith(c))
        /\ cb' = [cb EXCEPT ![c] = [at |-> "state", slot |-> t]]
  BY DEF OnCallState
<1>3. st \in InvState /\ st # "FREE"
  <2>1. inv[c] \in InvState \ {"FREE", "DISCONNECTED"}
    BY DEF OnCallState, Live, TypeOK
  <2>2. QED BY <1>1, <2>1, InvNextStates
<1>4. TypeOK'
  <2>1. [at |-> "state", slot |-> t] \in Callback
    BY <1>2 DEF Callback
  <2>2. QED BY <1>1, <1>2, <1>3, <2>1 DEF OnCallState, TypeOK
<1>5. IdsAreLive'
  BY <1>1, <1>3 DEF OnCallState, TypeOK, IdsAreLive
<1>6. ArrivedUntracked' /\ CallbackOfSession'
  BY <1>1, <1>2, <1>3 DEF OnCallState, TypeOK, ArrivedUntracked, CallbackOfSession
<1>7. EndingInCallback'
  <2>1. \A s \in Slots : call[s].id = c => s = t
    BY <1>2, InvalidAssumption DEF IdsAreLive, SlotsWith, First
  <2>2. QED BY <1>1, <1>2, <2>1 DEF OnCallState, TypeOK, EndingInCallback
<1>8. QED BY <1>4, <1>5, <1>6, <1>7 DEF OnCallState, MarkedId

LEMMA ApplyStateIdsInv ==
  ASSUME IdsInv, NEW c \in Ids, ApplyState(c)
  PROVE  IdsInv'
<1> USE DEF IdsInv
<1> DEFINE t == cb[c].slot
           e == StateChanged(call[t], inv[c])
<1>1. t \in Slots /\ inv[c] \in InvState \ {"FREE"} /\ cb[c].at = "state"
  BY DEF ApplyState, TypeOK, Callback, CallbackOfSession
<1>2. call' = [call EXCEPT ![t] = e]
  BY DEF ApplyState
<1>3. /\ e \in [id : Ids \cup {Invalid}, state : CallState]
      /\ e.id \in {call[t].id, Invalid}
      /\ inv[c] = "DISCONNECTED" => e.id = Invalid
  <2>1. call[t] \in [id : Ids \cup {Invalid}, state : CallState]
    BY <1>1 DEF TypeOK
  <2>2. QED BY <1>1, <2>1, StateChangedEntry
<1>4. CallbackReturns(c)
  BY DEF ApplyState
<1> HIDE DEF t, e
<1>5. TypeOK'
  <2>1. call' \in [Slots -> [id : Ids \cup {Invalid}, state : CallState]]
    BY <1>1, <1>2, <1>3 DEF TypeOK
  <2>2. /\ inv' \in [Ids -> InvState] /\ cb' \in [Ids -> Callback]
        /\ answered' \subseteq Ids /\ told' \subseteq Ids
    BY <1>4, CallbackReturnsTypes
  <2>3. QED BY <2>1, <2>2 DEF TypeOK, ApplyState
<1>6. \A s \in Slots : call'[s].id \in {call[s].id, Invalid}
  BY <1>1, <1>2, <1>3 DEF TypeOK
<1>7. inv[c] = "DISCONNECTED" => \A s \in Slots : call'[s].id # c
  BY <1>1, <1>2, <1>3, InvalidAssumption DEF TypeOK, EndingInCallback, t
<1>8. IdsAreLive'
  BY <1>1, <1>4, <1>6, <1>7, CallbackReturnsTypes DEF TypeOK, IdsAreLive
<1>9. ArrivedUntracked' /\ CallbackOfSession'
  BY <1>4, <1>6, InvalidAssumption, CallbackReturnsTypes
     DEF ArrivedUntracked, CallbackOfSession
<1>10. EndingInCallback'
  BY <1>4, <1>6, InvalidAssumption, CallbackReturnsTypes DEF EndingInCallback
<1>11. QED BY <1>5, <1>8, <1>9, <1>10 DEF MarkedId, ApplyState

LEMMA IgnoreStateIdsInv ==
  ASSUME IdsInv, NEW c \in Ids, IgnoreState(c)
  PROVE  IdsInv'
<1> USE DEF IdsInv
<1>1. CallbackReturns(c) /\ cb[c].at = "state" /\ cb[c].slot = NoSlot
      /\ UNCHANGED <<command, call, app>>
  BY DEF IgnoreState
<1>2. inv[c] = "DISCONNECTED" => \A s \in Slots : call[s].id # c
  BY <1>1 DEF EndingInCallback, NoSlot, Slots
<1>3. TypeOK'
  BY <1>1, CallbackReturnsTypes DEF TypeOK
<1>4. IdsAreLive'
  BY <1>1, <1>2, CallbackReturnsTypes DEF TypeOK, IdsAreLive
<1>5. ArrivedUntracked' /\ CallbackOfSession' /\ EndingInCallback'
  BY <1>1, CallbackReturnsTypes
     DEF ArrivedUntracked, CallbackOfSession, EndingInCallback
<1>6. QED BY <1>1, <1>3, <1>4, <1>5 DEF MarkedId

\* Nobody takes the session on.
LEMMA UnhandledIdsInv ==
  ASSUME IdsInv, NEW c \in Ids, cb[c].at = "arrived", CallbackReturns(c),
         UNCHANGED <<command, call, app>>
  PROVE  IdsInv'
<1> USE DEF IdsInv
<1>1. inv[c] # "DISCONNECTED"
  BY DEF ArrivedUntracked
<1>2. TypeOK' /\ IdsAreLive'
  BY <1>1, CallbackReturnsTypes DEF TypeOK, IdsAreLive
<1>3. ArrivedUntracked' /\ CallbackOfSession' /\ EndingInCallback'
  BY <1>1, CallbackReturnsTypes
     DEF ArrivedUntracked, CallbackOfSession, EndingInCallback
<1>4. QED BY <1>1, <1>2, <1>3 DEF MarkedId

LEMMA LeaveRingingIdsInv ==
  ASSUME IdsInv, NEW c \in Ids, LeaveRinging(c)
  PROVE  IdsInv'
BY UnhandledIdsInv DEF LeaveRinging

LEMMA TrackIncomingIdsInv ==
  ASSUME IdsInv, NEW c \in Ids, TrackIncoming(c)
  PROVE  IdsInv'
<1> USE DEF IdsInv
<1>1. SlotsWith(c) = {} /\ inv[c] = "INCOMING" /\ cb[c].at = "arrived"
  BY DEF ArrivedUntracked, TrackIncoming, SlotsWith
<1>2. PICK s \in Slots :
        /\ call' = [call EXCEPT ![s] = [id |-> c, state |-> "INCOMING"]]
        /\ cb' = [cb EXCEPT ![c] = [at |-> "claimed", slot |-> s]]
  BY <1>1 DEF TrackIncoming
<1>3. UNCHANGED <<command, inv, answered, told, app>>
  BY DEF TrackIncoming
<1>4. TypeOK'
  <2>1. [at |-> "claimed", slot |-> s] \in Callback
    BY DEF Callback
  <2>2. QED BY <1>2, <1>3, <2>1 DEF TypeOK, CallState
<1>5. IdsAreLive'
  BY <1>1, <1>2, <1>3 DEF TypeOK, IdsAreLive, ArrivedUntracked
<1>6. ArrivedUntracked' /\ CallbackOfSession'
  BY <1>1, <1>2, <1>3 DEF TypeOK, ArrivedUntracked, CallbackOfSession
<1>7. EndingInCallback'
  BY <1>1, <1>2, <1>3 DEF TypeOK, EndingInCallback
<1>8. QED BY <1>3, <1>4, <1>5, <1>6, <1>7 DEF MarkedId

LEMMA RejectIncomingIdsInv ==
  ASSUME IdsInv, NEW c \in Ids, RejectIncoming(c)
  PROVE  IdsInv'
<1> USE DEF IdsInv, RejectIncoming
<1>1. TypeOK'
  <2>1. [at |-> "state", slot |-> NoSlot] \in Callback
    BY DEF Callback
  <2>2. QED BY <2>1 DEF TypeOK, InvState, CallState
<1>2. IdsAreLive' /\ CallbackOfSession' /\ ArrivedUntracked'
  BY DEF TypeOK, IdsAreLive, CallbackOfSession, ArrivedUntracked
<1>3. EndingInCallback'
  BY DEF TypeOK, EndingInCallback, ArrivedUntracked
<1>4. QED BY <1>1, <1>2, <1>3 DEF MarkedId

LEMMA AnswerIncomingIdsInv ==
  ASSUME IdsInv, NEW c \in Ids, AnswerIncoming(c)
  PROVE  IdsInv'
<1> USE DEF IdsInv, AnswerIncoming
<1>1. TypeOK'
  <2>1. NoCallback \in Callback
    BY DEF Callback, NoCallback
  <2>2. answered' \subseteq Ids
    BY DEF TypeOK, Answerable
  <2>3. QED BY <2>1, <2>2 DEF TypeOK
<1>2. IdsAreLive' /\ CallbackOfSession' /\ ArrivedUntracked' /\ EndingInCallback'
  BY DEF TypeOK, IdsAreLive, CallbackOfSession, ArrivedUntracked,
         EndingInCallback, NoCallback
<1>3. QED BY <1>1, <1>2 DEF MarkedId

----------------------------------------------------------------------------
\* The main thread changes no callback, and the session of its own call only.

LEMMA MakeDialledIdsInv ==
  ASSUME IdsInv, NEW c \in Ids, MakeDialled(c)
  PROVE  IdsInv'
<1> USE DEF IdsInv, MakeDialled
<1>1. TypeOK'
  <2>1. call' \in [Slots -> [id : Ids \cup {Invalid}, state : CallState]]
    BY DEF TypeOK
  <2>2. app' \in [pc : {"idle", "claimed", "stored", "marked", "asked",
                        "draining", "closed"},
                  slot : Slots \cup {NoSlot},
                  id : Ids \cup {Invalid}]
    BY DEF TypeOK
  <2>3. inv' \in [Ids -> InvState]
    BY DEF TypeOK, InvState, CallState
  <2>4. QED BY <2>1, <2>2, <2>3 DEF TypeOK
<1>2. \A s \in Slots : call[s].id # c
  BY InvalidAssumption DEF IdsAreLive
<1>3. IdsAreLive'
  BY <1>2 DEF TypeOK, IdsAreLive
<1>4. ArrivedUntracked' /\ CallbackOfSession' /\ EndingInCallback'
  BY <1>2 DEF TypeOK, ArrivedUntracked, CallbackOfSession, EndingInCallback
<1>5. QED BY <1>1, <1>3, <1>4 DEF MarkedId

\* A step that only drops ids from the table, or changes recorded states.
LEMMA TableIdsInv ==
  ASSUME IdsInv, TypeOK', MarkedId', UNCHANGED <<inv, cb>>,
         \A s \in Slots : call'[s].id \in {call[s].id, Invalid}
  PROVE  IdsInv'
BY InvalidAssumption
   DEF IdsInv, IdsAreLive, ArrivedUntracked, CallbackOfSession, EndingInCallback

LEMMA MainThreadIdsInv ==
  ASSUME IdsInv,
         \/ MakeClaim \/ MakeFailed \/ MakeDone
         \/ Hangup \/ HangupAll
  PROVE  IdsInv'
<1> USE DEF IdsInv
<1>1. CASE MakeClaim
  <2>1. PICK s \in Slots :
          /\ call' = [call EXCEPT ![s] = [id |-> Invalid, state |-> "NULL"]]
          /\ app' = [pc |-> "claimed", slot |-> s, id |-> Invalid]
    BY <1>1 DEF MakeClaim
  <2>2. TypeOK' /\ MarkedId'
    BY <1>1, <2>1 DEF MakeClaim, TypeOK, MarkedId, CallState
  <2>3. \A r \in Slots : call'[r].id \in {call[r].id, Invalid}
    BY <2>1 DEF TypeOK
  <2>4. QED BY <1>1, <2>2, <2>3, TableIdsInv DEF MakeClaim
<1>2. CASE MakeFailed
  <2>1. TypeOK' /\ MarkedId'
    BY <1>2 DEF MakeFailed, TypeOK, MarkedId, Idle
  <2>2. \A r \in Slots : call'[r].id \in {call[r].id, Invalid}
    BY <1>2 DEF MakeFailed, TypeOK
  <2>3. QED BY <1>2, <2>1, <2>2, TableIdsInv DEF MakeFailed
<1>3. CASE MakeDone
  <2>1. TypeOK' /\ MarkedId'
    BY <1>3 DEF MakeDone, TypeOK, MarkedId, Idle, CallState
  <2>2. \A r \in Slots : call'[r].id \in {call[r].id, Invalid}
    BY <1>3 DEF MakeDone, TypeOK
  <2>3. QED BY <1>3, <2>1, <2>2, TableIdsInv DEF MakeDone
<1>4. CASE Hangup
  <2>1. CASE \E s \in Slots : HangupMark(s)
    <3>1. PICK s \in Slots : HangupMark(s)
      BY <2>1
    <3>2. TypeOK' /\ MarkedId'
      BY <3>1 DEF HangupMark, TypeOK, MarkedId
    <3>3. \A r \in Slots : call'[r].id \in {call[r].id, Invalid}
      BY <3>1 DEF HangupMark, TypeOK
    <3>4. QED BY <3>1, <3>2, <3>3, TableIdsInv DEF HangupMark
  <2>2. CASE HangupAsk
    <3>1. TypeOK' /\ MarkedId'
      BY <2>2 DEF HangupAsk, TypeOK, MarkedId
    <3>2. QED BY <2>2, <3>1, TableIdsInv DEF HangupAsk
  <2>3. CASE HangupDone
    <3>1. TypeOK' /\ MarkedId'
      BY <2>3 DEF HangupDone, TypeOK, MarkedId, Idle, CallState
    <3>2. \A r \in Slots : call'[r].id \in {call[r].id, Invalid}
      BY <2>3 DEF HangupDone, TypeOK
    <3>3. QED BY <2>3, <3>1, <3>2, TableIdsInv DEF HangupDone
  <2>4. QED BY <1>4, <2>1, <2>2, <2>3 DEF Hangup
<1>5. CASE HangupAll
  <2>1. CASE HangupAllAsk
    <3>1. TypeOK' /\ MarkedId'
      BY <2>1 DEF HangupAllAsk, TypeOK, MarkedId
    <3>2. QED BY <2>1, <3>1, TableIdsInv DEF HangupAllAsk
  <2>2. CASE HangupAllMark
    <3>1. \A r \in Slots :
            /\ call'[r] \in [id : Ids \cup {Invalid}, state : CallState]
            /\ call'[r].id \in {call[r].id, Invalid}
      BY <2>2 DEF HangupAllMark, TypeOK, CallState
    <3>2. TypeOK' /\ MarkedId'
      BY <2>2, <3>1 DEF HangupAllMark, TypeOK, MarkedId
    <3>3. QED BY <2>2, <3>1, <3>2, TableIdsInv DEF HangupAllMark
  <2>3. QED BY <1>5, <2>1, <2>2 DEF HangupAll
<1>6. QED BY <1>1, <1>2, <1>3, <1>4, <1>5

----------------------------------------------------------------------------
LEMMA NextIdsInv == IdsInv /\ [Next]_vars => IdsInv'
<1> SUFFICES ASSUME IdsInv, [Next]_vars
             PROVE  IdsInv'
  OBVIOUS
<1>1. ASSUME NEW c \in Ids, Arrive(c) \/ Callbacks(c)
      PROVE  IdsInv'
  BY <1>1, ArriveIdsInv, OnCallStateIdsInv, ApplyStateIdsInv, IgnoreStateIdsInv,
     LeaveRingingIdsInv, TrackIncomingIdsInv, RejectIncomingIdsInv, AnswerIncomingIdsInv
     DEF Callbacks
<1>2. CASE Make
  BY <1>2, MakeDialledIdsInv, MainThreadIdsInv DEF Make
<1>3. CASE Hangup \/ HangupAll
  BY <1>3, MainThreadIdsInv
<1>4. CASE UNCHANGED vars
  BY <1>4 DEF vars, IdsInv, TypeOK, MarkedId, IdsAreLive, ArrivedUntracked,
              EndingInCallback, CallbackOfSession
<1>5. QED BY <1>1, <1>2, <1>3, <1>4 DEF Next

LEMMA AlwaysIdsInv == Spec => []IdsInv
BY InitIdsInv, NextIdsInv, PTL DEF Spec

\* The variables keep their types in every run of every command.
THEOREM TypesHold == Spec => []TypeOK
<1>1. IdsInv => TypeOK
  BY DEF IdsInv
<1>2. QED BY <1>1, AlwaysIdsInv, PTL

\* No slot ever names a released or reused call id, and no two slots name the
\* same session, whatever the interleaving of vu_call_make, vu_call_hangup and
\* the callbacks.
THEOREM IdsStayLive == Spec => []IdsAreLive
<1>1. IdsInv => IdsAreLive
  BY DEF IdsInv
<1>2. QED BY <1>1, AlwaysIdsInv, PTL
=============================================================================
