-------------------------- MODULE CallTableProofs --------------------------
(***************************************************************************)
(* More proofs about CallManager, for the commands that do not both dial    *)
(* and receive, any number of slots and call ids.  A callback in flight     *)
(* then owns the slot it found: until it has written, no other session      *)
(* comes into that slot and no hangup of it completes.                      *)
(***************************************************************************)
EXTENDS CallManagerProofs

Writes(c, s) == cb[c].at = "state" /\ cb[c].slot = s

\* Only a command that dials is ever inside vu_call_make, only one that
\* receives has a handler for incoming calls and answers.
ModeInv ==
  /\ app.pc \in {"claimed", "stored"} => Dials
  /\ \A c \in Ids : cb[c].at = "claimed" \/ c \in answered => Receives

\* The slot a callback found keeps the session of that callback, or was hung
\* up, and is not free; two callbacks never found the same slot.
WriterOwnsSlot ==
  \A c \in Ids, s \in Slots : Writes(c, s) =>
    /\ call[s].id \in {c, Invalid}
    /\ call[s].id = Invalid => call[s].state # "NULL"
    /\ \A d \in Ids : Writes(d, s) => d = c
    /\ ~(app.pc = "claimed" /\ app.slot = s)

\* A slot with a session but no state yet is the one vu_call_make works on.
OnlyMakeHasNoState ==
  /\ app.pc \in {"claimed", "stored", "marked", "asked"} => app.slot \in Slots
  /\ app.pc = "claimed" => call[app.slot] = [id |-> Invalid, state |-> "NULL"]
  /\ app.pc = "stored" /\ call[app.slot].state = "NULL" =>
       call[app.slot].id # Invalid
  /\ \A s \in Slots : call[s].id # Invalid /\ call[s].state = "NULL" =>
       app.pc = "stored" /\ app.slot = s

\* While vu_call_hangup is between its halves no new callback finds the slot;
\* after PJSUA granted it the session's lock no old one is left either.
HangupExcludesWriter ==
  /\ app.pc \in {"marked", "asked"} =>
       call[app.slot].id = Invalid /\ call[app.slot].state # "NULL"
  /\ app.pc = "marked" =>
       \A c \in Ids : Writes(c, app.slot) => c = app.id
  /\ app.pc = "asked" =>
       \A c \in Ids : ~Writes(c, app.slot)

\* So a callback that would bring an ended call back does not exist.
NoWriterOfEnded ==
  app.pc # "closed" =>
    \A c \in Ids, s \in Slots :
      Writes(c, s) /\ call[s].state = "DISCONNECTED" => inv[c] = "DISCONNECTED"

LEMMA InvNextProgress ==
  ASSUME NEW st \in InvState \ {"FREE", "DISCONNECTED"}, NEW nx \in InvNext[st]
  PROVE  Progress[st] <= Progress[nx] /\ Progress[nx] \in Nat
BY DEF InvNext, InvState, CallState, Progress

LEMMA ProgressIsNat ==
  ASSUME NEW st \in CallState
  PROVE  Progress[st] \in Nat /\ (st # "NULL" => 1 <= Progress[st])
BY DEF CallState, Progress

\* Only an ended session is as far as an ended slot.
LEMMA LiveProgress ==
  ASSUME NEW st \in InvState \ {"FREE", "DISCONNECTED"}
  PROVE  ~(Progress["DISCONNECTED"] <= Progress[st])
BY DEF InvState, CallState, Progress

\* What holds of a table that is not shared by dialling and receiving.
TableInv ==
  /\ WriterOwnsSlot /\ OnlyMakeHasNoState
  /\ HangupExcludesWriter /\ NoWriterOfEnded /\ NeverAhead

SlotInv == ModeInv /\ (command # "test" => TableInv)

LEMMA ModeStep == IdsInv /\ ModeInv /\ [Next]_vars => ModeInv'
<1> SUFFICES ASSUME IdsInv, ModeInv, [Next]_vars
             PROVE  ModeInv'
  OBVIOUS
<1> USE DEF ModeInv, Dials, Receives
<1>1. TypeOK
  BY DEF IdsInv
<1>2. ASSUME NEW c \in Ids, Arrive(c) \/ Callbacks(c)
      PROVE  ModeInv'
  <2>1. command' = command /\ app' = app
    BY <1>2 DEF Arrive, Callbacks, OnCallState, ApplyState, IgnoreState,
                LeaveRinging, TrackIncoming, RejectIncoming, AnswerIncoming
  <2>2. \A d \in Ids : cb'[d].at = "claimed" \/ d \in answered' => Receives
    <3>1. CASE Arrive(c)
      BY <1>1, <3>1 DEF Arrive, TypeOK
    <3>2. CASE OnCallState(c)
      BY <1>1, <3>2 DEF OnCallState, TypeOK
    <3>3. CASE ApplyState(c) \/ IgnoreState(c) \/ LeaveRinging(c)
      BY <1>1, <3>3 DEF ApplyState, IgnoreState, LeaveRinging, CallbackReturns,
                        NoCallback, TypeOK
    <3>4. CASE TrackIncoming(c)
      BY <1>1, <3>4 DEF TrackIncoming, TypeOK
    <3>5. CASE RejectIncoming(c) \/ AnswerIncoming(c)
      BY <1>1, <3>5 DEF RejectIncoming, AnswerIncoming, NoCallback, TypeOK
    <3>6. QED BY <1>2, <3>1, <3>2, <3>3, <3>4, <3>5 DEF Callbacks
  <2>3. QED BY <2>1, <2>2
<1>3. CASE Make
  BY <1>1, <1>3 DEF Make, MakeClaim, MakeDialled, MakeFailed, MakeDone, Idle, TypeOK
<1>4. CASE Hangup \/ HangupAll
  BY <1>1, <1>4 DEF Hangup, HangupMark, HangupAsk, HangupDone, Idle, HangupAll,
                    HangupAllAsk, HangupAllMark, TypeOK
<1>5. CASE UNCHANGED vars
  BY <1>5 DEF vars
<1>6. QED BY <1>2, <1>3, <1>4, <1>5 DEF Next

\* A step that leaves the table alone and starts no callback that writes.
LEMMA NoNewWriter ==
  ASSUME TableInv, UNCHANGED <<command, call, app>>,
         \A d \in Ids, s \in Slots : Writes(d, s)' => Writes(d, s) /\ inv'[d] = inv[d],
         NeverAhead'
  PROVE  TableInv'
<1> USE DEF TableInv
<1>1. WriterOwnsSlot' /\ OnlyMakeHasNoState' /\ NoWriterOfEnded'
  BY DEF WriterOwnsSlot, OnlyMakeHasNoState, NoWriterOfEnded
<1>2. HangupExcludesWriter'
  BY DEF HangupExcludesWriter, OnlyMakeHasNoState
<1>3. QED BY <1>1, <1>2

LEMMA ArriveTableInv ==
  ASSUME IdsInv, TableInv, NEW c \in Ids, Arrive(c)
  PROVE  TableInv'
<1> USE DEF Arrive
<1>1. TypeOK /\ \A s \in Slots : call[s].id # c
  BY InvalidAssumption DEF IdsInv, IdsAreLive
<1>2. \A d \in Ids, s \in Slots : Writes(d, s)' => Writes(d, s) /\ inv'[d] = inv[d]
  BY <1>1 DEF TypeOK, Writes
<1>3. NeverAhead'
  BY <1>1 DEF TableInv, NeverAhead, TypeOK
<1>4. QED BY <1>2, <1>3, NoNewWriter

LEMMA OnCallStateTableInv ==
  ASSUME IdsInv, TableInv, NEW c \in Ids, OnCallState(c), command # "test"
  PROVE  TableInv'
<1> USE DEF TableInv
<1>1. TypeOK /\ UNCHANGED <<command, call, app>>
  BY DEF IdsInv, OnCallState
<1>2. PICK st \in InvNext[inv[c]] : inv' = [inv EXCEPT ![c] = st]
  BY DEF OnCallState
<1>3. PICK t \in Slots \cup {NoSlot} :
        /\ IF SlotsWith(c) = {} THEN t = NoSlot ELSE First(t, SlotsWith(c))
        /\ cb' = [cb EXCEPT ![c] = [at |-> "state", slot |-> t]]
  BY DEF OnCallState
<1>4. inv[c] \in InvState \ {"FREE", "DISCONNECTED"}
  BY <1>1 DEF OnCallState, Live, TypeOK
<1>5. t \in Slots => call[t].id = c
  BY <1>3 DEF SlotsWith, First, NoSlot, Slots
<1>6. \A d \in Ids, s \in Slots :
        Writes(d, s)' => (d # c /\ Writes(d, s)) \/ (d = c /\ s = t)
  BY <1>1, <1>3 DEF TypeOK, Writes
<1>7. \A d \in Ids : t \in Slots => ~Writes(d, t)
  BY <1>5, InvalidAssumption DEF WriterOwnsSlot, Writes, OnCallState
<1>8. WriterOwnsSlot'
  BY <1>1, <1>5, <1>6, <1>7, InvalidAssumption
     DEF WriterOwnsSlot, OnlyMakeHasNoState
<1>9. OnlyMakeHasNoState'
  BY <1>1 DEF OnlyMakeHasNoState
<1>10. HangupExcludesWriter'
  BY <1>1, <1>5, <1>6, InvalidAssumption DEF HangupExcludesWriter, OnlyMakeHasNoState
<1>11. t \in Slots => call[t].state # "DISCONNECTED"
  BY <1>1, <1>4, <1>5, InvalidAssumption, LiveProgress
     DEF NeverAhead, TypeOK
<1>12. NoWriterOfEnded'
  BY <1>1, <1>2, <1>6, <1>11 DEF NoWriterOfEnded, TypeOK
<1>13. NeverAhead'
  <2> SUFFICES ASSUME NEW s \in Slots, call[s].id # Invalid
               PROVE  Progress[call[s].state] <= Progress[inv'[call[s].id]]
    BY <1>1 DEF NeverAhead
  <2>1. /\ call[s].id \in Ids
        /\ Progress[call[s].state] <= Progress[inv[call[s].id]]
        /\ Progress[call[s].state] \in Nat
    BY <1>1, ProgressIsNat DEF TypeOK, NeverAhead
  <2>2. CASE call[s].id = c
    <3>1. /\ Progress[inv[c]] <= Progress[st] /\ Progress[st] \in Nat
          /\ Progress[inv[c]] \in Nat
      BY <1>2, <1>4, InvNextProgress, ProgressIsNat DEF InvState
    <3>2. inv'[c] = st
      BY <1>1, <1>2 DEF TypeOK
    <3>3. QED BY <2>1, <2>2, <3>1, <3>2
  <2>3. CASE call[s].id # c
    BY <1>1, <1>2, <2>1, <2>3 DEF TypeOK
  <2>4. QED BY <2>2, <2>3
<1>14. QED BY <1>8, <1>9, <1>10, <1>12, <1>13

LEMMA ApplyStateTableInv ==
  ASSUME IdsInv, TableInv, NEW c \in Ids, ApplyState(c), command # "test"
  PROVE  TableInv'
<1> USE DEF TableInv
<1> DEFINE t == cb[c].slot
           e == StateChanged(call[t], inv[c])
<1>1. t \in Slots /\ inv[c] \in InvState \ {"FREE"} /\ Writes(c, t)
  BY DEF ApplyState, IdsInv, TypeOK, Callback, CallbackOfSession, Writes
<1>2. call' = [call EXCEPT ![t] = e] /\ UNCHANGED <<command, app>>
  BY DEF ApplyState
<1>3. /\ e.id \in {call[t].id, Invalid}
      /\ inv[c] = "DISCONNECTED" => e.id = Invalid
      /\ e.state = inv[c] /\ e.state # "NULL"
  <2>1. call[t] \in [id : Ids \cup {Invalid}, state : CallState]
    BY <1>1 DEF IdsInv, TypeOK
  <2>2. e.state = inv[c] => e.state # "NULL"
    BY <1>1 DEF InvState
  <2>3. QED BY <1>1, <2>1, <2>2, StateChangedEntry
<1>4. /\ cb'[c].at = "none"
      /\ inv[c] # "DISCONNECTED" => inv'[c] = inv[c]
      /\ \A d \in Ids \ {c} : inv'[d] = inv[d] /\ cb'[d] = cb[d]
  BY CallbackReturnsTypes DEF ApplyState, IdsInv
<1> HIDE DEF t, e
<1>5. call'[t] = e /\ \A s \in Slots : s # t => call'[s] = call[s]
  BY <1>1, <1>2 DEF IdsInv, TypeOK
<1>6. \A d \in Ids, s \in Slots :
        Writes(d, s)' => d # c /\ Writes(d, s) /\ s # t /\ inv'[d] = inv[d]
  BY <1>1, <1>4 DEF Writes, WriterOwnsSlot
<1>7. WriterOwnsSlot' /\ NoWriterOfEnded'
  BY <1>2, <1>5, <1>6 DEF WriterOwnsSlot, NoWriterOfEnded
<1>8. OnlyMakeHasNoState'
  BY <1>1, <1>2, <1>3, <1>5 DEF OnlyMakeHasNoState, WriterOwnsSlot
<1>9. HangupExcludesWriter'
  BY <1>2, <1>3, <1>5, <1>6 DEF HangupExcludesWriter, OnlyMakeHasNoState
<1>10. NeverAhead'
  <2> SUFFICES ASSUME NEW s \in Slots, call'[s].id # Invalid
               PROVE  Progress[call'[s].state] <= Progress[inv'[call'[s].id]]
    BY DEF NeverAhead
  <2>1. CASE s = t
    <3>1. call'[s].id = c /\ call'[s].state = inv[c] /\ inv'[c] = inv[c]
      BY <1>1, <1>3, <1>4, <1>5, <2>1 DEF WriterOwnsSlot
    <3>2. Progress[inv[c]] \in Nat
      BY <1>1, ProgressIsNat DEF InvState
    <3>3. QED BY <3>1, <3>2
  <2>2. CASE s # t
    <3>1. call'[s] = call[s] /\ call[s].id \in Ids
      BY <1>5, <2>2 DEF IdsInv, TypeOK
    <3>2. call[s].id = c => inv[c] # "DISCONNECTED"
      BY <2>2 DEF IdsInv, EndingInCallback, t
    <3>3. inv'[call[s].id] = inv[call[s].id]
      BY <1>4, <3>1, <3>2
    <3>4. QED BY <3>1, <3>3 DEF NeverAhead
  <2>3. QED BY <2>1, <2>2
<1>11. QED BY <1>7, <1>8, <1>9, <1>10

LEMMA IgnoreStateTableInv ==
  ASSUME IdsInv, TableInv, NEW c \in Ids, IgnoreState(c)
  PROVE  TableInv'
<1>1. /\ cb'[c].at = "none"
      /\ inv[c] # "DISCONNECTED" => inv'[c] = inv[c]
      /\ \A d \in Ids \ {c} : inv'[d] = inv[d] /\ cb'[d] = cb[d]
  BY CallbackReturnsTypes DEF IgnoreState, IdsInv
<1>2. UNCHANGED <<command, call, app>>
  BY DEF IgnoreState
<1>3. \A d \in Ids, s \in Slots : Writes(d, s)' => Writes(d, s) /\ inv'[d] = inv[d]
  BY <1>1 DEF Writes
<1>4. \A s \in Slots : call[s].id # Invalid => inv'[call[s].id] = inv[call[s].id]
  <2> SUFFICES ASSUME NEW s \in Slots, call[s].id # Invalid
               PROVE  inv'[call[s].id] = inv[call[s].id]
    OBVIOUS
  <2>1. call[s].id \in Ids
    BY DEF IdsInv, TypeOK
  <2>2. call[s].id = c => inv[c] # "DISCONNECTED"
    BY DEF IdsInv, EndingInCallback, IgnoreState, NoSlot, Slots
  <2>3. QED BY <1>1, <2>1, <2>2
<1>5. NeverAhead'
  BY <1>2, <1>4 DEF TableInv, NeverAhead
<1>6. QED BY <1>2, <1>3, <1>5, NoNewWriter

LEMMA LeaveRingingTableInv ==
  ASSUME IdsInv, TableInv, NEW c \in Ids, LeaveRinging(c)
  PROVE  TableInv'
<1>1. /\ CallbackReturns(c) /\ inv[c] # "DISCONNECTED"
      /\ UNCHANGED <<command, call, app>>
  BY DEF LeaveRinging, IdsInv, ArrivedUntracked
<1>2. UNCHANGED inv
  BY <1>1 DEF CallbackReturns
<1>3. \A d \in Ids, s \in Slots : Writes(d, s)' => Writes(d, s) /\ inv'[d] = inv[d]
  BY <1>1, <1>2, CallbackReturnsTypes DEF Writes, IdsInv
<1>4. NeverAhead'
  BY <1>1, <1>2 DEF TableInv, NeverAhead
<1>5. QED BY <1>1, <1>3, <1>4, NoNewWriter

LEMMA TrackIncomingTableInv ==
  ASSUME IdsInv, TableInv, ModeInv, NEW c \in Ids, TrackIncoming(c),
         command # "test"
  PROVE  TableInv'
<1> USE DEF TableInv
<1>1. /\ SlotsWith(c) = {} /\ inv[c] = "INCOMING" /\ cb[c].at = "arrived"
      /\ UNCHANGED <<command, inv, app>>
  BY DEF IdsInv, ArrivedUntracked, TrackIncoming, SlotsWith
<1>2. PICK s \in Slots :
        /\ s \in FreeSlots
        /\ call' = [call EXCEPT ![s] = [id |-> c, state |-> "INCOMING"]]
        /\ cb' = [cb EXCEPT ![c] = [at |-> "claimed", slot |-> s]]
  BY <1>1 DEF TrackIncoming, First
<1>3. call[s].id = Invalid /\ call[s].state = "NULL"
  BY <1>2 DEF FreeSlots
<1>4. app.pc \notin {"claimed", "stored"}
  BY CommandsAssumption DEF TrackIncoming, ModeInv, Dials, Receives, IdsInv, TypeOK
<1>5. \A d \in Ids, r \in Slots : Writes(d, r)' => Writes(d, r) /\ r # s
  BY <1>2, <1>3 DEF IdsInv, TypeOK, Writes, WriterOwnsSlot
<1>6. /\ call'[s] = [id |-> c, state |-> "INCOMING"]
      /\ \A r \in Slots : r # s => call'[r] = call[r]
  BY <1>2 DEF IdsInv, TypeOK
<1>7. WriterOwnsSlot' /\ NoWriterOfEnded'
  BY <1>1, <1>5, <1>6 DEF WriterOwnsSlot, NoWriterOfEnded
<1>8. OnlyMakeHasNoState'
  BY <1>1, <1>4, <1>6 DEF OnlyMakeHasNoState
<1>9. HangupExcludesWriter'
  BY <1>1, <1>3, <1>5, <1>6 DEF HangupExcludesWriter, OnlyMakeHasNoState
<1>10. NeverAhead'
  <2>1. Progress["INCOMING"] <= Progress["INCOMING"]
    BY DEF Progress
  <2>2. QED BY <1>1, <1>6, <2>1 DEF NeverAhead
<1>11. QED BY <1>7, <1>8, <1>9, <1>10

LEMMA RejectIncomingTableInv ==
  ASSUME IdsInv, TableInv, NEW c \in Ids, RejectIncoming(c)
  PROVE  TableInv'
<1> USE DEF RejectIncoming
<1>1. TypeOK /\ \A s \in Slots : call[s].id # c
  BY DEF IdsInv, ArrivedUntracked
<1>2. \A d \in Ids, s \in Slots : Writes(d, s)' => Writes(d, s) /\ inv'[d] = inv[d]
  BY <1>1 DEF TypeOK, Writes, NoSlot, Slots
<1>3. NeverAhead'
  BY <1>1 DEF TableInv, NeverAhead, TypeOK
<1>4. QED BY <1>2, <1>3, NoNewWriter

LEMMA AnswerIncomingTableInv ==
  ASSUME IdsInv, TableInv, NEW c \in Ids, AnswerIncoming(c)
  PROVE  TableInv'
<1>1. UNCHANGED <<command, call, inv, app>>
  BY DEF AnswerIncoming
<1>2. \A d \in Ids, s \in Slots : Writes(d, s)' => Writes(d, s) /\ inv'[d] = inv[d]
  BY <1>1 DEF IdsInv, TypeOK, Writes, AnswerIncoming, NoCallback
<1>3. NeverAhead'
  BY <1>1 DEF TableInv, NeverAhead
<1>4. QED BY <1>1, <1>2, <1>3, NoNewWriter

----------------------------------------------------------------------------
\* The slot of a new call is free, so nobody writes into it.
LEMMA MakeClaimTableInv ==
  ASSUME IdsInv, TableInv, MakeClaim
  PROVE  TableInv'
<1> USE DEF TableInv
<1>1. PICK s \in FreeSlots :
        /\ call' = [call EXCEPT ![s] = [id |-> Invalid, state |-> "NULL"]]
        /\ app' = [pc |-> "claimed", slot |-> s, id |-> Invalid]
  BY DEF MakeClaim, First
<1>2. /\ s \in Slots /\ call[s].id = Invalid /\ call[s].state = "NULL"
      /\ app.pc = "idle" /\ UNCHANGED <<command, inv, cb>>
  BY DEF MakeClaim, FreeSlots
<1>3. /\ call'[s] = [id |-> Invalid, state |-> "NULL"]
      /\ \A r \in Slots : r # s => call'[r] = call[r]
  BY <1>1, <1>2 DEF IdsInv, TypeOK
<1>4. \A d \in Ids, r \in Slots : Writes(d, r)' => Writes(d, r) /\ r # s
  BY <1>2 DEF Writes, WriterOwnsSlot
<1>5. WriterOwnsSlot' /\ NoWriterOfEnded'
  BY <1>1, <1>2, <1>3, <1>4 DEF WriterOwnsSlot, NoWriterOfEnded
<1>6. OnlyMakeHasNoState' /\ HangupExcludesWriter'
  BY <1>1, <1>2, <1>3 DEF OnlyMakeHasNoState, HangupExcludesWriter
<1>7. NeverAhead'
  BY <1>2, <1>3 DEF NeverAhead
<1>8. QED BY <1>5, <1>6, <1>7

\* The new session has no callback yet and is ahead of a slot without a state.
LEMMA MakeDialledTableInv ==
  ASSUME IdsInv, TableInv, NEW c \in Ids, MakeDialled(c)
  PROVE  TableInv'
<1> USE DEF TableInv
<1> DEFINE t == app.slot
<1>1. /\ app.pc = "claimed" /\ inv[c] = "FREE" /\ UNCHANGED <<command, cb>>
      /\ app'.pc = "stored" /\ app'.slot = t
      /\ t \in Slots /\ call[t] = [id |-> Invalid, state |-> "NULL"]
  BY DEF MakeDialled, OnlyMakeHasNoState, IdsInv, TypeOK
<1>2. /\ call'[t] = [id |-> c, state |-> "NULL"]
      /\ \A r \in Slots : r # t => call'[r] = call[r]
  BY <1>1 DEF MakeDialled, IdsInv, TypeOK
<1>3. inv'[c] = "CALLING" /\ \A d \in Ids \ {c} : inv'[d] = inv[d]
  BY DEF MakeDialled, IdsInv, TypeOK
<1>4. cb[c].at = "none" /\ \A s \in Slots : call[s].id # c
  BY <1>1, InvalidAssumption DEF IdsInv, CallbackOfSession, IdsAreLive
<1> HIDE DEF t
<1>5. \A d \in Ids, r \in Slots :
        Writes(d, r)' => Writes(d, r) /\ r # t /\ d # c /\ inv'[d] = inv[d]
  BY <1>1, <1>3, <1>4 DEF Writes, WriterOwnsSlot, t
<1>6. WriterOwnsSlot' /\ NoWriterOfEnded'
  BY <1>1, <1>2, <1>5 DEF WriterOwnsSlot, NoWriterOfEnded
<1>7. OnlyMakeHasNoState' /\ HangupExcludesWriter'
  BY <1>1, <1>2, InvalidAssumption DEF OnlyMakeHasNoState, HangupExcludesWriter
<1>8. NeverAhead'
  <2>1. Progress["NULL"] <= Progress["CALLING"]
    BY DEF Progress
  <2>2. \A s \in Slots : s # t /\ call[s].id # Invalid => call[s].id \in Ids \ {c}
    BY <1>4 DEF IdsInv, TypeOK
  <2>3. QED BY <1>1, <1>2, <1>3, <2>1, <2>2 DEF NeverAhead
<1>9. QED BY <1>6, <1>7, <1>8

LEMMA MakeFailedTableInv ==
  ASSUME IdsInv, TableInv, MakeFailed
  PROVE  TableInv'
<1> USE DEF TableInv
<1>1. /\ app.pc = "claimed" /\ app'.pc = "idle" /\ UNCHANGED <<command, inv, cb>>
      /\ call' = call
  BY DEF MakeFailed, OnlyMakeHasNoState, IdsInv, TypeOK, Idle
<1>2. WriterOwnsSlot' /\ NoWriterOfEnded' /\ NeverAhead'
  BY <1>1 DEF WriterOwnsSlot, NoWriterOfEnded, NeverAhead, Writes
<1>3. OnlyMakeHasNoState' /\ HangupExcludesWriter'
  BY <1>1 DEF OnlyMakeHasNoState, HangupExcludesWriter
<1>4. QED BY <1>2, <1>3

\* "CALLING" may be late, but it is never more than the session has reached.
LEMMA MakeDoneTableInv ==
  ASSUME IdsInv, TableInv, MakeDone
  PROVE  TableInv'
<1> USE DEF TableInv
<1> DEFINE t == app.slot
<1>1. /\ app.pc = "stored" /\ app'.pc = "idle" /\ UNCHANGED <<command, inv, cb>>
      /\ t \in Slots
  BY DEF MakeDone, OnlyMakeHasNoState, Idle
<1>2. /\ call'[t].id = call[t].id /\ call'[t].state = "CALLING"
      /\ \A r \in Slots : r # t => call'[r] = call[r]
  BY <1>1 DEF MakeDone, IdsInv, TypeOK
<1>3. \A d \in Ids, r \in Slots : Writes(d, r)' <=> Writes(d, r)
  BY <1>1 DEF Writes
<1> HIDE DEF t
<1>4. WriterOwnsSlot' /\ NoWriterOfEnded'
  BY <1>1, <1>2, <1>3 DEF WriterOwnsSlot, NoWriterOfEnded
<1>5. OnlyMakeHasNoState' /\ HangupExcludesWriter'
  BY <1>1, <1>2 DEF OnlyMakeHasNoState, HangupExcludesWriter, t
<1>6. NeverAhead'
  <2> SUFFICES ASSUME NEW s \in Slots, call'[s].id # Invalid, command # "test"
               PROVE  Progress[call'[s].state] <= Progress[inv[call'[s].id]]
    BY <1>1 DEF NeverAhead
  <2>1. call'[s].id = call[s].id /\ inv[call[s].id] \in InvState \ {"FREE"}
    BY <1>2 DEF IdsInv, TypeOK, IdsAreLive
  <2>2. /\ Progress[inv[call[s].id]] \in Nat /\ 1 <= Progress[inv[call[s].id]]
        /\ Progress["CALLING"] = 1
    BY <2>1 DEF InvState, CallState, Progress
  <2>3. CASE s = t
    BY <1>2, <2>1, <2>2, <2>3
  <2>4. CASE s # t
    BY <1>2, <2>4 DEF NeverAhead
  <2>5. QED BY <2>3, <2>4
<1>7. QED BY <1>4, <1>5, <1>6

----------------------------------------------------------------------------
LEMMA HangupMarkTableInv ==
  ASSUME IdsInv, TableInv, NEW s \in Slots, HangupMark(s)
  PROVE  TableInv'
<1> USE DEF TableInv
<1>1. /\ app.pc = "idle" /\ call[s].id # Invalid /\ UNCHANGED <<command, inv, cb>>
      /\ app' = [pc |-> "marked", slot |-> s, id |-> call[s].id]
  BY DEF HangupMark
<1>2. /\ call'[s].id = Invalid /\ call'[s].state = call[s].state
      /\ \A r \in Slots : r # s => call'[r] = call[r]
  BY DEF HangupMark, IdsInv, TypeOK
<1>3. \A d \in Ids, r \in Slots : Writes(d, r)' <=> Writes(d, r)
  BY <1>1 DEF Writes
<1>4. call[s].state # "NULL"
  BY <1>1 DEF OnlyMakeHasNoState
<1>5. WriterOwnsSlot' /\ NoWriterOfEnded'
  BY <1>1, <1>2, <1>3, <1>4 DEF WriterOwnsSlot, NoWriterOfEnded
<1>6. OnlyMakeHasNoState'
  BY <1>1, <1>2 DEF OnlyMakeHasNoState
<1>7. \A d \in Ids : Writes(d, s) => d = call[s].id
  BY <1>1 DEF WriterOwnsSlot
<1>8. HangupExcludesWriter'
  BY <1>1, <1>2, <1>3, <1>4, <1>7 DEF HangupExcludesWriter
<1>9. NeverAhead'
  BY <1>1, <1>2 DEF NeverAhead
<1>10. QED BY <1>5, <1>6, <1>8, <1>9

\* PJSUA lets the request pass only when no callback of the session runs.
LEMMA HangupAskTableInv ==
  ASSUME IdsInv, TableInv, HangupAsk
  PROVE  TableInv'
<1> USE DEF TableInv
<1>1. /\ app.pc = "marked" /\ cb[app.id].at = "none"
      /\ app'.pc = "asked" /\ app'.slot = app.slot
      /\ UNCHANGED <<command, call, inv, cb>>
  BY DEF HangupAsk, IdsInv, TypeOK
<1>2. \A d \in Ids, r \in Slots : Writes(d, r)' <=> Writes(d, r)
  BY <1>1 DEF Writes
<1>3. \A d \in Ids : ~Writes(d, app.slot)
  BY <1>1 DEF HangupExcludesWriter, Writes
<1>4. WriterOwnsSlot' /\ NoWriterOfEnded' /\ NeverAhead'
  BY <1>1, <1>2 DEF WriterOwnsSlot, NoWriterOfEnded, NeverAhead
<1>5. OnlyMakeHasNoState' /\ HangupExcludesWriter'
  BY <1>1, <1>2, <1>3 DEF OnlyMakeHasNoState, HangupExcludesWriter
<1>6. QED BY <1>4, <1>5

LEMMA HangupDoneTableInv ==
  ASSUME IdsInv, TableInv, HangupDone
  PROVE  TableInv'
<1> USE DEF TableInv
<1> DEFINE t == app.slot
<1>1. /\ app.pc = "asked" /\ app'.pc = "idle" /\ UNCHANGED <<command, inv, cb>>
      /\ t \in Slots /\ call[t].id = Invalid
      /\ \A d \in Ids : ~Writes(d, t)
  BY DEF HangupDone, OnlyMakeHasNoState, HangupExcludesWriter, Idle
<1>2. /\ call'[t].id = Invalid /\ call'[t].state = "DISCONNECTED"
      /\ \A r \in Slots : r # t => call'[r] = call[r]
  BY <1>1 DEF HangupDone, IdsInv, TypeOK
<1>3. \A d \in Ids, r \in Slots : Writes(d, r)' => Writes(d, r) /\ r # t
  BY <1>1 DEF Writes
<1> HIDE DEF t
<1>4. WriterOwnsSlot' /\ NoWriterOfEnded'
  BY <1>1, <1>2, <1>3 DEF WriterOwnsSlot, NoWriterOfEnded
<1>5. OnlyMakeHasNoState' /\ HangupExcludesWriter'
  BY <1>1, <1>2 DEF OnlyMakeHasNoState, HangupExcludesWriter
<1>6. NeverAhead'
  BY <1>1, <1>2 DEF NeverAhead
<1>7. QED BY <1>4, <1>5, <1>6

LEMMA HangupAllTableInv ==
  ASSUME IdsInv, TableInv, HangupAll
  PROVE  TableInv'
<1> USE DEF TableInv
<1>1. CASE HangupAllAsk
  <2>1. /\ app.pc = "idle" /\ app'.pc = "draining"
        /\ UNCHANGED <<command, call, inv, cb>>
    BY <1>1 DEF HangupAllAsk, IdsInv, TypeOK
  <2>2. WriterOwnsSlot' /\ NoWriterOfEnded' /\ NeverAhead'
    BY <2>1 DEF WriterOwnsSlot, NoWriterOfEnded, NeverAhead, Writes
  <2>3. QED BY <2>1, <2>2 DEF OnlyMakeHasNoState, HangupExcludesWriter
<1>2. CASE HangupAllMark
  <2>1. /\ app.pc = "draining" /\ app'.pc = "closed"
        /\ UNCHANGED <<command, inv, cb>>
    BY <1>2 DEF HangupAllMark, IdsInv, TypeOK
  <2>2. \A s \in Slots :
          /\ call'[s].id = Invalid
          /\ call'[s].state = "NULL" => call[s].state = "NULL" /\ call[s].id = Invalid
    BY <1>2 DEF HangupAllMark
  <2>3. WriterOwnsSlot' /\ NoWriterOfEnded' /\ NeverAhead'
    BY <2>1, <2>2 DEF WriterOwnsSlot, NoWriterOfEnded, NeverAhead, Writes
  <2>4. QED BY <2>1, <2>2, <2>3 DEF OnlyMakeHasNoState, HangupExcludesWriter
<1>3. QED BY <1>1, <1>2 DEF HangupAll

----------------------------------------------------------------------------
LEMMA InitSlotInv == Init => SlotInv
BY DEF Init, SlotInv, ModeInv, TableInv, WriterOwnsSlot, OnlyMakeHasNoState,
       HangupExcludesWriter, NoWriterOfEnded, NeverAhead, Writes, NoCallback, Idle

\* A process runs one command from its first step to its last.
LEMMA CommandStays == [Next]_vars => UNCHANGED command
BY DEF Next, vars, Arrive, Callbacks, OnCallState, ApplyState, IgnoreState,
       LeaveRinging, TrackIncoming, RejectIncoming, AnswerIncoming, Make, MakeClaim, MakeDialled,
       MakeFailed, MakeDone, Hangup, HangupMark, HangupAsk, HangupDone,
       HangupAll, HangupAllAsk, HangupAllMark

LEMMA NextSlotInv == IdsInv /\ SlotInv /\ [Next]_vars => SlotInv'
<1> SUFFICES ASSUME IdsInv, SlotInv, [Next]_vars
             PROVE  SlotInv'
  OBVIOUS
<1>1. ModeInv'
  BY ModeStep DEF SlotInv
<1>2. ASSUME command # "test"
      PROVE  TableInv'
  <2>1. TableInv /\ ModeInv
    BY <1>2 DEF SlotInv
  <2>2. ASSUME NEW c \in Ids, Arrive(c) \/ Callbacks(c)
        PROVE  TableInv'
    BY <1>2, <2>1, <2>2, ArriveTableInv, OnCallStateTableInv, ApplyStateTableInv,
       IgnoreStateTableInv, LeaveRingingTableInv, TrackIncomingTableInv, RejectIncomingTableInv,
       AnswerIncomingTableInv
       DEF Callbacks
  <2>3. CASE Make
    BY <2>1, <2>3, MakeClaimTableInv, MakeDialledTableInv, MakeFailedTableInv,
       MakeDoneTableInv
       DEF Make
  <2>4. CASE Hangup \/ HangupAll
    BY <2>1, <2>4, HangupMarkTableInv, HangupAskTableInv, HangupDoneTableInv,
       HangupAllTableInv
       DEF Hangup
  <2>5. CASE UNCHANGED vars
    BY <2>1, <2>5
       DEF vars, TableInv, WriterOwnsSlot, OnlyMakeHasNoState,
           HangupExcludesWriter, NoWriterOfEnded, NeverAhead, Writes
  <2>6. QED BY <2>2, <2>3, <2>4, <2>5 DEF Next
<1>3. QED BY <1>1, <1>2, CommandStays DEF SlotInv

LEMMA AlwaysSlotInv == Spec => [](IdsInv /\ SlotInv)
BY InitIdsInv, InitSlotInv, NextIdsInv, NextSlotInv, PTL DEF Spec

\* In every command but `test`, a slot never shows a call further than PJSUA
\* reported it: vu_call_wait_connected succeeds only for connected calls.
THEOREM SlotsNeverAhead == Spec => []NeverAhead
<1>1. SlotInv => NeverAhead
  BY DEF SlotInv, TableInv, NeverAhead
<1>2. QED BY <1>1, AlwaysSlotInv, PTL

\* In every command but `test`, a call that a callback or vu_call_hangup ended
\* is never brought back by a callback still in flight.
THEOREM EndIsFinal == Spec => EndedStaysEnded
<1> DEFINE Stays == \A s \in Slots :
             /\ command # "test" /\ app.pc \notin {"stored", "closed"}
             /\ call[s].state = "DISCONNECTED"
             => call'[s].state = "DISCONNECTED"
<1>1. IdsInv /\ SlotInv /\ [Next]_vars => [Stays]_vars
  <2> SUFFICES ASSUME IdsInv, SlotInv, Next, NEW s \in Slots,
                      command # "test", app.pc \notin {"stored", "closed"},
                      call[s].state = "DISCONNECTED"
               PROVE  call'[s].state = "DISCONNECTED"
    OBVIOUS
  <2>1. TypeOK /\ TableInv
    BY DEF IdsInv, SlotInv
  <2>2. ASSUME NEW c \in Ids, ApplyState(c)
        PROVE  call'[s].state = "DISCONNECTED"
    <3>1. CASE cb[c].slot = s
      <4>1. inv[c] = "DISCONNECTED"
        BY <2>1, <2>2, <3>1 DEF TableInv, NoWriterOfEnded, Writes, ApplyState
      <4>2. call'[s] = StateChanged(call[s], inv[c])
        BY <2>1, <2>2, <3>1 DEF ApplyState, TypeOK
      <4>3. QED BY <4>1, <4>2 DEF StateChanged
    <3>2. CASE cb[c].slot # s
      BY <2>1, <2>2, <3>2 DEF ApplyState, TypeOK
    <3>3. QED BY <3>1, <3>2
  <2>3. ASSUME NEW c \in Ids, Arrive(c) \/ Callbacks(c), ~ApplyState(c)
        PROVE  call'[s].state = "DISCONNECTED"
    <3>1. CASE TrackIncoming(c)
      BY <2>1, <3>1 DEF TrackIncoming, First, FreeSlots, TypeOK
    <3>2. CASE ~TrackIncoming(c)
      BY <2>3, <3>2 DEF Arrive, Callbacks, OnCallState, IgnoreState,
                        LeaveRinging, RejectIncoming, AnswerIncoming
    <3>3. QED BY <3>1, <3>2
  <2>4. CASE Make
    <3>1. CASE MakeClaim
      BY <2>1, <3>1 DEF MakeClaim, First, FreeSlots, TypeOK
    <3>2. CASE (\E c \in Ids : MakeDialled(c)) \/ MakeFailed
      BY <2>1, <3>2 DEF MakeDialled, MakeFailed, TypeOK
    <3>3. QED BY <2>4, <3>1, <3>2 DEF Make, MakeDone
  <2>5. CASE Hangup
    BY <2>1, <2>5 DEF Hangup, HangupMark, HangupAsk, HangupDone, TypeOK
  <2>6. CASE HangupAll
    BY <2>6 DEF HangupAll, HangupAllAsk, HangupAllMark
  <2>7. QED BY <2>2, <2>3, <2>4, <2>5, <2>6 DEF Next
<1>2. QED BY <1>1, AlwaysSlotInv, PTL DEF Spec, EndedStaysEnded
=============================================================================
