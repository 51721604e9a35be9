------------------------ MODULE CallLifecycleProofs ------------------------
(***************************************************************************)
(* What CallTableProofs yields: no session is lost from the table, a table  *)
(* that only receives keeps in step with PJSUA, and implements the          *)
(* lifecycle that the waiting code relies on.                               *)
(***************************************************************************)
EXTENDS CallTableProofs

\* A step that untracks no session, and brings in none that is not tracked.
LEMMA StillTracked ==
  ASSUME NoOrphan, UNCHANGED command,
         app'.pc # "closed" => app.pc # "closed",
         \A d \in Ids : Handled(d)' =>
           \/ Tracked(d)'
           \/ Handled(d) /\ (Tracked(d) => Tracked(d)')
  PROVE  NoOrphan'
BY DEF NoOrphan

LEMMA CallbackNoOrphan ==
  ASSUME IdsInv, SlotInv, NoOrphan, NEW c \in Ids, Arrive(c) \/ Callbacks(c),
         command # "test"
  PROVE  NoOrphan'
<1> USE DEF Tracked, BeingHungUp, SlotsWith, Live, Handled, Receives
<1>1. TypeOK /\ TableInv
  BY DEF IdsInv, SlotInv
<1>2. CASE Arrive(c)
  <2>1. UNCHANGED <<command, call, told, app>>
    BY <1>2 DEF Arrive
  <2>2. \A d \in Ids : Handled(d)' => Handled(d)
    BY <1>1, <1>2 DEF Arrive, TypeOK
  <2>3. QED BY <2>1, <2>2, StillTracked
<1>3. CASE OnCallState(c)
  <2>1. UNCHANGED <<command, call, told, app>>
    BY <1>3 DEF OnCallState
  <2>2. \A d \in Ids : Handled(d)' => Handled(d)
    <3>1. PICK st \in InvNext[inv[c]] :
            /\ inv[c] = "INCOMING" /\ st = "CONNECTING" => c \in answered
            /\ inv' = [inv EXCEPT ![c] = st]
      BY <1>3 DEF OnCallState
    <3>2. PICK t \in Slots \cup {NoSlot} :
            cb' = [cb EXCEPT ![c] = [at |-> "state", slot |-> t]]
      BY <1>3 DEF OnCallState
    <3>3. Live(c) /\ cb[c].at # "arrived"
      BY <1>3 DEF OnCallState
    <3>4. Live(c)' /\ inv[c] = "INCOMING" => Receives
      <4>1. inv[c] = "INCOMING" => st \in {"CONNECTING", "DISCONNECTED"}
        BY <3>1 DEF InvNext
      <4>2. inv'[c] = st
        BY <1>1, <3>1 DEF TypeOK
      <4>3. QED BY <3>1, <4>1, <4>2 DEF SlotInv, ModeInv
    <3>5. Handled(c)' => Handled(c)
      BY <2>1, <3>3, <3>4
    <3>6. \A d \in Ids \ {c} : inv'[d] = inv[d] /\ cb'[d] = cb[d]
      BY <1>1, <3>1, <3>2 DEF TypeOK
    <3>7. QED BY <2>1, <3>5, <3>6
  <2>3. QED BY <2>1, <2>2, StillTracked
<1>4. ASSUME CallbackReturns(c), cb[c].at # "arrived"
      PROVE  \A d \in Ids : Live(d)' =>
               /\ cb'[d] = cb[d] \/ d = c
               /\ inv'[d] = inv[d] /\ Live(d)
               /\ d \in told => d \in told'
               /\ d = c => inv[c] # "DISCONNECTED"
  <2>1. inv[c] = "DISCONNECTED" => told' = told \ {c}
    BY <1>4 DEF CallbackReturns
  <2>2. inv[c] # "DISCONNECTED" => told' = told
    BY <1>4 DEF CallbackReturns
  <2>3. QED BY <1>1, <1>4, <2>1, <2>2, CallbackReturnsTypes
<1>5. CASE ApplyState(c)
  <2> DEFINE t == cb[c].slot
  <2>1. /\ CallbackReturns(c) /\ cb[c].at = "state" /\ t \in Slots
        /\ call' = [call EXCEPT ![t] = StateChanged(@, inv[c])]
        /\ UNCHANGED <<command, app>>
    BY <1>1, <1>5 DEF ApplyState, TypeOK, Callback
  <2>2. call[t].id \in {c, Invalid}
    BY <1>1, <2>1 DEF TableInv, WriterOwnsSlot, Writes
  <2> HIDE DEF t
  <2>3. \A r \in Slots, d \in Ids :
          call[r].id = d /\ (d = c => inv[c] # "DISCONNECTED") => call'[r].id = d
    <3>1. \A r \in Slots : r # t => call'[r] = call[r]
      BY <1>1, <2>1 DEF TypeOK
    <3>2. call'[t] = StateChanged(call[t], inv[c])
      BY <1>1, <2>1 DEF TypeOK
    <3>3. inv[c] # "DISCONNECTED" => call'[t].id = call[t].id
      BY <1>1, <2>1, <3>2 DEF StateChanged, TypeOK
    <3>4. QED BY <2>2, <3>1, <3>3, InvalidAssumption
  <2>4. QED BY <1>4, <2>1, <2>3, StillTracked
<1>6. CASE IgnoreState(c)
  <2>1. /\ CallbackReturns(c) /\ cb[c].at = "state"
        /\ UNCHANGED <<command, call, app>>
    BY <1>6 DEF IgnoreState
  <2>2. QED BY <1>4, <2>1, StillTracked
<1>7. CASE LeaveRinging(c)
  <2>1. /\ inv[c] = "INCOMING" /\ ~Receives /\ CallbackReturns(c)
        /\ UNCHANGED <<command, call, app>>
    BY <1>7 DEF LeaveRinging, IdsInv, ArrivedUntracked
  <2>2. UNCHANGED <<inv, told>> /\ \A d \in Ids \ {c} : cb'[d] = cb[d]
    BY <1>1, <2>1, CallbackReturnsTypes DEF CallbackReturns
  <2>3. QED BY <2>1, <2>2, StillTracked
<1>8. CASE TrackIncoming(c)
  <2>1. SlotsWith(c) = {} /\ UNCHANGED <<command, inv, told, app>>
    BY <1>8 DEF IdsInv, ArrivedUntracked, TrackIncoming
  <2>2. PICK s \in FreeSlots :
          /\ call' = [call EXCEPT ![s] = [id |-> c, state |-> "INCOMING"]]
          /\ cb' = [cb EXCEPT ![c] = [at |-> "claimed", slot |-> s]]
    BY <1>8, <2>1 DEF TrackIncoming, First
  <2>3. s \in Slots /\ call[s].id = Invalid
    BY DEF FreeSlots
  <2>4. call'[s].id = c /\ \A r \in Slots : r # s => call'[r] = call[r]
    BY <1>1, <2>2, <2>3 DEF TypeOK
  <2>5. \A d \in Ids : d # c => cb'[d] = cb[d]
    BY <1>1, <2>2 DEF TypeOK
  <2>6. QED BY <2>1, <2>3, <2>4, <2>5, InvalidAssumption, StillTracked
<1>9. CASE RejectIncoming(c)
  BY <1>1, <1>9, StillTracked DEF RejectIncoming, TypeOK
<1>10. CASE AnswerIncoming(c)
  <2>1. UNCHANGED <<command, call, inv, told, app>> /\ cb[c].at = "claimed"
    BY <1>10 DEF AnswerIncoming
  <2>2. \A d \in Ids : d # c => cb'[d] = cb[d]
    BY <1>1, <1>10 DEF AnswerIncoming, TypeOK
  <2>3. QED BY <2>1, <2>2, StillTracked
<1>11. QED BY <1>2, <1>3, <1>5, <1>6, <1>7, <1>8, <1>9, <1>10 DEF Callbacks

LEMMA MainThreadNoOrphan ==
  ASSUME IdsInv, SlotInv, NoOrphan, Make \/ Hangup \/ HangupAll, command # "test"
  PROVE  NoOrphan'
<1> USE DEF Tracked, BeingHungUp, SlotsWith, Live, Handled, Receives
<1>1. TypeOK /\ TableInv
  BY DEF IdsInv, SlotInv
<1>2. CASE MakeClaim
  <2>1. PICK s \in FreeSlots :
          call' = [call EXCEPT ![s] = [id |-> Invalid, state |-> "NULL"]]
    BY <1>2 DEF MakeClaim, First
  <2>2. \A r \in Slots : call'[r].id = call[r].id
    BY <1>1, <2>1 DEF FreeSlots, TypeOK
  <2>3. app.pc = "idle" /\ app'.pc = "claimed" /\ UNCHANGED <<command, inv, cb, told>>
    BY <1>2 DEF MakeClaim
  <2>4. QED BY <2>2, <2>3, StillTracked
<1>3. ASSUME NEW c \in Ids, MakeDialled(c)
      PROVE  NoOrphan'
  <2>1. /\ app.pc = "claimed" /\ app'.pc = "stored" /\ UNCHANGED <<command, cb, told>>
        /\ app.slot \in Slots /\ call[app.slot].id = Invalid
    BY <1>1, <1>3 DEF MakeDialled, TableInv, OnlyMakeHasNoState, TypeOK
  <2>2. /\ call'[app.slot].id = c
        /\ \A r \in Slots : r # app.slot => call'[r] = call[r]
    BY <1>1, <1>3, <2>1 DEF MakeDialled, TypeOK
  <2>3. \A d \in Ids : d # c => inv'[d] = inv[d]
    BY <1>1, <1>3 DEF MakeDialled, TypeOK
  <2>4. QED BY <2>1, <2>2, <2>3, InvalidAssumption, StillTracked
<1>4. CASE MakeFailed \/ MakeDone \/ HangupDone
  <2>1. \A r \in Slots : call[r].id # Invalid => call'[r].id = call[r].id
    <3>1. CASE MakeFailed
      BY <1>1, <3>1 DEF MakeFailed, TableInv, OnlyMakeHasNoState, TypeOK
    <3>2. CASE MakeDone
      BY <1>1, <3>2 DEF MakeDone, TypeOK
    <3>3. CASE HangupDone
      BY <1>1, <3>3 DEF HangupDone, TypeOK
    <3>4. QED BY <1>4, <3>1, <3>2, <3>3
  <2>2. /\ app.pc \in {"claimed", "stored", "asked"} /\ app'.pc = "idle"
        /\ UNCHANGED <<command, inv, cb, told>>
    BY <1>4 DEF MakeFailed, MakeDone, HangupDone, Idle
  <2>3. QED BY <2>1, <2>2, InvalidAssumption, StillTracked
<1>5. ASSUME NEW s \in Slots, HangupMark(s)
      PROVE  NoOrphan'
  <2>1. /\ app.pc = "idle" /\ UNCHANGED <<command, inv, cb, told>>
        /\ app'.pc = "marked" /\ app'.id = call[s].id
    BY <1>5 DEF HangupMark
  <2>2. \A r \in Slots : r # s => call'[r] = call[r]
    BY <1>1, <1>5 DEF HangupMark, TypeOK
  <2>3. QED BY <2>1, <2>2, StillTracked
<1>6. CASE HangupAsk
  BY <1>1, <1>6, StillTracked DEF HangupAsk, TypeOK
<1>7. CASE HangupAllAsk
  BY <1>1, <1>7, StillTracked DEF HangupAllAsk, TypeOK
<1>8. CASE HangupAllMark
  BY <1>1, <1>8 DEF HangupAllMark, NoOrphan, TypeOK
<1>9. QED BY <1>2, <1>3, <1>4, <1>5, <1>6, <1>7, <1>8
          DEF Make, Hangup, HangupAll

\* In every command but `test`, a session the command dialled, or one whose
\* on_incoming_call took it, is in the table, being hung up or told to end
\* (call.c:122, 161, 359).  A call that comes in to `call` is not covered, nor
\* one whose on_incoming_call did not run yet: neither is in the table.
THEOREM NoSessionIsLost == Spec => []NoOrphan
<1>1. Init => NoOrphan
  BY DEF Init, NoOrphan, Handled, Live
<1>2. IdsInv /\ SlotInv /\ NoOrphan /\ [Next]_vars => NoOrphan'
  <2> SUFFICES ASSUME IdsInv, SlotInv, NoOrphan, [Next]_vars, command # "test"
               PROVE  NoOrphan'
    BY CommandStays DEF NoOrphan
  <2>1. CASE Next
    BY <2>1, CallbackNoOrphan, MainThreadNoOrphan DEF Next
  <2>2. CASE UNCHANGED vars
    BY <2>2
       DEF vars, NoOrphan, Handled, Receives, Live, Tracked, SlotsWith, BeingHungUp
  <2>3. QED BY <2>1, <2>2
<1>3. QED BY <1>1, <1>2, AlwaysSlotInv, PTL DEF Spec

----------------------------------------------------------------------------
(***************************************************************************)
(* Commands that only receive: vu_call_make never writes, so a slot differs *)
(* from its session only while a callback is on its way to it.              *)
(***************************************************************************)

\* What a slot shows, or which callback is about to change it.
InStep ==
  \A c \in Ids, s \in Slots : call[s].id = c =>
    IF cb[c].at = "state" THEN cb[c].slot = s ELSE call[s].state = inv[c]

\* A callback never writes less than its slot already shows.
WriterIsAhead ==
  app.pc # "closed" =>
    \A c \in Ids, s \in Slots : Writes(c, s) =>
      Progress[call[s].state] <= Progress[inv[c]]

ReceiverInv == command = "receive" => InStep /\ WriterIsAhead

LEMMA InitReceiverInv == Init => ReceiverInv
BY InvalidAssumption
   DEF Init, ReceiverInv, InStep, WriterIsAhead, Writes, NoCallback

LEMMA CallbackReceiverInv ==
  ASSUME IdsInv, SlotInv, InStep, WriterIsAhead, command = "receive",
         NEW c \in Ids, Arrive(c) \/ Callbacks(c)
  PROVE  InStep' /\ WriterIsAhead'
<1>1. TypeOK /\ TableInv
  BY DEF IdsInv, SlotInv
<1>2. CASE Arrive(c)
  <2>1. UNCHANGED <<call, app>> /\ \A s \in Slots : call[s].id # c
    BY <1>2, InvalidAssumption DEF Arrive, IdsInv, IdsAreLive
  <2>2. /\ cb'[c].at = "arrived"
        /\ \A d \in Ids \ {c} : inv'[d] = inv[d] /\ cb'[d] = cb[d]
    BY <1>1, <1>2 DEF Arrive, TypeOK
  <2>3. QED BY <2>1, <2>2 DEF InStep, WriterIsAhead, Writes
<1>3. CASE OnCallState(c)
  <2>1. PICK st \in InvNext[inv[c]] : inv' = [inv EXCEPT ![c] = st]
    BY <1>3 DEF OnCallState
  <2>2. PICK t \in Slots \cup {NoSlot} :
          /\ IF SlotsWith(c) = {} THEN t = NoSlot ELSE First(t, SlotsWith(c))
          /\ cb' = [cb EXCEPT ![c] = [at |-> "state", slot |-> t]]
    BY <1>3 DEF OnCallState
  <2>3. /\ UNCHANGED <<call, app>> /\ inv'[c] = st
        /\ cb'[c] = [at |-> "state", slot |-> t]
        /\ \A d \in Ids \ {c} : inv'[d] = inv[d] /\ cb'[d] = cb[d]
    BY <1>1, <1>3, <2>1, <2>2 DEF OnCallState, TypeOK
  <2>4. \A s \in Slots : call[s].id = c => s = t
    BY <2>2, InvalidAssumption DEF IdsInv, IdsAreLive, SlotsWith, First
  <2>5. InStep'
    BY <2>3, <2>4 DEF InStep
  <2>6. t \in Slots => Progress[call[t].state] <= Progress[st]
    <3> SUFFICES ASSUME t \in Slots
                 PROVE  Progress[call[t].state] <= Progress[st]
      OBVIOUS
    <3>1. call[t].id = c
      BY <2>2 DEF SlotsWith, First, NoSlot, Slots
    <3>2. /\ Progress[call[t].state] <= Progress[inv[c]]
          /\ Progress[call[t].state] \in Nat
      BY <1>1, <3>1, InvalidAssumption, ProgressIsNat DEF TableInv, NeverAhead, TypeOK
    <3>3. inv[c] \in InvState \ {"FREE", "DISCONNECTED"}
      BY <1>1, <1>3 DEF OnCallState, Live, TypeOK
    <3>4. /\ Progress[inv[c]] <= Progress[st] /\ Progress[st] \in Nat
          /\ Progress[inv[c]] \in Nat
      BY <2>1, <3>3, InvNextProgress, ProgressIsNat DEF InvState
    <3>5. QED BY <3>2, <3>4
  <2>7. WriterIsAhead'
    BY <2>3, <2>6 DEF WriterIsAhead, Writes
  <2>8. QED BY <2>5, <2>7
<1>4. ASSUME CallbackReturns(c)
      PROVE  /\ cb'[c].at = "none" /\ (inv[c] # "DISCONNECTED" => inv'[c] = inv[c])
             /\ \A d \in Ids \ {c} : inv'[d] = inv[d] /\ cb'[d] = cb[d]
  BY <1>1, <1>4, CallbackReturnsTypes
<1>5. CASE ApplyState(c)
  <2> DEFINE t == cb[c].slot
  <2>1. /\ CallbackReturns(c) /\ Writes(c, t) /\ t \in Slots
        /\ call' = [call EXCEPT ![t] = StateChanged(@, inv[c])]
        /\ app' = app
    BY <1>1, <1>5 DEF ApplyState, Writes, TypeOK, Callback
  <2>2. /\ call'[t] = StateChanged(call[t], inv[c])
        /\ \A s \in Slots : s # t => call'[s] = call[s]
    BY <1>1, <2>1 DEF TypeOK
  <2>3. /\ call'[t].id \in {c, Invalid} /\ call'[t].state = inv[c]
        /\ inv[c] = "DISCONNECTED" => call'[t].id = Invalid
    <3>1. call[t].id \in {c, Invalid}
      BY <1>1, <2>1 DEF TableInv, WriterOwnsSlot
    <3>2. inv[c] \in InvState \ {"FREE"}
      BY <1>1, <2>1 DEF IdsInv, TypeOK, CallbackOfSession, Writes
    <3>3. call[t] \in [id : Ids \cup {Invalid}, state : CallState]
      BY <1>1, <2>1 DEF TypeOK
    <3>4. QED BY <2>2, <3>1, <3>2, <3>3, StateChangedEntry
  <2> HIDE DEF t
  <2>4. \A s \in Slots : s # t => call[s].id # c
    BY <2>1 DEF InStep, Writes
  <2>5. InStep'
    <3> SUFFICES ASSUME NEW d \in Ids, NEW s \in Slots, call'[s].id = d
                 PROVE  IF cb'[d].at = "state" THEN cb'[d].slot = s
                        ELSE call'[s].state = inv'[d]
      BY DEF InStep
    <3>1. CASE s = t
      BY <1>4, <2>1, <2>3, <3>1, InvalidAssumption
    <3>2. CASE s # t
      BY <1>4, <2>1, <2>2, <2>4, <3>2 DEF InStep
    <3>3. QED BY <3>1, <3>2
  <2>6. \A d \in Ids, s \in Slots :
          Writes(d, s)' => Writes(d, s) /\ s # t /\ inv'[d] = inv[d]
    BY <1>1, <1>4, <2>1 DEF Writes, TableInv, WriterOwnsSlot
  <2>7. WriterIsAhead'
    BY <2>1, <2>2, <2>6 DEF WriterIsAhead
  <2>8. QED BY <2>5, <2>7
<1>6. CASE IgnoreState(c)
  <2>1. CallbackReturns(c) /\ UNCHANGED <<call, app>>
    BY <1>6 DEF IgnoreState
  <2>2. \A s \in Slots : call[s].id # c
    BY <1>6 DEF InStep, IgnoreState, NoSlot, Slots
  <2>3. QED BY <1>4, <2>1, <2>2 DEF InStep, WriterIsAhead, Writes
<1>7. ~LeaveRinging(c)
  BY DEF LeaveRinging, Receives
<1>8. CASE TrackIncoming(c)
  <2>1. /\ SlotsWith(c) = {} /\ inv[c] = "INCOMING" /\ UNCHANGED <<inv, app>>
    BY <1>8 DEF IdsInv, ArrivedUntracked, TrackIncoming, SlotsWith
  <2>2. PICK s \in FreeSlots :
          /\ call' = [call EXCEPT ![s] = [id |-> c, state |-> "INCOMING"]]
          /\ cb' = [cb EXCEPT ![c] = [at |-> "claimed", slot |-> s]]
    BY <1>8, <2>1 DEF TrackIncoming, First
  <2>3. s \in Slots /\ call[s].id = Invalid /\ call[s].state = "NULL"
    BY DEF FreeSlots
  <2>4. /\ call'[s] = [id |-> c, state |-> "INCOMING"]
        /\ \A r \in Slots : r # s => call'[r] = call[r]
    BY <1>1, <2>2, <2>3 DEF TypeOK
  <2>5. /\ cb'[c].at = "claimed" /\ \A d \in Ids \ {c} : cb'[d] = cb[d]
    BY <1>1, <2>2 DEF TypeOK
  <2>6. \A r \in Slots : call[r].id # c
    BY <2>1 DEF SlotsWith
  <2>7. InStep'
    BY <2>1, <2>4, <2>5, <2>6 DEF InStep
  <2>8. \A d \in Ids, r \in Slots : Writes(d, r)' => Writes(d, r) /\ r # s
    BY <1>1, <2>3, <2>5 DEF Writes, TableInv, WriterOwnsSlot
  <2>9. WriterIsAhead'
    BY <2>1, <2>4, <2>8 DEF WriterIsAhead
  <2>10. QED BY <2>7, <2>9
<1>9. CASE RejectIncoming(c)
  <2>1. UNCHANGED <<call, app>> /\ \A s \in Slots : call[s].id # c
    BY <1>9 DEF IdsInv, ArrivedUntracked, RejectIncoming
  <2>2. /\ cb'[c] = [at |-> "state", slot |-> NoSlot]
        /\ \A d \in Ids \ {c} : inv'[d] = inv[d] /\ cb'[d] = cb[d]
    BY <1>1, <1>9 DEF RejectIncoming, TypeOK
  <2>3. QED BY <2>1, <2>2 DEF InStep, WriterIsAhead, Writes, NoSlot, Slots
<1>10. CASE AnswerIncoming(c)
  <2>1. UNCHANGED <<call, inv, app>> /\ cb[c].at = "claimed"
    BY <1>10 DEF AnswerIncoming
  <2>2. /\ cb'[c].at = "none" /\ \A d \in Ids \ {c} : cb'[d] = cb[d]
    BY <1>1, <1>10 DEF AnswerIncoming, NoCallback, TypeOK
  <2>3. QED BY <2>1, <2>2 DEF InStep, WriterIsAhead, Writes
<1>11. QED BY <1>2, <1>3, <1>5, <1>6, <1>7, <1>8, <1>9, <1>10 DEF Callbacks

LEMMA MainThreadReceiverInv ==
  ASSUME IdsInv, SlotInv, InStep, WriterIsAhead, command = "receive",
         Make \/ Hangup \/ HangupAll
  PROVE  InStep' /\ WriterIsAhead'
<1> USE InvalidAssumption
<1>1. TypeOK /\ TableInv
  BY DEF IdsInv, SlotInv
<1>2. ~Make
  BY DEF Make, MakeClaim, MakeDialled, MakeFailed, MakeDone, SlotInv, ModeInv, Dials
<1>3. ASSUME NEW s \in Slots, HangupMark(s)
      PROVE  InStep' /\ WriterIsAhead'
  <2>1. /\ UNCHANGED <<inv, cb>> /\ app.pc = "idle"
        /\ call'[s].id = Invalid /\ call'[s].state = call[s].state
        /\ \A r \in Slots : r # s => call'[r] = call[r]
    BY <1>1, <1>3 DEF HangupMark, TypeOK
  <2>2. QED BY <2>1 DEF InStep, WriterIsAhead, Writes
<1>4. CASE HangupAsk
  BY <1>4 DEF HangupAsk, InStep, WriterIsAhead, Writes
<1>5. CASE HangupDone
  <2>1. /\ UNCHANGED <<inv, cb>> /\ app.pc = "asked"
        /\ app.slot \in Slots /\ call'[app.slot].id = Invalid
        /\ \A r \in Slots : r # app.slot => call'[r] = call[r]
    BY <1>1, <1>5
       DEF HangupDone, TypeOK, TableInv, OnlyMakeHasNoState, HangupExcludesWriter
  <2>2. \A d \in Ids : ~Writes(d, app.slot)
    BY <1>1, <2>1 DEF TableInv, HangupExcludesWriter
  <2>3. QED BY <2>1, <2>2 DEF InStep, WriterIsAhead, Writes
<1>6. CASE HangupAllAsk
  BY <1>6 DEF HangupAllAsk, InStep, WriterIsAhead, Writes
<1>7. CASE HangupAllMark
  <2>1. app'.pc = "closed" /\ \A s \in Slots : call'[s].id = Invalid
    BY <1>1, <1>7 DEF HangupAllMark, TypeOK
  <2>2. QED BY <2>1 DEF InStep, WriterIsAhead
<1>8. QED BY <1>2, <1>3, <1>4, <1>5, <1>6, <1>7 DEF Hangup, HangupAll

LEMMA AlwaysReceiverInv == Spec => [](IdsInv /\ SlotInv /\ ReceiverInv)
<1>1. IdsInv /\ SlotInv /\ ReceiverInv /\ [Next]_vars => ReceiverInv'
  <2> SUFFICES ASSUME IdsInv, SlotInv, InStep, WriterIsAhead, [Next]_vars,
                      command = "receive"
               PROVE  InStep' /\ WriterIsAhead'
    BY CommandStays DEF ReceiverInv
  <2>1. CASE Next
    BY <2>1, CallbackReceiverInv, MainThreadReceiverInv DEF Next
  <2>2. CASE UNCHANGED vars
    BY <2>2 DEF vars, InStep, WriterIsAhead, Writes
  <2>3. QED BY <2>1, <2>2
<1>2. QED BY <1>1, InitReceiverInv, AlwaysSlotInv, PTL DEF Spec

\* When no callback of a received call is running, its slot shows the state
\* PJSUA last reported, whatever hangups and other callbacks did meanwhile.
THEOREM ReceiverStaysInStep == Spec => []ReceiverFollows
<1>1. IdsInv /\ SlotInv /\ ReceiverInv => ReceiverFollows
  BY DEF IdsInv, TypeOK, ReceiverInv, InStep, ReceiverFollows, Follows
<1>2. QED BY <1>1, AlwaysReceiverInv, PTL

----------------------------------------------------------------------------
(***************************************************************************)
(* The table of such a command implements CallLifecycle.                    *)
(***************************************************************************)

Phase == [s \in Slots |-> PhaseOf(call[s].state)]

Open == app.pc # "closed"

LEMMA PhasesOfStates ==
  ASSUME NEW st \in CallState
  PROVE  /\ PhaseOf(st) \in Lifecycle!Phases
         /\ PhaseOf(st) = "unused" <=> st = "NULL"
         /\ PhaseOf(st) = "talking" <=> st = "CONFIRMED"
         /\ PhaseOf(st) = "over" <=> st = "DISCONNECTED"
BY DEF PhaseOf, CallState, Lifecycle!Phases

\* A step at one slot of an open table.
LEMMA OneSlotStep ==
  ASSUME TypeOK, TypeOK', NEW s \in Slots, Open, Open',
         \A r \in Slots : r # s => call'[r] = call[r],
         \/ call'[s].state = call[s].state
         \/ call[s].state = "NULL" /\ call'[s].state = "INCOMING"
         \/ /\ call[s].state \notin {"NULL", "DISCONNECTED"}
            /\ call'[s].state # "NULL"
            /\ call[s].state = "CONFIRMED" =>
                 call'[s].state \in {"CONFIRMED", "DISCONNECTED"}
         \/ call[s].state = "DISCONNECTED" /\ call'[s].state = "DISCONNECTED"
  PROVE  [Lifecycle!LifecycleNext]_(Lifecycle!lifecycle)
<1>1. call[s].state \in CallState /\ call'[s].state \in CallState
  BY DEF TypeOK
<1>2. Phase' = [Phase EXCEPT ![s] = PhaseOf(call'[s].state)]
  BY DEF Phase
<1>3. \/ Phase'[s] = Phase[s]
      \/ Phase[s] = "unused" /\ Phase'[s] = "setup"
      \/ Phase[s] = "setup" /\ Phase'[s] = "talking"
      \/ Phase[s] \in {"setup", "talking"} /\ Phase'[s] = "over"
  BY <1>1, PhasesOfStates DEF Phase, Lifecycle!Phases, PhaseOf, CallState
<1>4. CASE Phase'[s] = Phase[s]
  BY <1>2, <1>4 DEF Phase, Open, Lifecycle!lifecycle
<1>5. CASE Phase[s] = "unused" /\ Phase'[s] = "setup"
  BY <1>2, <1>5 DEF Phase, Open, Lifecycle!Start, Lifecycle!LifecycleNext
<1>6. CASE Phase[s] = "setup" /\ Phase'[s] = "talking"
  BY <1>2, <1>6 DEF Phase, Open, Lifecycle!Connect, Lifecycle!LifecycleNext
<1>7. CASE Phase[s] \in {"setup", "talking"} /\ Phase'[s] = "over"
  BY <1>2, <1>7 DEF Phase, Open, Lifecycle!End, Lifecycle!LifecycleNext
<1>8. QED BY <1>3, <1>4, <1>5, <1>6, <1>7

LEMMA LifecycleStep ==
  ASSUME IdsInv, SlotInv, ReceiverInv, IdsInv', command = "receive", Next
  PROVE  [Lifecycle!LifecycleNext]_(Lifecycle!lifecycle)
<1>1. TypeOK /\ TypeOK' /\ TableInv /\ InStep /\ WriterIsAhead
  BY DEF IdsInv, SlotInv, ReceiverInv
<1>2. ~Make
  BY DEF Make, MakeClaim, MakeDialled, MakeFailed, MakeDone, SlotInv, ModeInv, Dials
<1>3. CASE ~Open
  <2>1. ~Hangup /\ ~HangupAll
    BY <1>3 DEF Open, Hangup, HangupMark, HangupAsk, HangupDone, HangupAll,
                HangupAllAsk, HangupAllMark
  <2>2. ~Open'
    BY <1>2, <1>3, <2>1
       DEF Open, Next, Arrive, Callbacks, OnCallState, ApplyState, IgnoreState,
           LeaveRinging, TrackIncoming, RejectIncoming, AnswerIncoming
  <2>3. Phase' \in [Slots -> Lifecycle!Phases]
    BY <1>1, PhasesOfStates DEF Phase, TypeOK
  <2>4. QED BY <1>3, <2>2, <2>3
            DEF Phase, Open, Lifecycle!Closed, Lifecycle!LifecycleNext
<1>4. CASE UNCHANGED call /\ (Open <=> Open')
  BY <1>4 DEF Phase, Open, Lifecycle!lifecycle
<1>5. ASSUME NEW c \in Ids, ApplyState(c), Open
      PROVE  [Lifecycle!LifecycleNext]_(Lifecycle!lifecycle)
  <2> DEFINE t == cb[c].slot
  <2>1. /\ Writes(c, t) /\ t \in Slots /\ app' = app
        /\ call' = [call EXCEPT ![t] = StateChanged(@, inv[c])]
    BY <1>1, <1>5 DEF ApplyState, Writes, TypeOK, Callback
  <2>2. /\ inv[c] \in InvState \ {"FREE"}
        /\ call[t] \in [id : Ids \cup {Invalid}, state : CallState]
    BY <1>1, <2>1 DEF IdsInv, TypeOK, CallbackOfSession, Writes
  <2> HIDE DEF t
  <2>3. \A r \in Slots : r # t => call'[r] = call[r]
    BY <1>1, <2>1 DEF TypeOK
  <2>4. call'[t].state = inv[c]
    BY <1>1, <2>1, <2>2, StateChangedEntry DEF TypeOK
  <2>5. call[t].state # "NULL"
    <3>1. app.pc # "stored"
      BY DEF SlotInv, ModeInv, Dials
    <3>2. QED BY <1>1, <2>1, <3>1, InvalidAssumption
              DEF TableInv, WriterOwnsSlot, OnlyMakeHasNoState
  <2>6. Progress[call[t].state] <= Progress[inv[c]]
    BY <1>1, <1>5, <2>1 DEF WriterIsAhead, Open
  <2>7. /\ call[t].state = "CONFIRMED" => inv[c] \in {"CONFIRMED", "DISCONNECTED"}
        /\ call[t].state = "DISCONNECTED" => inv[c] = "DISCONNECTED"
        /\ inv[c] # "NULL"
    BY <2>2, <2>6 DEF Progress, InvState, CallState
  <2>8. Open'
    BY <1>5, <2>1 DEF Open
  <2>9. QED BY <1>1, <1>5, <2>1, <2>3, <2>4, <2>5, <2>7, <2>8, OneSlotStep
<1>6. ASSUME NEW c \in Ids, TrackIncoming(c), Open
      PROVE  [Lifecycle!LifecycleNext]_(Lifecycle!lifecycle)
  <2>1. SlotsWith(c) = {} /\ app' = app
    BY <1>6 DEF IdsInv, ArrivedUntracked, TrackIncoming, SlotsWith
  <2>2. PICK s \in FreeSlots :
          call' = [call EXCEPT ![s] = [id |-> c, state |-> "INCOMING"]]
    BY <1>6, <2>1 DEF TrackIncoming, First
  <2>3. s \in Slots /\ call[s].state = "NULL" /\ call'[s].state = "INCOMING"
        /\ \A r \in Slots : r # s => call'[r] = call[r]
    BY <1>1, <2>2 DEF FreeSlots, TypeOK
  <2>4. Open'
    BY <1>6, <2>1 DEF Open
  <2>5. QED BY <1>1, <1>6, <2>3, <2>4, OneSlotStep
<1>7. ASSUME NEW s \in Slots, HangupMark(s)
      PROVE  [Lifecycle!LifecycleNext]_(Lifecycle!lifecycle)
  <2>1. Open /\ Open' /\ call'[s].state = call[s].state
        /\ \A r \in Slots : r # s => call'[r] = call[r]
    BY <1>1, <1>7 DEF HangupMark, TypeOK, Open
  <2>2. QED BY <1>1, <2>1, OneSlotStep
<1>8. CASE HangupDone
  <2> DEFINE t == app.slot
  <2>1. /\ Open /\ Open' /\ t \in Slots /\ call[t].state # "NULL"
        /\ call' = [call EXCEPT ![t].state = "DISCONNECTED"]
    BY <1>1, <1>8
       DEF HangupDone, Idle, Open, TableInv, OnlyMakeHasNoState, HangupExcludesWriter
  <2> HIDE DEF t
  <2>2. /\ call'[t].state = "DISCONNECTED"
        /\ \A r \in Slots : r # t => call'[r] = call[r]
    BY <1>1, <2>1 DEF TypeOK
  <2>3. QED BY <1>1, <2>1, <2>2, OneSlotStep
<1>9. CASE HangupAllMark
  <2>1. app.pc = "draining" /\ Open /\ ~Open'
    BY <1>1, <1>9 DEF HangupAllMark, Open, TypeOK
  <2> DEFINE S == {s \in Slots : call[s].id # Invalid /\ call[s].state # "DISCONNECTED"}
  <2>2. Phase' = [s \in Slots |-> IF s \in S THEN "over" ELSE Phase[s]]
    <3>1. \A s \in Slots :
            call'[s].state = IF s \in S THEN "DISCONNECTED" ELSE call[s].state
      BY <1>9 DEF HangupAllMark
    <3>2. PhaseOf("DISCONNECTED") = "over"
      BY DEF PhaseOf
    <3>3. QED BY <3>1, <3>2 DEF Phase
  <2>3. \A s \in S : Phase[s] \in {"setup", "talking"}
    <3> SUFFICES ASSUME NEW s \in S
                 PROVE  Phase[s] \in {"setup", "talking"}
      OBVIOUS
    <3>1. call[s].state \in CallState \ {"NULL", "DISCONNECTED"}
      BY <1>1, <2>1 DEF TypeOK, TableInv, OnlyMakeHasNoState
    <3>2. QED BY <3>1 DEF Phase, PhaseOf, CallState
  <2> HIDE DEF S
  <2>4. S \in SUBSET {s \in Slots : Phase[s] \in {"setup", "talking"}}
    BY <2>3 DEF S
  <2>5. QED BY <2>1, <2>2, <2>4
            DEF Phase, Open, Lifecycle!Close, Lifecycle!LifecycleNext
<1>10. \/ \E c \in Ids : ApplyState(c) \/ TrackIncoming(c)
       \/ \E s \in Slots : HangupMark(s)
       \/ HangupDone \/ HangupAllMark
       \/ UNCHANGED call /\ (Open <=> Open')
  BY <1>1, <1>2
     DEF Next, Arrive, Callbacks, OnCallState, IgnoreState, LeaveRinging,
         RejectIncoming, AnswerIncoming, Hangup, HangupAsk, HangupAll, HangupAllAsk, Open, TypeOK
<1>11. QED BY <1>3, <1>4, <1>5, <1>6, <1>7, <1>8, <1>9, <1>10

\* A command that only receives keeps the promise of CallLifecycle to the code
\* that waits on its slots: a call connects and ends at most once per slot, and
\* no callback in flight revives it or moves it backwards.
THEOREM TableImplementsLifecycle ==
  Commands = {"receive"} => (Spec => ImplementsLifecycle)
<1> SUFFICES ASSUME Commands = {"receive"}
             PROVE  Spec => ImplementsLifecycle
  OBVIOUS
<1>1. Init => Lifecycle!LifecycleInit
  BY DEF Init, Lifecycle!LifecycleInit, PhaseOf, Idle
<1>2. IdsInv /\ SlotInv /\ ReceiverInv /\ [Next]_vars =>
        [Lifecycle!LifecycleNext]_(Lifecycle!lifecycle)
  <2> SUFFICES ASSUME IdsInv, SlotInv, ReceiverInv, [Next]_vars
               PROVE  [Lifecycle!LifecycleNext]_(Lifecycle!lifecycle)
    OBVIOUS
  <2>1. CASE Next
    BY <2>1, NextIdsInv, LifecycleStep DEF IdsInv, TypeOK
  <2>2. CASE UNCHANGED vars
    BY <2>2 DEF vars, Lifecycle!lifecycle
  <2>3. QED BY <2>1, <2>2
<1>3. QED BY <1>1, <1>2, AlwaysReceiverInv, PTL
          DEF Spec, ImplementsLifecycle, Lifecycle!LifecycleSpec
=============================================================================
