-------------------------- MODULE RegistrationProofs --------------------------
(***************************************************************************)
(* Proofs about Registration, for every number of accounts, every           *)
(* configuration and every set of options: the types, that the ids the      *)
(* slots record are those PJSUA knows, that a slot's status is its own, that*)
(* nothing outlives the manager, and what an exit status of 0 means.       *)
(***************************************************************************)
EXTENDS Registration, TLAPS

\* The main thread works on a slot in use, with an id of its own once PJSUA is
\* asked to forget it.
WorksInUse ==
  /\ pc \in {"added", "waiting", "marked", "deleted"} => at \in InUse
  /\ pc \in {"added", "marked", "deleted"} => acc[at].id # Invalid
  /\ pc = "deleted" => reg[acc[at].id] = "free"

Fresh(s) == acc[s] = [id |-> Invalid, state |-> "UNREGISTERED"]

\* Slots no one has registered yet.
FreshSlots ==
  /\ pc \in {"begin", "adding"} => \A s \in Slots : Fresh(s)
  /\ pc = "register" => \A s \in InUse : s >= at => Fresh(s)
  /\ pc = "added" => \A s \in InUse : s > at => Fresh(s)

\* A slot without an id is unregistered.
NoIdNoState == \A s \in InUse : acc[s].id = Invalid => acc[s].state = "UNREGISTERED"

\* Slots that are unregistered already.
EndedSlots ==
  pc \in {"unregister", "marked", "deleted"} =>
    \A s \in InUse : s < at => acc[s].id = Invalid

\* The accounts of PJSUA are those of the slots, one each.
IdsKnown == \A c \in AccIds : reg[c] # "free" => \E s \in InUse : acc[s].id = c

IdsLive ==
  \A s \in InUse :
    acc[s].id # Invalid => reg[acc[s].id] # "free" \/ (pc = "deleted" /\ s = at)

IdsDistinct ==
  \A s, t \in InUse : acc[s].id = acc[t].id /\ acc[s].id # Invalid => s = t

\* A callback reports an answer for an account PJSUA knows, and holds its slot
\* as long as it found one.
CallbackOwns ==
  /\ cb # NoCallback => cb.id \in AccIds /\ reg[cb.id] \in Answers
  /\ cb.slot # NoSlot => cb.slot \in InUse /\ acc[cb.slot].id = cb.id
  /\ attached /\ cb # NoCallback => cb.slot # NoSlot

Stages ==
  /\ attached <=> pc \in {"register", "added", "wait", "waiting", "detach"}
  /\ pc \in {"begin", "wiped", "done"} => accounts = <<>>

\* That no answer reaches a wiped manager needs the whole bookkeeping of ids:
\* PJSUA's lock orders callbacks and deletions, and the ids lead from one to
\* the other.
RegInv ==
  /\ TypeOK /\ WorksInUse /\ FreshSlots /\ NoIdNoState /\ EndedSlots
  /\ IdsKnown /\ IdsLive /\ IdsDistinct /\ CallbackOwns /\ Stages

Entries == {config[i] : i \in DOMAIN config}

\* Invalid is no index of PJSUA and no slot.
LEMMA Numbers ==
  /\ Invalid \notin AccIds /\ NoSlot \notin Slots
  /\ Slots \subseteq Nat /\ AccIds \subseteq Nat /\ Slots = AccIds
  /\ NoCallback.id = Invalid /\ NoCallback.slot = NoSlot
BY MaxAccountsAssumption DEF Invalid, AccIds, NoSlot, Slots, NoCallback

LEMMA NothingInUse == accounts = <<>> => InUse = {}
BY MaxAccountsAssumption DEF InUse, Slots

LEMMA RegInit == Init => RegInv
<1> SUFFICES ASSUME Init PROVE RegInv
  OBVIOUS
<1>1. accounts = <<>> /\ accounts \in Seq(Entries) /\ Len(accounts) = 0
  BY DEF Init
<1>2. InUse = {}
  BY <1>1, NothingInUse
<1>3. opts \in Options /\ tls \in BOOLEAN /\ running \in BOOLEAN /\ stuck \in BOOLEAN
  BY Zenon DEF Init
<1>4. attached \in BOOLEAN /\ ~attached
  BY Zenon DEF Init
<1>5. TypeOK
  BY <1>1, <1>3, <1>4, MaxAccountsAssumption
     DEF Init, TypeOK, Places, AccountState, Heard, Answers, NoCallback, Entries
<1>6. FreshSlots /\ WorksInUse /\ EndedSlots
  BY DEF Init, FreshSlots, Fresh, WorksInUse, EndedSlots
<1>7. IdsKnown /\ IdsLive /\ IdsDistinct
  BY <1>2 DEF Init, IdsKnown, IdsLive, IdsDistinct
<1>8. CallbackOwns /\ Stages /\ NoIdNoState
  BY <1>4, <1>1, <1>2, Numbers DEF Init, CallbackOwns, Stages, NoIdNoState
<1>9. QED BY <1>5, <1>6, <1>7, <1>8 DEF RegInv

----------------------------------------------------------------------------
\* An account that is added is one of the configuration, and fits.
LEMMA AddedAccount ==
  ASSUME TypeOK, NEW i \in DOMAIN config
  PROVE  /\ AddAccount(accounts, config[i]) \in Seq(Entries)
         /\ Len(AddAccount(accounts, config[i])) <= MaxAccounts
<1>1. accounts \in Seq(Entries) /\ Len(accounts) <= MaxAccounts /\ Len(accounts) \in Nat
  BY DEF TypeOK, Entries
<1>2. config[i] \in Entries
  BY DEF Entries
<1>3. /\ Append(accounts, config[i]) \in Seq(Entries)
      /\ Len(Append(accounts, config[i])) = Len(accounts) + 1
  BY <1>1, <1>2
<1>4. QED BY <1>1, <1>3, MaxAccountsAssumption DEF AddAccount

LEMMA TypesStep ==
  ASSUME RegInv, [Next]_vars
  PROVE  TypeOK'
<1> USE DEF signal, history
<1> DEFINE Entry == [id : AccIds \cup {Invalid}, state : AccountState]
<1>1. TypeOK /\ config' = config
  <2>1. TypeOK BY DEF RegInv
  <2>2. config' = config
    BY DEF Next, Main, Prepare, Register, Wait, Unregister, Worker, BeginFails, Begin,
           AddNext, Attach, RegisterRefused, RegisterAdd, RegisterMark, RegisterSkip,
           RegisteredAll, WaitBegin, WaitedAll, WaitRegistered, WaitFailed, WaitTimesOut,
           Detach, UnregisterSkip, UnregisterMark, UnregisterDelete, UnregisterDone, Wipe,
           Shutdown, OnRegState, ReportState, Interrupt, vars
  <2>3. QED BY <2>1, <2>2
<1>2. at \in Nat /\ at + 1 \in Nat /\ \A s \in InUse : s \in Nat /\ s \in Slots /\ s + 1 \in Nat
  BY <1>1, Numbers DEF TypeOK, InUse
<1>3. \A s \in Slots, e \in Entry : [acc EXCEPT ![s] = e] \in [Slots -> Entry]
  BY <1>1 DEF TypeOK
<1>4. \A s \in Slots, st \in AccountState :
        [acc EXCEPT ![s].state = st] \in [Slots -> Entry]
  BY <1>1 DEF TypeOK
<1>5. CASE Prepare
  <2>1. CASE BeginFails
    BY <1>1, <2>1 DEF BeginFails, Quit, Goto, TypeOK, mgr, pjsua, Places
  <2>2. CASE Begin
    BY <1>1, <2>2 DEF Begin, Goto, TypeOK, mgr, pjsua, Places
  <2>3. CASE AddNext
    <3>1. accounts' \in Seq(Entries) /\ Len(accounts') <= MaxAccounts
      BY <1>1, <2>3, AddedAccount DEF AddNext
    <3>2. QED
      BY <1>1, <1>2, <2>3, <3>1 DEF AddNext, Goto, TypeOK, mgr, pjsua, Places, Entries
  <2>4. CASE Attach
    <3>1. attached' \in BOOLEAN BY <2>4, Zenon DEF Attach
    <3>2. at' \in Nat /\ pc' \in Places /\ result' \in {0, 1}
      BY <1>1, <1>2, <2>4 DEF Attach, Goto, TypeOK, Places
    <3>3. QED BY <1>1, <2>4, <3>1, <3>2 DEF Attach, TypeOK, pjsua
  <2>5. QED BY <1>5, <2>1, <2>2, <2>3, <2>4 DEF Prepare
<1>6. CASE Register
  <2>1. CASE RegisterRefused
    BY <1>1, <1>2, <2>1 DEF RegisterRefused, Goto, TypeOK, mgr, pjsua, Places
  <2>2. ASSUME NEW c \in AccIds, RegisterAdd(c) PROVE TypeOK'
    <3>1. at \in Slots
      BY <1>2, <2>2 DEF RegisterAdd, ToRegister
    <3>2. acc' \in [Slots -> Entry]
      BY <1>1, <2>2, <3>1 DEF RegisterAdd, TypeOK
    <3>3. reg' \in [AccIds -> Heard]
      BY <1>1, <2>2 DEF RegisterAdd, TypeOK, Heard
    <3>4. QED BY <1>1, <2>2, <3>2, <3>3 DEF RegisterAdd, Goto, TypeOK, Places
  <2>3. CASE RegisterMark
    <3>1. at \in Slots
      BY <1>2, <2>3 DEF RegisterMark, RegInv, WorksInUse
    <3>2. acc' \in [Slots -> Entry]
      BY <1>4, <2>3, <3>1 DEF RegisterMark, AccountState
    <3>3. overwritten' \subseteq Slots
      BY <1>1, <2>3, <3>1 DEF RegisterMark, TypeOK
    <3>4. QED BY <1>1, <1>2, <2>3, <3>2, <3>3 DEF RegisterMark, AfterRegister, Goto, TypeOK, Places
  <2>4. CASE RegisterSkip
    BY <1>1, <1>2, <2>4 DEF RegisterSkip, Goto, TypeOK, mgr, pjsua, Places
  <2>5. CASE RegisteredAll
    BY <1>1, <2>5 DEF RegisteredAll, Goto, TypeOK, mgr, pjsua, Places
  <2>6. QED BY <1>6, <2>1, <2>2, <2>3, <2>4, <2>5 DEF Register
<1>7. CASE Wait
  <2>1. pc' \in Places /\ at' \in Nat /\ result' \in {0, 1}
    BY <1>1, <1>2, <1>7
       DEF Wait, WaitBegin, WaitedAll, WaitRegistered, WaitFailed, WaitTimesOut,
           AfterWait, Goto, Places, TypeOK
  <2>2. UNCHANGED <<opts, tls, config, signal, mgr, pjsua>>
    BY <1>7 DEF Wait, WaitBegin, WaitedAll, WaitRegistered, WaitFailed, WaitTimesOut
  <2>3. QED BY <1>1, <2>1, <2>2 DEF TypeOK, mgr, pjsua
<1>8. CASE Detach
  <2>1. attached' \in BOOLEAN BY <1>8, Zenon DEF Detach
  <2>2. QED BY <1>1, <1>8, <2>1 DEF Detach, Goto, TypeOK, pjsua, Places
<1>9. CASE Unregister
  <2>1. CASE UnregisterSkip
    BY <1>1, <1>2, <2>1 DEF UnregisterSkip, Goto, TypeOK, mgr, pjsua, Places
  <2>2. CASE UnregisterMark
    <3>1. acc' \in [Slots -> Entry]
      BY <1>2, <1>4, <2>2 DEF UnregisterMark, AccountState
    <3>2. QED BY <1>1, <2>2, <3>1 DEF UnregisterMark, Goto, TypeOK, pjsua, Places
  <2>3. CASE UnregisterDelete
    <3>1. reg' \in [AccIds -> Heard]
      BY <1>1, <2>3 DEF UnregisterDelete, TypeOK, Heard
    <3>2. QED BY <1>1, <2>3, <3>1 DEF UnregisterDelete, Goto, TypeOK, mgr, Places
  <2>4. CASE UnregisterDone
    <3>1. at \in Slots
      BY <1>2, <2>4 DEF UnregisterDone, RegInv, WorksInUse
    <3>2. acc' \in [Slots -> Entry]
      BY <1>3, <2>4, <3>1 DEF UnregisterDone, AccountState
    <3>3. QED BY <1>1, <1>2, <2>4, <3>2 DEF UnregisterDone, Goto, TypeOK, pjsua, Places
  <2>5. QED BY <1>9, <2>1, <2>2, <2>3, <2>4 DEF Unregister
<1>10. CASE Wipe
  <2>1. accounts' \in Seq(Entries) /\ Len(accounts') <= MaxAccounts
    BY <1>10, MaxAccountsAssumption DEF Wipe
  <2>2. acc' \in [Slots -> Entry]
    BY <1>10, MaxAccountsAssumption DEF Wipe, AccIds, AccountState
  <2>3. QED BY <1>1, <1>10, <2>1, <2>2 DEF Wipe, Goto, TypeOK, pjsua, Places, Entries
<1>11. CASE Shutdown
  BY <1>1, <1>11 DEF Shutdown, Goto, TypeOK, mgr, Places, Heard
<1>12. ASSUME NEW c \in AccIds, OnRegState(c) PROVE TypeOK'
  <2>1. reg' \in [AccIds -> Heard]
    BY <1>1, <1>12 DEF OnRegState, TypeOK, Heard
  <2>2. cb' \in [id : AccIds \cup {Invalid}, slot : Slots \cup {NoSlot}]
    BY <1>12 DEF OnRegState
  <2>3. QED BY <1>1, <1>12, <2>1, <2>2 DEF OnRegState, TypeOK, mgr
<1>13. CASE ReportState
  <2>1. cb' \in [id : AccIds \cup {Invalid}, slot : Slots \cup {NoSlot}]
    BY <1>13 DEF ReportState, NoCallback
  <2>2. acc' \in [Slots -> Entry]
    <3>1. CASE cb.slot = NoSlot
      BY <1>1, <1>13, <3>1 DEF ReportState, TypeOK
    <3>2. CASE cb.slot # NoSlot
      <4>1. cb.slot \in Slots
        BY <1>1, <3>2 DEF TypeOK
      <4>2. StateAfter(acc[cb.slot].state, reg[cb.id]) \in AccountState
        BY <1>1, <4>1 DEF StateAfter, TypeOK, AccountState
      <4>3. QED BY <1>13, <1>4, <3>2, <4>1, <4>2 DEF ReportState
    <3>3. QED BY <3>1, <3>2
  <2>3. overwritten' \subseteq Slots
    BY <1>1, <1>13 DEF ReportState, TypeOK
  <2>4. QED BY <1>1, <1>13, <2>1, <2>2, <2>3 DEF ReportState, TypeOK
<1>14. CASE Interrupt
  <2>1. running' \in BOOLEAN /\ stuck' \in BOOLEAN BY <1>14, Zenon DEF Interrupt
  <2>2. QED BY <1>1, <1>14, <2>1 DEF Interrupt, TypeOK, mgr, pjsua
<1>15. CASE UNCHANGED vars
  BY <1>1, <1>15 DEF vars, TypeOK, mgr, pjsua
<1>16. QED
  BY <1>5, <1>6, <1>7, <1>8, <1>9, <1>10, <1>11, <1>12, <1>13, <1>14, <1>15
     DEF Next, Main, Worker

----------------------------------------------------------------------------
Ids == IdsKnown /\ IdsLive /\ IdsDistinct /\ CallbackOwns
Flow == WorksInUse /\ FreshSlots /\ EndedSlots /\ Stages

\* Slots in use are numbers, and their ids ids or none.
LEMMA SlotTypes ==
  ASSUME TypeOK
  PROVE  /\ at \in Nat /\ InUse \subseteq Slots /\ InUse \subseteq Nat
         /\ \A s \in Slots : acc[s].id \in AccIds \cup {Invalid}
         /\ \A s \in InUse : acc[s].id \in AccIds \cup {Invalid}
         /\ cb.id \in AccIds \cup {Invalid}
         /\ at \notin InUse => \A s \in InUse : s < at
<1>1. at \in Nat /\ InUse \subseteq Slots /\ Len(accounts) \in Nat
  BY DEF TypeOK, InUse
<1>2. \A s \in Slots : acc[s].id \in AccIds \cup {Invalid}
  BY DEF TypeOK
<1>3. cb.id \in AccIds \cup {Invalid}
  BY DEF TypeOK
<1>4. at \notin InUse => \A s \in InUse : s < at
  BY <1>1, MaxAccountsAssumption DEF InUse, Slots
<1>5. QED BY <1>1, <1>2, <1>3, <1>4, Numbers

\* A step that only moves the main thread leaves the bookkeeping alone.
LEMMA MoveIds ==
  ASSUME Ids, UNCHANGED <<accounts, acc, attached, reg, cb>>,
         pc = "deleted" => pc' = "deleted" /\ at' = at
  PROVE  Ids'
<1>1. InUse' = InUse BY DEF InUse
<1>2. IdsKnown' /\ IdsDistinct' BY <1>1 DEF Ids, IdsKnown, IdsDistinct
<1>3. IdsLive' BY <1>1 DEF Ids, IdsLive
<1>4. CallbackOwns' BY <1>1 DEF Ids, CallbackOwns, NoCallback
<1>5. QED BY <1>2, <1>3, <1>4 DEF Ids

\* While the manager is filled PJSUA knows no account.
LEMMA NothingAdded ==
  ASSUME RegInv, pc = "adding"
  PROVE  (\A c \in AccIds : reg[c] = "free") /\ cb = NoCallback
<1> USE DEF RegInv
<1>1. \A s \in InUse : acc[s].id = Invalid
  BY SlotTypes DEF FreshSlots, Fresh
<1>2. \A c \in AccIds : reg[c] = "free"
  BY <1>1, Numbers DEF IdsKnown
<1>3. QED BY <1>2 DEF CallbackOwns, Answers

LEMMA PrepareStep ==
  ASSUME RegInv, Prepare
  PROVE  Ids' /\ Flow'
<1> USE DEF RegInv
<1>1. CASE BeginFails
  <2>1. Ids' BY <1>1, MoveIds DEF BeginFails, Quit, Goto, mgr, pjsua, Ids
  <2>2. Flow'
    BY <1>1 DEF BeginFails, Quit, Goto, mgr, pjsua, Flow, WorksInUse, FreshSlots,
                EndedSlots, Stages
  <2>3. QED BY <2>1, <2>2
<1>2. CASE Begin
  <2>1. Ids' BY <1>2, MoveIds DEF Begin, Goto, mgr, pjsua, Ids
  <2>2. Flow'
    BY <1>2 DEF Begin, Goto, mgr, pjsua, Flow, WorksInUse, FreshSlots, Fresh,
                EndedSlots, Stages
  <2>3. QED BY <2>1, <2>2
<1>3. pc = "adding" => (\A c \in AccIds : reg[c] = "free") /\ cb = NoCallback
  BY NothingAdded
<1>4. CASE AddNext
  <2>1. /\ pc = "adding" /\ pc' = "adding" /\ UNCHANGED <<acc, attached, reg, cb>>
        /\ ~attached
    BY <1>4 DEF AddNext, Goto, pjsua, Stages
  <2>2. InUse' \subseteq Slots
    BY DEF InUse
  <2>3. \A s \in Slots : Fresh(s)'
    BY <2>1 DEF FreshSlots, Fresh
  <2>4. IdsKnown' /\ IdsLive' /\ IdsDistinct'
    BY <1>3, <2>1, <2>2, <2>3 DEF IdsKnown, IdsLive, IdsDistinct, Fresh
  <2>5. CallbackOwns'
    BY <1>3, <2>1, Numbers DEF CallbackOwns, NoCallback
  <2>6. Flow'
    BY <2>1, <2>3 DEF Flow, WorksInUse, FreshSlots, EndedSlots, Stages
  <2>7. QED BY <2>4, <2>5, <2>6 DEF Ids
<1>5. CASE Attach
  <2>1. /\ pc = "adding" /\ UNCHANGED <<accounts, acc, reg, cb>> /\ attached'
        /\ pc' \in {"detach", "register"}
    BY <1>5, Zenon DEF Attach, Goto, pjsua
  <2>2. InUse' = InUse
    BY <2>1 DEF InUse
  <2>3. IdsKnown' /\ IdsLive' /\ IdsDistinct'
    BY <1>3, <2>1, <2>2, SlotTypes DEF IdsKnown, IdsLive, IdsDistinct, FreshSlots, Fresh
  <2>4. CallbackOwns'
    BY <1>3, <2>1, Numbers DEF CallbackOwns, NoCallback
  <2>5. \A s \in InUse' : Fresh(s)'
    BY <2>1, <2>2, SlotTypes DEF FreshSlots, Fresh
  <2>6. Flow'
    BY <2>1, <2>5 DEF Flow, WorksInUse, FreshSlots, EndedSlots, Stages
  <2>7. QED BY <2>3, <2>4, <2>6 DEF Ids
<1>6. QED BY <1>1, <1>2, <1>4, <1>5 DEF Prepare

LEMMA RegisterStep ==
  ASSUME RegInv, Register
  PROVE  Ids' /\ Flow'
<1> USE DEF RegInv
<1>1. CASE RegisterRefused \/ RegisterSkip \/ RegisteredAll
  <2>1. /\ UNCHANGED <<accounts, acc, attached, reg, cb>>
        /\ pc = "register"
        /\ \/ pc' \in {"detach", "wait"}
           \/ pc' = "register" /\ at' = at + 1
    BY <1>1 DEF RegisterRefused, RegisterSkip, RegisteredAll, ToRegister, Goto, mgr, pjsua
  <2>2. InUse' = InUse
    BY <2>1 DEF InUse
  <2>3. Ids' BY <2>1, MoveIds DEF Ids
  <2>4. Flow'
    BY <2>1, <2>2, SlotTypes
       DEF Flow, WorksInUse, FreshSlots, Fresh, EndedSlots, Stages
  <2>5. QED BY <2>3, <2>4
<1>2. ASSUME NEW c \in AccIds, RegisterAdd(c)
      PROVE  Ids' /\ Flow'
  <2>1. /\ pc = "register" /\ at \in InUse /\ pc' = "added" /\ at' = at /\ cb = NoCallback
        /\ reg[c] = "free" /\ UNCHANGED <<accounts, attached, cb>>
    BY <1>2 DEF RegisterAdd, ToRegister, Goto, Locked
  <2>2. InUse' = InUse /\ at \in Slots /\ Fresh(at)
    BY <2>1, SlotTypes DEF InUse, FreshSlots
  <2>3. /\ acc'[at].id = c
        /\ \A s \in Slots \ {at} : acc'[s] = acc[s]
    BY <1>2, <2>2 DEF RegisterAdd, TypeOK
  <2>4. /\ reg'[c] = "none"
        /\ \A d \in AccIds \ {c} : reg'[d] = reg[d]
    BY <1>2 DEF RegisterAdd, TypeOK
  <2>5. \A s \in InUse : acc[s].id # c
    BY <2>1, Numbers DEF IdsLive
  <2>6. IdsKnown'
    <3>1. ASSUME NEW d \in AccIds, reg'[d] # "free"
          PROVE  \E s \in InUse : acc'[s].id = d
      <4>1. CASE d = c
        BY <2>1, <2>3, <4>1
      <4>2. CASE d # c
        <5>1. PICK s \in InUse : acc[s].id = d
          BY <2>4, <3>1, <4>2 DEF IdsKnown
        <5>2. s # at /\ s \in Slots
          BY <2>2, <5>1, SlotTypes, Numbers DEF Fresh
        <5>3. QED BY <2>3, <5>1, <5>2
      <4>3. QED BY <4>1, <4>2
    <3>2. QED BY <2>2, <3>1 DEF IdsKnown
  <2>7. IdsLive'
    BY <2>1, <2>2, <2>3, <2>4, SlotTypes DEF IdsLive
  <2>8. IdsDistinct'
    BY <2>1, <2>2, <2>3, <2>5, SlotTypes DEF IdsDistinct
  <2>9. CallbackOwns'
    BY <2>1, Numbers DEF CallbackOwns, NoCallback
  <2>10. Flow'
    BY <2>1, <2>2, <2>3, SlotTypes, Numbers
       DEF Flow, WorksInUse, FreshSlots, Fresh, EndedSlots, Stages
  <2>11. QED BY <2>6, <2>7, <2>8, <2>9, <2>10 DEF Ids
<1>3. CASE RegisterMark
  <2>1. /\ pc = "added" /\ at \in InUse /\ UNCHANGED <<accounts, attached, reg, cb>>
        /\ \/ pc' = "waiting" /\ at' = at
           \/ pc' = "register" /\ at' = at + 1
    BY <1>3 DEF RegisterMark, AfterRegister, Goto, pjsua, WorksInUse
  <2>2. InUse' = InUse /\ at \in Slots
    BY <2>1, SlotTypes DEF InUse
  <2>3. /\ \A s \in Slots : acc'[s].id = acc[s].id
        /\ \A s \in Slots \ {at} : acc'[s] = acc[s]
    BY <1>3, <2>2 DEF RegisterMark, TypeOK
  <2>4. Ids'
    BY <2>1, <2>2, <2>3, SlotTypes
       DEF Ids, IdsKnown, IdsLive, IdsDistinct, CallbackOwns, NoCallback
  <2>5. Flow'
    BY <2>1, <2>2, <2>3, SlotTypes
       DEF Flow, WorksInUse, FreshSlots, Fresh, EndedSlots, Stages
  <2>6. QED BY <2>4, <2>5
<1>4. QED BY <1>1, <1>2, <1>3 DEF Register

LEMMA WaitStep ==
  ASSUME RegInv, Wait \/ Detach \/ Interrupt \/ UNCHANGED vars
  PROVE  Ids' /\ Flow'
<1> USE DEF RegInv
<1>1. CASE Wait
  <2>1. /\ pc \in {"wait", "waiting"} /\ UNCHANGED <<accounts, acc, attached, reg, cb>>
        /\ \/ pc' \in {"detach", "wait"}
           \/ pc' = "waiting" /\ at' = at /\ at \in InUse
    BY <1>1 DEF Wait, WaitBegin, WaitedAll, WaitRegistered, WaitFailed, WaitTimesOut,
                AfterWait, Waiting, Goto, mgr, pjsua
  <2>2. InUse' = InUse
    BY <2>1 DEF InUse
  <2>3. Ids' BY <2>1, MoveIds DEF Ids
  <2>4. Flow'
    BY <2>1, <2>2 DEF Flow, WorksInUse, FreshSlots, EndedSlots, Stages
  <2>5. QED BY <2>3, <2>4
<1>2. CASE Detach
  <2>1. /\ pc = "detach" /\ pc' = "unregister" /\ at' = 0 /\ ~attached'
        /\ UNCHANGED <<accounts, acc, reg, cb>>
    BY <1>2, Zenon DEF Detach, Goto, pjsua
  <2>2. InUse' = InUse
    BY <2>1 DEF InUse
  <2>3. Ids'
    BY <2>1, <2>2 DEF Ids, IdsKnown, IdsLive, IdsDistinct, CallbackOwns, NoCallback
  <2>4. Flow'
    BY <2>1, <2>2, SlotTypes DEF Flow, WorksInUse, FreshSlots, EndedSlots, Stages
  <2>5. QED BY <2>3, <2>4
<1>3. CASE Interrupt \/ UNCHANGED vars
  <2>1. UNCHANGED <<pc, at, accounts, acc, attached, reg, cb>>
    BY <1>3 DEF Interrupt, vars, mgr, pjsua
  <2>2. InUse' = InUse
    BY <2>1 DEF InUse
  <2>3. Ids' BY <2>1, MoveIds DEF Ids
  <2>4. Flow'
    BY <2>1, <2>2 DEF Flow, WorksInUse, FreshSlots, Fresh, EndedSlots, Stages
  <2>5. QED BY <2>3, <2>4
<1>4. QED BY <1>1, <1>2, <1>3

LEMMA UnregisterStep ==
  ASSUME RegInv, Unregister
  PROVE  Ids' /\ Flow'
<1> USE DEF RegInv
<1>1. CASE UnregisterSkip
  <2>1. /\ pc = "unregister" /\ pc' = "unregister" /\ at' = at + 1 /\ acc[at].id = Invalid
        /\ UNCHANGED <<accounts, acc, attached, reg, cb>>
    BY <1>1 DEF UnregisterSkip, Goto, mgr, pjsua
  <2>2. InUse' = InUse
    BY <2>1 DEF InUse
  <2>3. Ids' BY <2>1, MoveIds DEF Ids
  <2>4. Flow'
    BY <2>1, <2>2, SlotTypes DEF Flow, WorksInUse, FreshSlots, EndedSlots, Stages
  <2>5. QED BY <2>3, <2>4
<1>2. CASE UnregisterMark
  <2>1. /\ pc = "unregister" /\ pc' = "marked" /\ at' = at /\ at \in InUse
        /\ acc[at].id # Invalid /\ UNCHANGED <<accounts, attached, reg, cb>>
    BY <1>2 DEF UnregisterMark, Goto, pjsua
  <2>2. InUse' = InUse /\ at \in Slots
    BY <2>1, SlotTypes DEF InUse
  <2>3. \A s \in Slots : acc'[s].id = acc[s].id
    BY <1>2, <2>2 DEF UnregisterMark, TypeOK
  <2>4. Ids'
    BY <2>1, <2>2, <2>3, SlotTypes
       DEF Ids, IdsKnown, IdsLive, IdsDistinct, CallbackOwns, NoCallback
  <2>5. Flow'
    BY <2>1, <2>2, <2>3, SlotTypes DEF Flow, WorksInUse, FreshSlots, EndedSlots, Stages
  <2>6. QED BY <2>4, <2>5
<1>3. CASE UnregisterDelete
  <2>1. /\ pc = "marked" /\ pc' = "deleted" /\ at' = at /\ at \in InUse /\ cb = NoCallback
        /\ acc[at].id # Invalid /\ UNCHANGED <<accounts, acc, attached, cb>>
    BY <1>3 DEF UnregisterDelete, Goto, mgr, WorksInUse, Locked
  <2>2. InUse' = InUse /\ acc[at].id \in AccIds
    BY <2>1, SlotTypes DEF InUse
  <2>3. /\ reg'[acc[at].id] = "free"
        /\ \A c \in AccIds \ {acc[at].id} : reg'[c] = reg[c]
    BY <1>3, <2>2 DEF UnregisterDelete, TypeOK
  <2>4. IdsKnown'
    BY <2>1, <2>2, <2>3 DEF IdsKnown
  <2>5. IdsLive'
    BY <2>1, <2>2, <2>3, SlotTypes DEF IdsLive, IdsDistinct
  <2>6. IdsDistinct' /\ CallbackOwns'
    BY <2>1, <2>2, Numbers DEF IdsDistinct, CallbackOwns, NoCallback
  <2>7. Flow'
    BY <2>1, <2>2, <2>3 DEF Flow, WorksInUse, FreshSlots, EndedSlots, Stages
  <2>8. QED BY <2>4, <2>5, <2>6, <2>7 DEF Ids
<1>4. CASE UnregisterDone
  <2>1. /\ pc = "deleted" /\ pc' = "unregister" /\ at' = at + 1 /\ at \in InUse
        /\ acc[at].id # Invalid /\ reg[acc[at].id] = "free"
        /\ UNCHANGED <<accounts, attached, reg, cb>>
    BY <1>4 DEF UnregisterDone, Goto, pjsua, WorksInUse
  <2>2. InUse' = InUse /\ at \in Slots
    BY <2>1, SlotTypes DEF InUse
  <2>3. /\ acc'[at].id = Invalid
        /\ \A s \in Slots \ {at} : acc'[s] = acc[s]
    BY <1>4, <2>2 DEF UnregisterDone, TypeOK
  <2>4. IdsKnown'
    BY <2>1, <2>2, <2>3, SlotTypes DEF IdsKnown
  <2>5. IdsLive' /\ IdsDistinct'
    BY <2>1, <2>2, <2>3, SlotTypes DEF IdsLive, IdsDistinct
  <2>6. cb.slot # at
    BY <2>1, SlotTypes, Numbers DEF CallbackOwns, Answers
  <2>7. CallbackOwns'
    BY <2>1, <2>2, <2>3, <2>6, SlotTypes DEF CallbackOwns, NoCallback
  <2>8. Flow'
    BY <2>1, <2>2, <2>3, SlotTypes DEF Flow, WorksInUse, FreshSlots, EndedSlots, Stages
  <2>9. QED BY <2>4, <2>5, <2>7, <2>8 DEF Ids
<1>5. QED BY <1>1, <1>2, <1>3, <1>4 DEF Unregister

LEMMA EndStep ==
  ASSUME RegInv, Wipe \/ Shutdown
  PROVE  Ids' /\ Flow'
<1> USE DEF RegInv
<1>1. CASE Wipe
  <2>1. /\ pc = "unregister" /\ pc' = "wiped" /\ at \notin InUse /\ accounts' = <<>>
        /\ UNCHANGED <<attached, reg, cb>>
    BY <1>1 DEF Wipe, Goto, pjsua
  <2>2. \A s \in InUse : acc[s].id = Invalid
    BY <2>1, SlotTypes DEF EndedSlots
  <2>3. \A c \in AccIds : reg[c] = "free"
    BY <2>2, Numbers DEF IdsKnown
  <2>4. cb = NoCallback
    BY <2>3 DEF CallbackOwns, Answers
  <2>5. InUse' = {}
    BY <2>1, MaxAccountsAssumption DEF InUse, Slots
  <2>6. Ids'
    BY <2>1, <2>3, <2>4, <2>5, Numbers
       DEF Ids, IdsKnown, IdsLive, IdsDistinct, CallbackOwns, NoCallback
  <2>7. Flow'
    BY <2>1, <2>5 DEF Flow, WorksInUse, FreshSlots, EndedSlots, Stages
  <2>8. QED BY <2>6, <2>7
<1>2. CASE Shutdown
  <2>1. /\ pc = "wiped" /\ pc' = "done" /\ accounts = <<>> /\ accounts' = <<>>
        /\ cb = NoCallback /\ UNCHANGED <<attached, cb>>
        /\ \A c \in AccIds : reg'[c] = "free"
    BY <1>2 DEF Shutdown, Goto, mgr, Locked, Stages
  <2>2. InUse' = {}
    BY <2>1, MaxAccountsAssumption DEF InUse, Slots
  <2>3. Ids'
    BY <2>1, <2>2, Numbers DEF Ids, IdsKnown, IdsLive, IdsDistinct, CallbackOwns, NoCallback
  <2>4. Flow'
    BY <2>1, <2>2 DEF Flow, WorksInUse, FreshSlots, EndedSlots, Stages
  <2>5. QED BY <2>3, <2>4
<1>3. QED BY <1>1, <1>2

LEMMA WorkerStep ==
  ASSUME RegInv, Worker
  PROVE  Ids' /\ Flow'
<1> USE DEF RegInv
<1>1. ASSUME NEW c \in AccIds, OnRegState(c)
      PROVE  Ids' /\ Flow'
  <2>1. /\ UNCHANGED <<accounts, acc, attached, pc, at>>
        /\ reg[c] # "free"
    BY <1>1 DEF OnRegState, mgr
  <2>2. InUse' = InUse
    BY <2>1 DEF InUse
  <2>3. /\ reg'[c] \in Answers
        /\ \A d \in AccIds \ {c} : reg'[d] = reg[d]
    BY <1>1 DEF OnRegState, TypeOK
  <2>4. cb'.id = c /\ (cb'.slot # NoSlot => cb'.slot \in SlotWith(c))
    BY <1>1 DEF OnRegState
  <2>5. SlotWith(c) # {}
    BY <2>1 DEF IdsKnown, SlotWith
  <2>6. attached => cb'.slot \in SlotWith(c)
    BY <1>1, <2>5 DEF OnRegState
  <2>7. IdsKnown' /\ IdsLive' /\ IdsDistinct'
    BY <2>1, <2>2, <2>3, SlotTypes DEF IdsKnown, IdsLive, IdsDistinct, Answers
  <2>8. CallbackOwns'
    BY <2>1, <2>2, <2>3, <2>4, <2>6, SlotTypes, Numbers DEF CallbackOwns, SlotWith
  <2>9. Flow'
    <3>1. pc = "deleted" => c # acc[at].id
      BY <2>1 DEF WorksInUse
    <3>2. pc = "deleted" => acc[at].id \in AccIds
      BY SlotTypes DEF WorksInUse
    <3>3. QED
      BY <2>1, <2>2, <2>3, <3>1, <3>2
         DEF Flow, WorksInUse, FreshSlots, Fresh, EndedSlots, Stages
  <2>10. QED BY <2>7, <2>8, <2>9 DEF Ids
<1>2. CASE ReportState
  <2>1. UNCHANGED <<accounts, attached, pc, at, reg>> /\ cb # NoCallback /\ cb' = NoCallback
    BY <1>2 DEF ReportState, Locked
  <2>2. InUse' = InUse
    BY <2>1 DEF InUse
  <2>3. /\ \A s \in Slots : acc'[s].id = acc[s].id
        /\ \A s \in Slots : s # cb.slot => acc'[s] = acc[s]
    BY <1>2 DEF ReportState, TypeOK
  <2>4. \A s \in Slots : Fresh(s) => s # cb.slot
    BY <2>1, Numbers DEF CallbackOwns, Fresh
  <2>5. Ids'
    BY <2>1, <2>2, <2>3, SlotTypes, Numbers
       DEF Ids, IdsKnown, IdsLive, IdsDistinct, CallbackOwns
  <2>6. Flow'
    BY <2>1, <2>2, <2>3, <2>4, SlotTypes
       DEF Flow, WorksInUse, FreshSlots, Fresh, EndedSlots, Stages
  <2>7. QED BY <2>5, <2>6
<1>3. QED BY <1>1, <1>2 DEF Worker

\* Which actions write into the slots.
LEMMA SlotsStay ==
  ASSUME [Next]_vars,
         ~(ReportState \/ RegisterMark \/ UnregisterMark \/ UnregisterDone \/ Wipe),
         \A c \in AccIds : ~RegisterAdd(c)
  PROVE  acc' = acc
BY DEF Next, Main, Prepare, Register, Wait, Unregister, Worker, BeginFails, Begin,
       AddNext, Attach, RegisterRefused, RegisterSkip, RegisteredAll, WaitBegin,
       WaitedAll, WaitRegistered, WaitFailed, WaitTimesOut, Detach, UnregisterSkip,
       UnregisterDelete, Shutdown, OnRegState, Interrupt, mgr, vars

\* Which change what the manager holds.
LEMMA AccountsStay ==
  ASSUME [Next]_vars, ~(AddNext \/ Wipe)
  PROVE  accounts' = accounts
BY DEF Next, Main, Prepare, Register, Wait, Unregister, Worker, BeginFails, Begin,
       Attach, RegisterRefused, RegisterAdd, RegisterMark, RegisterSkip, RegisteredAll,
       WaitBegin, WaitedAll, WaitRegistered, WaitFailed, WaitTimesOut, Detach,
       UnregisterSkip, UnregisterMark, UnregisterDelete, UnregisterDone, Shutdown,
       OnRegState, ReportState, Interrupt, mgr, vars

LEMMA NoIdStep ==
  ASSUME RegInv, [Next]_vars
  PROVE  NoIdNoState'
<1> DEFINE Written == ReportState \/ RegisterMark \/ UnregisterMark \/ UnregisterDone
                        \/ \E c \in AccIds : RegisterAdd(c)
<1> USE DEF RegInv
<1>1. CASE AddNext
  <2>1. acc' = acc /\ \A s \in Slots : Fresh(s)
    BY <1>1 DEF AddNext, FreshSlots
  <2>2. QED BY <2>1 DEF NoIdNoState, Fresh, InUse
<1>2. CASE Wipe
  BY <1>2, NothingInUse DEF Wipe, NoIdNoState, InUse
<1>3. CASE ~(AddNext \/ Wipe \/ Written)
  <2>1. acc' = acc /\ InUse' = InUse
    BY <1>3, SlotsStay, AccountsStay DEF InUse
  <2>2. QED BY <2>1 DEF NoIdNoState
<1>4. CASE Written /\ ~(AddNext \/ Wipe)
  <2>1. InUse' = InUse /\ InUse \subseteq Slots
    BY <1>4, AccountsStay DEF InUse
  <2>2. ASSUME NEW c \in AccIds, RegisterAdd(c) PROVE NoIdNoState'
    BY <2>1, <2>2, Numbers DEF RegisterAdd, TypeOK, NoIdNoState
  <2>3. CASE RegisterMark \/ UnregisterMark
    <3>1. at \in Slots /\ acc[at].id # Invalid
      BY <2>1, <2>3 DEF RegisterMark, UnregisterMark, WorksInUse
    <3>2. /\ acc'[at].id = acc[at].id
          /\ \A s \in Slots \ {at} : acc'[s] = acc[s]
      BY <2>3, <3>1 DEF RegisterMark, UnregisterMark, TypeOK
    <3>3. QED BY <2>1, <3>1, <3>2 DEF NoIdNoState
  <2>4. CASE UnregisterDone
    <3>1. at \in Slots
      BY <2>1, <2>4 DEF UnregisterDone, WorksInUse
    <3>2. /\ acc'[at].state = "UNREGISTERED"
          /\ \A s \in Slots \ {at} : acc'[s] = acc[s]
      BY <2>4, <3>1 DEF UnregisterDone, TypeOK
    <3>3. QED BY <2>1, <3>2 DEF NoIdNoState
  <2>5. CASE ReportState
    <3>1. cb # NoCallback
      BY <2>5 DEF ReportState, Locked
    <3>2. \A s \in Slots :
            /\ acc'[s].id = acc[s].id
            /\ s # cb.slot => acc'[s] = acc[s]
      BY <2>5 DEF ReportState, TypeOK
    <3>3. cb.slot \in InUse => acc[cb.slot].id # Invalid
      BY <2>1, <3>1, Numbers DEF CallbackOwns
    <3>4. QED BY <2>1, <3>2, <3>3 DEF NoIdNoState
  <2>6. QED BY <1>4, <2>2, <2>3, <2>4, <2>5
<1>5. QED BY <1>1, <1>2, <1>3, <1>4

LEMMA RegStep ==
  ASSUME RegInv, [Next]_vars
  PROVE  RegInv'
<1>1. TypeOK' /\ NoIdNoState' BY TypesStep, NoIdStep
<1>2. Ids' /\ Flow'
  BY PrepareStep, RegisterStep, WaitStep, UnregisterStep, EndStep, WorkerStep DEF Next, Main
<1>3. QED BY <1>1, <1>2 DEF RegInv, Ids, Flow

LEMMA RegInvHolds == Spec => []RegInv
BY RegInit, RegStep, PTL DEF Spec

----------------------------------------------------------------------------
\* Every variable of the command keeps its type: no slot beyond the table, no
\* answer that is no state (account.c:26-52, 364-382).
THEOREM RegistrationTypes == Spec => []TypeOK
<1>1. RegInv => TypeOK BY DEF RegInv
<1>2. QED BY <1>1, RegInvHolds, PTL

\* When the manager is wiped PJSUA knows none of its accounts any more and no
\* callback holds one of its slots (cmd_register.c:112-115).
THEOREM NothingIsLeft == Spec => []NothingOutlivesManager
<1>1. RegInv => NothingOutlivesManager
  <2> SUFFICES ASSUME RegInv, pc \in {"wiped", "done"}
               PROVE  (\A c \in AccIds : reg[c] = "free") /\ cb.slot = NoSlot
    BY DEF NothingOutlivesManager
  <2>1. InUse = {}
    BY NothingInUse DEF RegInv, Stages
  <2>2. QED BY <2>1 DEF RegInv, IdsKnown, CallbackOwns
<1>2. QED BY <1>1, RegInvHolds, PTL

\* No answer changes the state of a slot that was unregistered
\* (account.c:291-299): its id is gone, and with it every way to it.
THEOREM UnregisteringIsFinal == Spec => UnregisteredIsFinal
<1>1. ASSUME RegInv, [Next]_vars, NEW s \in InUse,
             pc \in {"unregister", "marked", "deleted"}, s < at
      PROVE  acc'[s].state = acc[s].state
  <2>1. /\ s \in Slots /\ s # at /\ acc[s].id = Invalid /\ acc[s].state = "UNREGISTERED"
        /\ acc \in [Slots -> [id : AccIds \cup {Invalid}, state : AccountState]]
    BY <1>1, SlotTypes DEF RegInv, EndedSlots, NoIdNoState, TypeOK
  <2>2. CASE ReportState
    <3>1. cb # NoCallback /\ CallbackOwns
      BY <1>1, <2>2 DEF RegInv, ReportState, Locked
    <3>2. cb.slot # s
      BY <2>1, <3>1, Numbers DEF CallbackOwns
    <3>3. QED BY <2>1, <2>2, <3>2 DEF ReportState
  <2>3. CASE UnregisterMark \/ UnregisterDone
    BY <2>1, <2>3 DEF UnregisterMark, UnregisterDone
  <2>4. CASE Wipe
    BY <2>1, <2>4 DEF Wipe
  <2>5. CASE RegisterMark \/ \E c \in AccIds : RegisterAdd(c)
    BY <1>1, <2>5 DEF RegisterMark, RegisterAdd, ToRegister
  <2>6. CASE ~(ReportState \/ UnregisterMark \/ UnregisterDone \/ Wipe \/ RegisterMark)
              /\ \A c \in AccIds : ~RegisterAdd(c)
    BY <1>1, <2>6, SlotsStay
  <2>7. QED BY <2>2, <2>3, <2>4, <2>5, <2>6
<1>2. RegInv /\ [Next]_vars =>
        (\A s \in InUse :
           pc \in {"unregister", "marked", "deleted"} /\ s < at => acc'[s].state = acc[s].state)
  BY <1>1
<1>3. QED BY <1>2, RegInvHolds, PTL DEF Spec, UnregisteredIsFinal

----------------------------------------------------------------------------
\* What is left of a step while the manager is attached.
Quiet == UNCHANGED <<accounts, acc, attached, reg, cb, overwritten>>

LEMMA AttachedStep ==
  ASSUME RegInv, [Next]_vars, attached'
  PROVE  \/ Attach /\ (\A s \in InUse : acc'[s].id = Invalid /\ acc'[s].state = "UNREGISTERED")
         \/ \E c \in AccIds : RegisterAdd(c)
         \/ RegisterMark
         \/ Worker
         \/ Quiet
<1> USE DEF RegInv
<1>1. CASE Prepare
  <2>1. CASE Attach
    BY <2>1, SlotTypes DEF Attach, FreshSlots, Fresh
  <2>2. CASE BeginFails \/ Begin
    BY <2>2 DEF BeginFails, Begin, Quiet, mgr, pjsua, history
  <2>3. CASE AddNext
    BY <2>3 DEF AddNext, Stages
  <2>4. QED BY <1>1, <2>1, <2>2, <2>3 DEF Prepare
<1>2. CASE Register
  BY <1>2 DEF Register, RegisterRefused, RegisterSkip, RegisteredAll, Quiet, mgr, pjsua, history
<1>3. CASE Wait \/ Interrupt \/ UNCHANGED vars
  BY <1>3 DEF Wait, WaitBegin, WaitedAll, WaitRegistered, WaitFailed, WaitTimesOut,
              Interrupt, Quiet, mgr, pjsua, history, vars
<1>4. CASE Detach \/ Unregister \/ Wipe \/ Shutdown
  BY <1>4 DEF Detach, Unregister, UnregisterSkip, UnregisterMark, UnregisterDelete,
              UnregisterDone, Wipe, Shutdown, Stages, mgr
<1>5. QED BY <1>1, <1>2, <1>3, <1>4 DEF Next, Main

\* What StatusIsOwn says of a slot that no callback is about to write.
Tells(s) ==
  /\ acc[s].state = "REGISTERED" => reg[acc[s].id] \in {"ok", "other"}
  /\ acc[s].state = "FAILED" => reg[acc[s].id] \in {"failed", "other"}
  /\ reg[acc[s].id] = "ok" => acc[s].state = "REGISTERED" \/ s \in overwritten
  /\ reg[acc[s].id] = "failed" => acc[s].state = "FAILED" \/ s \in overwritten

LEMMA StatusIsTold ==
  StatusIsOwn <=>
    \A s \in InUse : attached /\ acc[s].id # Invalid /\ cb.id # acc[s].id => Tells(s)
BY DEF StatusIsOwn, Tells

LEMMA StatusStep ==
  ASSUME RegInv, StatusIsOwn, [Next]_vars
  PROVE  StatusIsOwn'
<1> SUFFICES ASSUME NEW s \in InUse', attached', acc'[s].id # Invalid, cb'.id # acc'[s].id
             PROVE  Tells(s)'
  BY DEF StatusIsOwn, Tells
<1> USE DEF RegInv
<1>1. accounts' = accounts /\ InUse' = InUse /\ s \in Slots
  <2>1. ~(AddNext \/ Wipe)
    BY DEF AddNext, Wipe, Stages
  <2>2. QED BY <2>1, AccountsStay, SlotTypes DEF InUse
<1>2. CASE Attach /\ \A t \in InUse : acc'[t].id = Invalid /\ acc'[t].state = "UNREGISTERED"
  BY <1>1, <1>2
<1>3. ASSUME NEW c \in AccIds, RegisterAdd(c)
      PROVE  Tells(s)'
  <2>1. /\ pc = "register" /\ at \in InUse /\ reg[c] = "free" /\ UNCHANGED <<attached, cb>>
    BY <1>3 DEF RegisterAdd, ToRegister
  <2>2. at \in Slots /\ acc[at].state = "UNREGISTERED"
    BY <2>1, SlotTypes DEF FreshSlots, Fresh
  <2>3. CASE s = at
    BY <1>3, <2>2, <2>3 DEF RegisterAdd, TypeOK, Tells
  <2>4. CASE s # at
    <3>1. acc'[s] = acc[s]
      BY <1>1, <1>3, <2>4 DEF RegisterAdd, TypeOK
    <3>2. acc[s].id \in AccIds /\ acc[s].id # c
      BY <1>1, <2>1, <3>1, SlotTypes DEF IdsLive
    <3>3. reg'[acc[s].id] = reg[acc[s].id]
      BY <1>3, <3>2 DEF RegisterAdd, TypeOK
    <3>4. overwritten' = overwritten BY <1>3 DEF RegisterAdd, history
    <3>5. QED BY <1>1, <2>1, <3>1, <3>3, <3>4 DEF StatusIsOwn, Tells
  <2>5. QED BY <2>3, <2>4
<1>4. CASE RegisterMark
  <2>1. at \in Slots /\ UNCHANGED <<attached, reg, cb>>
    BY <1>4, SlotTypes DEF RegisterMark, WorksInUse
  <2>2. CASE s = at
    <3>1. acc'[s].state = "REGISTERING" /\ acc'[s].id = acc[s].id
      BY <1>4, <2>1, <2>2 DEF RegisterMark, TypeOK
    <3>2. Tells(s)
      BY <1>1, <2>1, <3>1, StatusIsTold
    <3>3. /\ overwritten \subseteq overwritten'
          /\ acc[s].state \in {"REGISTERED", "FAILED"} => s \in overwritten'
      BY <1>4, <2>2 DEF RegisterMark
    <3>4. QED BY <2>1, <3>1, <3>2, <3>3 DEF Tells
  <2>3. CASE s # at
    <3>1. acc'[s] = acc[s]
      BY <1>1, <1>4, <2>3 DEF RegisterMark, TypeOK
    <3>2. s \in overwritten' <=> s \in overwritten
      BY <1>4, <2>3 DEF RegisterMark
    <3>3. QED BY <1>1, <2>1, <3>1, <3>2 DEF StatusIsOwn, Tells
  <2>4. QED BY <2>2, <2>3
<1>5. ASSUME NEW c \in AccIds, OnRegState(c)
      PROVE  Tells(s)'
  <2>1. cb = NoCallback /\ cb'.id = c /\ UNCHANGED <<acc, attached>>
    <3>1. cb = NoCallback BY <1>5, Zenon DEF OnRegState, Locked
    <3>2. cb'.id = c BY <1>5 DEF OnRegState
    <3>3. UNCHANGED <<acc, attached>> BY <1>5, Zenon DEF OnRegState, mgr
    <3>4. QED BY <3>1, <3>2, <3>3
  <2>2. acc[s].id \in AccIds /\ acc[s].id # c /\ cb.id # acc[s].id
    BY <1>1, <2>1, SlotTypes, Numbers
  <2>3. reg'[acc[s].id] = reg[acc[s].id]
    BY <1>5, <2>2 DEF OnRegState, TypeOK
  <2>4. overwritten' = overwritten
    BY <1>5, Zenon DEF OnRegState
  <2>5. QED BY <1>1, <2>1, <2>2, <2>3, <2>4 DEF StatusIsOwn, Tells
<1>6. CASE ReportState
  <2>1. cb # NoCallback /\ UNCHANGED <<attached, reg>>
    BY <1>6 DEF ReportState, Locked
  <2>2. cb.slot \in InUse /\ acc[cb.slot].id = cb.id /\ cb.slot # NoSlot
    BY <2>1 DEF CallbackOwns
  <2>3. CASE s = cb.slot
    <3>1. acc'[s].id = cb.id /\ acc'[s].state = StateAfter(acc[s].state, reg[cb.id])
      BY <1>1, <1>6, <2>2, <2>3 DEF ReportState, TypeOK
    <3>2. reg[cb.id] \in Answers
      BY <2>1 DEF CallbackOwns
    <3>3. QED BY <2>1, <3>1, <3>2 DEF StateAfter, Answers, Tells
  <2>4. CASE s # cb.slot
    <3>1. acc'[s] = acc[s]
      BY <1>1, <1>6, <2>4 DEF ReportState, TypeOK
    <3>2. cb.id # acc[s].id
      BY <1>1, <2>2, <2>4, <3>1 DEF IdsDistinct
    <3>3. s \in overwritten' <=> s \in overwritten
      BY <1>6, <2>4 DEF ReportState
    <3>4. QED BY <1>1, <2>1, <3>1, <3>2, <3>3 DEF StatusIsOwn, Tells
  <2>5. QED BY <2>3, <2>4
<1>7. CASE Quiet
  BY <1>1, <1>7 DEF Quiet, StatusIsOwn, Tells
<1>8. QED
  BY <1>2, <1>3, <1>4, <1>5, <1>6, <1>7, AttachedStep DEF Worker

\* What a slot says of its registration is what PJSUA last heard for its own
\* account, whatever the order of answers and steps, and the only outcome ever
\* lost is the one the command writes over (account.c:274, 373-381).
THEOREM StatusStaysOwn == Spec => []StatusIsOwn
<1>1. Init => StatusIsOwn
  <2> SUFFICES ASSUME Init PROVE StatusIsOwn
    OBVIOUS
  <2>1. ~attached BY Zenon DEF Init
  <2>2. QED BY <2>1 DEF StatusIsOwn
<1>2. RegInv /\ StatusIsOwn /\ [Next]_vars => StatusIsOwn'
  BY StatusStep
<1>3. QED BY <1>1, <1>2, RegInvHolds, PTL DEF Spec

----------------------------------------------------------------------------
\* With -a the command seeks one account.  A slot says REGISTERED, or is about
\* to, only if the registrar accepted its account...
AcceptedKnown ==
  /\ attached => \A s \in InUse : acc[s].state = "REGISTERED" => Cfg(s).id \in accepted
  /\ cb.slot # NoSlot /\ reg[cb.id] = "ok" => Cfg(cb.slot).id \in accepted

\* ... the slot the main thread works on is that of the account it seeks...
Seeking == Single /\ ~opts.unregister

AtOwn == at \in InUse /\ Cfg(at).id = opts.account

SeeksOwn ==
  Seeking => (pc \in {"register", "added", "waiting"} => AtOwn) /\ pc # "wait"

\* ... and it comes to the cleanup without an error only once it is accepted.
Cleanup == {"detach", "unregister", "marked", "deleted", "wiped", "done"}

ResultTells ==
  Seeking /\ result = 0 /\ pc \in Cleanup => opts.account \in accepted

SeekInv == AcceptedKnown /\ SeeksOwn /\ ResultTells

\* What a registrar accepted stays accepted, and the options stay.
LEMMA HistoryGrows ==
  ASSUME [Next]_vars
  PROVE  accepted \subseteq accepted' /\ opts' = opts
<1>1. CASE Worker
  BY <1>1 DEF Worker, OnRegState, ReportState
<1>2. CASE ~Worker
  BY <1>2
     DEF Next, Main, Prepare, Register, Wait, Unregister, BeginFails, Begin,
         AddNext, Attach, RegisterRefused, RegisterAdd, RegisterMark, RegisterSkip,
         RegisteredAll, WaitBegin, WaitedAll, WaitRegistered, WaitFailed, WaitTimesOut,
         Detach, UnregisterSkip, UnregisterMark, UnregisterDelete, UnregisterDone, Wipe,
         Shutdown, Interrupt, vars, pjsua, history
<1>3. QED BY <1>1, <1>2

\* The callback that runs goes on, another begins, or none does.
LEMMA CallbackStep ==
  ASSUME RegInv, [Next]_vars, cb' # NoCallback
  PROVE  \/ \E c \in AccIds : OnRegState(c)
         \/ cb' = cb /\ (reg'[cb.id] = "ok" => reg[cb.id] = "ok")
<1>1. CASE ReportState
  BY <1>1 DEF ReportState
<1>2. CASE \E c \in AccIds : RegisterAdd(c)
  BY <1>2 DEF RegisterAdd, Locked
<1>3. CASE UnregisterDelete \/ Shutdown
  BY <1>3 DEF UnregisterDelete, Shutdown, Locked
<1>4. CASE ~(ReportState \/ UnregisterDelete \/ Shutdown) /\ \A c \in AccIds : ~RegisterAdd(c)
  BY <1>4
     DEF Next, Main, Prepare, Register, Wait, Unregister, Worker, BeginFails, Begin,
         AddNext, Attach, RegisterRefused, RegisterMark, RegisterSkip,
         RegisteredAll, WaitBegin, WaitedAll, WaitRegistered, WaitFailed, WaitTimesOut,
         Detach, UnregisterSkip, UnregisterMark, UnregisterDone, Wipe,
         Interrupt, vars, pjsua
<1>5. QED BY <1>1, <1>2, <1>3, <1>4

LEMMA AcceptedStep ==
  ASSUME RegInv, AcceptedKnown, [Next]_vars
  PROVE  AcceptedKnown'
<1> USE DEF RegInv
<1>1. accepted \subseteq accepted' /\ RegInv'
  BY HistoryGrows, RegStep
<1>2. CASE AddNext \/ Wipe
  <2>1. pc' \in {"adding", "wiped"}
    BY <1>2 DEF AddNext, Wipe, Goto
  <2>2. ~attached'
    BY <1>1, <2>1 DEF Stages
  <2>3. cb'.slot = NoSlot
    <3>1. CASE AddNext
      BY <3>1, NothingAdded, Numbers DEF AddNext, pjsua
    <3>2. CASE Wipe
      <4>1. InUse' = {} BY <3>2, MaxAccountsAssumption DEF Wipe, InUse, Slots
      <4>2. QED BY <1>1, <4>1 DEF CallbackOwns
    <3>3. QED BY <1>2, <3>1, <3>2
  <2>4. QED BY <2>2, <2>3 DEF AcceptedKnown
<1>3. CASE ~(AddNext \/ Wipe)
  <2>1. accounts' = accounts /\ InUse' = InUse /\ InUse \subseteq Slots
    BY <1>3, AccountsStay, SlotTypes DEF InUse
  <2>2. ASSUME attached', NEW s \in InUse, acc'[s].state = "REGISTERED"
        PROVE  Cfg(s).id \in accepted'
    <3>1. CASE \E c \in AccIds : RegisterAdd(c)
      <4>1. attached /\ acc'[s].state = acc[s].state
        BY <2>1, <2>2, <3>1 DEF RegisterAdd, TypeOK
      <4>2. QED BY <1>1, <2>2, <4>1 DEF AcceptedKnown
    <3>2. CASE RegisterMark
      <4>1. at \in Slots /\ attached
        BY <2>2, <3>2, SlotTypes DEF RegisterMark, WorksInUse
      <4>2. s # at /\ acc'[s] = acc[s]
        BY <2>1, <2>2, <3>2, <4>1 DEF RegisterMark, TypeOK
      <4>3. QED BY <1>1, <2>2, <4>1, <4>2 DEF AcceptedKnown
    <3>3. CASE \E c \in AccIds : OnRegState(c)
      BY <1>1, <2>2, <3>3 DEF OnRegState, mgr, AcceptedKnown
    <3>4. CASE ReportState
      <4>1. attached BY <2>2, <3>4 DEF ReportState
      <4>2. CASE s = cb.slot /\ cb.slot # NoSlot
        <5>1. cb # NoCallback BY <3>4 DEF ReportState, Locked
        <5>2. acc'[s].state = StateAfter(acc[s].state, reg[cb.id])
          BY <2>1, <3>4, <4>2 DEF ReportState, TypeOK
        <5>3. reg[cb.id] = "ok" \/ acc[s].state = "REGISTERED"
          BY <2>2, <5>2 DEF StateAfter
        <5>4. QED BY <1>1, <2>2, <4>1, <4>2, <5>3 DEF AcceptedKnown
      <4>3. CASE ~(s = cb.slot /\ cb.slot # NoSlot)
        <5>1. acc'[s] = acc[s]
          BY <2>1, <3>4, <4>3 DEF ReportState, TypeOK
        <5>2. QED BY <1>1, <2>2, <4>1, <5>1 DEF AcceptedKnown
      <4>4. QED BY <4>2, <4>3
    <3>5. CASE Quiet
      BY <1>1, <2>2, <3>5 DEF Quiet, AcceptedKnown
    <3>6. QED BY <2>2, <3>1, <3>2, <3>3, <3>4, <3>5, AttachedStep DEF Worker
  <2>3. ASSUME cb'.slot # NoSlot, reg'[cb'.id] = "ok"
        PROVE  Cfg(cb'.slot).id \in accepted'
    <3>1. cb' # NoCallback
      BY <2>3, Numbers
    <3>2. CASE \E c \in AccIds : OnRegState(c)
      <4>1. PICK c \in AccIds : OnRegState(c) BY <3>2
      <4>2. cb'.id = c BY <4>1 DEF OnRegState
      <4>3. accepted' = accepted \cup {Cfg(cb'.slot).id}
        BY <2>3, <4>1, <4>2 DEF OnRegState
      <4>4. QED BY <4>3
    <3>3. CASE cb' = cb /\ (reg'[cb.id] = "ok" => reg[cb.id] = "ok")
      BY <1>1, <2>3, <3>3 DEF AcceptedKnown
    <3>4. QED BY <3>1, <3>2, <3>3, CallbackStep
  <2>4. \A s \in Slots \cup {cb'.slot} : Cfg(s)' = Cfg(s)
    BY <2>1 DEF Cfg
  <2>5. QED BY <2>1, <2>2, <2>3, <2>4 DEF AcceptedKnown
<1>4. QED BY <1>2, <1>3

LEMMA SeeksStep ==
  ASSUME RegInv, SeeksOwn, [Next]_vars
  PROVE  SeeksOwn'
<1> USE DEF RegInv
<1>1. opts' = opts BY HistoryGrows
<1> SUFFICES ASSUME Seeking
             PROVE  (pc' \in {"register", "added", "waiting"} => AtOwn') /\ pc' # "wait"
  BY <1>1 DEF SeeksOwn, Seeking, Single
<1>2. pc # "wait" /\ (pc \in {"register", "added", "waiting"} => AtOwn)
  BY DEF SeeksOwn
<1>3. ASSUME accounts' = accounts, at' = at, AtOwn PROVE AtOwn'
  BY <1>1, <1>3 DEF AtOwn, Cfg, InUse
<1>4. CASE Prepare
  <2>1. CASE Attach
    <3>1. pc' # "wait"
      BY <2>1 DEF Attach, Goto
    <3>2. ASSUME pc' = "register" PROVE AtOwn'
      <4>1. PICK s \in InUse : IsFirst(accounts, opts.account, s + 1) /\ Goto("register", s)
        BY <2>1, <3>2 DEF Attach, Goto, Seeking
      <4>2. accounts[s + 1].id = opts.account /\ at' = s /\ accounts' = accounts
        BY <2>1, <4>1 DEF IsFirst, Found, Goto, Attach
      <4>3. QED BY <1>1, <4>1, <4>2 DEF AtOwn, Cfg, InUse
    <3>3. pc' \in {"detach", "register"}
      BY <2>1 DEF Attach, Goto
    <3>4. QED BY <3>2, <3>3
  <2>2. CASE BeginFails \/ Begin \/ AddNext
    BY <2>2 DEF BeginFails, Quit, Begin, AddNext, Goto
  <2>3. QED BY <1>4, <2>1, <2>2 DEF Prepare
<1>5. CASE Register
  <2>1. CASE RegisterRefused \/ RegisterSkip \/ RegisteredAll
    BY <1>2, <2>1 DEF RegisterRefused, RegisterSkip, RegisteredAll, ToRegister, AtOwn,
                      Goto, Seeking
  <2>2. CASE \E c \in AccIds : RegisterAdd(c)
    <3>1. pc = "register" /\ pc' = "added" /\ UNCHANGED <<accounts, at>>
      BY <2>2 DEF RegisterAdd, ToRegister, Goto
    <3>2. QED BY <1>2, <1>3, <3>1
  <2>3. CASE RegisterMark
    <3>1. pc = "added" /\ pc' = "waiting" /\ UNCHANGED <<accounts, at>>
      BY <2>3 DEF RegisterMark, AfterRegister, Goto, Seeking
    <3>2. QED BY <1>2, <1>3, <3>1
  <2>4. QED BY <1>5, <2>1, <2>2, <2>3 DEF Register
<1>6. CASE Wait
  <2>1. pc' = "detach"
    BY <1>2, <1>6 DEF Wait, WaitBegin, WaitedAll, WaitRegistered, WaitFailed, WaitTimesOut,
                      AfterWait, Waiting, Goto, Seeking
  <2>2. QED BY <2>1
<1>7. CASE Detach \/ Unregister \/ Wipe \/ Shutdown
  BY <1>7 DEF Detach, Unregister, UnregisterSkip, UnregisterMark, UnregisterDelete,
              UnregisterDone, Wipe, Shutdown, Goto
<1>8. CASE Worker \/ Interrupt \/ UNCHANGED vars
  <2>1. UNCHANGED <<accounts, pc, at>>
    BY <1>8 DEF Worker, OnRegState, ReportState, Interrupt, mgr, vars
  <2>2. QED BY <1>2, <1>3, <2>1
<1>9. QED BY <1>4, <1>5, <1>6, <1>7, <1>8 DEF Next, Main

LEMMA ResultStep ==
  ASSUME RegInv, AcceptedKnown, SeeksOwn, ResultTells, [Next]_vars
  PROVE  ResultTells'
<1> USE DEF RegInv
<1>1. accepted \subseteq accepted' /\ opts' = opts BY HistoryGrows
<1> SUFFICES ASSUME Seeking, result' = 0, pc' \in Cleanup
             PROVE  opts.account \in accepted
  BY <1>1 DEF ResultTells, Seeking, Single
<1>2. ASSUME result = 0, pc \in Cleanup PROVE opts.account \in accepted
  BY <1>2 DEF ResultTells
<1>3. CASE Prepare
  BY <1>3 DEF Prepare, BeginFails, Quit, Begin, AddNext, Attach, Goto, Cleanup, Seeking
<1>4. CASE Register
  BY <1>4 DEF Register, RegisterRefused, RegisterAdd, RegisterMark, RegisterSkip,
              RegisteredAll, ToRegister, AfterRegister, Goto, Cleanup, Seeking,
              SeeksOwn, AtOwn
<1>5. CASE Wait
  <2>1. CASE WaitRegistered
    <3>1. pc = "waiting" /\ attached /\ acc[at].state = "REGISTERED" /\ AtOwn
      BY <2>1 DEF WaitRegistered, Waiting, SeeksOwn, Stages
    <3>2. QED BY <3>1 DEF AtOwn, AcceptedKnown
  <2>2. CASE WaitBegin \/ WaitedAll \/ WaitFailed \/ WaitTimesOut
    BY <2>2 DEF WaitBegin, WaitedAll, WaitFailed, WaitTimesOut, AfterWait, Waiting, Goto,
                Seeking, SeeksOwn
  <2>3. QED BY <1>5, <2>1, <2>2 DEF Wait
<1>6. CASE Detach \/ Unregister \/ Wipe \/ Shutdown
  BY <1>2, <1>6 DEF Detach, Unregister, UnregisterSkip, UnregisterMark, UnregisterDelete,
                    UnregisterDone, Wipe, Shutdown, Cleanup
<1>7. CASE Worker \/ Interrupt \/ UNCHANGED vars
  BY <1>2, <1>7 DEF Worker, OnRegState, ReportState, Interrupt, vars
<1>8. QED BY <1>3, <1>4, <1>5, <1>6, <1>7 DEF Next, Main

LEMMA SeekInit == Init => SeekInv
<1> SUFFICES ASSUME Init PROVE SeekInv
  OBVIOUS
<1>1. ~attached BY Zenon DEF Init
<1>2. cb.slot = NoSlot /\ pc = "begin" BY Numbers DEF Init
<1>3. QED BY <1>1, <1>2 DEF SeekInv, AcceptedKnown, SeeksOwn, ResultTells, Cleanup

\* With -a an exit status of 0 means that the registrar accepted that very
\* account (cmd_register.c:65-73): no timeout, refusal or answer for another
\* account, however they interleave, makes it 0.
THEOREM SuccessIsTrue == Spec => []SuccessIsAccepted
<1>1. RegInv /\ SeekInv /\ [Next]_vars => SeekInv'
  BY AcceptedStep, SeeksStep, ResultStep DEF SeekInv
<1>2. SeekInv => SuccessIsAccepted
  BY DEF SeekInv, ResultTells, Cleanup, Seeking, SuccessIsAccepted
<1>3. QED BY SeekInit, RegInvHolds, <1>1, <1>2, PTL DEF Spec
=============================================================================
