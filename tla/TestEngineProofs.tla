--------------------------- MODULE TestEngineProofs ---------------------------
(***************************************************************************)
(* Proofs about TestEngine, for every test file, every number of slots,     *)
(* calls and digits, and every limit of the DTMF buffer: the types, that a  *)
(* test leaves nothing behind, that a buffer holds the digits of its own    *)
(* call, and that a verdict of PASSED is earned.                            *)
(***************************************************************************)
EXTENDS TestEngine, CallCommandsProofs

----------------------------------------------------------------------------
\* The inductive invariant.  First the types and the places.

Blank == {"begin", "init", "attach"}

Engaged == {"accounts", "register", "dial", "dialling", "connect", "act", "connecting",
            "storing", "hanging", "collect", "analyze", "evaluate", "cleanup"}

Decided == {"cleanup", "ending", "detach", "late", "wipe", "shutdown", "destroy", "done"}

Findings == [connected : BOOLEAN, digits : Seq(Nat), from : Slots \cup {NoSlot},
             beeps : Nat, frequency : Nat]

EngineTypes ==
  /\ UATypeOK /\ MediaTypes
  /\ opts \in Options /\ pc \in EnginePlaces
  /\ at \in Slots \cup {NoSlot} /\ caller \in Slots \cup {NoSlot}
  /\ receiver \in Slots \cup {NoSlot}
  /\ result \in {0, 1}
  /\ running \in BOOLEAN /\ stuck \in BOOLEAN /\ connected \in BOOLEAN
  /\ engine \in BOOLEAN /\ crashed \in BOOLEAN
  /\ role \in {"receiver", "caller"} /\ status \in Statuses
  /\ found \in Findings
  /\ entered \subseteq Ids
  /\ tone \in {NoTone} \cup [id : Ids, digit : Nat]
  /\ dtmf \in [Slots -> Seq(Nat)] /\ heard \in [Slots -> Seq(Nat)]
  /\ \A s \in Slots : Len(dtmf[s]) <= MaxDtmf
  /\ arrivals \in Nat /\ sent \in Nat
  /\ pc \in {"connecting", "storing"} => Head(todo) \in Kinds

\* Which slot is the caller's, while it is dialled and after.
CallerInv ==
  /\ pc \in Blank \cup {"accounts", "register", "dial"} => at = NoSlot /\ caller = NoSlot
  /\ pc = "dialling" => at \in Slots /\ caller = NoSlot /\ app.slot = at
  /\ pc \in {"connecting", "storing"} => at \in Slots
  /\ pc \in {"connect", "act", "connecting", "storing", "hanging", "collect", "analyze"}
       => caller \in Slots

\* Who can reach the engine, and what the exit status says.
ReachInv ==
  /\ engine <=> pc \in Engaged
  /\ engine => "calls" \in links
  /\ pc \in Blank \cup {"done"} => entered = {} /\ tone = NoTone
  /\ pc \in Decided => (result = 0 <=> status = "PASSED")
  /\ status = "PASSED" => pc \in Decided
  /\ pc \in {"shutdown", "destroy"} => \A s \in Slots : media[s] = {}

\* Until the engine is out of reach, the ids in the table are live.
EngineIds ==
  /\ pc \in Blank \cup Engaged => IdsInv
  /\ pc \in Blank =>
       /\ \A s \in Slots : call[s].id = Invalid /\ dtmf[s] = <<>> /\ heard[s] = <<>>
       /\ \A c \in Ids : cb[c].at # "claimed"
       /\ receiver = NoSlot

\* A session does not end under an on_dtmf_digit, and a slot once taken is never
\* free again: so neither the digit on its way nor the slots that the engine
\* keeps pointers to can pass to another call.
TakenInv ==
  /\ tone # NoTone => inv[tone.id] \in {"CONFIRMED", "DISCONNECTED"}
  /\ receiver # NoSlot => call[receiver].state # "NULL"
  /\ found.from # NoSlot => call[found.from].state # "NULL"
  /\ \A c \in Ids : cb[c].at = "claimed" =>
       cb[c].slot \in Slots /\ call[cb[c].slot].state # "NULL"

\* The slot the caller's call may have to share.
Shared == IF caller = NoSlot THEN at ELSE caller

Begins(a, b) == Len(a) <= Len(b) /\ \A i \in 1 .. Len(a) : a[i] = b[i]

OccursIn(a, b) == \A i \in 1 .. Len(a) : \E j \in 1 .. Len(b) : b[j] = a[i]

\* The digit that a callback is about to store for slot s.
Pending(s) == tone # NoTone /\ call[s].id = tone.id

BufferOf(s) ==
  /\ OccursIn(dtmf[s], heard[s])
  /\ Pending(s) => heard[s] # <<>> /\ heard[s][Len(heard[s])] = tone.digit
  /\ s # Shared =>
       /\ Begins(dtmf[s], heard[s])
       /\ call[s].id # Invalid =>
            LET stored == IF Pending(s) THEN Len(heard[s]) - 1 ELSE Len(heard[s])
            IN  Len(dtmf[s]) = IF stored < MaxDtmf THEN stored ELSE MaxDtmf

BufferInv == \A s \in Slots : BufferOf(s)

\* What the verdict is based on.
Reflects(digits, s) ==
  OccursIn(digits, heard[s]) /\ (s # caller => Begins(digits, heard[s]))

VerdictInv ==
  /\ found.connected => connected
  /\ found.from = NoSlot => found.digits = <<>>
  /\ found.from # NoSlot =>
       pc \in {"analyze", "evaluate"} \cup Decided /\ Reflects(found.digits, found.from)
  /\ status = "PASSED" => Passes

EngineInv ==
  /\ TableInv /\ EngineTypes /\ CallerInv /\ LifeInv /\ ReachInv /\ ObjectsCover
  /\ EngineIds /\ ConfirmedSeen
  /\ engine => TakenInv /\ BufferInv
  /\ VerdictInv


----------------------------------------------------------------------------
\* Sequences of digits.

LEMMA PrefixBegins ==
  ASSUME NEW a \in Seq(Nat), NEW b \in Seq(Nat)
  PROVE  IsPrefix(a, b) <=> Begins(a, b)
<1>1. CASE Len(a) <= Len(b)
  <2>1. SubSeq(a, 1, Len(a)) = a
    OBVIOUS
  <2>2. /\ SubSeq(b, 1, Len(a)) \in Seq(Nat) /\ Len(SubSeq(b, 1, Len(a))) = Len(a)
        /\ \A i \in 1 .. Len(a) : SubSeq(b, 1, Len(a))[i] = b[i]
    BY <1>1
  <2>3. a = SubSeq(b, 1, Len(a)) <=> \A i \in 1 .. Len(a) : a[i] = b[i]
    BY <2>2
  <2>4. QED BY <1>1, <2>1, <2>3 DEF IsPrefix, Begins
<1>2. CASE ~(Len(a) <= Len(b))
  BY <1>2 DEF IsPrefix, Begins
<1>3. QED BY <1>1, <1>2

LEMMA BeginsOn ==
  ASSUME NEW a \in Seq(Nat), NEW b \in Seq(Nat), NEW d \in Seq(Nat), Begins(a, b), Begins(b, d)
  PROVE  Begins(a, d)
BY DEF Begins

\* A digit more was sent, and is stored or not.
LEMMA AppendedKept ==
  ASSUME NEW a \in Seq(Nat), NEW b \in Seq(Nat), NEW d \in Nat
  PROVE  /\ OccursIn(a, b) => OccursIn(a, Append(b, d))
         /\ Begins(a, b) => Begins(a, Append(b, d))
         /\ Append(b, d) \in Seq(Nat) /\ Len(Append(b, d)) = Len(b) + 1
         /\ Append(b, d)[Len(b) + 1] = d /\ \A i \in 1 .. Len(b) : Append(b, d)[i] = b[i]
BY DEF OccursIn, Begins

\* Only a digit that was sent last is stored, and only if there is room.
LEMMA BufferedKept ==
  ASSUME NEW a \in Seq(Nat), NEW b \in Seq(Nat), NEW d \in Nat, Len(a) <= MaxDtmf,
         OccursIn(a, b), b # <<>>, b[Len(b)] = d
  PROVE  /\ Buffered(a, d) \in Seq(Nat) /\ Len(Buffered(a, d)) <= MaxDtmf
         /\ OccursIn(Buffered(a, d), b)
         /\ Begins(a, b) /\ Len(a) = (IF Len(b) - 1 < MaxDtmf THEN Len(b) - 1 ELSE MaxDtmf) =>
              /\ Begins(Buffered(a, d), b)
              /\ Len(Buffered(a, d)) = IF Len(b) < MaxDtmf THEN Len(b) ELSE MaxDtmf
<1> USE MaxDtmfAssumption
<1>0. Len(b) \in Nat \ {0} /\ Len(a) \in Nat
  OBVIOUS
<1>1. CASE Len(a) < MaxDtmf
  <2>1. /\ Buffered(a, d) \in Seq(Nat) /\ Len(Buffered(a, d)) = Len(a) + 1
        /\ Buffered(a, d)[Len(a) + 1] = d
        /\ \A i \in 1 .. Len(a) : Buffered(a, d)[i] = a[i]
    BY <1>1, AppendedKept DEF Buffered
  <2>2. \A i \in 1 .. Len(a) + 1 : i \in 1 .. Len(a) \/ i = Len(a) + 1
    BY <1>0
  <2>3. OccursIn(Buffered(a, d), b)
    <3>1. SUFFICES ASSUME NEW i \in 1 .. Len(a) + 1
                   PROVE  \E j \in 1 .. Len(b) : b[j] = Buffered(a, d)[i]
      BY <2>1 DEF OccursIn
    <3>2. CASE i \in 1 .. Len(a)
      BY <2>1, <3>2 DEF OccursIn
    <3>3. CASE i = Len(a) + 1
      BY <1>0, <2>1, <3>3
    <3>4. QED BY <2>2, <3>2, <3>3
  <2>4. ASSUME Begins(a, b), Len(a) = (IF Len(b) - 1 < MaxDtmf THEN Len(b) - 1 ELSE MaxDtmf)
        PROVE  /\ Begins(Buffered(a, d), b)
               /\ Len(Buffered(a, d)) = IF Len(b) < MaxDtmf THEN Len(b) ELSE MaxDtmf
    <3>1. Len(a) = Len(b) - 1 BY <1>0, <1>1, <2>4
    <3>2. Begins(Buffered(a, d), b)
      <4>1. ASSUME NEW i \in 1 .. Len(a) + 1
            PROVE  Buffered(a, d)[i] = b[i]
        <5>1. CASE i \in 1 .. Len(a)
          BY <2>1, <2>4, <5>1 DEF Begins
        <5>2. CASE i = Len(a) + 1
          BY <1>0, <2>1, <3>1, <5>2
        <5>3. QED BY <2>2, <5>1, <5>2
      <4>2. QED BY <1>0, <2>1, <3>1, <4>1 DEF Begins
    <3>3. QED BY <1>0, <1>1, <2>1, <3>1, <3>2
  <2>5. QED BY <1>0, <1>1, <2>1, <2>3, <2>4
<1>2. CASE ~(Len(a) < MaxDtmf)
  <2>1. Buffered(a, d) = a BY <1>2 DEF Buffered
  <2>2. QED BY <1>0, <1>2, <2>1 DEF Begins
<1>3. QED BY <1>1, <1>2

----------------------------------------------------------------------------
\* The main thread, in five stretches.

Opening == LoadTest \/ StartEngine \/ AttachEngine \/ FindAccounts \/ RegisterAccounts \/ NoSlotToDial
Calling == DialCaller \/ Dialled \/ CallerConnects \/ NotConnected
Acts == Turn \/ ActOnMedia \/ ActInVain \/ ActHangup \/ ActHangingUp \/ RoleDone
Judging == Collect \/ Analyze \/ Evaluate
Closing == Cleanup \/ EndTestCalls \/ DetachEngine \/ EndLateCalls \/ ShutdownEngine

LEMMA MainStretches == EngineMain <=> Opening \/ Calling \/ Acts \/ Judging \/ Closing
BY DEF EngineMain, Opening, Calling, Acts, Judging, Closing

\* What it leaves to the callbacks, and how it changes the table.
LEMMA EngineFrame ==
  ASSUME EngineTypes, EngineMain
  PROVE  /\ UNCHANGED <<opts, connected, receiver, entered, tone, sent, arrivals, crashed>>
         /\ UNCHANGED <<dtmf, heard>> \/ DialCaller
         /\ UNCHANGED vars \/ (Make /\ (DialCaller \/ Dialled))
              \/ Hangup \/ HangupAll \/ EndLateCalls \/ Wipe \/ Shutdown
<1> USE DEF engineVars, handlers, verdict, files, Stay, Goto, Fail, Continue, Conclude, Proceed
<1>1. CASE Opening
  BY <1>1
     DEF Opening, LoadTest, StartEngine, AttachEngine, FindAccounts, RegisterAccounts, NoSlotToDial
<1>2. CASE Calling
  BY <1>2 DEF Calling, DialCaller, Dialled, CallerConnects, NotConnected, Make
<1>3. CASE Acts
  <2>1. CASE ActHangup
    <3>1. at \in Slots BY <2>1 DEF ActHangup, EngineTypes
    <3>2. QED BY <2>1, <3>1 DEF ActHangup, Hangup
  <2>2. CASE Turn \/ ActOnMedia \/ ActInVain \/ ActHangingUp \/ RoleDone
    BY <2>2 DEF Turn, ActOnMedia, CreateMedia, ConnectMedia, ConnectMediaFails, StoreMedia,
                ActInVain, ActHangingUp, RoleDone, Hangup
  <2>3. QED BY <1>3, <2>1, <2>2 DEF Acts
<1>4. CASE Judging
  BY <1>4 DEF Judging, Collect, Analyze, Evaluate
<1>5. CASE Closing
  BY <1>5 DEF Closing, Cleanup, EndTestCalls, DetachEngine, EndLateCalls, ShutdownEngine, Wipe,
              StopWorker, Shutdown, HangupAll
<1>6. QED BY <1>1, <1>2, <1>3, <1>4, <1>5, MainStretches

LEMMA EngineTable ==
  ASSUME TableInv, EngineTypes, EngineMain
  PROVE  TableInv'
<1>1. CASE EndLateCalls
  BY <1>1 DEF EndLateCalls, TableInv, TypeOK, MarkedId, CallbackOfSession
<1>2. CASE ~EndLateCalls
  BY <1>2, EngineFrame, TableStays, MakeTable, HangupTable, EndTable
<1>3. QED BY <1>1, <1>2

\* Which of its steps touch the recorders and players.
LEMMA EngineFiles ==
  ASSUME EngineMain
  PROVE  UNCHANGED files \/ ActOnMedia \/ Wipe \/ Shutdown
<1> USE DEF files
<1>1. CASE Opening
  BY <1>1
     DEF Opening, LoadTest, StartEngine, AttachEngine, FindAccounts, RegisterAccounts, NoSlotToDial
<1>2. CASE Calling
  BY <1>2 DEF Calling, DialCaller, Dialled, CallerConnects, NotConnected
<1>3. CASE Acts
  BY <1>3 DEF Acts, Turn, ActInVain, ActHangup, ActHangingUp, RoleDone
<1>4. CASE Judging
  BY <1>4 DEF Judging, Collect, Analyze, Evaluate
<1>5. CASE Closing
  BY <1>5 DEF Closing, Cleanup, EndTestCalls, DetachEngine, EndLateCalls, ShutdownEngine, StopWorker
<1>6. QED BY <1>1, <1>2, <1>3, <1>4, <1>5, MainStretches

LEMMA EngineAgent ==
  ASSUME UATypeOK, EngineMain
  PROVE  UATypeOK'
<1>1. CASE StartEngine \/ DetachEngine \/ ShutdownEngine \/ AttachEngine
  <2>1. CASE AttachEngine
    <3>1. \E what \in SUBSET {"accounts", "calls", "handlers"} : Attach(what)
      BY <2>1 DEF AttachEngine
    <3>2. QED BY <3>1, AgentTypes
  <2>2. CASE ShutdownEngine
    BY <2>2, AgentTypes DEF ShutdownEngine, Wipe, StopWorker, Shutdown, uaVars
  <2>3. QED BY <1>1, <2>1, <2>2, AgentTypes DEF StartEngine, DetachEngine
<1>2. CASE UNCHANGED uaVars
  BY <1>2, AgentTypes
<1>3. UNCHANGED uaVars \/ StartEngine \/ DetachEngine \/ ShutdownEngine \/ AttachEngine
  BY DEF EngineMain, LoadTest, FindAccounts, RegisterAccounts, NoSlotToDial, DialCaller, Dialled,
         CallerConnects, NotConnected, Turn, ActOnMedia, CreateMedia, ConnectMedia,
         ConnectMediaFails, StoreMedia, ActInVain, ActHangup, ActHangingUp, RoleDone, Collect,
         Analyze, Evaluate, Cleanup, EndTestCalls, EndLateCalls
<1>4. QED BY <1>1, <1>2, <1>3

LEMMA EngineMedia ==
  ASSUME EngineTypes, CallerInv, EngineMain
  PROVE  MediaTypes'
<1>1. CASE ActOnMedia
  BY <1>1, MediaStepTypes
     DEF ActOnMedia, EngineTypes, CallerInv, ConnectMedia, ConnectMediaFails, StoreMedia
<1>2. QED BY <1>1, EngineFiles, MediaStepTypes DEF EngineTypes

----------------------------------------------------------------------------
\* Types and places.

EngineFlow ==
  /\ pc \in EnginePlaces /\ at \in Slots \cup {NoSlot} /\ caller \in Slots \cup {NoSlot}
  /\ result \in {0, 1} /\ engine \in BOOLEAN
  /\ running \in BOOLEAN /\ stuck \in BOOLEAN
  /\ role \in {"receiver", "caller"} /\ status \in Statuses
  /\ pc \in {"connecting", "storing"} => Head(todo) \in Kinds

LEMMA EngineFlowTypes ==
  ASSUME EngineTypes, CallerInv, EngineMain
  PROVE  EngineFlow' /\ CallerInv'
<1> USE DEF EngineFlow, EngineTypes, CallerInv, EnginePlaces, Statuses, Blank,
            engineVars, verdict, handlers, vars, Stay, Goto, Fail, Continue, Conclude, Proceed
<1>1. CASE Opening
  BY <1>1
     DEF Opening, LoadTest, StartEngine, AttachEngine, FindAccounts, RegisterAccounts, NoSlotToDial
<1>2. CASE DialCaller
  <2>1. app'.slot \in Slots BY <1>2 DEF DialCaller, MakeClaim
  <2>2. QED BY <1>2, <2>1 DEF DialCaller
<1>3. CASE Dialled
  <2>1. CASE \E c \in Ids : MakeDialled(c) /\ Continue("dialling")
    BY <1>3, <2>1 DEF Dialled, MakeDialled
  <2>2. CASE MakeFailed /\ Conclude("ERROR", "cleanup")
    BY <1>3, <2>2 DEF Dialled
  <2>3. CASE MakeDone /\ Goto("connect") /\ caller' = at /\ UNCHANGED <<role, status, found>>
    BY <1>3, <2>3 DEF Dialled
  <2>4. QED BY <1>3, <2>1, <2>2, <2>3 DEF Dialled
<1>4. CASE CallerConnects \/ NotConnected
  BY <1>4 DEF CallerConnects, NotConnected
<1>5. CASE Acts
  <2>1. CASE Turn \/ RoleDone
    BY <2>1 DEF Turn, RoleDone, Leg
  <2>2. CASE ActOnMedia
    BY <2>2 DEF ActOnMedia, Acting, CreateMedia, Do, ConnectMedia, ConnectMediaFails, StoreMedia, NoSlot
  <2>3. CASE ActInVain \/ ActHangup \/ ActHangingUp
    BY <2>3 DEF ActInVain, ActHangup, ActHangingUp, Acting
  <2>4. QED BY <1>5, <2>1, <2>2, <2>3 DEF Acts
<1>6. CASE Judging
  <2>1. CASE Collect
    BY <2>1 DEF Collect
  <2>2. CASE Analyze
    BY <2>2 DEF Analyze
  <2>3. CASE Evaluate
    <3>1. PICK how \in {"PASSED", "FAILED"} : Conclude(how, "cleanup")
      BY <2>3 DEF Evaluate
    <3>2. QED BY <2>3, <3>1 DEF Evaluate
  <2>4. QED BY <1>6, <2>1, <2>2, <2>3 DEF Judging
<1>7. CASE Closing
  <2>1. CASE Cleanup
    BY <2>1 DEF Cleanup
  <2>2. CASE EndTestCalls
    BY <2>2 DEF EndTestCalls
  <2>3. CASE DetachEngine
    BY <2>3 DEF DetachEngine
  <2>4. CASE EndLateCalls
    BY <2>4 DEF EndLateCalls
  <2>5. CASE ShutdownEngine
    BY <2>5 DEF ShutdownEngine, Wipe, StopWorker, Shutdown
  <2>6. QED BY <1>7, <2>1, <2>2, <2>3, <2>4, <2>5 DEF Closing
<1>8. QED BY <1>1, <1>2, <1>3, <1>4, <1>5, <1>6, <1>7, MainStretches DEF Calling

\* What was found, and from where.
LEMMA FindingsMain ==
  ASSUME EngineTypes, EngineMain
  PROVE  /\ found' \in Findings
         /\ UNCHANGED found \/ CallerConnects \/ Collect \/ Analyze
         /\ CallerConnects => found' = [found EXCEPT !.connected = TRUE]
         /\ Analyze => /\ found'.connected = found.connected
                       /\ found'.digits = found.digits /\ found'.from = found.from
<1> USE DEF EngineTypes
<1>1. CASE CallerConnects
  BY <1>1 DEF CallerConnects, Findings, Analyze
<1>2. CASE Collect
  <2>1. dtmf[receiver] \in Seq(Nat) \/ receiver = NoSlot OBVIOUS
  <2>2. QED BY <1>2, <2>1 DEF Collect, Findings, Analyze, CallerConnects
<1>3. CASE Analyze
  <2>1. PICK analysis \in Analyses :
          found' = IF Test.expect.beeps > 0 /\ Recording
                   THEN [found EXCEPT !.beeps = analysis.beeps, !.frequency = analysis.frequency]
                   ELSE found
    BY <1>3 DEF Analyze
  <2>2. analysis.beeps \in Nat /\ analysis.frequency \in Nat
    BY AnalysesAssumption
  <2>3. QED BY <1>3, <2>1, <2>2 DEF Findings, Analyze, CallerConnects
<1>4. CASE UNCHANGED found /\ ~CallerConnects /\ ~Analyze
  BY <1>4
<1>5. UNCHANGED found \/ CallerConnects \/ Collect \/ Analyze
  BY DEF EngineMain, LoadTest, StartEngine, AttachEngine, FindAccounts, RegisterAccounts,
         NoSlotToDial, DialCaller, Dialled, NotConnected, Turn, ActOnMedia, ActInVain, ActHangup,
         ActHangingUp, RoleDone, Evaluate, Cleanup, EndTestCalls, DetachEngine, EndLateCalls,
         ShutdownEngine,
         Continue, Conclude, engineVars, verdict
<1>6. UNCHANGED found => ~CallerConnects \/ found' = [found EXCEPT !.connected = TRUE]
  BY DEF CallerConnects
<1>7. QED BY <1>1, <1>2, <1>3, <1>4, <1>5

LEMMA BufferTypes ==
  ASSUME EngineTypes, UNCHANGED <<dtmf, heard>> \/ \E s \in Slots : EmptyBuffer(s)
  PROVE  /\ dtmf' \in [Slots -> Seq(Nat)] /\ heard' \in [Slots -> Seq(Nat)]
         /\ \A s \in Slots : Len(dtmf'[s]) <= MaxDtmf
<1>1. <<>> \in Seq(Nat) /\ Len(<<>>) = 0 /\ 0 <= MaxDtmf
  BY MaxDtmfAssumption
<1>2. QED BY <1>1 DEF EngineTypes, EmptyBuffer

LEMMA EngineTypesMain ==
  ASSUME EngineTypes, CallerInv, EngineMain
  PROVE  EngineTypes' /\ CallerInv'
<1>1. EngineFlow' /\ CallerInv' BY EngineFlowTypes
<1>2. MediaTypes' /\ UATypeOK' BY EngineMedia, EngineAgent DEF EngineTypes
<1>3. found' \in Findings BY FindingsMain
<1>4. UNCHANGED <<opts, connected, receiver, entered, tone, sent, arrivals, crashed>>
  BY EngineFrame
<1>5. UNCHANGED <<dtmf, heard>> \/ \E s \in Slots : EmptyBuffer(s)
  <2>1. DialCaller => app'.slot \in Slots /\ EmptyBuffer(app'.slot)
    BY DEF DialCaller, MakeClaim
  <2>2. QED BY <2>1, EngineFrame
<1>6. QED BY <1>1, <1>2, <1>3, <1>4, <1>5, BufferTypes DEF EngineFlow, EngineTypes

----------------------------------------------------------------------------
\* The life of PJSUA and of the engine.

LEMMA EngineLife ==
  ASSUME LifeInv, EngineTypes, EngineMain
  PROVE  LifeInv'
<1> USE DEF Goto, Fail, Continue, Conclude, Proceed
<1>1. CASE LoadTest
  <2>1. /\ UNCHANGED <<ua, lib, links, inv, cb, objects>> /\ pc = "begin" /\ pc' \in {"init", "done"}
    BY <1>1 DEF LoadTest, uaVars, vars, files
  <2>2. QED BY <2>1 DEF LifeInv
<1>2. CASE StartEngine
  BY <1>2, LifeStarts DEF StartEngine, EngineTypes, vars, files
<1>3. CASE AttachEngine \/ FindAccounts \/ RegisterAccounts \/ NoSlotToDial
  BY <1>3, LifeStays
     DEF AttachEngine, FindAccounts, RegisterAccounts, NoSlotToDial, Attach, uaVars
<1>4. CASE Calling
  BY <1>4, LifeStays DEF Calling, DialCaller, Dialled, CallerConnects, NotConnected, uaVars
<1>5. CASE Acts
  BY <1>5, LifeStays
     DEF Acts, Turn, ActOnMedia, CreateMedia, Do, ConnectMedia, ConnectMediaFails, StoreMedia,
         ActInVain, ActHangup, ActHangingUp, Acting, RoleDone, uaVars
<1>6. CASE Judging
  BY <1>6, LifeStays DEF Judging, Collect, Analyze, Evaluate, uaVars
<1>7. CASE Cleanup \/ EndTestCalls \/ DetachEngine \/ EndLateCalls \/ Wipe
  BY <1>7, LifeStays
     DEF Cleanup, EndTestCalls, DetachEngine, EndLateCalls, Wipe, DetachManagers, uaVars
<1>8. CASE StopWorker \/ Shutdown
  BY <1>8, LifeEnds DEF EngineTypes
<1>9. QED BY <1>1, <1>2, <1>3, <1>4, <1>5, <1>6, <1>7, <1>8, MainStretches
      DEF Opening, Closing, ShutdownEngine

LEMMA ReachMain ==
  ASSUME ReachInv, EngineTypes, EngineMain
  PROVE  ReachInv'
<1> USE DEF ReachInv, Blank, Engaged, Decided, engineVars, verdict, handlers, uaVars, files,
            Stay, Goto, Fail, Continue, Conclude, Proceed
<1>1. CASE LoadTest \/ FindAccounts \/ RegisterAccounts \/ NoSlotToDial
  BY <1>1 DEF LoadTest, FindAccounts, RegisterAccounts, NoSlotToDial
<1>2. CASE StartEngine
  BY <1>2 DEF StartEngine, InitUA, InitUAFails
<1>3. CASE AttachEngine
  BY <1>3 DEF AttachEngine, Attach
<1>4. CASE Calling
  BY <1>4 DEF Calling, DialCaller, Dialled, CallerConnects, NotConnected
<1>5. CASE Acts
  BY <1>5
     DEF Acts, Turn, ActOnMedia, CreateMedia, Do, ConnectMedia, ConnectMediaFails, StoreMedia,
         ActInVain, ActHangup, ActHangingUp, Acting, RoleDone
<1>6. CASE Judging
  <2>1. CASE Collect \/ Analyze
    BY <2>1 DEF Collect, Analyze
  <2>2. CASE Evaluate
    <3>1. PICK how \in {"PASSED", "FAILED"} : Conclude(how, "cleanup")
      BY <2>2 DEF Evaluate
    <3>2. QED BY <2>2, <3>1 DEF Evaluate
  <2>3. QED BY <1>6, <2>1, <2>2 DEF Judging
<1>7. CASE Cleanup \/ EndTestCalls \/ DetachEngine \/ EndLateCalls
  BY <1>7 DEF Cleanup, EndTestCalls, DetachEngine, EndLateCalls, DetachManagers
<1>8. CASE ShutdownEngine
  BY <1>8
     DEF ShutdownEngine, Wipe, StopWorker, BeginShutdown, Shutdown, EndShutdown
<1>9. QED BY <1>1, <1>2, <1>3, <1>4, <1>5, <1>6, <1>7, <1>8, MainStretches DEF Opening, Closing

\* A second player in a slot leaves an object spare, so that this is not
\* MediaIsOwned; but no slot names one that does not exist.
LEMMA EngineCovers ==
  ASSUME ObjectsCover, EngineTypes, CallerInv, ReachInv, EngineMain
  PROVE  ObjectsCover'
<1> SUFFICES ASSUME NEW kind \in Kinds PROVE Spare(kind)' >= 0
  BY DEF ObjectsCover
<1> USE DEF EngineTypes, Goto, Proceed, Continue, Conclude, Fail
<1>0. Spare(kind) >= 0 /\ Spare(kind) \in Int
  BY SpareType DEF ObjectsCover
<1>1. CASE ActOnMedia
  <2>1. PICK k \in Kinds :
          \/ CreateMedia(k)
          \/ ConnectMedia
          \/ ConnectMediaFails /\ k = Head(todo)
          \/ StoreMedia /\ k = Head(todo) /\ at \in Slots
    BY <1>1 DEF ActOnMedia, ConnectMedia, ConnectMediaFails, StoreMedia, CallerInv, Kinds
  <2>2. Spare(kind)' = Spare(kind) + (IF StoreMedia /\ kind = k /\ k \in media[at] THEN 1 ELSE 0)
    BY <2>1, SpareMade
  <2>3. Spare(kind)' = Spare(kind) \/ Spare(kind)' = Spare(kind) + 1
    BY <1>0, <2>2
  <2>4. QED BY <1>0, <2>3
<1>2. CASE Wipe \/ Shutdown
  BY <1>2, SpareEnds DEF ReachInv
<1>3. CASE ~ActOnMedia /\ ~Wipe /\ ~Shutdown
  <2>1. UNCHANGED files
    BY <1>3, EngineFiles
  <2>2. {pc, pc'} \cap {"connecting", "storing"} = {}
    BY <1>3
       DEF EngineMain, LoadTest, StartEngine, AttachEngine, FindAccounts, RegisterAccounts,
           NoSlotToDial, DialCaller, Dialled, CallerConnects, NotConnected, Turn, ActInVain,
           ActHangup, ActHangingUp, Acting, RoleDone, Collect, Analyze, Evaluate, Cleanup,
           EndTestCalls, DetachEngine, EndLateCalls, ShutdownEngine, StopWorker
  <2>3. QED BY <1>0, <2>1, <2>2, SpareStays
<1>4. QED BY <1>1, <1>2, <1>3

----------------------------------------------------------------------------
\* The table, the buffers and the verdict under the main thread.

LEMMA TableKeeps ==
  ASSUME TypeOK, UNCHANGED vars \/ Make \/ Hangup \/ HangupAll
  PROVE  /\ UNCHANGED cb
         /\ \A c \in Ids : inv[c] # "FREE" => inv'[c] = inv[c]
         /\ \A s \in Slots : call[s].state # "NULL" => call'[s].state # "NULL"
         /\ \A s \in Slots :
              \/ call'[s].id \in {call[s].id, Invalid}
              \/ /\ app.pc = "claimed" /\ s = app.slot
                 /\ call'[s].id \in Ids /\ inv[call'[s].id] = "FREE"
<1>1. CASE UNCHANGED vars
  BY <1>1 DEF vars
<1>2. CASE Make
  <2>1. CASE MakeClaim
    BY <2>1 DEF MakeClaim, TypeOK, First, FreeSlots
  <2>2. CASE \E c \in Ids : MakeDialled(c)
    <3>1. PICK c \in Ids : MakeDialled(c) BY <2>2
    <3>2. /\ UNCHANGED cb /\ app.pc = "claimed" /\ inv[c] = "FREE"
          /\ inv' = [inv EXCEPT ![c] = "CALLING"] /\ call' = [call EXCEPT ![app.slot].id = c]
      BY <3>1 DEF MakeDialled
    <3>3. \A s \in Slots : /\ call'[s].state = call[s].state
                           /\ s # app.slot => call'[s].id = call[s].id
                           /\ s = app.slot => call'[s].id = c
      BY <3>2 DEF TypeOK
    <3>4. QED BY <3>2, <3>3 DEF TypeOK
  <2>3. CASE MakeFailed \/ MakeDone
    BY <2>3 DEF MakeFailed, MakeDone, TypeOK
  <2>4. QED BY <1>2, <2>1, <2>2, <2>3 DEF Make
<1>3. CASE Hangup
  BY <1>3 DEF Hangup, HangupMark, HangupAsk, HangupDone, TypeOK
<1>4. CASE HangupAll
  BY <1>4 DEF HangupAll, HangupAllAsk, HangupAllMark, TypeOK
<1>5. QED BY <1>1, <1>2, <1>3, <1>4

\* Where the main thread is on the way: it never turns back.
LEMMA EngineOnward ==
  ASSUME EngineTypes, EngineMain
  PROVE  /\ pc' \in Blank \cup Engaged => pc \in Blank \cup Engaged /\ ~EndLateCalls /\ ~Wipe /\ ~Shutdown
         /\ pc' \in Blank => pc \in Blank /\ UNCHANGED <<vars, dtmf, heard>>
         /\ engine' => engine \/ (AttachEngine /\ pc = "attach")
         /\ pc \in {"analyze", "evaluate"} \cup Decided =>
              /\ pc' \in {"analyze", "evaluate"} \cup Decided
              /\ UNCHANGED <<caller, dtmf, heard>> /\ ~CallerConnects /\ ~Collect
         /\ pc \in Decided => UNCHANGED found
<1> USE DEF EngineTypes, Blank, Engaged, Decided, engineVars, verdict, handlers,
            Goto, Fail, Continue, Conclude, Proceed
<1>1. CASE Opening
  BY <1>1
     DEF Opening, LoadTest, StartEngine, AttachEngine, FindAccounts, RegisterAccounts, NoSlotToDial,
         EndLateCalls, Wipe, Shutdown, CallerConnects, Collect
<1>2. CASE Calling
  BY <1>2 DEF Calling, DialCaller, Dialled, CallerConnects, NotConnected, EndLateCalls, Wipe,
              Shutdown, Collect
<1>3. CASE Acts
  BY <1>3
     DEF Acts, Turn, ActOnMedia, CreateMedia, Do, ConnectMedia, ConnectMediaFails, StoreMedia,
         ActInVain, ActHangup, ActHangingUp, Acting, RoleDone, EndLateCalls, Wipe, Shutdown,
         CallerConnects, Collect
<1>4. CASE Judging
  <2>1. CASE Collect \/ Analyze
    <3>1. /\ (pc = "collect" /\ pc' = "analyze") \/ (pc = "analyze" /\ pc' = "evaluate")
          /\ UNCHANGED <<engine, caller, dtmf, heard>>
      <4>1. CASE Collect
        BY <4>1 DEF Collect
      <4>2. CASE Analyze
        BY <4>2 DEF Analyze
      <4>3. QED BY <2>1, <4>1, <4>2
    <3>2. ~EndLateCalls /\ ~Wipe /\ ~Shutdown /\ ~CallerConnects /\ (pc = "analyze" => ~Collect)
      BY <3>1 DEF EndLateCalls, Wipe, Shutdown, CallerConnects, Collect
    <3>3. QED BY <3>1, <3>2
  <2>2. CASE Evaluate
    <3>1. PICK how \in {"PASSED", "FAILED"} : Conclude(how, "cleanup")
      BY <2>2 DEF Evaluate
    <3>2. QED BY <2>2, <3>1 DEF Evaluate, EndLateCalls, Wipe, Shutdown, CallerConnects, Collect
  <2>3. QED BY <1>4, <2>1, <2>2 DEF Judging
<1>5. CASE Closing
  BY <1>5 DEF Closing, Cleanup, EndTestCalls, DetachEngine, EndLateCalls, ShutdownEngine, Wipe,
              StopWorker, Shutdown, CallerConnects, Collect
<1>6. QED BY <1>1, <1>2, <1>3, <1>4, <1>5, MainStretches

LEMMA IdsMain ==
  ASSUME EngineIds, EngineTypes, EngineMain
  PROVE  EngineIds'
<1>1. pc' \in Blank \cup Engaged => IdsInv'
  <2>1. SUFFICES ASSUME pc' \in Blank \cup Engaged PROVE IdsInv'
    OBVIOUS
  <2>2. IdsInv /\ ~EndLateCalls /\ ~Wipe /\ ~Shutdown
    BY <2>1, EngineOnward DEF EngineIds
  <2>3. CASE UNCHANGED vars
    BY <2>2, <2>3, NextIdsInv
  <2>4. CASE Make \/ Hangup \/ HangupAll
    BY <2>2, <2>4, MainThreadIdsInv, MakeDialledIdsInv DEF Make
  <2>5. QED BY <2>2, <2>3, <2>4, EngineFrame
<1>2. pc' \in Blank =>
        /\ \A s \in Slots : call'[s].id = Invalid /\ dtmf'[s] = <<>> /\ heard'[s] = <<>>
        /\ \A c \in Ids : cb'[c].at # "claimed"
        /\ receiver' = NoSlot
  BY EngineOnward, EngineFrame DEF EngineIds, vars
<1>3. QED BY <1>1, <1>2 DEF EngineIds

LEMMA TakenMain ==
  ASSUME TableInv, EngineTypes, TakenInv, EngineMain,
         ~EndLateCalls, ~Wipe, ~Shutdown
  PROVE  TakenInv'
<1>1. UNCHANGED vars \/ Make \/ Hangup \/ HangupAll
  BY EngineFrame
<1>2. UNCHANGED <<tone, receiver>>
  BY EngineFrame
<1>3. tone # NoTone => tone.id \in Ids
  BY DEF EngineTypes
<1>4. found'.from = found.from \/ (found'.from = receiver /\ receiver # NoSlot)
  <2>1. CASE Collect
    BY <2>1 DEF Collect, EngineTypes, Findings
  <2>2. CASE CallerConnects
    BY <2>2, FindingsMain DEF EngineTypes, Findings
  <2>3. QED BY <2>1, <2>2, FindingsMain
<1>5. found.from \in Slots \cup {NoSlot} /\ receiver \in Slots \cup {NoSlot}
  BY DEF EngineTypes, Findings
<1>6. QED BY <1>1, <1>2, <1>3, <1>4, <1>5, TableKeeps DEF TakenInv, TableInv

\* A slot just emptied.
LEMMA EmptyIsKept ==
  ASSUME NEW s \in Slots, dtmf'[s] = <<>>, heard'[s] = <<>>, ~Pending(s)'
  PROVE  BufferOf(s)'
<1>1. OccursIn(<<>>, <<>>) /\ Begins(<<>>, <<>>) /\ Len(<<>>) = 0
  BY DEF OccursIn, Begins
<1>2. 0 < MaxDtmf
  BY MaxDtmfAssumption
<1> DEFINE stored == IF Pending(s)' THEN Len(heard'[s]) - 1 ELSE Len(heard'[s])
<1>3. stored = 0 /\ Len(dtmf'[s]) = 0
  BY <1>1
<1>4. Len(dtmf'[s]) = IF stored < MaxDtmf THEN stored ELSE MaxDtmf
  BY <1>2, <1>3
<1>5. OccursIn(dtmf[s], heard[s])' /\ Begins(dtmf[s], heard[s])'
  BY <1>1 DEF OccursIn, Begins
<1>6. QED BY <1>4, <1>5 DEF BufferOf

\* At the moment the engine is set nothing has happened yet.
LEMMA EngineAttached ==
  ASSUME EngineTypes, CallerInv, ReachInv, EngineIds, VerdictInv, AttachEngine
  PROVE  TakenInv' /\ BufferInv'
<1>1. pc = "attach" /\ UNCHANGED <<vars, receiver, tone, dtmf, heard, found, caller>>
  BY DEF AttachEngine, Continue, verdict
<1>2. /\ tone = NoTone /\ receiver = NoSlot /\ found.from = NoSlot
      /\ \A s \in Slots : call[s].id = Invalid /\ dtmf[s] = <<>> /\ heard[s] = <<>>
      /\ \A c \in Ids : cb[c].at # "claimed"
  BY <1>1 DEF ReachInv, EngineIds, VerdictInv, Blank, Decided
<1>3. TakenInv'
  BY <1>1, <1>2 DEF TakenInv, vars
<1>4. BufferInv'
  <2>1. \A s \in Slots : dtmf'[s] = <<>> /\ heard'[s] = <<>> /\ ~Pending(s)'
    BY <1>1, <1>2 DEF Pending, NoTone
  <2>2. QED BY <2>1, EmptyIsKept DEF BufferInv
<1>5. QED BY <1>3, <1>4

\* Whose slot may be shared is settled when the main thread dials.
LEMMA SharedMain ==
  ASSUME EngineTypes, CallerInv, EngineMain
  PROVE  DialCaller \/ UNCHANGED Shared
<1> USE DEF Shared, EngineTypes, CallerInv, Goto, Fail, Continue, Conclude, Proceed,
            engineVars, verdict, Blank
<1>1. CASE Opening
  BY <1>1
     DEF Opening, LoadTest, StartEngine, AttachEngine, FindAccounts, RegisterAccounts, NoSlotToDial
<1>2. CASE Calling
  BY <1>2 DEF Calling, Dialled, CallerConnects, NotConnected
<1>3. CASE Acts
  BY <1>3
     DEF Acts, Turn, ActOnMedia, CreateMedia, Do, ConnectMedia, ConnectMediaFails, StoreMedia,
         ActInVain, ActHangup, ActHangingUp, Acting, RoleDone, NoSlot, Slots
<1>4. CASE Judging
  BY <1>4 DEF Judging, Collect, Analyze, Evaluate
<1>5. CASE Closing
  BY <1>5 DEF Closing, Cleanup, EndTestCalls, DetachEngine, EndLateCalls, ShutdownEngine, Wipe,
              StopWorker, Shutdown
<1>6. QED BY <1>1, <1>2, <1>3, <1>4, <1>5, MainStretches

\* A slot that nothing happened to.
LEMMA SameIsKept ==
  ASSUME NEW s \in Slots, BufferOf(s), s # Shared \/ s = Shared',
         call'[s] = call[s], dtmf'[s] = dtmf[s], heard'[s] = heard[s], UNCHANGED tone
  PROVE  BufferOf(s)'
<1>1. Pending(s)' <=> Pending(s)
  BY DEF Pending
<1>2. CASE Pending(s)
  BY <1>1, <1>2 DEF BufferOf
<1>3. CASE ~Pending(s)
  BY <1>1, <1>3 DEF BufferOf
<1>4. QED BY <1>2, <1>3

\* The digits of the slots where no id but the dialled one is new.
LEMMA BufferStays ==
  ASSUME BufferInv, UNCHANGED <<dtmf, heard, tone, Shared>>,
         \A s \in Slots :
           \/ call'[s].id \in {call[s].id, Invalid}
           \/ s = Shared /\ (tone # NoTone => call'[s].id # tone.id),
         tone # NoTone => tone.id # Invalid
  PROVE  BufferInv'
<1>1. SUFFICES ASSUME NEW s \in Slots PROVE BufferOf(s)'
  BY DEF BufferInv
<1>2. BufferOf(s) BY DEF BufferInv
<1>3. Pending(s)' => Pending(s)
  BY DEF Pending
<1>4. CASE s = Shared
  BY <1>2, <1>3, <1>4 DEF BufferOf
<1>5. CASE s # Shared /\ call'[s].id = Invalid
  BY <1>2, <1>3, <1>5 DEF BufferOf
<1>6. CASE s # Shared /\ call'[s].id = call[s].id
  <2>1. Pending(s)' <=> Pending(s)
    BY <1>6 DEF Pending
  <2>2. QED BY <1>2, <1>6, <2>1 DEF BufferOf
<1>7. QED BY <1>4, <1>5, <1>6


LEMMA BufferMain ==
  ASSUME TableInv, EngineTypes, CallerInv, TakenInv, BufferInv, EngineMain,
         ~EndLateCalls, ~Wipe, ~Shutdown
  PROVE  BufferInv'
<1>0. tone # NoTone => tone.id \in Ids
  BY DEF EngineTypes
<1>1. CASE DialCaller
  <2>1. /\ pc = "dial" /\ MakeClaim /\ EmptyBuffer(app'.slot) /\ at' = app'.slot
        /\ UNCHANGED <<tone, caller>>
    BY <1>1 DEF DialCaller, verdict
  <2>2. PICK s \in Slots :
          /\ call' = [call EXCEPT ![s] = [id |-> Invalid, state |-> "NULL"]]
          /\ app' = [pc |-> "claimed", slot |-> s, id |-> Invalid]
    BY <2>1 DEF MakeClaim
  <2>3. Shared = NoSlot /\ Shared' = s
    BY <2>1, <2>2 DEF CallerInv, Shared, Blank
  <2>4. call \in [Slots -> Entry]
    BY DEF TableInv, TypeOK, Entry
  <2>5. /\ call'[s].id = Invalid /\ dtmf'[s] = <<>> /\ heard'[s] = <<>>
        /\ \A t \in Slots \ {s} : call'[t] = call[t] /\ dtmf'[t] = dtmf[t] /\ heard'[t] = heard[t]
    BY <2>1, <2>2, <2>4 DEF EmptyBuffer, EngineTypes
  <2>6. SUFFICES ASSUME NEW t \in Slots PROVE BufferOf(t)'
    BY DEF BufferInv
  <2>7. CASE t = s
    <3>1. ~Pending(t)'
      BY <1>0, <2>1, <2>5, <2>7, InvalidAssumption DEF Pending
    <3>2. QED BY <2>5, <2>7, <3>1, EmptyIsKept
  <2>8. CASE t # s
    <3>1. BufferOf(t) /\ t # Shared BY <2>3 DEF BufferInv, Slots, NoSlot
    <3>2. QED BY <2>1, <2>5, <2>8, <3>1, SameIsKept
  <2>9. QED BY <2>7, <2>8
<1>2. CASE ~DialCaller
  <2>1. UNCHANGED <<dtmf, heard, tone, Shared>>
    BY <1>2, EngineFrame, SharedMain
  <2>2. \A s \in Slots :
          \/ call'[s].id \in {call[s].id, Invalid}
          \/ s = Shared /\ (tone # NoTone => call'[s].id # tone.id)
    <3>1. SUFFICES ASSUME NEW s \in Slots, call'[s].id \notin {call[s].id, Invalid}
                   PROVE  s = Shared /\ (tone # NoTone => call'[s].id # tone.id)
      OBVIOUS
    <3>2. UNCHANGED vars \/ Make \/ Hangup \/ HangupAll
      BY EngineFrame
    <3>3. s = app.slot /\ inv[call'[s].id] = "FREE"
      BY <3>1, <3>2, TableKeeps DEF TableInv
    <3>4. CASE Dialled
      <4>1. Shared = app.slot
        BY <3>4 DEF Dialled, CallerInv, Shared
      <4>2. QED BY <3>3, <4>1 DEF TakenInv
    <3>5. CASE ~Dialled
      <4>1. UNCHANGED vars \/ Hangup \/ HangupAll
        BY <1>2, <3>5, EngineFrame
      <4>2. call'[s].id \in {call[s].id, Invalid}
        BY <4>1 DEF vars, Hangup, HangupMark, HangupAsk, HangupDone, HangupAll, HangupAllAsk,
                    HangupAllMark, TableInv, TypeOK
      <4>3. QED BY <3>1, <4>2
    <3>6. QED BY <3>4, <3>5
  <2>3. QED BY <1>0, <2>1, <2>2, BufferStays, InvalidAssumption
<1>3. QED BY <1>1, <1>2

\* The verdict: what is found is what the buffer held, and is not changed after.
LEMMA ReflectsStays ==
  ASSUME VerdictInv, UNCHANGED <<caller, found>>,
         found.from # NoSlot => heard'[found.from] = heard[found.from]
  PROVE  found.from # NoSlot => Reflects(found.digits, found.from)'
BY DEF VerdictInv, Reflects

LEMMA PassesStays ==
  ASSUME UNCHANGED <<found, opts>>
  PROVE  Passes' = Passes
BY DEF Passes, ExpectedDigits, Test

LEMMA VerdictMain ==
  ASSUME TableInv, EngineTypes, CallerInv, ReachInv, ConfirmedSeen, BufferInv \/ ~engine,
         VerdictInv, EngineMain
  PROVE  VerdictInv'
<1> USE DEF VerdictInv
<1>0. /\ UNCHANGED <<opts, connected, receiver>>
      /\ found' \in Findings /\ found \in Findings
  BY EngineFrame, FindingsMain DEF EngineTypes
<1>1. found'.connected => connected'
  <2>1. CASE CallerConnects
    <3>1. connected BY <2>1 DEF CallerConnects, ConfirmedSeen, CallerInv
    <3>2. QED BY <1>0, <3>1
  <2>2. CASE Collect
    BY <1>0, <2>2 DEF Collect, Findings
  <2>3. CASE ~CallerConnects /\ ~Collect
    BY <1>0, <2>3, FindingsMain
  <2>4. QED BY <2>1, <2>2, <2>3
<1>2. found'.from = NoSlot => found'.digits = <<>>
  <2>1. CASE Collect
    BY <2>1 DEF Collect, Findings, EngineTypes, NoSlot, Slots
  <2>2. CASE CallerConnects
    BY <1>0, <2>2, FindingsMain DEF Findings
  <2>3. QED BY <2>1, <2>2, FindingsMain
<1>3. ASSUME found'.from # NoSlot
      PROVE  /\ pc' \in {"analyze", "evaluate"} \cup Decided
             /\ Reflects(found.digits, found.from)'
  <2>1. CASE Collect
    <3>1. pc = "collect" /\ pc' = "analyze" /\ UNCHANGED <<caller, heard>>
      BY <2>1 DEF Collect, Goto, handlers
    <3>2. CASE receiver = NoSlot
      BY <2>1, <3>2, <1>3, <3>1 DEF Collect, Decided
    <3>3. CASE receiver # NoSlot
      <4>1. found'.digits = dtmf[receiver] /\ found'.from = receiver /\ receiver \in Slots
        BY <1>0, <2>1, <3>3 DEF Collect, Findings, EngineTypes
      <4>2. engine /\ Shared = caller
        BY <3>1 DEF ReachInv, Engaged, Shared, CallerInv, NoSlot, Slots
      <4>3. BufferOf(receiver) BY <4>1, <4>2 DEF BufferInv
      <4>4. Reflects(dtmf[receiver], receiver)
        BY <4>2, <4>3 DEF BufferOf, Reflects
      <4>5. QED BY <3>1, <4>1, <4>4 DEF Reflects
    <3>4. QED BY <3>2, <3>3
  <2>2. CASE ~Collect
    <3>1. found'.from = found.from /\ found'.digits = found.digits
      <4>1. CASE CallerConnects
        BY <1>0, <4>1, FindingsMain DEF Findings
      <4>2. QED BY <2>2, <4>1, FindingsMain
    <3>2. pc \in {"analyze", "evaluate"} \cup Decided /\ Reflects(found.digits, found.from)
      BY <1>3, <3>1
    <3>3. pc' \in {"analyze", "evaluate"} \cup Decided /\ UNCHANGED <<caller, heard>>
      BY <3>2, EngineOnward
    <3>4. QED BY <3>1, <3>2, <3>3 DEF Reflects
  <2>3. QED BY <2>1, <2>2
<1>4. ASSUME status' = "PASSED" PROVE Passes'
  <2>1. CASE Evaluate
    <3>1. UNCHANGED found /\ status' = IF Passes THEN "PASSED" ELSE "FAILED"
      BY <2>1 DEF Evaluate, Conclude
    <3>2. Passes BY <1>4, <3>1
    <3>3. QED BY <1>0, <3>1, <3>2, PassesStays
  <2>2. CASE ~Evaluate
    <3>1. status = "PASSED"
      BY <1>4, <2>2
         DEF EngineMain, LoadTest, StartEngine, AttachEngine, FindAccounts, RegisterAccounts,
             NoSlotToDial, DialCaller, Dialled, CallerConnects, NotConnected, Turn, ActOnMedia,
             ActInVain, ActHangup, ActHangingUp, RoleDone, Collect, Analyze, Cleanup,
             EndTestCalls, DetachEngine, EndLateCalls, ShutdownEngine, Continue, Conclude, Fail,
             engineVars, verdict
    <3>2. pc \in Decided /\ Passes BY <3>1 DEF ReachInv
    <3>3. UNCHANGED found BY <3>2, EngineOnward
    <3>4. QED BY <1>0, <3>2, <3>3, PassesStays
  <2>3. QED BY <2>1, <2>2
<1>5. QED BY <1>1, <1>2, <1>3, <1>4


----------------------------------------------------------------------------
\* The callbacks.

Reported(c) == StateReported(c) /\ UNCHANGED engineVars
Returned(c) == StateCallbacks(c) /\ UNCHANGED engineVars

Handler(c) ==
  \/ Called(c) \/ IgnoreIncoming(c) \/ HandleIncoming(c) \/ AnswerReceiver(c)
  \/ Reported(c) \/ Returned(c)

\* AnswerReceiver is an AnswerIncoming of the call table.
LEMMA ReceiverAnswers ==
  ASSUME TypeOK, NEW c \in Ids, AnswerReceiver(c)
  PROVE  AnswerIncoming(c) /\ answered' \subseteq Ids
<1> DEFINE a == call[cb[c].slot].id
<1>1. answered' = answered \/ (Answerable(a) /\ answered' = answered \cup {a})
  BY DEF AnswerReceiver
<1>2. /\ cb[c].at = "claimed" /\ cb' = [cb EXCEPT ![c] = NoCallback]
      /\ UNCHANGED <<command, call, inv, told, app>>
  BY DEF AnswerReceiver
<1>3. Answerable(a) => a \in Ids
  BY DEF Answerable
<1> HIDE DEF a
<1>4. answered' \subseteq Ids
  BY <1>1, <1>3 DEF TypeOK
<1>5. AnswerIncoming(c)
  BY <1>1, <1>2 DEF AnswerIncoming, a
<1>6. QED BY <1>4, <1>5

\* What every callback that reaches the table leaves alone.
LEMMA HandlerFrame ==
  ASSUME TableInv, NEW c \in Ids, Handler(c)
  PROVE  /\ TableInv' /\ UNCHANGED <<uaVars, flow, command, app, verdict, engine, tone, crashed>>
         /\ UNCHANGED files \/ \E s \in Slots : StopMedia(s)
         /\ lib \/ cb[c].at # "none"
<1> USE DEF engineVars, handlers
<1>1. CASE Called(c)
  <2>1. Incoming(c) /\ UNCHANGED <<command, app>> BY <1>1 DEF Called, Incoming, Arrive
  <2>2. QED BY <1>1, <2>1, WorkerFrame DEF Called, Incoming
<1>2. CASE IgnoreIncoming(c)
  <2>1. CallbackReturns(c) /\ UNCHANGED <<command, call, app>>
    BY <1>2 DEF IgnoreIncoming
  <2>2. TableInv' BY <2>1, WorkerTable
  <2>3. QED BY <1>2, <2>2 DEF IgnoreIncoming
<1>3. CASE HandleIncoming(c)
  <2>1. TrackIncoming(c) \/ RejectIncoming(c) BY <1>3 DEF HandleIncoming
  <2>2. cb[c].at = "arrived" /\ UNCHANGED <<command, app>>
    BY <2>1 DEF TrackIncoming, RejectIncoming
  <2>3. TableInv' BY <2>1, WorkerTable
  <2>4. QED BY <1>3, <2>2, <2>3 DEF HandleIncoming
<1>4. CASE AnswerReceiver(c)
  <2>1. AnswerIncoming(c) /\ answered' \subseteq Ids
    BY <1>4, ReceiverAnswers DEF TableInv
  <2>2. TableInv' BY <2>1, WorkerTable DEF AnswerIncoming
  <2>3. QED BY <1>4, <2>2 DEF AnswerReceiver
<1>5. CASE Reported(c)
  <2>1. UNCHANGED <<command, app, files>>
    BY <1>5 DEF Reported, StateReported, OnCallState, OnCallStateUnattached
  <2>2. QED BY <1>5, <2>1, WorkerFrame DEF Reported
<1>6. CASE Returned(c)
  <2>1. StateWritten(c) \/ StateIgnored(c)
    BY <1>6 DEF Returned, StateCallbacks
  <2>2. UNCHANGED <<command, app>>
    BY <2>1 DEF StateWritten, ApplyState, StateIgnored, IgnoreState
  <2>3. QED BY <1>6, <2>1, <2>2, WorkerFrame DEF Returned, Returning
<1>7. QED BY <1>1, <1>2, <1>3, <1>4, <1>5, <1>6 DEF Handler

\* Which of them touch the engine.
LEMMA HandlerEngine ==
  ASSUME TableInv, EngineTypes, NEW c \in Ids, Handler(c)
  PROVE  /\ UNCHANGED <<dtmf, heard>>
              \/ (HandleIncoming(c) /\ \E s \in Slots : EmptyBuffer(s))
         /\ receiver' = receiver
         /\ entered' \subseteq entered
         /\ arrivals' \in Nat /\ sent' = sent
<1> USE DEF EngineTypes, engineVars, handlers
<1>1. CASE Called(c)
  BY <1>1 DEF Called
<1>2. CASE IgnoreIncoming(c) \/ Reported(c) \/ Returned(c)
  BY <1>2 DEF IgnoreIncoming, Reported, Returned
<1>3. CASE HandleIncoming(c)
  <2>1. UNCHANGED <<dtmf, heard>> \/ (TrackIncoming(c) /\ EmptyBuffer(cb'[c].slot))
    BY <1>3 DEF HandleIncoming
  <2>2. ASSUME TrackIncoming(c) PROVE cb'[c].slot \in Slots
    <3>1. PICK s \in Slots : cb' = [cb EXCEPT ![c] = [at |-> "claimed", slot |-> s]]
      BY <2>2 DEF TrackIncoming
    <3>2. QED BY <3>1 DEF TableInv, TypeOK
  <2>3. QED BY <1>3, <2>1, <2>2 DEF HandleIncoming
<1>4. CASE AnswerReceiver(c)
  BY <1>4 DEF AnswerReceiver
<1>5. QED BY <1>1, <1>2, <1>3, <1>4 DEF Handler

LEMMA HandlerConfirmed ==
  ASSUME TableInv, ConfirmedSeen, NEW c \in Ids, Handler(c)
  PROVE  ConfirmedSeen' /\ (connected => connected')
<1>1. CASE Called(c)
  BY <1>1, ConfirmedWorker DEF Called
<1>2. CASE IgnoreIncoming(c) \/ HandleIncoming(c)
  BY <1>2, ConfirmedReturns DEF IgnoreIncoming, HandleIncoming
<1>3. CASE AnswerReceiver(c)
  BY <1>3, ConfirmedStays DEF AnswerReceiver
<1>4. CASE Reported(c) \/ Returned(c)
  BY <1>4, ConfirmedWorker DEF Reported, Returned, StateCallbacks, Returning
<1>5. QED BY <1>1, <1>2, <1>3, <1>4 DEF Handler

LEMMA HandlerTypes ==
  ASSUME TableInv, EngineTypes, CallerInv, NEW c \in Ids, Handler(c)
  PROVE  EngineTypes' /\ CallerInv'
<1>1. /\ UNCHANGED <<uaVars, flow, command, app, verdict, engine, tone, crashed>>
      /\ UNCHANGED files \/ \E s \in Slots : StopMedia(s)
  BY HandlerFrame
<1>2. MediaTypes' /\ UATypeOK'
  BY <1>1, MediaStepTypes, AgentTypes DEF EngineTypes
<1>3. connected' \in BOOLEAN
  BY DEF EngineTypes, Handler, Called, Incoming, IgnoreIncoming, HandleIncoming, AnswerReceiver,
         Reported, StateReported, Returned, StateCallbacks, StateWritten, StateIgnored
<1>4. UNCHANGED <<dtmf, heard>> \/ \E s \in Slots : EmptyBuffer(s)
  BY HandlerEngine
<1>5. UNCHANGED <<opts, pc, at, todo, result, running, stuck, role, caller, status, found>>
  BY <1>1 DEF flow, verdict
<1>6. /\ receiver' \in Slots \cup {NoSlot} /\ entered' \subseteq Ids
      /\ arrivals' \in Nat /\ sent' \in Nat
  BY HandlerEngine DEF EngineTypes
<1>7. EngineTypes'
  BY <1>1, <1>2, <1>3, <1>4, <1>5, <1>6, BufferTypes DEF EngineTypes
<1>8. CallerInv'
  BY <1>1, <1>5 DEF CallerInv
<1>9. QED BY <1>7, <1>8

LEMMA HandlerReach ==
  ASSUME TableInv, EngineTypes, ReachInv, NEW c \in Ids, Handler(c)
  PROVE  ReachInv'
<1>1. /\ UNCHANGED <<links, pc, result, status, engine, tone>>
      /\ UNCHANGED media \/ \E s \in Slots : media' = [media EXCEPT ![s] = {}]
  BY HandlerFrame DEF uaVars, flow, verdict, files, StopMedia
<1>2. entered' \subseteq entered
  BY HandlerEngine
<1>3. \A s \in Slots : media[s] = {} => media'[s] = {}
  BY <1>1 DEF EngineTypes, MediaTypes
<1>4. QED BY <1>1, <1>2, <1>3 DEF ReachInv

LEMMA HandlerCovers ==
  ASSUME TableInv, EngineTypes, LifeInv, ObjectsCover, NEW c \in Ids, Handler(c)
  PROVE  LifeInv' /\ ObjectsCover'
<1>1. /\ UNCHANGED <<uaVars, pc, todo>>
      /\ UNCHANGED files \/ \E s \in Slots : StopMedia(s)
      /\ lib \/ cb[c].at # "none"
  BY HandlerFrame DEF flow
<1>2. \A kind \in Kinds : Spare(kind)' = Spare(kind)
  BY <1>1, SpareStays, SpareStop DEF EngineTypes
<1>3. QED BY <1>1, <1>2, LifeWorker DEF ObjectsCover

\* The ids in the table: while the engine is not attached there are none.
LEMMA HandlerIds ==
  ASSUME TableInv, EngineTypes, ReachInv, EngineIds, NEW c \in Ids, Handler(c)
  PROVE  EngineIds'
<1>1. UNCHANGED <<pc, engine, links>>
  BY HandlerFrame DEF flow, verdict, uaVars
<1>2. ASSUME pc \in Blank \cup Engaged PROVE IdsInv'
  <2>1. IdsInv BY <1>2 DEF EngineIds
  <2>2. CASE Called(c)
    BY <2>1, <2>2, ArriveIdsInv DEF Called, Incoming
  <2>3. CASE IgnoreIncoming(c)
    BY <2>1, <2>3, UnhandledIdsInv DEF IgnoreIncoming
  <2>4. CASE HandleIncoming(c)
    BY <2>1, <2>4, TrackIncomingIdsInv, RejectIncomingIdsInv DEF HandleIncoming
  <2>5. CASE AnswerReceiver(c)
    BY <2>1, <2>5, ReceiverAnswers, AnswerIncomingIdsInv DEF TableInv
  <2>6. CASE Reported(c)
    <3>1. CASE Attached
      BY <2>1, <2>6, <3>1, OnCallStateIdsInv DEF Reported, StateReported
    <3>2. CASE ~Attached
      <4>1. OnCallStateUnattached(c)
        BY <2>6, <3>2 DEF Reported, StateReported
      <4>2. pc \in Blank
        BY <1>2, <3>2 DEF ReachInv, Attached
      <4>3. SlotsWith(c) = {}
        BY <4>2, InvalidAssumption DEF EngineIds, SlotsWith
      <4>4. OnCallState(c)
        BY <4>1, <4>3 DEF OnCallStateUnattached, OnCallState
      <4>5. QED BY <2>1, <4>4, OnCallStateIdsInv
    <3>3. QED BY <3>1, <3>2
  <2>7. CASE Returned(c)
    BY <2>1, <2>7, ApplyStateIdsInv, IgnoreStateIdsInv
       DEF Returned, StateCallbacks, StateWritten, StateIgnored
  <2>8. QED BY <2>2, <2>3, <2>4, <2>5, <2>6, <2>7 DEF Handler
<1>3. ASSUME pc \in Blank
      PROVE  /\ \A s \in Slots : call'[s].id = Invalid /\ dtmf'[s] = <<>> /\ heard'[s] = <<>>
             /\ \A d \in Ids : cb'[d].at # "claimed"
             /\ receiver' = NoSlot
  <2>1. ~engine /\ ~HandleIncoming(c) /\ ~AnswerReceiver(c)
    BY <1>3 DEF ReachInv, EngineIds, Blank, Engaged, HandleIncoming, AnswerReceiver
  <2>2. UNCHANGED <<dtmf, heard, receiver>>
    BY <2>1, HandlerEngine
  <2>3. /\ \A s \in Slots : call[s].id = Invalid
        /\ \A d \in Ids : cb[d].at # "claimed"
    BY <1>3 DEF EngineIds
  <2>4. \A s \in Slots : call'[s].id = Invalid
    <3>1. CASE Returned(c) /\ ApplyState(c)
      <4>1. cb[c].slot \in Slots /\ inv[c] \in InvState \ {"FREE"}
        BY <3>1 DEF ApplyState, TableInv, TypeOK, Callback, CallbackOfSession
      <4>2. StateChanged(call[cb[c].slot], inv[c]).id = Invalid
        BY <2>3, <4>1, StateChangedEntry DEF TableInv, TypeOK
      <4>3. QED BY <2>3, <3>1, <4>1, <4>2 DEF ApplyState, TableInv, TypeOK
    <3>2. CASE ~(Returned(c) /\ ApplyState(c))
      <4>1. UNCHANGED call
        BY <2>1, <3>2
           DEF Handler, Called, Incoming, Arrive, IgnoreIncoming, Reported, StateReported,
               OnCallState, OnCallStateUnattached, Returned, StateCallbacks, StateWritten,
               StateIgnored, IgnoreState
      <4>2. QED BY <2>3, <4>1
    <3>3. QED BY <3>1, <3>2
  <2>5. \A d \in Ids : cb'[d].at # "claimed"
    <3>1. \E r \in {"none", "arrived", "state"} : \E t : cb' = [cb EXCEPT ![c] = [at |-> r, slot |-> t]]
      BY <2>1
         DEF Handler, Called, Incoming, Arrive, IgnoreIncoming, Reported, StateReported,
             OnCallState, OnCallStateUnattached, Returned, StateCallbacks, StateWritten,
             StateIgnored, ApplyState, IgnoreState, CallbackReturns, NoCallback
    <3>2. QED BY <2>3, <3>1 DEF TableInv, TypeOK
  <2>6. receiver = NoSlot /\ \A s \in Slots : dtmf[s] = <<>> /\ heard[s] = <<>>
    BY <1>3 DEF EngineIds
  <2>7. QED BY <2>2, <2>4, <2>5, <2>6
<1>4. QED BY <1>1, <1>2, <1>3 DEF EngineIds


\* What a handler does to the sessions, the slots and the callbacks, as long as
\* the ids in the table are live.
LEMMA HandlerTable ==
  ASSUME IdsInv, engine, NEW c \in Ids, Handler(c)
  PROVE  /\ \A d \in Ids \ {c} : inv'[d] = inv[d] /\ cb'[d] = cb[d]
         /\ inv[c] = "CONFIRMED" => inv'[c] \in {"CONFIRMED", "DISCONNECTED"}
         /\ inv[c] = "DISCONNECTED" /\ ~Returned(c) => inv'[c] = "DISCONNECTED"
         /\ \A s \in Slots : call[s].state # "NULL" => call'[s].state # "NULL"
         /\ HandleIncoming(c) =>
              /\ inv[c] = "INCOMING" /\ SlotsWith(c) = {} /\ cb[c].at = "arrived"
              /\ \/ /\ UNCHANGED <<call, dtmf, heard>> /\ cb'[c].at # "claimed"
                 \/ \E s \in Slots :
                      /\ call[s].state = "NULL" /\ EmptyBuffer(s)
                      /\ call' = [call EXCEPT ![s] = [id |-> c, state |-> "INCOMING"]]
                      /\ cb'[c] = [at |-> "claimed", slot |-> s]
         /\ ~HandleIncoming(c) =>
              /\ \A s \in Slots : call'[s].id \in {call[s].id, Invalid}
              /\ cb'[c].at # "claimed"
<1> USE DEF IdsInv, TypeOK
<1>1. CASE Called(c)
  <2>1. /\ inv[c] = "FREE" /\ inv' = [inv EXCEPT ![c] = "INCOMING"] /\ UNCHANGED call
        /\ cb' = [cb EXCEPT ![c] = [at |-> "arrived", slot |-> NoSlot]]
    BY <1>1 DEF Called, Incoming, Arrive
  <2>2. ~HandleIncoming(c)
    BY <2>1 DEF HandleIncoming, TrackIncoming, RejectIncoming, CallbackOfSession
  <2>3. QED BY <2>1, <2>2
<1>2. CASE HandleIncoming(c)
  <2>1. /\ cb[c].at = "arrived"
        /\ TrackIncoming(c) \/ (RejectIncoming(c) /\ UNCHANGED <<dtmf, heard>>)
    BY <1>2 DEF HandleIncoming, TrackIncoming, RejectIncoming
  <2>2. inv[c] = "INCOMING" /\ SlotsWith(c) = {}
    BY <2>1 DEF ArrivedUntracked, SlotsWith
  <2>3. CASE RejectIncoming(c) /\ UNCHANGED <<dtmf, heard>>
    <3>1. /\ UNCHANGED call /\ inv' = [inv EXCEPT ![c] = "DISCONNECTED"]
          /\ cb' = [cb EXCEPT ![c] = [at |-> "state", slot |-> NoSlot]]
      BY <2>3 DEF RejectIncoming
    <3>2. QED BY <1>2, <2>1, <2>2, <2>3, <3>1
  <2>4. CASE TrackIncoming(c)
    <3>1. PICK s \in Slots :
            /\ First(s, FreeSlots)
            /\ call' = [call EXCEPT ![s] = [id |-> c, state |-> "INCOMING"]]
            /\ cb' = [cb EXCEPT ![c] = [at |-> "claimed", slot |-> s]]
      BY <2>2, <2>4 DEF TrackIncoming
    <3>2. UNCHANGED inv BY <2>4 DEF TrackIncoming
    <3>3. call[s].state = "NULL" BY <3>1 DEF First, FreeSlots
    <3>4. cb'[c] = [at |-> "claimed", slot |-> s] BY <3>1
    <3>5. ~RejectIncoming(c)
      BY <3>4 DEF RejectIncoming
    <3>6. EmptyBuffer(s)
      BY <1>2, <2>2, <3>4, <3>5 DEF HandleIncoming
    <3>7. \A t \in Slots : call[t].state # "NULL" => call'[t].state # "NULL"
      BY <3>1
    <3>8. QED BY <1>2, <2>1, <2>2, <3>1, <3>2, <3>3, <3>4, <3>6, <3>7
  <2>5. QED BY <2>1, <2>3, <2>4
<1>3. CASE AnswerReceiver(c)
  <2>1. /\ UNCHANGED <<call, inv>> /\ cb' = [cb EXCEPT ![c] = NoCallback] /\ cb[c].at = "claimed"
    BY <1>3 DEF AnswerReceiver
  <2>2. ~HandleIncoming(c)
    BY <2>1 DEF HandleIncoming, TrackIncoming, RejectIncoming
  <2>3. QED BY <2>1, <2>2 DEF NoCallback
<1>4. CASE Reported(c)
  <2>1. PICK st \in InvNext[inv[c]], t \in Slots \cup {NoSlot} :
          /\ inv' = [inv EXCEPT ![c] = st] /\ cb[c].at = "none" /\ Live(c)
          /\ cb' = [cb EXCEPT ![c] = [at |-> "state", slot |-> t]] /\ UNCHANGED call
    BY <1>4 DEF Reported, StateReported, OnCallState, OnCallStateUnattached
  <2>2. ~HandleIncoming(c)
    BY <2>1 DEF HandleIncoming, TrackIncoming, RejectIncoming
  <2>3. inv[c] = "CONFIRMED" => st = "DISCONNECTED"
    BY <2>1 DEF InvNext
  <2>4. QED BY <2>1, <2>2, <2>3 DEF Live
<1>5. CASE Returned(c)
  <2>1. CallbackReturns(c) /\ cb[c].at = "state"
    BY <1>5 DEF Returned, StateCallbacks, StateWritten, StateIgnored, ApplyState, IgnoreState
  <2>2. ~HandleIncoming(c)
    BY <2>1 DEF HandleIncoming, TrackIncoming, RejectIncoming
  <2>3. \A s \in Slots : /\ call[s].state # "NULL" => call'[s].state # "NULL"
                         /\ call'[s].id \in {call[s].id, Invalid}
    <3>1. CASE ApplyState(c)
      <4>1. cb[c].slot \in Slots /\ inv[c] \in InvState \ {"FREE"}
        BY <3>1 DEF ApplyState, Callback, CallbackOfSession
      <4>2. call' = [call EXCEPT ![cb[c].slot] = StateChanged(call[cb[c].slot], inv[c])]
        BY <3>1 DEF ApplyState
      <4>3. /\ StateChanged(call[cb[c].slot], inv[c]).id \in {call[cb[c].slot].id, Invalid}
            /\ StateChanged(call[cb[c].slot], inv[c]).state # "NULL"
        BY <4>1, StateChangedEntry DEF InvState, CallState
      <4>4. QED BY <4>1, <4>2, <4>3
    <3>2. CASE UNCHANGED call
      BY <3>2
    <3>3. QED
      BY <1>5, <3>1, <3>2
         DEF Returned, StateCallbacks, StateWritten, StateIgnored, IgnoreState
  <2>4. QED BY <1>5, <2>1, <2>2, <2>3, CallbackReturnsTypes
<1>6. ~IgnoreIncoming(c)
  BY DEF IgnoreIncoming
<1>7. QED BY <1>1, <1>2, <1>3, <1>4, <1>5, <1>6 DEF Handler

LEMMA HandlerTaken ==
  ASSUME IdsInv, EngineTypes, engine, TakenInv, NEW c \in Ids, Handler(c)
  PROVE  TakenInv'
<1> USE DEF TakenInv
<1>0. tone # NoTone => tone.id \in Ids
  BY DEF EngineTypes
<1>1. UNCHANGED <<tone, found>>
  BY HandlerFrame DEF IdsInv, TableInv, verdict
<1>2. tone # NoTone => inv'[tone.id] \in {"CONFIRMED", "DISCONNECTED"}
  <2>1. Returned(c) /\ tone # NoTone /\ tone.id = c => inv[c] = "CONFIRMED"
    BY DEF Returned, StateCallbacks
  <2>2. QED BY <1>0, <2>1, HandlerTable
<1>3. receiver' # NoSlot => call'[receiver'].state # "NULL"
  <2>1. receiver' = receiver
    BY HandlerEngine DEF IdsInv, TableInv
  <2>2. receiver \in Slots \cup {NoSlot} BY DEF EngineTypes
  <2>3. QED BY <2>1, <2>2, HandlerTable
<1>4. found'.from # NoSlot => call'[found'.from].state # "NULL"
  BY <1>1, HandlerTable DEF EngineTypes, Findings
<1>5. ASSUME NEW d \in Ids, cb'[d].at = "claimed"
      PROVE  cb'[d].slot \in Slots /\ call'[cb'[d].slot].state # "NULL"
  <2>1. CASE d # c
    BY <1>5, <2>1, HandlerTable
  <2>2. CASE d = c
    <3>1. HandleIncoming(c)
      BY <1>5, <2>2, HandlerTable
    <3>2. PICK s \in Slots :
            /\ call' = [call EXCEPT ![s] = [id |-> c, state |-> "INCOMING"]]
            /\ cb'[c] = [at |-> "claimed", slot |-> s]
      BY <1>5, <2>2, <3>1, HandlerTable
    <3>3. QED BY <2>2, <3>2 DEF IdsInv, TypeOK
  <2>3. QED BY <2>1, <2>2
<1>6. QED BY <1>1, <1>2, <1>3, <1>4, <1>5

LEMMA HandlerBuffers ==
  ASSUME IdsInv, EngineTypes, engine, TakenInv, BufferInv, NEW c \in Ids, Handler(c)
  PROVE  BufferInv'
<1>0. tone # NoTone => tone.id \in Ids
  BY DEF EngineTypes
<1>1. UNCHANGED <<tone, Shared>>
  BY HandlerFrame DEF IdsInv, TableInv, verdict, flow, Shared
<1>2. CASE UNCHANGED <<dtmf, heard>> /\ \A s \in Slots : call'[s].id \in {call[s].id, Invalid}
  BY <1>0, <1>1, <1>2, BufferStays, InvalidAssumption
<1>3. CASE HandleIncoming(c) /\ ~UNCHANGED <<call, dtmf, heard>>
  <2>1. PICK s \in Slots :
          /\ EmptyBuffer(s) /\ inv[c] = "INCOMING"
          /\ call' = [call EXCEPT ![s] = [id |-> c, state |-> "INCOMING"]]
    BY <1>3, HandlerTable
  <2>2. call \in [Slots -> Entry]
    BY DEF IdsInv, TypeOK, Entry
  <2>3. SUFFICES ASSUME NEW t \in Slots PROVE BufferOf(t)'
    BY DEF BufferInv
  <2>4. CASE t = s
    <3>1. dtmf'[t] = <<>> /\ heard'[t] = <<>> /\ call'[t].id = c
      BY <2>1, <2>2, <2>4 DEF EmptyBuffer, EngineTypes
    <3>2. tone # NoTone => tone.id # c
      BY <2>1 DEF TakenInv
    <3>3. QED BY <1>1, <3>1, <3>2, EmptyIsKept DEF Pending
  <2>5. CASE t # s
    <3>1. call'[t] = call[t] /\ dtmf'[t] = dtmf[t] /\ heard'[t] = heard[t] /\ BufferOf(t)
      BY <2>1, <2>2, <2>5 DEF EmptyBuffer, EngineTypes, BufferInv
    <3>2. t # Shared \/ t = Shared'
      BY <1>1
    <3>3. QED BY <1>1, <3>1, <3>2, SameIsKept
  <2>6. QED BY <2>4, <2>5
<1>4. ~HandleIncoming(c) => UNCHANGED <<dtmf, heard>> /\ \A s \in Slots : call'[s].id \in {call[s].id, Invalid}
  BY HandlerTable, HandlerEngine DEF IdsInv, TableInv
<1>5. QED BY <1>2, <1>3, <1>4

LEMMA HandlerVerdict ==
  ASSUME TableInv, EngineTypes, ReachInv, ConfirmedSeen, EngineIds, engine => TakenInv,
         VerdictInv, NEW c \in Ids, Handler(c)
  PROVE  VerdictInv'
<1> USE DEF VerdictInv
<1>1. UNCHANGED <<found, opts, status, caller, pc>>
  BY HandlerFrame DEF verdict, flow
<1>2. connected => connected'
  BY HandlerConfirmed
<1>3. found.from # NoSlot => heard'[found.from] = heard[found.from]
  <2>1. CASE UNCHANGED heard
    BY <2>1
  <2>2. CASE ~UNCHANGED heard
    <3>1. HandleIncoming(c) /\ engine
      BY <2>2, HandlerEngine DEF HandleIncoming
    <3>2. IdsInv
      BY <3>1 DEF ReachInv, EngineIds
    <3>3. PICK s \in Slots : call[s].state = "NULL" /\ EmptyBuffer(s)
      BY <2>2, <3>1, <3>2, HandlerTable
    <3>4. found.from # NoSlot => found.from \in Slots /\ found.from # s
      BY <3>1, <3>3 DEF TakenInv, EngineTypes, Findings
    <3>5. QED BY <3>3, <3>4 DEF EmptyBuffer, EngineTypes
  <2>3. QED BY <2>1, <2>2
<1>4. found.from # NoSlot => Reflects(found.digits, found.from)'
  BY <1>1, <1>3, ReflectsStays
<1>5. Passes' = Passes
  BY <1>1, PassesStays
<1>6. QED BY <1>1, <1>2, <1>4, <1>5


----------------------------------------------------------------------------
\* The steps that leave the command alone: only the digits, or a flag, change.

LEMMA QuietStep ==
  ASSUME EngineInv,
         UNCHANGED <<vars, uaVars, opts, pc, at, todo, result, files, connected>>,
         UNCHANGED <<verdict, engine, arrivals>>,
         receiver' = receiver \/ (engine /\ receiver' \in Slots /\ call[receiver'].state # "NULL"),
         running' \in BOOLEAN, stuck' \in BOOLEAN, crashed' \in BOOLEAN, sent' \in Nat,
         entered' \subseteq Ids, entered' \subseteq entered \/ engine,
         tone' \in {NoTone} \cup [id : Ids, digit : Nat], tone' \in {tone, NoTone} \/ engine,
         dtmf' \in [Slots -> Seq(Nat)], heard' \in [Slots -> Seq(Nat)],
         \A s \in Slots : Len(dtmf'[s]) <= MaxDtmf,
         UNCHANGED <<dtmf, heard>> \/ engine,
         tone' # NoTone => tone' = tone \/ inv[tone'.id] = "CONFIRMED",
         engine => BufferInv',
         found.from # NoSlot => Reflects(found.digits, found.from)'
  PROVE  EngineInv'
<1> USE DEF EngineInv
<1>1. UNCHANGED <<command, call, inv, cb, answered, told, app, ua, lib, links, codec, filter,
                  media, objects, role, caller, status, found>>
  BY DEF vars, uaVars, files, verdict
<1>2. TableInv' BY TableStays
<1>3. EngineTypes' BY <1>1 DEF EngineTypes, UATypeOK, MediaTypes
<1>4. CallerInv' BY <1>1 DEF CallerInv
<1>5. LifeInv' BY <1>1 DEF LifeInv
<1>6. ReachInv'
  <2>1. pc \in Blank \cup {"done"} => ~engine
    BY DEF ReachInv, Blank, Engaged
  <2>2. QED BY <1>1, <2>1 DEF ReachInv
<1>7. ObjectsCover'
  <2>1. \A kind \in Kinds : Spare(kind)' = Spare(kind) BY SpareStays
  <2>2. QED BY <2>1 DEF ObjectsCover
<1>8. EngineIds'
  <2>1. IdsInv => IdsInv' BY NextIdsInv
  <2>2. pc \in Blank => ~engine BY DEF ReachInv, Blank, Engaged
  <2>3. QED BY <1>1, <2>1, <2>2 DEF EngineIds
<1>9. ConfirmedSeen' BY <1>1 DEF ConfirmedSeen
<1>10. engine => TakenInv'
  BY <1>1 DEF TakenInv
<1>11. VerdictInv'
  <2>1. Passes' = Passes BY <1>1, PassesStays
  <2>2. QED BY <1>1, <2>1 DEF VerdictInv
<1>12. QED BY <1>2, <1>3, <1>4, <1>5, <1>6, <1>7, <1>8, <1>9, <1>10, <1>11

\* A digit is heard of the slot of its call.
LEMMA DigitKeeps ==
  ASSUME EngineInv, NEW c \in Ids, DigitReported(c)
  PROVE  EngineInv'
<1> USE DEF EngineInv
<1>1. /\ engine /\ tone = NoTone /\ inv[c] = "CONFIRMED"
      /\ UNCHANGED <<commandVars, verdict, engine, receiver, entered, dtmf, arrivals, crashed>>
      /\ sent' = sent + 1 /\ tone' = [id |-> c, digit |-> sent']
      /\ heard' = [s \in Slots |->
                     IF s \in SlotsWith(c) THEN Append(heard[s], sent') ELSE heard[s]]
  BY DEF DigitReported
<1>2. sent' \in Nat /\ tone' \in [id : Ids, digit : Nat]
  BY <1>1 DEF EngineTypes
<1>3. \A s \in Slots :
        /\ dtmf[s] \in Seq(Nat) /\ heard[s] \in Seq(Nat)
        /\ call[s].id = c => heard'[s] = Append(heard[s], sent')
        /\ call[s].id # c => heard'[s] = heard[s]
  BY <1>1 DEF SlotsWith, EngineTypes
<1>4. heard' \in [Slots -> Seq(Nat)]
  <2>1. ASSUME NEW s \in Slots PROVE heard'[s] \in Seq(Nat)
    <3>1. heard[s] \in Seq(Nat) BY <1>3
    <3>2. Append(heard[s], sent') \in Seq(Nat) BY <1>2, <3>1, AppendedKept
    <3>3. QED BY <1>3, <3>1, <3>2
  <2>2. QED BY <1>1, <2>1
<1>5. UNCHANGED <<call, inv, at, caller, found>>
  BY <1>1 DEF commandVars, vars, flow, verdict
<1>6. BufferInv'
  <2>1. SUFFICES ASSUME NEW s \in Slots PROVE BufferOf(s)'
    BY DEF BufferInv
  <2>2. BufferOf(s) /\ ~Pending(s) /\ Shared' = Shared
    BY <1>1, <1>5 DEF BufferInv, Pending, Shared
  <2>3. CASE call[s].id = c
    <3>1. /\ heard'[s] = Append(heard[s], sent') /\ dtmf'[s] = dtmf[s]
          /\ heard'[s] \in Seq(Nat) /\ Len(heard'[s]) = Len(heard[s]) + 1
          /\ heard'[s][Len(heard'[s])] = sent'
          /\ OccursIn(dtmf[s], heard[s]) => OccursIn(dtmf'[s], heard'[s])
          /\ Begins(dtmf[s], heard[s]) => Begins(dtmf'[s], heard'[s])
      BY <1>1, <1>2, <1>3, <2>3, AppendedKept
    <3>2. Pending(s)' /\ tone'.digit = sent' /\ heard'[s] # <<>>
      BY <1>1, <1>2, <1>3, <1>5, <2>3, <3>1, InvalidAssumption DEF Pending, NoTone
    <3>3. Len(heard[s]) \in Nat /\ Len(heard'[s]) - 1 = Len(heard[s])
      BY <1>3, <3>1
    <3>4. QED BY <1>5, <2>2, <3>1, <3>2, <3>3 DEF BufferOf
  <2>4. CASE call[s].id # c
    <3>1. heard'[s] = heard[s] /\ dtmf'[s] = dtmf[s] /\ ~Pending(s)'
      BY <1>1, <1>3, <1>5, <2>4 DEF Pending
    <3>2. QED BY <1>5, <2>2, <3>1 DEF BufferOf
  <2>5. QED BY <2>3, <2>4
<1>7. found.from # NoSlot => Reflects(found.digits, found.from)'
  <2>1. SUFFICES ASSUME found.from # NoSlot PROVE Reflects(found.digits, found.from)'
    OBVIOUS
  <2>2. /\ found.from \in Slots /\ found.digits \in Seq(Nat)
        /\ Reflects(found.digits, found.from)
    BY <2>1 DEF EngineTypes, Findings, VerdictInv
  <2>3. \/ heard'[found.from] = heard[found.from]
        \/ heard'[found.from] = Append(heard[found.from], sent')
    BY <1>3, <2>2
  <2>4. heard[found.from] \in Seq(Nat) /\ UNCHANGED <<found, caller>>
    BY <1>3, <1>5, <2>2
  <2>5. /\ OccursIn(found.digits, heard[found.from]) => OccursIn(found.digits, heard'[found.from])
        /\ Begins(found.digits, heard[found.from]) => Begins(found.digits, heard'[found.from])
    <3>1. CASE heard'[found.from] = heard[found.from]
      BY <3>1
    <3>2. CASE heard'[found.from] = Append(heard[found.from], sent')
      BY <1>2, <2>2, <2>4, <3>2, AppendedKept
    <3>3. QED BY <2>3, <3>1, <3>2
  <2>6. QED BY <2>2, <2>4, <2>5 DEF Reflects
<1>8. QED BY <1>1, <1>2, <1>4, <1>6, <1>7, QuietStep DEF EngineTypes, commandVars, flow

\* ... and is stored there, if there is room.
LEMMA StoreKeeps ==
  ASSUME EngineInv, StoreDigit
  PROVE  EngineInv'
<1> USE DEF EngineInv
<1>1. /\ engine /\ tone # NoTone /\ tone' = NoTone
      /\ UNCHANGED <<commandVars, verdict, engine, receiver, entered, heard, arrivals, sent, crashed>>
  BY DEF StoreDigit
<1>2. tone.id \in Ids /\ tone.digit \in Nat
  BY <1>1 DEF EngineTypes
<1>3. PICK s \in Slots \cup {NoSlot} :
        /\ IF SlotsWith(tone.id) = {} THEN s = NoSlot ELSE First(s, SlotsWith(tone.id))
        /\ dtmf' = IF s = NoSlot THEN dtmf ELSE [dtmf EXCEPT ![s] = Buffered(@, tone.digit)]
  BY DEF StoreDigit
<1>4. UNCHANGED <<call, inv, at, caller, found>> /\ Shared' = Shared
  BY <1>1 DEF commandVars, vars, flow, verdict, Shared
<1>5. \A t \in Slots : Pending(t) <=> t = s
  <2>1. IdsAreLive BY <1>1 DEF ReachInv, EngineIds, IdsInv
  <2>2. SlotsWith(tone.id) = {} => \A t \in Slots : ~Pending(t)
    BY DEF SlotsWith, Pending
  <2>3. ASSUME First(s, SlotsWith(tone.id)) PROVE \A t \in Slots : Pending(t) <=> t = s
    BY <1>1, <1>2, <2>1, <2>3, InvalidAssumption DEF First, SlotsWith, Pending, IdsAreLive
  <2>4. \A t \in Slots : t # NoSlot BY DEF Slots, NoSlot
  <2>5. QED BY <1>3, <2>2, <2>3, <2>4
<1>6. \A t \in Slots : t # s => dtmf'[t] = dtmf[t]
  BY <1>3 DEF EngineTypes
<1>7. ASSUME s \in Slots
      PROVE  /\ dtmf'[s] \in Seq(Nat) /\ Len(dtmf'[s]) <= MaxDtmf
             /\ BufferOf(s)'
  <2>1. dtmf'[s] = Buffered(dtmf[s], tone.digit)
    BY <1>3, <1>7 DEF EngineTypes, Slots, NoSlot
  <2>2. /\ BufferOf(s) /\ Pending(s) /\ ~Pending(s)'
        /\ dtmf[s] \in Seq(Nat) /\ heard[s] \in Seq(Nat) /\ Len(dtmf[s]) <= MaxDtmf
        /\ heard'[s] = heard[s] /\ call'[s] = call[s]
    BY <1>1, <1>4, <1>5, <1>7 DEF BufferInv, EngineTypes, Pending
  <2>3. heard[s] # <<>> /\ heard[s][Len(heard[s])] = tone.digit /\ OccursIn(dtmf[s], heard[s])
    BY <2>2 DEF BufferOf
  <2>4. /\ dtmf'[s] \in Seq(Nat) /\ Len(dtmf'[s]) <= MaxDtmf /\ OccursIn(dtmf'[s], heard'[s])
    BY <1>2, <2>1, <2>2, <2>3, BufferedKept
  <2>5. s # Shared => Begins(dtmf'[s], heard'[s])
    <3>1. SUFFICES ASSUME s # Shared PROVE Begins(dtmf'[s], heard'[s])
      OBVIOUS
    <3>2. Begins(dtmf[s], heard[s])
      BY <2>2, <3>1 DEF BufferOf
    <3>3. call[s].id # Invalid
      BY <1>2, <2>2, InvalidAssumption DEF Pending
    <3>4. Len(dtmf[s]) = IF Len(heard[s]) - 1 < MaxDtmf THEN Len(heard[s]) - 1 ELSE MaxDtmf
      BY <2>2, <3>1, <3>3 DEF BufferOf
    <3>5. QED BY <1>2, <2>1, <2>2, <2>3, <3>2, <3>4, BufferedKept
  <2>6. s # Shared => Len(dtmf'[s]) = IF Len(heard'[s]) < MaxDtmf THEN Len(heard'[s]) ELSE MaxDtmf
    <3>1. SUFFICES ASSUME s # Shared
                   PROVE  Len(dtmf'[s]) = IF Len(heard'[s]) < MaxDtmf THEN Len(heard'[s]) ELSE MaxDtmf
      OBVIOUS
    <3>2. Begins(dtmf[s], heard[s])
      BY <2>2, <3>1 DEF BufferOf
    <3>3. call[s].id # Invalid
      BY <1>2, <2>2, InvalidAssumption DEF Pending
    <3>4. Len(dtmf[s]) = IF Len(heard[s]) - 1 < MaxDtmf THEN Len(heard[s]) - 1 ELSE MaxDtmf
      BY <2>2, <3>1, <3>3 DEF BufferOf
    <3>5. QED BY <1>2, <2>1, <2>2, <2>3, <3>2, <3>4, BufferedKept
  <2>7. BufferOf(s)'
    BY <1>4, <2>2, <2>4, <2>5, <2>6 DEF BufferOf
  <2>8. QED BY <2>4, <2>7
<1>8. BufferInv'
  <2>1. SUFFICES ASSUME NEW t \in Slots PROVE BufferOf(t)'
    BY DEF BufferInv
  <2>2. CASE t = s
    BY <1>7, <2>2
  <2>3. CASE t # s
    <3>1. BufferOf(t) /\ ~Pending(t) /\ ~Pending(t)' /\ dtmf'[t] = dtmf[t] /\ heard'[t] = heard[t]
      BY <1>1, <1>5, <1>6, <2>3 DEF BufferInv, Pending
    <3>2. QED BY <1>4, <3>1 DEF BufferOf
  <2>4. QED BY <2>2, <2>3
<1>9. /\ dtmf' \in [Slots -> Seq(Nat)] /\ \A t \in Slots : Len(dtmf'[t]) <= MaxDtmf
  <2>1. \A t \in Slots : dtmf'[t] \in Seq(Nat) /\ Len(dtmf'[t]) <= MaxDtmf
    BY <1>6, <1>7 DEF EngineTypes
  <2>2. dtmf' = [t \in Slots |-> dtmf'[t]] BY <1>3 DEF EngineTypes
  <2>3. QED BY <2>1, <2>2
<1>10. found.from # NoSlot => Reflects(found.digits, found.from)'
  BY <1>1, <1>4, ReflectsStays DEF verdict
<1>11. QED BY <1>1, <1>8, <1>9, <1>10, QuietStep DEF EngineTypes, commandVars, flow


----------------------------------------------------------------------------
\* All steps together.

LEMMA MainKeeps ==
  ASSUME EngineInv, EngineMain
  PROVE  EngineInv'
<1> USE DEF EngineInv
<1>1. TableInv' BY EngineTable
<1>2. EngineTypes' /\ CallerInv' BY EngineTypesMain
<1>3. LifeInv' BY EngineLife
<1>4. ReachInv' BY ReachMain
<1>5. ObjectsCover' BY EngineCovers
<1>6. EngineIds' BY IdsMain
<1>7. ConfirmedSeen'
  <2>1. CASE EndLateCalls
    BY <2>1 DEF EndLateCalls, ConfirmedSeen
  <2>2. CASE ~EndLateCalls
    BY <2>2, EngineFrame, ConfirmedMain
  <2>3. QED BY <2>1, <2>2
<1>8. ASSUME engine' PROVE TakenInv' /\ BufferInv'
  <2>1. CASE ~engine
    BY <1>8, <2>1, EngineOnward, EngineAttached
  <2>2. CASE engine
    <3>1. ~EndLateCalls /\ ~Wipe /\ ~Shutdown
      BY <1>4, <1>8, EngineOnward DEF ReachInv
    <3>2. QED BY <2>2, <3>1, TakenMain, BufferMain
  <2>3. QED BY <2>1, <2>2
<1>9. VerdictInv' BY VerdictMain
<1>10. QED BY <1>1, <1>2, <1>3, <1>4, <1>5, <1>6, <1>7, <1>8, <1>9

LEMMA HandlerKeeps ==
  ASSUME EngineInv, NEW c \in Ids, Handler(c)
  PROVE  EngineInv'
<1> USE DEF EngineInv
<1>1. TableInv' /\ UNCHANGED engine
  BY HandlerFrame DEF verdict
<1>2. EngineTypes' /\ CallerInv' BY HandlerTypes
<1>3. LifeInv' /\ ObjectsCover' BY HandlerCovers
<1>4. ReachInv' BY HandlerReach
<1>5. EngineIds' BY HandlerIds
<1>6. ConfirmedSeen' BY HandlerConfirmed
<1>7. ASSUME engine PROVE TakenInv' /\ BufferInv'
  <2>1. IdsInv BY <1>7 DEF ReachInv, EngineIds
  <2>2. QED BY <1>7, <2>1, HandlerTaken, HandlerBuffers
<1>8. VerdictInv' BY HandlerVerdict
<1>9. QED BY <1>1, <1>2, <1>3, <1>4, <1>5, <1>6, <1>7, <1>8

\* A callback that found the engine, one that uses it, one that lost it, and a
\* signal.
LEMMA FlagKeeps ==
  ASSUME EngineInv,
         \/ \E c \in Ids : EnterIncoming(c) \/ SetReceiver(c) \/ Crash(c)
         \/ Interrupt /\ UNCHANGED engineVars
         \/ UNCHANGED testVars
  PROVE  EngineInv'
<1> USE DEF EngineInv, EngineTypes, engineVars, handlers, verdict
<1>1. /\ UNCHANGED <<vars, uaVars, opts, pc, at, todo, result, files, connected>>
      /\ UNCHANGED <<verdict, engine, arrivals, dtmf, heard, tone, sent>>
      /\ receiver' = receiver \/ (engine /\ receiver' \in Slots /\ call[receiver'].state # "NULL")
      /\ running' \in BOOLEAN /\ stuck' \in BOOLEAN /\ crashed' \in BOOLEAN
      /\ entered' \subseteq Ids /\ (entered' \subseteq entered \/ engine)
  <2>1. CASE \E c \in Ids : EnterIncoming(c)
    BY <2>1 DEF EnterIncoming, commandVars, flow
  <2>2. CASE \E c \in Ids : SetReceiver(c)
    <3>1. PICK c \in Ids : SetReceiver(c) BY <2>2
    <3>2. engine /\ cb[c].at = "claimed" /\ receiver' = cb[c].slot
      BY <3>1 DEF SetReceiver
    <3>3. receiver' \in Slots /\ call[receiver'].state # "NULL"
      BY <3>2 DEF TakenInv
    <3>4. QED BY <3>1, <3>2, <3>3 DEF SetReceiver, commandVars, flow
  <2>3. CASE \E c \in Ids : Crash(c)
    BY <2>3 DEF Crash, commandVars, flow
  <2>4. CASE Interrupt /\ UNCHANGED engineVars
    BY <2>4 DEF Interrupt
  <2>5. CASE UNCHANGED testVars
    BY <2>5 DEF testVars, commandVars, flow
  <2>6. QED BY <2>1, <2>2, <2>3, <2>4, <2>5
<1>2. engine => BufferInv'
  <2>1. ASSUME engine, NEW s \in Slots PROVE BufferOf(s)'
    <3>1. BufferOf(s) /\ Shared' = Shared /\ UNCHANGED <<call, dtmf, heard, tone>>
      BY <1>1, <2>1 DEF BufferInv, Shared, vars
    <3>2. QED BY <3>1, SameIsKept
  <2>2. QED BY <2>1 DEF BufferInv
<1>3. found.from # NoSlot => Reflects(found.digits, found.from)'
  BY <1>1, ReflectsStays
<1>4. QED BY <1>1, <1>2, <1>3, QuietStep

LEMMA EngineStepKeeps == EngineInv /\ [EngineNext]_testVars => EngineInv'
<1> SUFFICES ASSUME EngineInv, [EngineNext]_testVars PROVE EngineInv'
  OBVIOUS
<1>1. CASE EngineMain
  BY <1>1, MainKeeps
<1>2. CASE \E c \in Ids : Handler(c)
  BY <1>2, HandlerKeeps
<1>3. CASE \/ \E c \in Ids : EnterIncoming(c) \/ SetReceiver(c) \/ Crash(c)
           \/ Interrupt /\ UNCHANGED engineVars
           \/ UNCHANGED testVars
  BY <1>3, FlagKeeps
<1>4. CASE (\E c \in Ids : DigitReported(c)) \/ StoreDigit
  BY <1>4, DigitKeeps, StoreKeeps
<1>5. QED BY <1>1, <1>2, <1>3, <1>4
      DEF EngineNext, EngineStep, EngineCallbacks, Handler, Reported, Returned

LEMMA InitEngine == EngineInit => EngineInv
<1> SUFFICES ASSUME EngineInit PROVE EngineInv
  OBVIOUS
<1> USE DEF EngineInit, CommandInit
<1>1. Init /\ UAInit /\ TableInv /\ IdsInv
  BY InitTable, InitIdsInv
<1>2. UATypeOK
  <2>1. codec \in [Codecs -> Priority] /\ filter \in [tried : Nat, next : Priority, enabled : Nat]
    BY <1>1, PriorityAssumption DEF UAInit, Priority
  <2>2. ua \in [state : UAState, pool : BOOLEAN, initialized : BOOLEAN]
    BY <1>1 DEF UAInit, UAState
  <2>3. QED BY <1>1, <2>1, <2>2 DEF UATypeOK, UAInit
<1>3. MediaTypes BY DEF MediaTypes, NoObjects
<1>4. found \in Findings BY DEF Findings
<1>5. dtmf \in [Slots -> Seq(Nat)] /\ heard \in [Slots -> Seq(Nat)] /\ \A s \in Slots : Len(dtmf[s]) <= MaxDtmf
  BY MaxDtmfAssumption
<1>6. EngineTypes
  BY <1>2, <1>3, <1>4, <1>5 DEF EngineTypes, EnginePlaces, Statuses
<1>7. CallerInv BY DEF CallerInv, Blank
<1>8. LifeInv BY <1>1 DEF LifeInv, UAInit, Init
<1>9. ReachInv BY DEF ReachInv, Blank, Engaged, Decided
<1>10. ObjectsCover
  <2>1. SUFFICES ASSUME NEW kind \in Kinds PROVE Spare(kind) >= 0
    BY DEF ObjectsCover
  <2>2. Cardinality(Held(media, kind)) = 0 BY HeldNone
  <2>3. objects[kind] = 0 /\ Making(kind) = 0 BY DEF NoObjects, Making
  <2>4. QED BY <2>2, <2>3 DEF Spare
<1>11. EngineIds BY <1>1 DEF EngineIds, Init, NoCallback
<1>12. ConfirmedSeen BY <1>1 DEF ConfirmedSeen, Init
<1>13. VerdictInv BY DEF VerdictInv
<1>14. QED BY <1>1, <1>6, <1>7, <1>8, <1>9, <1>10, <1>11, <1>12, <1>13 DEF EngineInv

LEMMA EngineInvariant == EngineSpec => []EngineInv
BY InitEngine, EngineStepKeeps, PTL DEF EngineSpec

----------------------------------------------------------------------------
(***************************************************************************)
(* The recorders and players of a test.  ObjectsCover only bounds them from *)
(* below.  That nothing is lost needs more: a recorder is only made for a   *)
(* slot without one, and in a test that plays once, once a player was made  *)
(* or is named, no play is left among the actions ahead.                    *)
(***************************************************************************)

StepKinds == {"recorder", "player", "hangup", "nothing"}

BeforeActions == Blank \cup {"accounts", "register", "dial", "dialling", "connect"}

OnActions == {"act", "connecting", "storing", "hanging"}

One(steps) ==
  \A i, j \in 1 .. Len(steps) : steps[i] = "player" /\ steps[j] = "player" => i = j

None(steps) == \A i \in 1 .. Len(steps) : steps[i] # "player"

\* The steps of this role that were not begun, and those of the next.
Rest == IF pc \in {"connecting", "storing"} THEN Tail(todo) ELSE todo
Later == IF role = "receiver" THEN Steps(Test.caller.actions) ELSE <<>>

Playing == Making("player") = 1 \/ \E s \in Slots : "player" \in media[s]

AheadInv ==
  /\ One(Rest) /\ One(Later) /\ (None(Rest) \/ None(Later))
  /\ Playing => None(Rest) /\ None(Later)
  /\ Making("player") = 1 => \A s \in Slots : "player" \notin media[s]

StepsInv ==
  /\ pc \in BeforeActions => role = "receiver" /\ \A s \in Slots : media[s] = {}
  /\ pc \in OnActions => todo \in Seq(StepKinds)
  /\ pc \in {"connecting", "storing", "hanging"} => todo # <<>>
  /\ Making("recorder") = 1 => "recorder" \notin media[at]
  /\ OnePlay /\ pc \in OnActions => AheadInv

NothingSpare ==
  pc \notin {"shutdown", "destroy", "done"} =>
    Spare("recorder") = 0 /\ (OnePlay => Spare("player") = 0)

PlayInv == StepsInv /\ NothingSpare

LEMMA TailPlays ==
  ASSUME NEW steps \in Seq(StepKinds), steps # <<>>
  PROVE  /\ Tail(steps) \in Seq(StepKinds)
         /\ One(steps) => One(Tail(steps))
         /\ None(steps) => None(Tail(steps))
         /\ One(steps) /\ Head(steps) = "player" => None(Tail(steps))
<1>1. /\ Tail(steps) \in Seq(StepKinds) /\ Len(Tail(steps)) = Len(steps) - 1
      /\ Len(steps) \in Nat \ {0} /\ Head(steps) = steps[1]
      /\ \A i \in 1 .. Len(Tail(steps)) : Tail(steps)[i] = steps[i + 1] /\ i + 1 \in 1 .. Len(steps)
  OBVIOUS
<1>2. 1 \in 1 .. Len(steps) /\ \A i \in 1 .. Len(Tail(steps)) : i \in Int /\ i + 1 # 1
  BY <1>1
<1>3. One(steps) => One(Tail(steps))
  <2>1. SUFFICES ASSUME One(steps), NEW i \in 1 .. Len(Tail(steps)), NEW j \in 1 .. Len(Tail(steps)),
                        Tail(steps)[i] = "player", Tail(steps)[j] = "player"
                 PROVE  i = j
    BY DEF One
  <2>2. i + 1 = j + 1
    BY <1>1, <2>1 DEF One
  <2>3. QED BY <1>2, <2>2
<1>4. None(steps) => None(Tail(steps))
  BY <1>1 DEF None
<1>5. One(steps) /\ Head(steps) = "player" => None(Tail(steps))
  BY <1>1, <1>2 DEF One, None
<1>6. QED BY <1>1, <1>3, <1>4, <1>5

\* The steps of both roles, and what OnePlay says of them.
LEMMA StepsOfTest ==
  ASSUME opts \in Options
  PROVE  LET first == Steps(Test.receiver.actions)
             then == Steps(Test.caller.actions)
         IN  /\ first \in Seq(StepKinds) /\ then \in Seq(StepKinds)
             /\ OnePlay => One(first) /\ One(then) /\ (None(first) \/ None(then))
<1> DEFINE first == Steps(Test.receiver.actions)
           then == Steps(Test.caller.actions)
<1>1. \A a : StepOf(a) \in StepKinds
  BY DEF StepOf, StepKinds
<1>2. ASSUME NEW actions, actions \in Seq(Range(actions))
      PROVE  Steps(actions) \in Seq(StepKinds)
  <2>1. Len(actions) \in Nat /\ DOMAIN actions = 1 .. Len(actions)
    BY <1>2
  <2>2. Steps(actions) = [i \in 1 .. Len(actions) |-> StepOf(actions[i])]
    BY <2>1 DEF Steps
  <2>3. QED BY <1>1, <2>1, <2>2
<1>3. first \in Seq(StepKinds) /\ then \in Seq(StepKinds)
  BY <1>2, ActionsAssumption DEF Test
<1>4. ASSUME OnePlay PROVE One(first) /\ One(then) /\ (None(first) \/ None(then))
  <2> DEFINE both == first \o then
  <2>1. \A i, j \in DOMAIN both : both[i] = "player" /\ both[j] = "player" => i = j
    BY <1>4 DEF OnePlay
  <2> HIDE DEF first, then
  <2>2. /\ DOMAIN both = 1 .. Len(first) + Len(then)
        /\ Len(first) \in Nat /\ Len(then) \in Nat
        /\ \A i \in 1 .. Len(first) : both[i] = first[i]
        /\ \A i \in 1 .. Len(then) : both[Len(first) + i] = then[i]
    BY <1>3
  <2>3. \A i \in 1 .. Len(first) : i \in DOMAIN both
    BY <2>2
  <2>4. \A i \in 1 .. Len(then) : Len(first) + i \in DOMAIN both
    BY <2>2
  <2> HIDE DEF both
  <2>5. One(first)
    BY <2>1, <2>2, <2>3 DEF One
  <2>6. One(then)
    <3>1. SUFFICES ASSUME NEW i \in 1 .. Len(then), NEW j \in 1 .. Len(then),
                          then[i] = "player", then[j] = "player"
                   PROVE  i = j
      BY DEF One
    <3>2. Len(first) + i = Len(first) + j
      BY <2>1, <2>2, <2>4, <3>1
    <3>3. QED BY <2>2, <3>2
  <2>7. None(first) \/ None(then)
    <3>1. SUFFICES ASSUME NEW i \in 1 .. Len(first), NEW j \in 1 .. Len(then),
                          first[i] = "player", then[j] = "player"
                   PROVE  FALSE
      BY DEF None
    <3>2. i = Len(first) + j
      BY <2>1, <2>2, <2>3, <2>4, <3>1
    <3>3. QED BY <2>2, <3>2
  <2>8. QED BY <2>5, <2>6, <2>7
<1>5. QED BY <1>3, <1>4

LEMMA SamePlays ==
  ASSUME UNCHANGED opts
  PROVE  OnePlay' = OnePlay /\ (UNCHANGED role => Later' = Later)
BY DEF OnePlay, Later, Test

\* Away from the actions there is nothing to keep.
LEMMA StepsAway ==
  ASSUME StepsInv, pc' \notin OnActions,
         pc' \in BeforeActions => pc \in BeforeActions /\ UNCHANGED <<role, media>>
  PROVE  StepsInv'
<1>1. Making("recorder")' = 0
  BY DEF OnActions, Making
<1>2. QED BY <1>1 DEF StepsInv, OnActions, BeforeActions, Blank

\* A step of todo is left behind without a player.
LEMMA StepsProceed ==
  ASSUME StepsInv, EngineTypes, pc \in {"act", "hanging"}, todo # <<>>, Proceed,
         UNCHANGED <<role, media>>
  PROVE  StepsInv'
<1>1. /\ pc' = "act" /\ todo' = Tail(todo) /\ todo \in Seq(StepKinds) /\ UNCHANGED <<opts, at>>
  BY DEF Proceed, Stay, StepsInv, OnActions
<1>2. Making("recorder")' = 0 /\ Making("player")' = 0 /\ Making("player") = 0
  BY <1>1 DEF Making
<1>3. Rest = todo /\ Rest' = Tail(todo)
  BY <1>1 DEF Rest
<1>4. OnePlay' => OnePlay /\ Later' = Later
  BY <1>1, SamePlays
<1>5. OnePlay => AheadInv
  BY DEF StepsInv, OnActions
<1>6. OnePlay' => AheadInv'
  BY <1>1, <1>2, <1>3, <1>4, <1>5, TailPlays DEF AheadInv, Playing
<1>7. QED BY <1>1, <1>2, <1>6, TailPlays DEF StepsInv, OnActions, BeforeActions, Blank

LEMMA StepsOnMedia ==
  ASSUME StepsInv, EngineTypes, CallerInv, ActOnMedia
  PROVE  StepsInv'
<1>1. UNCHANGED <<opts, at, role>>
  BY DEF ActOnMedia, CreateMedia, ConnectMedia, ConnectMediaFails, StoreMedia, Goto, Proceed, Stay,
         engineVars, verdict
<1>2. OnePlay' => OnePlay /\ Later' = Later
  BY <1>1, SamePlays
<1>3. CASE \E kind \in Kinds : Acting({kind}) /\ at # NoSlot /\ CreateMedia(kind)
  <2>1. PICK kind \in Kinds : CreateMedia(kind)
    BY <1>3
  <2>2. /\ pc = "act" /\ todo # <<>> /\ Head(todo) = kind /\ pc' = "connecting"
        /\ UNCHANGED <<todo, media>> /\ (kind = "recorder" => "recorder" \notin media[at])
    BY <2>1 DEF CreateMedia, Do, Goto
  <2>3. todo \in Seq(StepKinds) /\ (OnePlay => AheadInv)
    BY <2>2 DEF StepsInv, OnActions
  <2>4. Rest = todo /\ Rest' = Tail(todo) /\ Making("player") = 0
    BY <2>2 DEF Rest, Making
  <2>5. Making("player")' # 0 => Head(todo) = "player"
    BY <2>2 DEF Making
  <2>6. Making("recorder")' = 1 => "recorder" \notin media'[at']
    BY <1>1, <2>2 DEF Making
  <2>7. ASSUME OnePlay' PROVE AheadInv'
    <3>1. AheadInv /\ Later' = Later
      BY <1>2, <2>3, <2>7
    <3>2. One(Rest)' /\ One(Later)' /\ (None(Rest) \/ None(Later))'
      BY <2>2, <2>3, <2>4, <3>1, TailPlays DEF AheadInv
    <3>3. CASE Head(todo) = "player"
      <4>1. ~None(todo) /\ None(Tail(todo))
        <5>1. Head(todo) = todo[1] /\ 1 \in 1 .. Len(todo)
          BY <2>2, <2>3
        <5>2. QED BY <2>2, <2>3, <2>4, <3>1, <3>3, <5>1, TailPlays DEF AheadInv, None
      <4>2. ~Playing /\ None(Later)
        BY <2>4, <3>1, <4>1 DEF AheadInv
      <4>3. QED BY <2>2, <2>4, <3>1, <3>2, <4>1, <4>2 DEF AheadInv, Playing
    <3>4. CASE Head(todo) # "player"
      <4>1. Playing' => Playing
        BY <2>2, <2>5, <3>4 DEF Playing, Making
      <4>2. Playing => None(Rest)' /\ None(Later)'
        BY <2>2, <2>3, <2>4, <3>1, TailPlays DEF AheadInv
      <4>3. Making("player")' # 1
        BY <2>2, <3>4 DEF Making
      <4>4. QED BY <3>2, <4>1, <4>2, <4>3 DEF AheadInv
    <3>5. QED BY <3>3, <3>4
  <2>8. QED BY <2>2, <2>3, <2>6, <2>7 DEF StepsInv, OnActions, BeforeActions, Blank
<1>4. CASE ConnectMedia
  <2>1. pc = "connecting" /\ pc' = "storing" /\ UNCHANGED <<todo, media>>
    BY <1>4 DEF ConnectMedia, Goto, files
  <2>2. UNCHANGED Rest /\ \A kind \in Kinds : Making(kind)' = Making(kind)
    BY <2>1 DEF Rest, Making
  <2>3. OnePlay' => AheadInv'
    BY <1>2, <2>1, <2>2 DEF StepsInv, OnActions, AheadInv, Playing, Kinds
  <2>4. QED BY <1>1, <2>1, <2>2, <2>3 DEF StepsInv, OnActions, BeforeActions, Blank, Kinds
<1>5. CASE ConnectMediaFails \/ StoreMedia
  <2>1. /\ pc \in {"connecting", "storing"} /\ pc' = "act" /\ todo' = Tail(todo)
    BY <1>5 DEF ConnectMediaFails, StoreMedia, Proceed
  <2>2. todo \in Seq(StepKinds) /\ todo # <<>> /\ (OnePlay => AheadInv)
    BY <2>1 DEF StepsInv, OnActions
  <2>3. Rest' = Rest /\ \A kind \in Kinds : Making(kind)' = 0
    BY <2>1 DEF Rest, Making
  <2>4. Playing' => Playing
    <3>1. SUFFICES ASSUME NEW s \in Slots, "player" \in media'[s] PROVE Playing
      BY <2>3 DEF Playing, Kinds
    <3>2. CASE ConnectMediaFails
      BY <3>1, <3>2 DEF ConnectMediaFails, Playing
    <3>3. CASE StoreMedia
      <4>1. "player" \in media[s] \/ Head(todo) = "player"
        BY <3>1, <3>3 DEF StoreMedia, EngineTypes, MediaTypes, Playing
      <4>2. QED BY <2>1, <4>1 DEF Playing, Making
    <3>4. QED BY <1>5, <3>2, <3>3
  <2>5. OnePlay' => AheadInv'
    BY <1>2, <2>2, <2>3, <2>4 DEF AheadInv, Kinds
  <2>6. QED BY <2>1, <2>2, <2>3, <2>5, TailPlays
        DEF StepsInv, OnActions, BeforeActions, Blank, Kinds
<1>6. QED BY <1>3, <1>4, <1>5 DEF ActOnMedia

LEMMA StepsMain ==
  ASSUME StepsInv, EngineTypes, CallerInv, EngineMain
  PROVE  StepsInv'
<1> USE DEF Goto, Fail, Continue, Conclude, verdict
<1>1. CASE Opening
  BY <1>1, StepsAway
     DEF Opening, LoadTest, StartEngine, AttachEngine, FindAccounts, RegisterAccounts, NoSlotToDial,
         OnActions, BeforeActions, Blank, files
<1>2. CASE DialCaller \/ Dialled \/ NotConnected
  BY <1>2, StepsAway DEF DialCaller, Dialled, NotConnected, OnActions, BeforeActions, Blank, files
<1>3. CASE CallerConnects
  <2>1. /\ pc = "connect" /\ pc' = "act" /\ todo' = Steps(Test.receiver.actions)
        /\ UNCHANGED <<media, opts, role>>
    BY <1>3 DEF CallerConnects, files, Stay
  <2>2. role = "receiver" /\ \A s \in Slots : media[s] = {}
    BY <2>1 DEF StepsInv, BeforeActions
  <2>3. /\ Rest' = Steps(Test.receiver.actions) /\ Later' = Steps(Test.caller.actions)
        /\ ~Playing' /\ \A kind \in Kinds : Making(kind)' = 0
    BY <2>1, <2>2 DEF Rest, Later, Playing, Making, Kinds, Test
  <2>4. todo' \in Seq(StepKinds) /\ (OnePlay' => AheadInv')
    BY <2>1, <2>3, StepsOfTest, SamePlays DEF EngineTypes, AheadInv, Kinds
  <2>5. QED BY <2>1, <2>3, <2>4 DEF StepsInv, OnActions, BeforeActions, Blank, Kinds
<1>4. CASE ActOnMedia
  BY <1>4, StepsOnMedia
<1>5. CASE ActInVain
  BY <1>5, StepsProceed DEF ActInVain, Acting, files, engineVars
<1>6. CASE Turn \/ ActHangup \/ (ActHangingUp /\ pc' = "hanging")
  <2>1. /\ pc \in {"act", "hanging"} /\ pc' \in {"act", "hanging"}
        /\ UNCHANGED <<opts, todo, role, media>> /\ (pc' = "hanging" => todo # <<>>)
    BY <1>6 DEF Turn, ActHangup, ActHangingUp, Acting, Stay, Proceed, files, engineVars, StepsInv
  <2>2. Rest' = Rest /\ \A kind \in Kinds : Making(kind)' = 0 /\ Making(kind) = 0
    BY <2>1 DEF Rest, Making
  <2>3. OnePlay' => AheadInv'
    BY <2>1, <2>2, SamePlays DEF StepsInv, OnActions, AheadInv, Playing, Kinds
  <2>4. QED BY <2>1, <2>2, <2>3 DEF StepsInv, OnActions, BeforeActions, Blank, Kinds
<1>7. CASE ActHangingUp /\ pc' # "hanging"
  <2>1. pc = "hanging" /\ Proceed /\ UNCHANGED <<role, media>>
    BY <1>7 DEF ActHangingUp, files, engineVars
  <2>2. QED BY <2>1, StepsProceed DEF StepsInv
<1>8. CASE RoleDone
  <2>1. CASE role = "receiver"
    <3>1. /\ pc = "act" /\ todo = <<>> /\ pc' = "act" /\ role' = "caller"
          /\ todo' = Steps(Test.caller.actions) /\ UNCHANGED <<opts, media>>
      BY <1>8, <2>1 DEF RoleDone, Stay, files
    <3>2. Rest' = Later /\ Later' = <<>> /\ \A kind \in Kinds : Making(kind)' = 0
      BY <2>1, <3>1 DEF Rest, Later, Making
    <3>3. Playing' => Playing
      BY <3>1, <3>2 DEF Playing, Kinds
    <3>4. One(<<>>) /\ None(<<>>)
      BY DEF One, None
    <3>5. OnePlay' => AheadInv'
      <4>1. SUFFICES ASSUME OnePlay' PROVE AheadInv'
        OBVIOUS
      <4>2. AheadInv
        <5>1. OnePlay
          BY <3>1, <4>1, SamePlays
        <5>2. QED BY <3>1, <5>1 DEF StepsInv, OnActions
      <4>3. One(Rest)' /\ One(Later)' /\ None(Later)'
        BY <3>2, <3>4, <4>2 DEF AheadInv, One, None
      <4>4. Playing' => None(Rest)'
        BY <3>2, <3>3, <4>2 DEF AheadInv, None
      <4>5. Making("player")' = 0
        BY <3>2 DEF Kinds
      <4>6. QED BY <4>3, <4>4, <4>5 DEF AheadInv
    <3>6. todo' \in Seq(StepKinds)
      BY <3>1, StepsOfTest DEF EngineTypes
    <3>7. QED BY <3>1, <3>2, <3>5, <3>6 DEF StepsInv, OnActions, BeforeActions, Blank, Kinds
  <2>2. CASE role # "receiver"
    BY <1>8, <2>2, StepsAway DEF RoleDone, OnActions, BeforeActions, Blank
  <2>3. QED BY <2>1, <2>2
<1>9. CASE Judging
  <2>1. pc' \in {"analyze", "evaluate", "cleanup"}
    BY <1>9 DEF Judging, Collect, Analyze, Evaluate
  <2>2. QED BY <2>1, StepsAway DEF OnActions, BeforeActions, Blank
<1>10. CASE Closing
  <2>1. pc' \in {"ending", "detach", "late", "wipe", "shutdown", "destroy", "done"}
    BY <1>10 DEF Closing, Cleanup, EndTestCalls, DetachEngine, EndLateCalls, ShutdownEngine, Wipe,
                 StopWorker, Shutdown
  <2>2. QED BY <2>1, StepsAway DEF OnActions, BeforeActions, Blank
<1>11. QED BY <1>1, <1>2, <1>3, <1>4, <1>5, <1>6, <1>7, <1>8, <1>9, <1>10, MainStretches
       DEF Calling, Acts

\* With every object accounted for, a step that makes or stores one keeps them so.
LEMMA SpareKept ==
  ASSUME StepsInv, NothingSpare, EngineTypes, CallerInv, EngineMain
  PROVE  NothingSpare'
<1> USE DEF EngineTypes, Goto, Proceed, Continue, Conclude, Fail
<1>1. UNCHANGED opts BY EngineFrame
<1>2. CASE ActOnMedia
  <2>1. PICK k \in Kinds :
          \/ CreateMedia(k)
          \/ ConnectMedia
          \/ ConnectMediaFails /\ k = Head(todo)
          \/ StoreMedia /\ k = Head(todo) /\ at \in Slots
    BY <1>2 DEF ActOnMedia, ConnectMedia, ConnectMediaFails, StoreMedia, CallerInv, Kinds
  <2>2. \A kind \in Kinds :
          Spare(kind)' = Spare(kind) + (IF StoreMedia /\ kind = k /\ k \in media[at] THEN 1 ELSE 0)
    BY <2>1, SpareMade
  <2>3. \A kind \in Kinds : Spare(kind) \in Int
    BY SpareType
  <2>4. pc \in {"act", "connecting", "storing"}
    BY <1>2 DEF ActOnMedia, CreateMedia, Do, ConnectMedia, ConnectMediaFails, StoreMedia
  <2>5. ASSUME StoreMedia, k = Head(todo)
        PROVE  /\ k = "recorder" => k \notin media[at]
               /\ OnePlay /\ k = "player" => k \notin media[at]
    <3>1. pc = "storing" BY <2>5 DEF StoreMedia
    <3>2. Making(k) = 1 BY <2>5, <3>1 DEF Making
    <3>3. at \in Slots BY <3>1 DEF CallerInv
    <3>4. QED BY <3>1, <3>2, <3>3 DEF StepsInv, OnActions, AheadInv
  <2>6. ASSUME NEW kind \in Kinds, kind = "recorder" \/ OnePlay
        PROVE  Spare(kind)' = Spare(kind)
    <3>1. ~(StoreMedia /\ kind = k /\ k \in media[at])
      <4>1. CASE StoreMedia
        <5>1. k = Head(todo)
          BY <2>1, <4>1 DEF StoreMedia, CreateMedia, Do, ConnectMedia, ConnectMediaFails
        <5>2. QED BY <2>5, <2>6, <4>1, <5>1 DEF Kinds
      <4>2. CASE ~StoreMedia
        BY <4>2
      <4>3. QED BY <4>1, <4>2
    <3>2. QED BY <2>2, <2>3, <3>1
  <2>7. QED BY <1>1, <2>4, <2>6, SamePlays DEF NothingSpare, Kinds
<1>3. CASE Wipe \/ Shutdown
  BY <1>3 DEF Wipe, Shutdown, NothingSpare
<1>4. CASE ~ActOnMedia /\ ~Wipe /\ ~Shutdown
  <2>1. UNCHANGED files
    BY <1>4, EngineFiles
  <2>2. {pc, pc'} \cap {"connecting", "storing"} = {}
    BY <1>4
       DEF EngineMain, LoadTest, StartEngine, AttachEngine, FindAccounts, RegisterAccounts,
           NoSlotToDial, DialCaller, Dialled, CallerConnects, NotConnected, Turn, ActInVain,
           ActHangup, ActHangingUp, Acting, RoleDone, Collect, Analyze, Evaluate, Cleanup,
           EndTestCalls, DetachEngine, EndLateCalls, ShutdownEngine, StopWorker
  <2>3. pc \in {"shutdown", "destroy", "done"} => pc' \in {"shutdown", "destroy", "done"}
    BY <1>4
       DEF EngineMain, LoadTest, StartEngine, AttachEngine, FindAccounts, RegisterAccounts,
           NoSlotToDial, DialCaller, Dialled, CallerConnects, NotConnected, Turn, ActInVain,
           ActHangup, ActHangingUp, Acting, RoleDone, Collect, Analyze, Evaluate, Cleanup,
           EndTestCalls, DetachEngine, EndLateCalls, ShutdownEngine, StopWorker
  <2>4. QED BY <1>1, <2>1, <2>2, <2>3, SpareStays, SamePlays DEF NothingSpare, Kinds
<1>5. QED BY <1>2, <1>3, <1>4

\* A callback may only stop media; the rest leaves them alone.
LEMMA PlayElsewhere ==
  ASSUME PlayInv, EngineTypes, CallerInv, UNCHANGED <<opts, pc, at, todo, role>>,
         UNCHANGED files \/ \E s \in Slots : StopMedia(s)
  PROVE  PlayInv'
<1>1. \A kind \in Kinds : Spare(kind)' = Spare(kind) /\ Making(kind)' = Making(kind)
  BY SpareStays, SpareStop DEF EngineTypes, Making
<1>2. \A s \in Slots : media'[s] \subseteq media[s]
  BY DEF files, StopMedia, EngineTypes, MediaTypes
<1>3. OnePlay' = OnePlay /\ Later' = Later /\ Rest' = Rest
  BY SamePlays DEF Rest
<1>4. Playing' => Playing
  BY <1>1, <1>2 DEF Playing, Kinds
<1>5. AheadInv => AheadInv'
  BY <1>1, <1>2, <1>3, <1>4 DEF AheadInv, Kinds
<1>6. Making("recorder") = 1 => at \in Slots
  BY DEF Making, CallerInv
<1>7. StepsInv'
  BY <1>1, <1>2, <1>3, <1>5, <1>6 DEF PlayInv, StepsInv, Kinds
<1>8. NothingSpare'
  BY <1>1, <1>3 DEF PlayInv, NothingSpare, Kinds
<1>9. QED BY <1>7, <1>8 DEF PlayInv

LEMMA PlayStep == EngineInv /\ PlayInv /\ [EngineNext]_testVars => PlayInv'
<1> SUFFICES ASSUME EngineInv, PlayInv, [EngineNext]_testVars PROVE PlayInv'
  OBVIOUS
<1> USE DEF EngineInv
<1>1. CASE EngineMain
  BY <1>1, StepsMain, SpareKept DEF PlayInv
<1>2. CASE \E c \in Ids : Handler(c)
  BY <1>2, HandlerFrame, PlayElsewhere DEF flow, verdict
<1>3. CASE \/ \E c \in Ids : EnterIncoming(c) \/ SetReceiver(c) \/ Crash(c)
           \/ Interrupt /\ UNCHANGED engineVars
           \/ UNCHANGED testVars
  BY <1>3, PlayElsewhere
     DEF EnterIncoming, SetReceiver, Crash, Interrupt, testVars, commandVars, flow, engineVars, verdict
<1>4. CASE (\E c \in Ids : DigitReported(c)) \/ StoreDigit
  BY <1>4, PlayElsewhere DEF DigitReported, StoreDigit, commandVars, flow, verdict
<1>5. QED BY <1>1, <1>2, <1>3, <1>4
      DEF EngineNext, EngineStep, EngineCallbacks, Handler, Reported, Returned

LEMMA InitPlay == EngineInit => PlayInv
<1> SUFFICES ASSUME EngineInit PROVE PlayInv
  OBVIOUS
<1> USE DEF EngineInit, CommandInit
<1>1. \A kind \in Kinds : Making(kind) = 0 /\ objects[kind] = 0 /\ Cardinality(Held(media, kind)) = 0
  BY HeldNone DEF Making, NoObjects
<1>2. StepsInv
  BY <1>1 DEF StepsInv, OnActions, BeforeActions, Kinds
<1>3. NothingSpare
  BY <1>1 DEF NothingSpare, Spare, Kinds
<1>4. QED BY <1>2, <1>3 DEF PlayInv

\* Whatever the test, its recorders are exactly those its slots name and the one
\* being made, and so are its players unless it plays twice (media.c:66-155,
\* call.c:319-321).
THEOREM TestMediaAreOwned == EngineSpec => []TestMediaIsOwned
<1>1. EngineInv /\ PlayInv => TestMediaIsOwned
  <2>1. SUFFICES ASSUME EngineInv, PlayInv, pc \notin {"shutdown", "destroy", "done"},
                        NEW kind \in Kinds
                 PROVE  LET owned == Cardinality(Held(media, kind)) + Making(kind)
                        IN  /\ objects[kind] >= owned
                            /\ kind = "recorder" \/ OnePlay => objects[kind] = owned
    BY DEF TestMediaIsOwned, Held
  <2>2. Cardinality(Held(media, kind)) \in Int /\ objects[kind] \in Int /\ Making(kind) \in Int
    BY <2>1, HeldFinite DEF EngineInv, EngineTypes, MediaTypes, Making
  <2>3. Spare(kind) >= 0 /\ (kind = "recorder" \/ OnePlay => Spare(kind) = 0)
    BY <2>1 DEF EngineInv, ObjectsCover, PlayInv, NothingSpare, Kinds
  <2>4. QED BY <2>2, <2>3 DEF Spare
<1>2. QED BY <1>1, InitPlay, PlayStep, EngineInvariant, PTL DEF EngineSpec

----------------------------------------------------------------------------
\* Every variable of a test keeps its type: its buffers never hold more than
\* MaxDtmf digits (call.c:397).
THEOREM EngineTypesHold == EngineSpec => []EngineTypeOK
<1>1. EngineInv => EngineTypeOK
  <2> SUFFICES ASSUME EngineInv PROVE EngineTypeOK
    OBVIOUS
  <2> USE DEF EngineInv, EngineTypes
  <2>1. objects \in [Kinds -> Nat] BY CoverIsNat
  <2>2. tone.id \in Ids \cup {Invalid} BY DEF NoTone
  <2>3. found.connected \in BOOLEAN /\ found.beeps \in Nat BY DEF Findings
  <2>4. TypeOK BY DEF TableInv
  <2>5. media \in [Slots -> SUBSET Kinds] BY DEF MediaTypes
  <2>6. QED BY <2>1, <2>2, <2>3, <2>4, <2>5 DEF EngineTypeOK
<1>2. QED BY <1>1, EngineInvariant, PTL

\* However a test ends, nothing of it is left, no callback can reach its engine
\* and the exit status is its verdict (test_engine.c:448-473).
THEOREM TestLeavesNothing == EngineSpec => []NothingOutlivesTest
<1>1. EngineInv => NothingOutlivesTest
  <2>1. LifeInv => NothingOutlivesCommand
    BY DEF LifeInv, NothingOutlivesCommand
  <2>2. QED BY <2>1 DEF EngineInv, ReachInv, Blank, Engaged, Decided, NothingOutlivesTest
<1>2. QED BY <1>1, EngineInvariant, PTL

\* While the engine takes digits, the buffer of every call but one that shares
\* its slot with the caller's holds what was sent to it (call.c:398).
THEOREM BuffersAreOwn == EngineSpec => []BufferIsOwn
<1>1. EngineInv => BufferIsOwn
  <2>1. SUFFICES ASSUME EngineInv, engine, NEW s \in Slots \ {IF caller = NoSlot THEN at ELSE caller}
                 PROVE  /\ IsPrefix(dtmf[s], heard[s])
                        /\ call[s].id # Invalid /\ tone = NoTone =>
                             Len(dtmf[s]) = IF Len(heard[s]) < MaxDtmf THEN Len(heard[s]) ELSE MaxDtmf
    BY DEF BufferIsOwn
  <2>2. BufferOf(s) /\ s # Shared
    BY <2>1 DEF EngineInv, BufferInv, Shared
  <2>3. IsPrefix(dtmf[s], heard[s])
    BY <2>1, <2>2, PrefixBegins DEF BufferOf, EngineInv, EngineTypes
  <2>4. ASSUME call[s].id # Invalid, tone = NoTone
        PROVE  Len(dtmf[s]) = IF Len(heard[s]) < MaxDtmf THEN Len(heard[s]) ELSE MaxDtmf
    BY <2>2, <2>4 DEF BufferOf, Pending
  <2>5. QED BY <2>3, <2>4
<1>2. QED BY <1>1, EngineInvariant, PTL

\* A verdict of PASSED rests on a connection that was seen and on digits that
\* were sent, for every test file and every limit (test_engine.c:336-446).
THEOREM PassesAreEarned == EngineSpec => []PassedIsEarned
<1>1. EngineInv => PassedIsEarned
  <2> SUFFICES ASSUME EngineInv, status = "PASSED" PROVE PassedIsEarned
    BY DEF PassedIsEarned
  <2> USE DEF EngineInv
  <2>1. engine => pc = "cleanup"
    BY DEF ReachInv, Engaged, Decided
  <2>2. Passes /\ found \in Findings
    BY DEF VerdictInv, EngineTypes
  <2>3. IF Test.expect.connected THEN connected ELSE ~found.connected
    BY <2>2 DEF Passes, VerdictInv
  <2>4. ASSUME NEW a \in ExpectedDigits, a.digits # <<>>
        PROVE  /\ found.from # NoSlot
               /\ IF found.from = caller THEN Range(a.digits) \subseteq Range(heard[caller])
                  ELSE IsPrefix(a.digits, heard[found.from])
    <3>1. a.digits \in Seq(Nat) /\ found.digits \in Seq(Nat)
      BY <2>2, <2>4, ActionsAssumption DEF ExpectedDigits, Test, EngineTypes, Findings
    <3>2. Begins(a.digits, found.digits)
      BY <2>2, <2>4, <3>1, PrefixBegins DEF Passes
    <3>3. found.digits # <<>>
      BY <2>4, <3>1, <3>2 DEF Begins
    <3>4. found.from \in Slots /\ Reflects(found.digits, found.from)
      BY <2>2, <3>3 DEF VerdictInv, Findings
    <3>5. heard[found.from] \in Seq(Nat)
      BY <3>4 DEF EngineTypes
    <3>6. ASSUME found.from = caller PROVE Range(a.digits) \subseteq Range(heard[caller])
      <4>1. SUFFICES ASSUME NEW i \in 1 .. Len(a.digits)
                     PROVE  \E j \in 1 .. Len(heard[caller]) : heard[caller][j] = a.digits[i]
        <5>1. DOMAIN a.digits = 1 .. Len(a.digits) /\ DOMAIN heard[caller] = 1 .. Len(heard[caller])
          BY <3>1, <3>5, <3>6
        <5>2. QED BY <5>1 DEF Range
      <4>2. i \in 1 .. Len(found.digits) /\ found.digits[i] = a.digits[i]
        BY <3>1, <3>2 DEF Begins
      <4>3. QED BY <3>4, <3>6, <4>2 DEF Reflects, OccursIn
    <3>7. ASSUME found.from # caller PROVE IsPrefix(a.digits, heard[found.from])
      <4>1. Begins(found.digits, heard[found.from])
        BY <3>4, <3>7 DEF Reflects
      <4>2. Begins(a.digits, heard[found.from])
        BY <3>1, <3>2, <3>5, <4>1, BeginsOn
      <4>3. QED BY <3>1, <3>5, <4>2, PrefixBegins
    <3>8. QED BY <3>4, <3>6, <3>7 DEF Slots, NoSlot
  <2>5. QED BY <2>1, <2>2, <2>3, <2>4 DEF PassedIsEarned, Passes
<1>2. QED BY <1>1, EngineInvariant, PTL
=============================================================================
