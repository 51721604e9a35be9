----------------------------- MODULE TestEngine -----------------------------
(***************************************************************************)
(* The `test` command (src/src/cli/cmd_test.c, src/src/test/test_engine.c): *)
(* one process that dials, answers the call that comes back, runs the       *)
(* actions of both ends and gives a verdict.  It shares the call table, the *)
(* media and the shutdown with CallCommands; opts is its test file.         *)
(*                                                                          *)
(* The callbacks reach the engine through the global g_engine, which the    *)
(* main thread clears when it is done.                                      *)
(***************************************************************************)
EXTENDS CallCommands, TestDefinition

EnginePlaces == {"begin", "init", "attach", "accounts", "register", "dial",
  "dialling", "connect", "act", "connecting", "storing", "hanging", "collect",
  "analyze", "evaluate", "cleanup", "ending", "detach", "late", "wipe", "shutdown",
  "destroy", "done"}

CONSTANTS
  MaxDtmf,    \* VU_MAX_DTMF_DIGITS, what the buffer of a call holds
  Analyses,   \* what the analysis of a recording may find
  Bound(_)    \* bounds, for each test: how many calls come in and at which places
              \* of the main thread, how many digits the remote parties send, and
              \* whether a signal may come

ASSUME MaxDtmfAssumption == MaxDtmf \in Nat \ {0}
ASSUME BoundsAssumption ==
  \A test \in Options :
    Bound(test) \in [calls : Nat, places : SUBSET EnginePlaces, digits : Nat, signal : BOOLEAN]
ASSUME AnalysesAssumption == Analyses \subseteq [beeps : Nat, frequency : Nat]
ASSUME ActionsAssumption ==
  \A test \in Options :
    LET file == ParseTest(test)
    IN  /\ file.receiver.actions \in Seq(Range(file.receiver.actions))
        /\ file.caller.actions \in Seq(Range(file.caller.actions))
        /\ \A a \in Range(file.receiver.actions) : a.digits \in Seq(Nat)

VARIABLES
  engine,    \* whether g_engine is set
  role,      \* whose actions are executed
  caller,    \* engine->caller_call
  receiver,  \* engine->receiver_call
  status,    \* engine->result.status
  found,     \* the rest of engine->result; history: the slot the digits are from
  entered,   \* the on_incoming_call that found g_engine set and will use it
  tone,      \* the on_dtmf_digit that did
  dtmf,      \* call->dtmf_buffer
  heard,     \* history: the digits PJSUA reported for the call of a slot
  arrivals,  \* history: how many calls came in
  sent,      \* history: how many digits were sent
  crashed    \* a callback dereferenced the NULL pointer

verdict == <<role, caller, status, found>>
handlers == <<engine, receiver, entered, tone, dtmf, heard, arrivals, sent, crashed>>
engineVars == <<verdict, handlers>>
testVars == <<commandVars, engineVars>>

----------------------------------------------------------------------------
Statuses == {"PENDING", "RUNNING", "PASSED", "FAILED", "ERROR"}

NoTone == [id |-> Invalid, digit |-> Invalid]

EngineTypeOK ==
  /\ TypeOK /\ UATypeOK
  /\ opts \in Options
  /\ pc \in EnginePlaces
  /\ {at, caller, receiver} \subseteq Slots \cup {NoSlot}
  /\ result \in {0, 1}
  /\ {running, stuck, connected, engine, crashed} \subseteq BOOLEAN
  /\ media \in [Slots -> SUBSET Kinds]
  /\ objects \in [Kinds -> Nat]
  /\ role \in {"receiver", "caller"}
  /\ status \in Statuses
  /\ found.connected \in BOOLEAN /\ found.beeps \in Nat
  /\ entered \subseteq Ids
  /\ tone.id \in Ids \cup {Invalid}
  /\ \A s \in Slots : dtmf[s] \in Seq(Nat) /\ Len(dtmf[s]) <= MaxDtmf
  /\ \A s \in Slots : heard[s] \in Seq(Nat)
  /\ arrivals \in Nat /\ sent \in Nat

EngineInit ==
  /\ CommandInit
  /\ engine = FALSE
  /\ role = "receiver" /\ caller = NoSlot /\ receiver = NoSlot
  /\ status = "PENDING"
  /\ found = [connected |-> FALSE, digits |-> <<>>, from |-> NoSlot, beeps |-> 0, frequency |-> 0]
  /\ entered = {} /\ tone = NoTone
  /\ dtmf = [s \in Slots |-> <<>>]
  /\ heard = [s \in Slots |-> <<>>]
  /\ arrivals = 0 /\ sent = 0
  /\ crashed = FALSE

Test == ParseTest(opts)

----------------------------------------------------------------------------
\* The callbacks.  on_incoming_call and on_dtmf_digit read g_engine twice: to
\* see whether it is set, and to use it.

Called(c) ==
  /\ arrivals < Bound(opts).calls /\ pc \in Bound(opts).places
  /\ Incoming(c)
  /\ arrivals' = arrivals + 1
  /\ UNCHANGED <<verdict, engine, receiver, entered, tone, dtmf, heard, sent, crashed>>

EnterIncoming(c) ==
  /\ cb[c].at = "arrived" /\ c \notin entered
  /\ engine
  /\ entered' = entered \cup {c}
  /\ UNCHANGED <<commandVars, verdict, engine, receiver, tone, dtmf, heard, arrivals, sent, crashed>>

IgnoreIncoming(c) ==
  /\ cb[c].at = "arrived" /\ c \notin entered
  /\ ~engine
  /\ CallbackReturns(c)
  /\ UNCHANGED <<command, call, app, uaVars, flow, files, connected, engineVars>>

Crash(c) ==
  /\ c \in entered \/ tone.id = c
  /\ ~engine
  /\ crashed' = TRUE
  /\ UNCHANGED <<commandVars, verdict, engine, receiver, entered, tone, dtmf, heard, arrivals, sent>>

\* The call's slot, and the digits in it, are wiped when a call takes it.
EmptyBuffer(s) ==
  /\ dtmf' = [dtmf EXCEPT ![s] = <<>>]
  /\ heard' = [heard EXCEPT ![s] = <<>>]

HandleIncoming(c) ==
  /\ c \in entered /\ engine
  /\ \/ /\ TrackIncoming(c)
        /\ IF SlotsWith(c) = {} THEN EmptyBuffer(cb'[c].slot)
           ELSE UNCHANGED <<dtmf, heard>>
        /\ UNCHANGED entered
     \/ /\ RejectIncoming(c)
        /\ entered' = entered \ {c}
        /\ UNCHANGED <<dtmf, heard>>
  /\ UNCHANGED <<uaVars, flow, files, connected, verdict, engine, receiver, tone, arrivals, sent, crashed>>

\* The last call that came in is the receiver's...
SetReceiver(c) ==
  /\ cb[c].at = "claimed" /\ c \in entered /\ engine
  /\ receiver' = cb[c].slot
  /\ entered' = entered \ {c}
  /\ UNCHANGED <<commandVars, verdict, engine, tone, dtmf, heard, arrivals, sent, crashed>>

\* ... and is answered if its role says auto_answer, perhaps after the table was
\* wiped.
AnswerReceiver(c) ==
  /\ cb[c].at = "claimed" /\ c \notin entered
  /\ LET a == call[cb[c].slot].id
     IN  answered' = IF Test.receiver.auto /\ Answerable(a)
                     THEN answered \cup {a} ELSE answered
  /\ cb' = [cb EXCEPT ![c] = NoCallback]
  /\ UNCHANGED <<command, call, inv, told, app, uaVars, flow, files, connected, engineVars>>

\* PJSUA's media thread reports a digit of a connected call.  No two digits are
\* alike, so that none is taken for another...
DigitReported(c) ==
  /\ WorkerRuns
  /\ tone = NoTone
  /\ inv[c] = "CONFIRMED"
  /\ engine
  /\ sent < Bound(opts).digits
  /\ sent' = sent + 1
  /\ tone' = [id |-> c, digit |-> sent']
  /\ heard' = [s \in Slots |->
                 IF s \in SlotsWith(c) THEN Append(heard[s], sent') ELSE heard[s]]
  /\ UNCHANGED <<commandVars, verdict, engine, receiver, entered, dtmf, arrivals, crashed>>

BufferedUnbounded(digits, digit) == Append(digits, digit)

\* vu_call_on_dtmf_digit.
Buffered(digits, digit) ==
  IF Len(digits) < MaxDtmf THEN Append(digits, digit) ELSE digits

StoreDigitForReceiver ==
  /\ tone # NoTone /\ engine
  /\ dtmf' = IF receiver = NoSlot THEN dtmf
             ELSE [dtmf EXCEPT ![receiver] = Buffered(@, tone.digit)]
  /\ tone' = NoTone
  /\ UNCHANGED <<commandVars, verdict, engine, receiver, entered, heard, arrivals, sent, crashed>>

\* ... and the engine looks the call up and appends the digit to its buffer.
StoreDigit ==
  /\ tone # NoTone /\ engine
  /\ \E s \in Slots \cup {NoSlot} :
       /\ IF SlotsWith(tone.id) = {} THEN s = NoSlot ELSE First(s, SlotsWith(tone.id))
       /\ dtmf' = IF s = NoSlot THEN dtmf
                  ELSE [dtmf EXCEPT ![s] = Buffered(@, tone.digit)]
  /\ tone' = NoTone
  /\ UNCHANGED <<commandVars, verdict, engine, receiver, entered, heard, arrivals, sent, crashed>>

EngineCallbacks(c) ==
  \/ EnterIncoming(c) \/ IgnoreIncoming(c) \/ Crash(c)
  \/ HandleIncoming(c) \/ SetReceiver(c) \/ AnswerReceiver(c)

\* The callback that does not look at the engine.  PJSUA ends the media of a
\* session, and with it an on_dtmf_digit, before it releases its call id.
StateCallbacks(c) ==
  /\ inv[c] = "DISCONNECTED" => tone.id # c
  /\ StateWritten(c) \/ StateIgnored(c)

----------------------------------------------------------------------------
\* The main thread, up to the connected call.

Conclude(how, place) ==
  /\ status' = how /\ result' = IF how = "PASSED" THEN 0 ELSE 1
  /\ pc' = place
  /\ UNCHANGED <<at, todo>> /\ Stay
  /\ UNCHANGED <<role, caller, found>>

Continue(place) == Goto(place) /\ UNCHANGED verdict

\* A file that does not load ends the command before the engine runs.
LoadTest ==
  /\ pc = "begin"
  /\ \/ /\ Loads(opts)
        /\ status' = "RUNNING" /\ Goto("init")
        /\ UNCHANGED <<role, caller, found>>
     \/ /\ ~Loads(opts)
        /\ Fail("done") /\ UNCHANGED verdict
  /\ UNCHANGED <<vars, uaVars, files, connected, handlers>>

StartEngine ==
  /\ pc = "init"
  /\ \/ InitUA /\ Continue("attach")
     \/ InitUAFails /\ Conclude("ERROR", "done")
  /\ UNCHANGED <<vars, files, connected, handlers>>

AttachEngine ==
  /\ pc = "attach"
  /\ Attach({"handlers", "accounts", "calls"})
  /\ engine' = TRUE
  /\ Continue("accounts")
  /\ UNCHANGED <<vars, files, connected, receiver, entered, tone, dtmf, heard, arrivals, sent, crashed>>

\* vu_config_find_account, for both roles.
Configured(id) == Found(config, id) # {}

FindAccounts ==
  /\ pc = "accounts"
  /\ IF Configured(Test.caller.account) /\ Configured(Test.receiver.account)
     THEN Continue("register") ELSE Conclude("ERROR", "cleanup")
  /\ UNCHANGED <<vars, uaVars, files, connected, handlers>>

\* The receiver is added first; a caller of the same account is refused, and
\* the empty entry the engine then registers has no URI.
AddedAccounts ==
  AddAccount(AddAccount(<<>>, config[FirstFound(config, Test.receiver.account)]),
             config[FirstFound(config, Test.caller.account)])

RegisterAccountsNoCleanup ==
  /\ pc = "register"
  /\ \/ Len(AddedAccounts) = 2 /\ Continue("dial")
     \/ Conclude("ERROR", "done")
  /\ UNCHANGED <<vars, uaVars, files, connected, handlers>>

\* Both are registered and waited for, 10 seconds each.
RegisterAccounts ==
  /\ pc = "register"
  /\ \/ Len(AddedAccounts) = 2 /\ Continue("dial")
     \/ Conclude("ERROR", "cleanup")
  /\ UNCHANGED <<vars, uaVars, files, connected, handlers>>

DialCaller ==
  /\ pc = "dial"
  /\ MakeClaim
  /\ EmptyBuffer(app'.slot)
  /\ pc' = "dialling" /\ at' = app'.slot
  /\ UNCHANGED <<todo, result>> /\ Stay
  /\ UNCHANGED <<uaVars, files, connected, verdict>>
  /\ UNCHANGED <<engine, receiver, entered, tone, arrivals, sent, crashed>>

\* Calls that came in while the accounts registered hold every slot.
NoSlotToDial ==
  /\ pc = "dial"
  /\ FreeSlots = {}
  /\ Conclude("ERROR", "cleanup")
  /\ UNCHANGED <<vars, uaVars, files, connected, handlers>>

Dialled ==
  /\ pc = "dialling"
  /\ \/ (\E c \in Ids : MakeDialled(c)) /\ Continue("dialling")
     \/ MakeFailed /\ Conclude("ERROR", "cleanup")
     \/ /\ MakeDone
        /\ Goto("connect")
        /\ caller' = at /\ UNCHANGED <<role, status, found>>
  /\ UNCHANGED <<uaVars, files, connected, handlers>>

\* What an action does to the call it is executed on; one without a file does
\* nothing, nor do the expectations, which are looked at in the end.
StepOf(action) ==
  CASE action.action = "record_audio" /\ action.file -> "recorder"
    [] action.action = "play_audio" /\ action.file -> "player"
    [] action.action = "hangup" -> "hangup"
    [] OTHER -> "nothing"

Steps(actions) == [i \in DOMAIN actions |-> StepOf(actions[i])]

CallerConnects ==
  /\ pc = "connect"
  /\ call[caller].state = "CONFIRMED"
  /\ found' = [found EXCEPT !.connected = TRUE]
  /\ pc' = "act" /\ todo' = Steps(Test.receiver.actions)
  /\ UNCHANGED <<at, result>> /\ Stay
  /\ UNCHANGED <<vars, uaVars, files, connected, role, caller, status, handlers>>

NotConnectedWithoutTimer ==
  /\ pc = "connect"
  /\ call[caller].state = "DISCONNECTED"
  /\ IF Test.expect.connected THEN Conclude("FAILED", "cleanup") ELSE Continue("evaluate")
  /\ UNCHANGED <<vars, uaVars, files, connected, handlers>>

\* The call fails, or is not connected within the caller's timeout.
NotConnected ==
  /\ pc = "connect"
  /\ call[caller].state = "DISCONNECTED" \/ Test.caller.timed
  /\ IF Test.expect.connected THEN Conclude("FAILED", "cleanup") ELSE Continue("evaluate")
  /\ UNCHANGED <<vars, uaVars, files, connected, handlers>>

----------------------------------------------------------------------------
\* execute_action, for the receiver's actions and then the caller's.  Which call
\* is the receiver's is read anew for each action; `at` holds it meanwhile.

Leg == IF role = "receiver" THEN receiver ELSE caller

\* Only the caller's loop stops for a signal.
Acting(kinds) ==
  /\ pc = "act" /\ todo # <<>> /\ Head(todo) \in kinds
  /\ at = Leg
  /\ role = "caller" => running

Turn ==
  /\ pc = "act" /\ todo # <<>>
  /\ at # Leg
  /\ at' = Leg
  /\ UNCHANGED <<pc, todo, result>> /\ Stay
  /\ UNCHANGED <<vars, uaVars, files, connected, engineVars>>

ActOnMedia ==
  /\ \/ \E kind \in Kinds : Acting({kind}) /\ at # NoSlot /\ CreateMedia(kind)
     \/ ConnectMedia \/ ConnectMediaFails \/ StoreMedia
  /\ UNCHANGED engineVars

\* Without a call, or with one that has ended, an action does nothing - or a
\* file cannot be opened.
ActInVain ==
  /\ \/ Acting({"nothing", "recorder", "player"})
     \/ Acting({"hangup"}) /\ (at # NoSlot => call[at].id = Invalid)
  /\ Proceed
  /\ UNCHANGED <<vars, uaVars, files, connected, engineVars>>

ActHangup ==
  /\ Acting({"hangup"}) /\ at # NoSlot
  /\ HangupMark(at)
  /\ Goto("hanging")
  /\ UNCHANGED <<uaVars, files, connected, engineVars>>

ActHangingUp ==
  /\ pc = "hanging"
  /\ \/ HangupAsk /\ Goto("hanging")
     \/ HangupDone /\ Proceed
  /\ UNCHANGED <<uaVars, files, connected, engineVars>>

RoleDone ==
  /\ pc = "act"
  /\ todo = <<>> \/ (role = "caller" /\ ~running)
  /\ IF role = "receiver"
     THEN role' = "caller" /\ pc' = "act" /\ todo' = Steps(Test.caller.actions)
     ELSE role' = role /\ pc' = "collect" /\ todo' = <<>>
  /\ UNCHANGED <<at, result>> /\ Stay
  /\ UNCHANGED <<vars, uaVars, files, connected, caller, status, found, handlers>>

----------------------------------------------------------------------------
\* The results, 500 ms later.

Collect ==
  /\ pc = "collect"
  /\ found' = IF receiver = NoSlot THEN found
              ELSE [found EXCEPT !.digits = dtmf[receiver], !.from = receiver]
  /\ Goto("analyze")
  /\ UNCHANGED <<vars, uaVars, files, connected, role, caller, status, handlers>>

\* The first record_audio of the receiver names the file, which may hold
\* anything: it may never have been written by this test.
Recording ==
  LET records == SelectSeq(Test.receiver.actions, LAMBDA a : a.action = "record_audio")
  IN  records # <<>> /\ Head(records).file

Analyze ==
  /\ pc = "analyze"
  /\ \E analysis \in Analyses :
       found' = IF Test.expect.beeps > 0 /\ Recording
                THEN [found EXCEPT !.beeps = analysis.beeps,
                                   !.frequency = analysis.frequency]
                ELSE found
  /\ Goto("evaluate")
  /\ UNCHANGED <<vars, uaVars, files, connected, role, caller, status, handlers>>

ExpectedDigits == {a \in Range(Test.receiver.actions) : a.action = "expect_dtmf"}

PassesWithoutDigits ==
  /\ found.connected = Test.expect.connected
  /\ Test.expect.beeps > 0 => found.beeps = Test.expect.beeps
  /\ \A a \in ExpectedDigits : Len(found.digits) >= Len(a.digits)

Passes ==
  /\ found.connected = Test.expect.connected
  /\ Test.expect.beeps > 0 => found.beeps = Test.expect.beeps
  /\ \A a \in ExpectedDigits : IsPrefix(a.digits, found.digits)

Evaluate ==
  /\ pc = "evaluate"
  /\ Conclude(IF Passes THEN "PASSED" ELSE "FAILED", "cleanup")
  /\ UNCHANGED <<vars, uaVars, files, connected, handlers>>

\* The engine is out of reach before the calls are ended; callbacks still find
\* the call table until it is detached.
Cleanup ==
  /\ pc = "cleanup"
  /\ engine' = FALSE
  /\ Continue("ending")
  /\ UNCHANGED <<vars, uaVars, files, connected>>
  /\ UNCHANGED <<receiver, entered, tone, dtmf, heard, arrivals, sent, crashed>>

EndTestCalls ==
  /\ pc = "ending"
  /\ \/ HangupAllAsk /\ Goto("ending")
     \/ HangupAllMark /\ Goto("detach")
  /\ UNCHANGED <<uaVars, files, connected, engineVars>>

DetachEngine ==
  /\ pc = "detach"
  /\ DetachManagers
  /\ Goto("late")
  /\ UNCHANGED <<vars, files, connected, engineVars>>

\* vu_call_manager_cleanup ends all calls again, now those that came meanwhile;
\* no slot is in use any more.
EndLateCalls ==
  /\ pc = "late"
  /\ told' = told \cup {c \in Ids : Live(c)}
  /\ Goto("wipe")
  /\ UNCHANGED <<command, call, inv, cb, answered, app, uaVars, files, connected, engineVars>>

\* pjsua_destroy waits for the callbacks of the media thread, too.
ShutdownEngine ==
  /\ Wipe \/ StopWorker \/ (tone = NoTone /\ entered = {} /\ Shutdown)
  /\ UNCHANGED engineVars

----------------------------------------------------------------------------
EngineMain ==
  \/ LoadTest \/ StartEngine \/ AttachEngine \/ FindAccounts \/ RegisterAccounts
  \/ DialCaller \/ NoSlotToDial \/ Dialled \/ CallerConnects \/ NotConnected
  \/ Turn \/ ActOnMedia \/ ActInVain \/ ActHangup \/ ActHangingUp \/ RoleDone
  \/ Collect \/ Analyze \/ Evaluate
  \/ Cleanup \/ EndTestCalls \/ DetachEngine \/ EndLateCalls \/ ShutdownEngine

EngineStep ==
  \/ EngineMain
  \/ \E c \in Ids :
       \/ EngineCallbacks(c)
       \/ Called(c)
       \/ (StateReported(c) \/ StateCallbacks(c)) /\ UNCHANGED engineVars
       \/ DigitReported(c)
  \/ StoreDigit
  \/ Bound(opts).signal /\ Interrupt /\ UNCHANGED engineVars

\* A crash ends the process.  A main thread that is stuck holds the lock of the
\* log, and every callback logs.
Alive == ~crashed /\ ~stuck

EngineNext == Alive /\ EngineStep

EngineSpec == EngineInit /\ [][EngineNext]_testVars

\* As for the other commands.
FairEngineSpec ==
  /\ EngineSpec
  /\ SF_testVars(Alive /\ EngineMain)
  /\ \A c \in Ids :
       /\ WF_testVars(Alive /\ EngineCallbacks(c))
       /\ WF_testVars(Alive /\ StateCallbacks(c) /\ UNCHANGED engineVars)
  /\ WF_testVars(Alive /\ StoreDigit)

----------------------------------------------------------------------------
\* A test that passed was connected when it was to be, and every pattern of the
\* receiver begins what was sent to the call its digits were taken from: they
\* come through the callback, the table, the buffer and its limit in order, and
\* no error on the way, early or late, is taken for a pass.  In a slot that the
\* caller's call took from an incoming one (see SlotIsKept) digits of the two
\* mix, but none of another call comes in (test_engine.c:336-446).
PassedIsEarned ==
  status = "PASSED" =>
    /\ engine => pc = "cleanup"
    /\ IF Test.expect.connected THEN connected ELSE ~found.connected
    /\ Test.expect.beeps > 0 => found.beeps = Test.expect.beeps
    /\ \A a \in ExpectedDigits : a.digits # <<>> =>
         /\ found.from # NoSlot
         /\ IF found.from = caller THEN Range(a.digits) \subseteq Range(heard[caller])
            ELSE IsPrefix(a.digits, heard[found.from])

\* The buffer of a call holds the digits sent to that call and to no other, in
\* order, as many as fit, but for one its callback is about to store - as long
\* as the call is in the table and did not lose its slot to the caller's
\* (test_engine.c:79, call.c:398).
BufferIsOwn ==
  engine => \A s \in Slots \ {IF caller = NoSlot THEN at ELSE caller} :
    /\ IsPrefix(dtmf[s], heard[s])
    /\ call[s].id # Invalid /\ tone = NoTone =>
         Len(dtmf[s]) = IF Len(heard[s]) < MaxDtmf THEN Len(heard[s]) ELSE MaxDtmf

\* A role that plays a second file loses the player of the first (media.c:118,
\* 155), and so do two roles of one slot.  Nothing else is lost, and nothing is
\* destroyed twice: as many recorders exist as slots name, with the one just
\* being made, never fewer players - and exactly as many in a test that plays
\* once (call.c:319-321).
OnePlay ==
  LET steps == Steps(Test.receiver.actions) \o Steps(Test.caller.actions)
  IN  \A i, j \in DOMAIN steps : steps[i] = "player" /\ steps[j] = "player" => i = j

TestMediaIsOwned ==
  pc \notin {"shutdown", "destroy", "done"} =>
    \A kind \in Kinds :
      LET owned == Cardinality({s \in Slots : kind \in media[s]}) + Making(kind)
      IN  /\ objects[kind] >= owned
          /\ kind = "recorder" \/ OnePlay => objects[kind] = owned

\* Whatever way a test ends, nothing of it is left and no callback can reach
\* the engine, which cmd_test.c frees next; the exit status is 0 exactly if the
\* test passed (test_engine.c:448, 473).
NothingOutlivesTest ==
  NothingOutlivesCommand /\
  (pc = "done" =>
     ~engine /\ entered = {} /\ tone = NoTone /\ (result = 0 <=> status = "PASSED"))

\* A test whose caller has a timeout comes to an end, whatever the remote party
\* and the signals do - unless a signal hits a log call of the main thread
\* (stuck), or a callback that had found g_engine set uses it after it was
\* cleared (crashed): in these two cases nothing is claimed.
TestEnds == opts.caller.timed ~> pc = "done" \/ stuck \/ crashed

\* "The `expect` section defines pass/fail criteria" (README.md:359): a test
\* that passed met every one of them.
PassedMeetsExpect ==
  status = "PASSED" =>
    /\ found.connected = opts.expect.connected
    /\ opts.expect.beeps > 0 =>
         /\ found.beeps = opts.expect.beeps
         /\ opts.expect.frequency > 0 => found.frequency = opts.expect.frequency
    /\ IsPrefix(opts.expect.digits, found.digits)
=============================================================================
