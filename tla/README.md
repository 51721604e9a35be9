# A TLA+ model of voip-utility

voip-utility is a command-line SIP test tool in C on top of PJSIP's PJSUA
library. One process runs one command (`call`, `receive`, `register`, `test`,
`analyze`) on its **main thread**; PJSUA runs a **worker thread** that delivers
its callbacks. The two share the program's tables and globals without any lock
of the program's own. This directory holds TLA+ models of that program, the
TLC runs that check them and the proofs TLAPS checks.

## The system

| part | source | state | operations |
|---|---|---|---|
| call manager | `src/src/core/call.c` | 4 slots: call id, state, media, DTMF digits, times | make, answer, hangup, hangup_all, find, wait_*, on_incoming, on_state_change, on_dtmf_digit |
| user agent | `src/src/core/sip_ua.c` | `g_ua`: attached managers, callbacks, transports | init, shutdown, set_*_manager, codec filter, the PJSUA callbacks |
| account manager | `src/src/core/account.c` | accounts: PJSUA id, registration state, last status | add, register, unregister, wait_registration, on_reg_state |
| media | `src/src/core/media.c` | per call: recorder id, player id | start/stop recording, play, stop playback |
| DTMF | `src/src/core/dtmf.c`, `call.c` | digit buffer of a call (64) | send, receive, clear, match |
| commands | `src/src/cli/cmd_*.c`, `main.c` | command flow, timers, the interrupt flag | connect, wait, act, hang up, tear down |
| test engine | `src/src/test/test_engine.c` | caller, receiver, digits, beeps, verdict | run actions, compare expectations, verdict |
| test parser | `src/src/test/test_parser.c` | none | JSON to a test definition |
| beep detector, analyzer | `src/src/audio/` | tone and gap runs over frames | find beeps, frequencies, verdict |
| configuration | `src/src/config/config.c` | accounts, options | load, defaults, lookup |
| utilities | `src/src/util/` | timer, last error, log | - |

How they interact: a command initialises the user agent, adds and registers an
account, attaches the managers to `g_ua`, then makes or awaits a call. PJSUA
calls `on_reg_state`, `on_incoming_call`, `on_call_state`, `on_call_media_state`
and `on_dtmf_digit` in `sip_ua.c`, which look the account or the slot up and
update it, and pass the event on to a handler of the command. The main thread
learns of all this only by polling the fields the callbacks write
(`vu_call_wait_state`, `vu_account_wait_registration`, the loops of the
commands), and ends by detaching the managers, wiping them and shutting PJSUA
down.

What is hard in it, part by part, and what makes each part correct:

* **Call manager.** Callbacks find a slot by call id and then write it, while
  `vu_call_hangup`, `vu_call_make` and `vu_call_hangup_all` change the same
  slot. Correct: ids name live sessions, no session the command dialled or took
  is lost, a slot follows its session and is never ahead of it, an ended call
  stays ended, hangup returns.
* **Account manager.** `vu_account_register` writes its own state after PJSUA
  may have reported the outcome; late answers arrive after unregistering.
  Correct: a registered account is reported so, an unregistered one stays so.
* **Media.** Recorders and players are tied to a call that the other thread may
  end. Correct: each is created, connected and destroyed once (which a second
  file played on one call breaks).
* **User agent and teardown.** Managers are detached while callbacks may be in
  flight. Correct: no callback touches a manager after it was wiped.
* **Commands.** Timers race answers and Ctrl+C. Correct: every command ends, and
  its exit status says what happened.
* **Test engine.** Verdict against documented verdict
  (`src/docs/AUTOMATED_TESTING.md`).
* **Analyzer and beep detector.** Samples are counted by the file's format and
  read as 16-bit words. Limits and edges of tones against a reference
  definition.

`PROJECT.json` lists the parts with their status and every hazard at its line.

## Modules

| module | what it is |
|---|---|
| `CallManager` | the call table, the callbacks that write it, and the PJSUA they run under; its properties and fairness |
| `CallLifecycle` | abstract specification: what a slot promises to the code that waits on it |
| `Configuration` | operators: from the configuration file to the accounts of the account manager |
| `Registration` | the account manager, `on_reg_state` and the `register` command; extends `Configuration` |
| `UserAgent` | the life of `g_ua` and of PJSUA, attaching and detaching, the codec filter |
| `CallCommands` | the `call` and `receive` commands, on top of `CallManager`, `UserAgent`, the lookups of `Configuration`, and media |
| `TestDefinition` | operators: from a test file to the test the engine runs |
| `TestEngine` | the `test` command, on top of `CallCommands` and `TestDefinition` |
| `AudioAnalyzer` | operators: which frames of a file are analysed |
| `BeepDetector` | the detector and the `analyze` command; extends `AudioAnalyzer` |
| `MCCallManager`, `MCRegistration`, `MCCallCommands`, `MCTestEngine`, `MCBeepDetector` | instances for TLC |
| `CallManagerProofs` | types and ids, for every command |
| `CallTableProofs` | callbacks in flight, progress and finality, for commands that do not both dial and receive |
| `CallLifecycleProofs` | no session lost, receivers stay in step, refinement of `CallLifecycle` |
| `BeepDetectorProofs` | types and both directions of the detector's correctness, frames within the data |
| `RegistrationProofs` | types, status, finality, nothing left behind, and the exit status of `register -a` |
| `CallCommandsProofs` | types, nothing outlives a command, recorders and players are owned, codecs, and what success means |
| `TestEngineProofs` | types, nothing outlives a test, buffers hold their own call's digits, passes are earned, recorders and players are owned |

In every module `pc` is the place of the main thread in the command's function,
and the actions of PJSUA's threads interleave with it. An early return or `goto
cleanup` of the code is a disjunct of its own with a place to go to. A
call of a library that may fail is a choice of its outcomes.

### How CallManager corresponds to the code

* `call[s]` is `mgr->calls[s]`, of which `pjsua_id` and `state` are kept. The
  URIs, times and status text are data no property tells apart. `call_count` is
  written and never read, so it is left out.
* `inv`, `cb`, `answered` and `told` are PJSUA, which is external: the INVITE
  session state behind each call id, the callback that runs for it, and what the
  program asked of it. A call id is released after the session's DISCONNECTED
  callback returned, and can then be used again. While a callback of a session
  runs PJSUA holds its dialog lock, so a `pjsua_call_hangup` of the session
  waits; callbacks of different sessions may overlap, which allows more than one
  worker thread and the main thread running a nested callback.
* A callback is two steps: the lookup (`OnCallState`, `TrackIncoming`) and the
  write (`ApplyState`, `AnswerIncoming`), because the main thread can change the
  slot between them. `cb[c].slot` is the pointer the callback holds.
* `vu_call_make` is `MakeClaim` (find and wipe the slot), `MakeDialled` or
  `MakeFailed` (PJSUA sends the INVITE, stores the id) and `MakeDone` (the write
  of CALLING after the return). PJSUA's CALLING callback runs inside the call,
  before the id is stored, and finds no slot: it is part of `MakeDialled`.
* `vu_call_hangup` is `HangupMark`, `HangupAsk`, `HangupDone`;
  `vu_call_hangup_all` is `HangupAllAsk`, `HangupAllMark`, after which the table
  is closed.
* `find_free_slot` together with the wipe or the claim that follows is one step;
  so are the capture of the id and the mark in `vu_call_hangup`. The moment in
  which `memset` leaves call id 0 in a slot is not modelled.
* `command` fixes which operations a process performs. `call` has no handler for
  incoming calls, yet PJSUA accepts them: `LeaveRinging`.
* The early returns for bad arguments or an agent that is not running change
  nothing and are stutters. The waiting functions only read; what they do with
  what they read is in `CallCommands` and `TestEngine`.

### Configuration and Registration

* An entry of the configuration keeps its id, whether username and server are
  there, its transport and whether it is enabled. `Load` is `vu_config_load`
  with the search of the default locations, `Starts` what `main` makes of its
  result.
* `Begin` is the command up to the loop of `vu_account_manager_init`, `AddNext`
  a turn of it (`AddAccount` is `vu_account_add`), and `Attach` what follows up
  to the first registration, the lookup of the account of `-a` included.
* `acc[s]` is the id and the state of `acc_mgr.accounts[s]`; `reg[c]` what PJSUA
  last heard for account id `c` and `cb` the callback that runs, with the slot
  it looked up. PJSUA's lock is held while a callback runs (`Locked`);
  `pjsua_acc_add` and `pjsua_acc_del` take it.
* `vu_account_register` is `RegisterAdd` (the id is stored, the REGISTER sent)
  and `RegisterMark` (REGISTERING is written), between which an answer can be
  reported and then be overwritten. `vu_account_unregister` is `UnregisterMark`,
  `UnregisterDelete`, `UnregisterDone`. The retry of a TCP account over UDP is
  part of `RegisterAdd`.
* `WaitTimesOut` may fire at any poll of a wait that has a timeout; time itself
  is not modelled. A timeout of 0 never expires, as in `vu_timer_expired`.
* `accepted` is history: accounts whose 2xx was passed on to the manager.
  `overwritten` is history, too: the slots whose outcome `RegisterMark` wrote
  REGISTERING over. `StatusIsOwn` says in both directions that a slot tells what
  its account was told; for these slots it grants the loss, and for no others.
* `Interrupt` is the signal handler. It logs, and if the signal hit the main
  thread inside the log, the thread is `stuck`. (What is left out: that a worker
  then stops as well, at its next log line.)

### UserAgent, CallCommands

* `ua`, `links` and `lib` are `g_ua` (state, attached managers, handlers, pool)
  and whether PJSUA exists; `codec` the priorities PJSUA holds.
* `vu_ua_set_codec_filter` is `DisableCodecs` and then one step for each codec
  of the list: `Enable` or, if PJSUA does not have it, `SkipCodec`. `filter` is
  its local state: codecs tried, the next priority, codecs enabled. The list it
  works on is `Copied(list)`: what fits in a buffer of `BufferSize` characters
  (255), each name `Width` long with a comma behind it. A name behind the end is
  gone, of the one across it `Cut` says which codec the rest stands for. PJSUA
  takes a name for every codec whose id begins with it; here a name stands for
  one codec.
* The callbacks of `CallManager` are conjoined with what makes them reach the
  program: `WorkerRuns` (PJSUA exists and was not stopped) and `Attached`. The
  handler of an incoming call does nothing until the manager is attached
  (`IncomingUnhandled`).
* `on_incoming_call` tests the options and answers after a delay
  (`IncomingAnswered`): the answer may come when the command has cleared them
  and wiped the table, and then goes to call id 0. That the options are read
  once more for the length of the delay (`cmd_receive.c:41`, a NULL pointer if
  they were cleared just then) is left out.
* `media[s]` is which of recorder and player slot `s` holds, `objects` how many
  of each PJSUA has. Creating, connecting to the call and storing are three
  steps (`CreateMedia`, `ConnectMedia`, `StoreMedia`), because the worker may
  end the call in between; each failure destroys the object again.
* `todo` is what the options ask for on the connected call. Sending DTMF
  changes no state of the program and is `SkipMedia`.
* `Interrupt` clears `g_running` and may leave the main thread `stuck`: the
  handler logs, and the log's mutex is not recursive. (That a worker then stops
  as well, at its next log line, is left out: the properties promise nothing of
  a stuck command.)
* `Wipe` leaves call id 0 (`ZeroId`) in every slot, as `memset` does.
* Registering the command's account is one step with two outcomes; its details
  are those of `Registration`.

### TestDefinition, TestEngine

* `ParseTest` is what `test_parser.c` makes of a document: defaults, actions
  that are dropped, those beyond the limit, and the fields it never looks for.
* `engine` is whether `g_engine` is set. A handler reads it twice
  (`EnterIncoming` and `HandleIncoming`/`SetReceiver`; `DigitReported` and
  `StoreDigit`), and `Crash` is the second read after the main thread cleared
  it. `receiver` is `engine->receiver_call`, replaced by every incoming call
  (`SetReceiver`); the answer that follows (`AnswerReceiver`) may come late,
  when the table is wiped. Two more reads of `g_engine` in between
  (`test_engine.c:69, 72`) are taken together with the one before.
* `EndTestCalls` is the first `vu_call_hangup_all`, `EndLateCalls` the second,
  in `vu_call_manager_cleanup` after the manager was detached.
* `Turn` reads which call the next action works on. The main thread executes the
  receiver's actions and then the caller's; only the caller's loop looks at the
  signal. `wait`, `send_dtmf` and the expectations change nothing then.
* `dtmf[s]` is the digit buffer of a slot. `heard` is history: the digits that
  were reported for the call of that slot.
* `found` is what `run_test` collects for the verdict. `found.from` is history:
  the slot the digits were taken from. The caller's slot may be shared with an
  incoming call (`calls_same_slot`), and its buffer then holds digits of both;
  `PassedIsEarned` promises less of that slot than of the others.
* `Collect`, `Analyze` and the verdict are the code after the 500 ms pause. What
  a recording holds is any member of `Analyses`.

### AudioAnalyzer, BeepDetector

* A file is what the parser decides on: the header, the chunks' names in order,
  bits per sample, channels, the bytes the data chunk declares and the bytes
  that are there. `NumSamples` counts by the format, `Words` is what `fread`
  gets: 16-bit words whatever the format, and a hop is counted in them, too.
  `Analyzed` is the set of frames the loop gets to; what the transform finds in
  a frame is any frequency and level (`Frame`).
* 1 to 7 bits, or no channels, divide by zero (`Divides`): `AnalyzeUndefined`
  ends in a trap, or with 0 samples and so without a frame. Sizes from 2^31 on
  are left out (`MaxSize`).
* `gap_duration_sec`, "minimum silence between beeps" in
  `docs/AUTOMATED_TESTING.md:492`, is read by no line of the detector: every run
  of tone is a beep of its own, however short the silence before it, and that is
  what `RunsAreBeeps` states and proves of the code.
* Time is counted in frames, which is what `vu_beep_detector_process` gets. The
  division by the sample rate is left out, so a limit is exact.
* `summed` is the set of frames in the running sums, and stands for the averages
  an event reports. `capacity` is the room allocated; `Room` has both outcomes
  of `realloc`.

## Runs

| run | instance | shows |
|---|---|---|
| `calls` | all commands, 2 slots, 3 ids | types, `IdsAreLive`, `NoOrphan`, `NeverAhead`, `ReceiverFollows`, `EndedStaysEnded` |
| `calls_live` | `receive`, 2 slots, 2 ids, fairness | `HangupReturns`, `EndIsSeen`, refinement of `CallLifecycle` |
| `calls_capacity` | `receive`, 2 slots, 2 ids | **violated:** slots of ended calls are never free again |
| `calls_lost_update` | `call`, 2 slots, 2 ids | **violated:** CALLING overwrites a state a callback wrote |
| `calls_same_slot` | `test`, 2 slots, 2 ids | **violated:** an incoming call and `vu_call_make` take the same slot |
| `register` | 2 accounts, 4 configurations, every option, signals | a slot says what its own account was last told, but for the outcome that is written over (`StatusIsOwn`), nothing outlives the manager, `register -a` succeeds only for an accepted account, unregistering is final, and a timed command ends |
| `register_status` | the same | **violated:** `register` of all accounts exits with 0 although some were refused or never answered |
| `commands` | `call` and `receive`, 2 slots, 2 ids, 8 sets of options | nothing outlives a command, recorders and players are neither lost nor destroyed twice, codecs as the copied list says, success means connected, a timed command ends |
| `commands_early` | `receive --auto-answer` | **violated:** a call that comes in during registration rings on |
| `beeps` | 21 files, up to 7 frames | the detector reports exactly the runs of the reference; frames are data, with the exceptions `FramesAreData` names |
| `test_engine` | 10 tests, 3 slots, 2 ids | a pass is earned, digits go to their own call, no media are lost but a replaced player, nothing outlives a test, a timed test ends |
| `test_verdict` | a test that expects 1000 Hz | **violated:** passes with a beep of 440 Hz |

Bounds.

* Calls: the code has 4 slots, and PJSUA by default 4 calls. A slot interferes
  with another only through the lookups, which stop at the first match, and a
  callback with another only through a slot, so two slots (a first and a later
  one) and three ids (two that collide and one that fills the table or is
  reused) show every interference between an operation and a callback; ids are
  reused without bound, so a long sequence of calls is covered too. The full
  table is reached, `RejectIncoming` fires. Ids are interchangeable, so `calls`
  uses symmetry; runs with liveness do not.
* `commands`: two slots and two ids, one of which is id 0, which a wiped table
  names. The buffer for the codecs takes 23 characters instead of 255: the
  longest list is cut in a name whose rest stands for another codec, and has one
  name behind the end; the others fit.
* `test_engine`: two ids hold the two legs of a test, the third slot a call that
  replaces the receiver's.
* `register`: two accounts, the limit, with an entry beyond it, one that does
  not parse and one of a used id among the configurations. Answers are
  unbounded.
  `Bound(test)` limits for each test how many calls come in and where the main
  thread is then, the digits, and signals. `Recorded` is timed and `HungUp` is
  not, both with signals; in `HeardOfTwo` a second call replaces the receiver's
  while its actions run and a digit is sent; `PlayedTwice` loses a player;
  `Crowded` fills the table with four calls before the caller dials. A buffer of
  one digit is full after the first. Each kind of action occurs, one that does
  not parse, and one beyond `MaxActions` = 2.
* `beeps`: files of 8, 16 and 24 bits, one, two and no channels, cut, short and
  followed by other chunks. Limits of one and two frames and up to seven frames
  hold a tone that is too long, one of each allowed length, and several of them
  with single gaps; the room starts with one beep, so that it is doubled twice.
  Levels and frequencies lie on both sides of their limits. The proofs have no
  bound.

Deadlock is not checked: a command ends and its process stops, or (in
`CallManager`) it closes its table.

The violated runs are disagreements between the code and its own comments or
README, listed under "findings". `calls_lost_update` and `calls_same_slot` need
the worker to act within a few statements of the main thread; the others need
only the order of events they are named for.

Fairness.

* A thread that has begun an operation of the call table goes on with it (WF of
  the continuing steps and of callbacks), and a thread that waits for a dialog
  lock gets it although callbacks keep taking it (SF of `HangupAsk`).
* In the commands the main thread is scheduled (SF of `Main`, strong because it
  waits for PJSUA's locks, which callbacks keep taking) and a callback that
  began returns (WF). A loop with a timer leaves in the end: its exit is part of
  `Main`. The polls on the way are not owed more than to be scheduled (WF of
  `Poll`).
* Nothing is assumed of registrars, of the remote party or of signals: they may
  stay silent for ever.
* Two states are exempted by name, because the code does not get out of them:
  `stuck` (a signal found the main thread inside the log, `main.c:23`), in
  `RegisterReturns`, `CommandEnds` and `TestEnds`, and `crashed` (a callback
  read `g_engine` just before it was cleared), in `TestEnds`.

## Proofs

Each theorem holds for every value of the constants that meets the assumptions
named here, which TLC evaluates on the instances:

* calls: every number of slots, every set of call ids, every set of commands;
  `MaxCalls` is positive, `Invalid` is no call id, `Commands` are known
  commands;
* commands: besides, every set of options, codecs and configurations;
  `ZeroIdAssumption` (0 is a call id), `CodecListsAssumption` (a list is a list
  of names, and so is what the buffer keeps of it), `PriorityAssumption` (the
  normal priority is positive and at most the highest) and
  `MaxAccountsAssumption` (it is positive);
* tests: besides, every test file and every bound on calls and digits;
  `MaxDtmfAssumption` (a buffer holds a digit), `MaxActionsAssumption`,
  `BoundsAssumption` (bounds are numbers), `AnalysesAssumption` and
  `ActionsAssumption` (beeps and frequencies are numbers, a role has a list of
  actions, and digits to expect are a sequence of digits);
* beeps: every signal, limit and frame size; `FilesAssumption` (sizes, bits and
  channels are numbers, sizes below 2^31), `FrameSizeAssumption`,
  `NumbersAssumption`, `FirstCapacityAssumption`;
* registration: every configuration file, set of options and number of accounts;
  `MaxAccountsAssumption`, `OptionsAssumption` (an option is given or not).

| theorem | says |
|---|---|
| `TypesHold` | `Spec => []TypeOK` |
| `IdsStayLive` | `Spec => []IdsAreLive` |
| `SlotsNeverAhead` | `Spec => []NeverAhead` |
| `EndIsFinal` | `Spec => EndedStaysEnded` |
| `NoSessionIsLost` | `Spec => []NoOrphan` |
| `ReceiverStaysInStep` | `Spec => []ReceiverFollows` |
| `TableImplementsLifecycle` | with `Commands = {"receive"}`, `Spec => ImplementsLifecycle` |
| `DetectorTypes` | `DetectorSpec => []DetectorTypeOK` |
| `ReportedBeepsAreRuns` | `DetectorSpec => []BeepsAreRuns` |
| `RunsAreReported` | `DetectorSpec => []RunsAreBeeps` |
| `FramesStayInData` | `DetectorSpec => []FramesAreData` |
| `RegistrationTypes` | `Spec => []TypeOK`, of `Registration` |
| `StatusStaysOwn` | `Spec => []StatusIsOwn` |
| `UnregisteringIsFinal` | `Spec => UnregisteredIsFinal` |
| `NothingIsLeft` | `Spec => []NothingOutlivesManager` |
| `SuccessIsTrue` | `Spec => []SuccessIsAccepted` |
| `CommandTypesHold` | `CommandSpec => []CommandTypeOK` |
| `CommandLeavesNothing` | `CommandSpec => []NothingOutlivesCommand` |
| `ObjectsAreOwned` | `CommandSpec => []MediaIsOwned` |
| `CodecsFollowTheList` | `CommandSpec => []CodecsAsListed` |
| `SuccessMeansConnected` | `CommandSpec => []SuccessIsConnected` |
| `EngineTypesHold` | `EngineSpec => []EngineTypeOK` |
| `TestLeavesNothing` | `EngineSpec => []NothingOutlivesTest` |
| `BuffersAreOwn` | `EngineSpec => []BufferIsOwn` |
| `PassesAreEarned` | `EngineSpec => []PassedIsEarned` |
| `TestMediaAreOwned` | `EngineSpec => []TestMediaIsOwned` |

Calls. `IdsAreLive` is not inductive: PJSUA releases an id when the last
callback of its session returns, so the proof must know that this callback holds
the only slot with the id (`EndingInCallback`), and that a session whose
`on_incoming_call` just began is in no slot (`ArrivedUntracked`); together they
are `IdsInv`. For tables that are not shared by dialling and receiving, a
callback in flight owns the slot it found (`WriterOwnsSlot`): it still carries
the callback's session or was hung up, no other callback found it and it is not
free. `HangupExcludesWriter` says that once PJSUA granted `pjsua_call_hangup`
the session's lock no callback for the slot is left, so that
`NoWriterOfEnded` and with it `EndedStaysEnded` follow; this is where the order
in `vu_call_hangup` (id first, then PJSUA, then the state) matters. `InStep` and
`WriterIsAhead` add what the refinement needs: a callback never writes less than
its slot already shows. `command` is constant in every run (`CommandStays`), so
the conditions on it are conditions on the process.

Beeps. What is reported says nothing about what is reported next, so `RunSoFar`
is added: while a tone sounds, the frames since `start` are tone, they are the
ones summed up and the one before is not tone; otherwise the last frame was not
tone. From it a run that ends at the current frame is the one that sounds
(`RunEndingHere`), so nothing is missing when the detector reports or rejects
that one; and what it appends lies behind all it reported before
(`RunThatStops`). `FramesFit` and `FramesEnd` are arithmetic about the number of
frames, where the division of C matters.

Registration. The four safety properties rest on one invariant, `RegInv`: the
ids that the slots record are exactly those PJSUA knows, one each (`IdsKnown`,
`IdsLive`, `IdsDistinct`), except for the moment between `pjsua_acc_del` and the
write of the slot, and a callback that found a slot still carries that slot's id
(`CallbackOwns`). The last needs PJSUA's lock: no account is deleted under a
callback. So a slot that was unregistered is out of reach of every answer, and
once all are, PJSUA has no account left to report on; that the loop of
`vu_account_unregister_all` covers every slot is `EndedSlots`. `StatusIsOwn` is
inductive with `RegInv`: every answer comes with a callback, and until that has
written its slot `StatusIsOwn` leaves the slot out. For `SuccessIsAccepted`
three more facts are carried along (`SeekInv`): a slot says REGISTERED, or a
callback is about to make it say so, only for an accepted account; the main
thread works on the slot of the account that was asked for; and it leaves with 0
only past such a slot.

Commands (`CommandInv`). The lemmas are about single actions of the main thread
and of PJSUA's, because the `test` command is made of the same actions.

* Of the call table only `TableInv` is kept to the end: once the manager is
  detached sessions end without the table being told, so its ids are no longer
  live.
* `LifeInv` ties PJSUA to the place of the main thread: it exists exactly
  between `vu_ua_init` and the end, and without it there is no session, callback
  or object. `NothingOutlivesCommand` follows.
* `MediaIsOwned` counts: `Spare(kind)` is how many objects PJSUA has beyond
  those the slots name and the one being made, and no step before the teardown
  changes it. A step that stores a player in a slot that has one would, and
  `vu_media_play_file` does not look; `TodoInv` shows why this does not happen
  here: `todo` asks for one player at most, and while it does no slot has one.
* `SuccessIsConnected` needs `ConfirmedSeen`: wherever CONFIRMED stands, in
  PJSUA or in a slot, a session was connected, and the main thread gets to act
  on a call only past such a slot.
* `CodecsAsListed` needs `FilterInv`, which describes the loop half way: each
  codec enabled so far lies above the next priority, and of two the one listed
  first lies higher, unless the list is longer than there are priorities. Of a
  codec listed twice the last place counts (`LastTried`). `CodecInv` says that
  the loop is through before there is an account.

Tests (`EngineInv`).

* `ReachInv`: `g_engine` is set exactly while the main thread is in `Engaged`
  places, no callback is inside the engine's handlers at the ends of the
  command, and the exit status is the verdict.
* While the engine can be reached the ids in the table are live (`EngineIds`,
  from `IdsInv` of the calls).
* `TakenInv`: the digit on its way belongs to a session that has not been
  released, and a slot once taken never becomes free again. The first is PJSUA's
  dialog lock, the second the code's failure to free slots (`calls_capacity`).
  Together they are why the pointers the engine keeps (`receiver`, `found.from`)
  cannot come to mean another call.
* `BufferInv` strengthens `BufferIsOwn` by the digit that was reported and not
  stored yet. `Shared`, the slot the caller takes, is exempted: an incoming call
  may have it as well.
* `VerdictInv`: what was collected reflects what was sent to the slot it was
  collected from, and stays so although the buffers go on growing.

* `PlayInv`: `StepsInv` follows the lists of actions of the two roles. While a
  test plays once and a player exists or is being made, none of the steps left
  is another one; and `NothingSpare` counts as `Spare` does for the commands. A
  recorder is never made for a slot that has one, since
  `vu_media_start_recording` looks.

`PassedIsEarned` was first stated as if all collected digits were of one call.
The proof failed on a shared slot, where digits of the caller's call and of an
incoming call mix; TLC shows it once a test expects the second of two digits
(`Heard` in `MCTestEngine`). It now asks for an unbroken beginning of what was
sent only where the digits came from another slot than the caller's.

Only model-checked:

* liveness (`HangupReturns`, `EndIsSeen`, `RegisterReturns`, `CommandEnds`,
  `TestEnds`), which is beyond the prover;
* the disagreements, which are counterexamples.

## Plan

1. The receiving command as a refinement of a two-place abstract command
   (waiting, connected) on top of `CallLifecycle`.
2. The identity of a session whose id is used again while a hangup or a late
   answer holds it.
3. `MediaIsOwned` for tests, the lost player included, and the silence between
   beeps against `docs/AUTOMATED_TESTING.md:492`, as counterexamples of runs of
   their own.

## Not modelled, and why

* Nothing calls `vu_config_save`, `vu_account_remove`, `vu_call_wait_incoming`,
  `vu_call_wait_dtmf`, `vu_call_clear_dtmf`, `vu_call_on_media_state`,
  `vu_media_connect_analysis`, `vu_beep_detector_reset` and the detector's
  callback; no step of the program runs them.
* `on_call_media_state` connects PJSUA's own conference ports and changes no
  state of the program. The `on_dtmf_digit` of `call` and `receive` fills a
  buffer no one reads there; the same code is modelled for `test`.
* Numerics of the analyzer (FFT, energies): floating point, beyond TLC. What a
  recording holds depends on them and on earlier runs, and is any value.
* Logging, JSON output, error text, option parsing, copied settings: pure output
  or input. Of logging only the lock matters (`stuck`).
* `audio/recorder.c`, `player.c`, `audio_port.c`: not part of the build.
  `action_executor.c`, `condition_eval.c`, `event_system.c`,
  `cmd_interactive.c`: placeholders without code.
* PJSIP itself, except for what the modules assume of it, marked external.
