---------------------------- MODULE CallCommands ----------------------------
(***************************************************************************)
(* The `call` and `receive` commands (src/src/cli/cmd_call.c and            *)
(* cmd_receive.c) from their first line to their exit status, on top of the *)
(* call table of CallManager, the user agent of UserAgent, the accounts of  *)
(* Configuration and the recorder and player of src/src/core/media.c.       *)
(*                                                                          *)
(* The main thread goes through the command and polls the call table; the   *)
(* PJSUA worker runs the callbacks of CallManager as long as PJSUA lives.   *)
(* Registration itself is modelled in Registration; here it succeeds or not.*)
(***************************************************************************)
EXTENDS CallManager, UserAgent, Configuration

CONSTANTS
  ConfiguredAccounts,  \* the sequences of accounts that may be configured
  Options,             \* the options of the command line
  ZeroId               \* the call id 0

ASSUME ZeroIdAssumption == ZeroId \in Ids
\* The options name codecs, and so does what the buffer leaves of them.
ASSUME CodecListsAssumption ==
  \A o \in Options : o.codecs \in Seq(STRING) /\ Copied(o.codecs) \in Seq(STRING)

VARIABLES
  opts,       \* the options of this run
  config,     \* the configured accounts
  pc, at,     \* the main thread: its place, and the slot it works on
  todo,       \* what is left to do on the connected call, in order
  result,     \* the exit status so far
  running,    \* g_running, cleared by SIGINT and SIGTERM
  stuck,      \* the signal handler waits for a lock its own thread holds
  media,      \* call->recorder and call->player: which of them a slot has
  objects,    \* PJSUA: how many recorders and players exist
  connected   \* history: a session of this process was CONFIRMED

flow == <<opts, config, pc, at, todo, result, running, stuck>>
files == <<media, objects>>
commandVars == <<vars, uaVars, flow, files, connected>>

----------------------------------------------------------------------------
Kinds == {"recorder", "player"}

NoObjects == [kind \in Kinds |-> 0]

Places == {"begin", "init", "filter", "enable", "attach", "register", "manager", "dial",
           "dialling", "connect", "await", "check", "act", "connecting",
           "storing", "talk", "hangup", "hanging", "detach", "ending",
           "wipe", "shutdown", "destroy", "done"}

CommandTypeOK ==
  /\ TypeOK /\ UATypeOK
  /\ opts \in Options
  /\ pc \in Places
  /\ at \in Slots \cup {NoSlot}
  /\ result \in {0, 1}
  /\ running \in BOOLEAN /\ stuck \in BOOLEAN /\ connected \in BOOLEAN
  /\ media \in [Slots -> SUBSET Kinds]
  /\ objects \in [Kinds -> Nat]

CommandInit ==
  /\ Init
  /\ UAInit
  /\ opts \in {o \in Options : o.command = command}
  /\ config \in ConfiguredAccounts
  /\ pc = "begin" /\ at = NoSlot /\ todo = <<>>
  /\ result = 0
  /\ running = TRUE /\ stuck = FALSE
  /\ media = [s \in Slots |-> {}]
  /\ objects = NoObjects
  /\ connected = FALSE

----------------------------------------------------------------------------
\* The callbacks.  Whether one finds the call table depends on whether the
\* command has attached it: g_ua.call_mgr and the command's g_call_mgr.

Attached == "calls" \in links
Handling == command = "receive" /\ "handlers" \in links /\ Attached

\* pjsua_destroy stops the worker before it ends what is left.
WorkerRuns == lib /\ ua.state # "SHUTTING_DOWN"

Incoming(c) ==
  /\ WorkerRuns
  /\ Arrive(c)
  /\ UNCHANGED <<uaVars, flow, files, connected>>

\* on_call_state without a call manager looks nothing up.
OnCallStateUnattached(c) ==
  /\ cb[c].at = "none" /\ Live(c)
  /\ \E st \in InvNext[inv[c]] :
       /\ inv[c] = "INCOMING" /\ st = "CONNECTING" => c \in answered
       /\ inv' = [inv EXCEPT ![c] = st]
  /\ cb' = [cb EXCEPT ![c] = [at |-> "state", slot |-> NoSlot]]
  /\ UNCHANGED <<command, call, answered, told, app>>

StateReported(c) ==
  /\ WorkerRuns
  /\ IF Attached THEN OnCallState(c) ELSE OnCallStateUnattached(c)
  /\ connected' = (connected \/ inv'[c] = "CONFIRMED")
  /\ UNCHANGED <<uaVars, flow, files>>

WithoutMediaUnasked(s) == [kind \in Kinds |-> objects[kind] - 1]

WithoutMediaOf(s) ==
  [kind \in Kinds |-> IF kind \in media[s] THEN objects[kind] - 1 ELSE objects[kind]]

MediaKeptAfterCall(s) == objects' = WithoutMediaOf(s) /\ UNCHANGED media

\* vu_media_stop_recording and vu_media_stop_playback.
StopMedia(s) ==
  /\ objects' = WithoutMediaOf(s)
  /\ media' = [media EXCEPT ![s] = {}]

StateWritten(c) ==
  /\ ApplyState(c)
  /\ IF inv[c] = "DISCONNECTED" THEN StopMedia(cb[c].slot) ELSE UNCHANGED files
  /\ UNCHANGED <<uaVars, flow, connected>>

StateIgnored(c) ==
  /\ IgnoreState(c)
  /\ UNCHANGED <<uaVars, flow, files, connected>>

IncomingHandled(c) ==
  /\ Handling
  /\ TrackIncoming(c) \/ RejectIncoming(c)
  /\ UNCHANGED <<uaVars, flow, files, connected>>

\* Before the handler and the call manager are set, and after they were taken
\* away, nobody answers: PJSUA keeps the session ringing.
IncomingUnhandled(c) ==
  /\ ~Handling
  /\ cb[c].at = "arrived"
  /\ CallbackReturns(c)
  /\ UNCHANGED <<command, call, app, uaVars, flow, files, connected>>

\* With --auto-answer.  on_incoming_call looks at g_opts before the delay: the
\* command may be over when it answers, and its table wiped.
IncomingAnswered(c) ==
  /\ AnswerIncoming(c)
  /\ LET a == call[cb[c].slot].id
         reply == IF Answerable(a) THEN answered \cup {a} ELSE answered
     IN  \/ opts.auto /\ answered' = reply
         \/ ~(opts.auto /\ Attached) /\ answered' = answered
  /\ UNCHANGED <<uaVars, flow, files, connected>>

\* SIGINT or SIGTERM.  The handler logs: a main thread it finds inside
\* vu_log_internal already holds the lock that it waits for.
Interrupt ==
  /\ running /\ pc # "done"
  /\ running' = FALSE
  /\ stuck' \in BOOLEAN
  /\ UNCHANGED <<vars, uaVars, opts, config, pc, at, todo, result, files, connected>>

----------------------------------------------------------------------------
\* The main thread: from the account to a connected call.

Stay == UNCHANGED <<opts, config, running, stuck>>
Goto(place) == pc' = place /\ UNCHANGED <<at, todo, result>> /\ Stay
Fail(place) == pc' = place /\ result' = 1 /\ UNCHANGED <<at, todo>> /\ Stay

Account == IF opts.account # NoId THEN Found(config, opts.account) ELSE DOMAIN config

FindAccount ==
  /\ pc = "begin"
  /\ IF Account # {} THEN Goto("init") ELSE Fail("done")
  /\ UNCHANGED <<vars, uaVars, files, connected>>

StartAgent ==
  /\ pc = "init"
  /\ \/ InitUA /\ Goto("filter")
     \/ InitUAFails /\ Fail("done")
  /\ UNCHANGED <<vars, files, connected>>

NoFilter ==
  /\ pc = "filter" /\ opts.codecs = <<>>
  /\ Goto("attach")
  /\ UNCHANGED <<vars, uaVars, files, connected>>

\* pjsua_enum_codecs may fail.
BeginFilter ==
  /\ pc = "filter" /\ opts.codecs # <<>>
  /\ \/ DisableCodecs /\ Goto("enable")
     \/ UNCHANGED uaVars /\ Fail("shutdown")
  /\ UNCHANGED <<vars, files, connected>>

Listed == Copied(opts.codecs)

EnableNext ==
  /\ pc = "enable" /\ filter.tried < Len(Listed)
  /\ EnableOrSkip(Listed[filter.tried + 1])
  /\ Goto("enable")
  /\ UNCHANGED <<vars, files, connected>>

\* A list no codec of which exists is an error.
EndFilter ==
  /\ pc = "enable" /\ filter.tried >= Len(Listed)
  /\ IF filter.enabled > 0 THEN Goto("attach") ELSE Fail("shutdown")
  /\ UNCHANGED <<vars, uaVars, files, connected>>

\* The account manager; `receive` installs its handlers before it.
AttachAccounts ==
  /\ pc = "attach"
  /\ Attach({"accounts"} \cup IF command = "receive" THEN {"handlers"} ELSE {})
  /\ Goto("register")
  /\ UNCHANGED <<vars, files, connected>>

RegisterAccountNoShutdown ==
  /\ pc = "register"
  /\ Goto("manager") \/ Fail("done")
  /\ UNCHANGED <<vars, uaVars, files, connected>>

\* vu_account_register and vu_account_wait_registration, with 30 seconds.
RegisterAccount ==
  /\ pc = "register"
  /\ Goto("manager") \/ Fail("shutdown")
  /\ UNCHANGED <<vars, uaVars, files, connected>>

AttachCalls ==
  /\ pc = "manager"
  /\ Attach({"calls", "handlers"})
  /\ Goto(IF command = "call" THEN "dial" ELSE "await")
  /\ UNCHANGED <<vars, files, connected>>

Dial ==
  /\ pc = "dial"
  /\ MakeClaim
  /\ pc' = "dialling" /\ at' = app'.slot
  /\ UNCHANGED <<todo, result>> /\ Stay
  /\ UNCHANGED <<uaVars, files, connected>>

Dialling ==
  /\ pc = "dialling"
  /\ \/ (\E c \in Ids : MakeDialled(c)) /\ Goto("dialling")
     \/ MakeFailed /\ Fail("detach")
     \/ MakeDone /\ Goto("connect")
  /\ UNCHANGED <<uaVars, files, connected>>

If(asked, item) == IF asked THEN <<item>> ELSE <<>>

\* What the options ask for on the connected call: `call --play-delay` plays
\* after the digits.
Wanted ==
  LET later == command = "call" /\ opts.delayed
  IN  If(opts.record, "recorder") \o If(opts.play /\ ~later, "player")
        \o If(opts.dtmf, "dtmf") \o If(opts.play /\ later, "player")

Connected ==
  pc' = "act" /\ todo' = Wanted /\ UNCHANGED <<at, result>> /\ Stay

\* vu_call_wait_connected looks at no signal; its timer never expires if the
\* timeout is 0.
CallConnects ==
  /\ pc = "connect"
  /\ call[at].state = "CONFIRMED"
  /\ Connected
  /\ UNCHANGED <<vars, uaVars, files, connected>>

CallFails ==
  /\ pc = "connect"
  /\ call[at].state = "DISCONNECTED"
  /\ Fail("detach")
  /\ UNCHANGED <<vars, uaVars, files, connected>>

CallTimesOutWithoutError ==
  /\ pc = "connect" /\ opts.timed
  /\ Goto("detach")
  /\ UNCHANGED <<vars, uaVars, files, connected>>

CallTimesOut ==
  /\ pc = "connect" /\ opts.timed
  /\ Fail("detach")
  /\ UNCHANGED <<vars, uaVars, files, connected>>

\* vu_call_find_active: the first slot in use, connected or not.
Active == {s \in Slots : call[s].id # Invalid /\ call[s].state # "DISCONNECTED"}

Poll ==
  /\ pc = "await" /\ running
  /\ \E s \in Slots \cup {NoSlot} :
       /\ IF Active = {} THEN s = NoSlot ELSE First(s, Active)
       /\ at' = s
  /\ pc' = IF at' # NoSlot /\ call[at'].state = "CONFIRMED" THEN "check" ELSE "await"
  /\ UNCHANGED <<todo, result>> /\ Stay
  /\ UNCHANGED <<vars, uaVars, files, connected>>

StopAwaiting ==
  /\ pc = "await"
  /\ opts.timed \/ ~running
  /\ Goto("check")
  /\ UNCHANGED <<vars, uaVars, files, connected>>

\* After the loop the slot found last is looked at once more.
Check ==
  /\ pc = "check"
  /\ IF at # NoSlot /\ call[at].state = "CONFIRMED" THEN Connected
     ELSE IF opts.timed THEN Fail("detach") ELSE Goto("detach")
  /\ UNCHANGED <<vars, uaVars, files, connected>>

----------------------------------------------------------------------------
\* On the connected call: vu_media_start_recording and vu_media_play_file
\* create an object, look the call up again to connect it, and store it.

Do(kind) == pc = "act" /\ todo # <<>> /\ Head(todo) = kind

Proceed ==
  pc' = "act" /\ todo' = Tail(todo) /\ UNCHANGED <<at, result>> /\ Stay

\* A recorder of the same call is kept, a player is not looked for.
CreateMedia(kind) ==
  /\ Do(kind)
  /\ call[at].id # Invalid
  /\ kind = "recorder" => "recorder" \notin media[at]
  /\ objects' = [objects EXCEPT ![kind] = @ + 1]
  /\ Goto("connecting")
  /\ UNCHANGED <<vars, uaVars, media, connected>>

\* The call is over, the recorder is there, the file cannot be opened - or the
\* digits are sent, which changes nothing here.
SkipMedia ==
  /\ pc = "act" /\ todo # <<>>
  /\ Proceed
  /\ UNCHANGED <<vars, uaVars, files, connected>>

HasMedia(c) == c \in Ids /\ inv[c] \in {"EARLY", "CONNECTING", "CONFIRMED"}

ConnectMedia ==
  /\ pc = "connecting"
  /\ HasMedia(call[at].id)
  /\ Goto("storing")
  /\ UNCHANGED <<vars, uaVars, files, connected>>

\* No media by now, or no memory: the object is destroyed.
ConnectMediaFails ==
  /\ pc = "connecting"
  /\ objects' = [objects EXCEPT ![Head(todo)] = @ - 1]
  /\ Proceed
  /\ UNCHANGED <<vars, uaVars, media, connected>>

StoreMedia ==
  /\ pc = "storing"
  /\ media' = [media EXCEPT ![at] = @ \cup {Head(todo)}]
  /\ Proceed
  /\ UNCHANGED <<vars, uaVars, objects, connected>>

ActionsDone ==
  /\ pc = "act" /\ todo = <<>>
  /\ Goto("talk")
  /\ UNCHANGED <<vars, uaVars, files, connected>>

StopTalkingWithoutTimer ==
  /\ pc = "talk"
  /\ ~running \/ call[at].state # "CONFIRMED"
  /\ Goto(IF command = "call" \/ opts.hangup THEN "hangup" ELSE "detach")
  /\ UNCHANGED <<vars, uaVars, files, connected>>

\* The loop that waits for --hangup-after, a signal or the remote's hangup.
\* `receive` hangs up by itself only with --hangup-after.
StopTalking ==
  /\ pc = "talk"
  /\ opts.hangup \/ ~running \/ call[at].state # "CONFIRMED"
  /\ Goto(IF command = "call" \/ opts.hangup THEN "hangup" ELSE "detach")
  /\ UNCHANGED <<vars, uaVars, files, connected>>

\* vu_call_hangup.
HangupNothing ==
  /\ pc = "hangup"
  /\ call[at].id = Invalid
  /\ Goto("detach")
  /\ UNCHANGED <<vars, uaVars, files, connected>>

HangupCall ==
  /\ pc = "hangup"
  /\ HangupMark(at)
  /\ Goto("hanging")
  /\ UNCHANGED <<uaVars, files, connected>>

HangingUp ==
  /\ pc = "hanging"
  /\ \/ HangupAsk /\ Goto("hanging")
     \/ HangupDone /\ Goto("detach")
  /\ UNCHANGED <<uaVars, files, connected>>

----------------------------------------------------------------------------
\* cleanup: the managers are detached, the calls ended, the managers wiped,
\* the accounts unregistered and PJSUA destroyed.

Detach ==
  /\ pc = "detach"
  /\ DetachManagers
  /\ Goto("ending")
  /\ UNCHANGED <<vars, files, connected>>

EndCalls ==
  /\ pc = "ending"
  /\ \/ HangupAllAsk /\ Goto("ending")
     \/ HangupAllMark /\ Goto("wipe")
  /\ UNCHANGED <<uaVars, files, connected>>

\* The memset of vu_call_manager_cleanup: every slot then carries call id 0.
Wipe ==
  /\ pc = "wipe"
  /\ call' = [s \in Slots |-> [id |-> ZeroId, state |-> "NULL"]]
  /\ media' = [s \in Slots |-> {}]
  /\ Goto("shutdown")
  /\ UNCHANGED <<command, inv, cb, answered, told, app, uaVars, objects, connected>>

StopWorker ==
  /\ pc = "shutdown"
  /\ BeginShutdown
  /\ Goto("destroy")
  /\ UNCHANGED <<vars, files, connected>>

\* pjsua_destroy joins the worker, ends what is left and frees it.
Shutdown ==
  /\ pc = "destroy"
  /\ EndShutdown
  /\ \A c \in Ids : cb[c] = NoCallback
  /\ inv' = [c \in Ids |-> "FREE"]
  /\ answered' = {} /\ told' = {}
  /\ objects' = NoObjects
  /\ Goto("done")
  /\ UNCHANGED <<command, call, cb, app, media, connected>>

----------------------------------------------------------------------------
Prepare ==
  \/ FindAccount \/ StartAgent
  \/ NoFilter \/ BeginFilter \/ EnableNext \/ EndFilter
  \/ AttachAccounts \/ RegisterAccount \/ AttachCalls

Connect ==
  Dial \/ Dialling \/ CallConnects \/ CallFails \/ CallTimesOut \/ StopAwaiting \/ Check

Act ==
  \/ \E kind \in Kinds : CreateMedia(kind)
  \/ SkipMedia \/ ConnectMedia \/ ConnectMediaFails \/ StoreMedia \/ ActionsDone

End ==
  \/ StopTalking \/ HangupNothing \/ HangupCall \/ HangingUp
  \/ Detach \/ EndCalls \/ Wipe \/ StopWorker \/ Shutdown

Main == Prepare \/ Connect \/ Act \/ End

Returning(c) ==
  \/ StateWritten(c) \/ StateIgnored(c) \/ IncomingHandled(c)
  \/ IncomingUnhandled(c) \/ IncomingAnswered(c)

CommandNext ==
  \/ ~stuck /\ (Main \/ Poll)
  \/ \E c \in Ids : Incoming(c) \/ StateReported(c) \/ Returning(c)
  \/ Interrupt

\* The threads are scheduled, a callback that began returns, and a main thread
\* that waits for PJSUA's lock gets it in the end.  A loop leaves when its
\* timer has expired; the polls on the way there are not owed.
CommandSpec == CommandInit /\ [][CommandNext]_commandVars
FairCommandSpec ==
  /\ CommandSpec
  /\ SF_commandVars(~stuck /\ Main)
  /\ WF_commandVars(~stuck /\ Poll)
  /\ \A c \in Ids : WF_commandVars(Returning(c))

----------------------------------------------------------------------------
\* Whatever way a command ends, early or late, PJSUA is destroyed before the
\* stack frame that holds the managers is left: no session, no callback, no
\* recorder or player is left (cmd_call.c:77, 94, 101, 201).
NothingOutlivesCommand ==
  pc = "done" =>
    /\ ~lib /\ ~ua.initialized /\ ~ua.pool /\ "handlers" \notin links
    /\ \A c \in Ids : inv[c] = "FREE" /\ cb[c] = NoCallback
    /\ objects = NoObjects

Making(kind) == IF pc \in {"connecting", "storing"} /\ Head(todo) = kind THEN 1 ELSE 0

\* As many recorders and players exist as slots name, and the one just being
\* made: none is destroyed twice and none is lost while the call may still end
\* on either side (media.c:66-102, call.c:319-321).
MediaIsOwned ==
  pc \notin {"shutdown", "destroy", "done"} =>
    \A kind \in Kinds :
      objects[kind] = Cardinality({s \in Slots : kind \in media[s]}) + Making(kind)

\* "giving earlier entries higher priority so the order in the spec is the
\* preference order PJSIP advertises" (sip_ua.c:235-237): with a filter in force
\* exactly the codecs are enabled that the copy of the list names - those of the
\* first 255 characters, the last of them perhaps by a part of its name - in its
\* order as long as there are priorities left.
Position(list, c) ==
  CHOOSE i \in DOMAIN list :
    list[i] = c /\ \A j \in DOMAIN list : list[j] = c => j <= i

CodecsAsListed ==
  opts.codecs # <<>> /\ "accounts" \in links =>
    LET listed == {c \in Codecs : \E i \in DOMAIN Listed : Listed[i] = c}
    IN  /\ \A c \in Codecs : codec[c] > 0 <=> c \in listed
        /\ \A c, d \in listed :
             Position(Listed, c) < Position(Listed, d) =>
               /\ codec[c] >= codec[d]
               /\ Len(Listed) <= HighestPriority - NormalPriority + 1 =>
                    codec[c] > codec[d]

\* An exit status of 0 means that a call was connected - except for `receive`
\* without a timeout, which only a signal ends (cmd_receive.c:166).
SuccessIsConnected ==
  pc = "done" /\ result = 0 /\ (command = "call" \/ opts.timed) => connected

\* With a timeout and --hangup-after a command comes to its end, whatever the
\* remote party does; without --hangup-after it does once it was interrupted.
\* (The signal must not hit the main thread inside a log call.)
CommandEnds ==
  opts.timed /\ (opts.hangup \/ ~running) ~> pc = "done" \/ stuck

\* "`--auto-answer` - Automatically answer calls" (README.md:155): once
\* `receive --auto-answer` waits for calls, none is left to ring unanswered.
AutoAnswers ==
  command = "receive" /\ opts.auto /\ pc = "await" =>
    \A c \in Ids :
      inv[c] = "INCOMING" /\ cb[c] = NoCallback => c \in answered \cup told
=============================================================================
