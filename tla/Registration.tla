---------------------------- MODULE Registration ----------------------------
(***************************************************************************)
(* The account manager of src/src/core/account.c, the registration callback *)
(* of src/src/core/sip_ua.c, and the `register` command that drives them    *)
(* (src/src/cli/cmd_register.c).                                            *)
(*                                                                          *)
(* The main thread registers the accounts, waits for the outcomes and       *)
(* unregisters; a worker of PJSUA runs on_reg_state.  PJSUA, which is       *)
(* external, holds its lock while that callback runs, and takes it to add   *)
(* and to delete an account; it sends the REGISTER once the account has its *)
(* id, refreshes and retries it by itself, and forgets a deleted account.   *)
(***************************************************************************)
EXTENDS Configuration, Integers

CONSTANTS
  Files,     \* the sequences of files the configuration may be read from
  Options    \* the options of the command: -a, --unregister, -t above 0

ASSUME OptionsAssumption ==
  \A o \in Options : o.unregister \in BOOLEAN /\ o.timed \in BOOLEAN

Invalid == -1   \* PJSUA_INVALID_ID

VARIABLES
  opts,      \* the options of this run
  tls,       \* whether vu_ua_init could create the TLS transport
  config,    \* the accounts of the configuration
  accounts,  \* acc_mgr: the accounts in use, account_count is their number
  acc,       \* acc_mgr: the id and the state each slot records
  attached,  \* whether g_ua.acc_mgr points to acc_mgr
  running,   \* g_running, cleared by SIGINT and SIGTERM
  stuck,     \* the signal handler waits for a lock its own thread holds
  pc, at,    \* the main thread: its place, and the slot it works on
  result,    \* the exit status so far
  reg,       \* PJSUA: what it last heard for each account id
  cb,        \* PJSUA: the registration callback that runs, if any
  accepted,  \* history: the accounts a registrar has accepted
  overwritten  \* history: the slots whose reported outcome was written over

mgr == <<accounts, acc, attached>>
signal == <<running, stuck>>
history == <<accepted, overwritten>>
pjsua == <<reg, cb, history>>
vars == <<opts, tls, config, signal, mgr, pc, at, result, pjsua>>

----------------------------------------------------------------------------
Slots == 0 .. MaxAccounts - 1
NoSlot == -1
AccIds == 0 .. MaxAccounts - 1   \* PJSUA hands out the lowest id not in use

AccountState ==
  {"UNREGISTERED", "REGISTERING", "REGISTERED", "FAILED", "UNREGISTERING"}

\* Nothing heard yet, a 2xx, a 4xx to 6xx, or another final answer; "free" is
\* an id no account has.
Answers == {"ok", "failed", "other"}
Heard == Answers \cup {"free", "none"}

NoCallback == [id |-> Invalid, slot |-> NoSlot]

Places == {"begin", "adding", "register", "added", "wait", "waiting", "detach",
           "unregister", "marked", "deleted", "wiped", "done"}

TypeOK ==
  /\ opts \in Options
  /\ tls \in BOOLEAN /\ attached \in BOOLEAN
  /\ running \in BOOLEAN /\ stuck \in BOOLEAN
  /\ accounts \in Seq({config[i] : i \in DOMAIN config})
  /\ Len(accounts) <= MaxAccounts
  /\ acc \in [Slots -> [id : AccIds \cup {Invalid}, state : AccountState]]
  /\ pc \in Places
  /\ at \in Nat
  /\ result \in {0, 1}
  /\ reg \in [AccIds -> Heard]
  /\ cb \in [id : AccIds \cup {Invalid}, slot : Slots \cup {NoSlot}]
  /\ overwritten \subseteq Slots

InUse == {s \in Slots : s < Len(accounts)}
Cfg(s) == accounts[s + 1]
Locked == cb # NoCallback

Init ==
  /\ opts \in Options
  /\ \E files \in Files : Starts(files) /\ config = Load(files).accounts
  /\ tls \in BOOLEAN
  /\ accounts = <<>>
  /\ acc = [s \in Slots |-> [id |-> Invalid, state |-> "UNREGISTERED"]]
  /\ attached = FALSE
  /\ running = TRUE /\ stuck = FALSE
  /\ pc = "begin"
  /\ at = 0
  /\ result = 0
  /\ reg = [c \in AccIds |-> "free"]
  /\ cb = NoCallback
  /\ accepted = {} /\ overwritten = {}

----------------------------------------------------------------------------
\* PJSUA's worker: a final answer to a REGISTER, or to one that refreshes,
\* retries or ends the registration, reaches on_reg_state, which looks the
\* account up by its PJSUA id...

SlotWithAny(c) == {s \in InUse : acc[s].id # Invalid}

\* vu_account_find_by_pjsua_id
SlotWith(c) == {s \in InUse : acc[s].id = c}

OnRegState(c) ==
  /\ ~Locked
  /\ reg[c] # "free"
  /\ \E answer \in Answers : reg' = [reg EXCEPT ![c] = answer]
  /\ \E s \in Slots \cup {NoSlot} :
       /\ IF attached /\ SlotWith(c) # {}
          THEN s \in SlotWith(c) /\ \A t \in SlotWith(c) : s <= t
          ELSE s = NoSlot
       /\ cb' = [id |-> c, slot |-> s]
  /\ accepted' = IF reg'[c] = "ok" /\ cb'.slot # NoSlot
                 THEN accepted \cup {Cfg(cb'.slot).id} ELSE accepted
  /\ UNCHANGED <<opts, tls, config, signal, mgr, pc, at, result, overwritten>>

StateAfterRaw(state, answer) ==
  IF answer = "ok" THEN "REGISTERED" ELSE answer

\* ... and vu_account_on_reg_state takes the answer over into its state.
StateAfter(state, answer) ==
  CASE answer = "ok" -> "REGISTERED"
    [] answer = "failed" -> "FAILED"
    [] OTHER -> state

ReportState ==
  /\ Locked
  /\ acc' = IF cb.slot = NoSlot THEN acc
            ELSE [acc EXCEPT ![cb.slot].state = StateAfter(@, reg[cb.id])]
  /\ overwritten' = IF reg[cb.id] \in {"ok", "failed"} THEN overwritten \ {cb.slot}
                                                      ELSE overwritten
  /\ cb' = NoCallback
  /\ UNCHANGED <<opts, tls, config, signal, accounts, attached, pc, at, result,
                 reg, accepted>>

\* SIGINT or SIGTERM.  The handler logs: a main thread it finds inside
\* vu_log_internal already holds the lock that it waits for.
Interrupt ==
  /\ running /\ pc # "done"
  /\ running' = FALSE
  /\ stuck' \in BOOLEAN
  /\ UNCHANGED <<opts, tls, config, mgr, pc, at, result, pjsua>>

----------------------------------------------------------------------------
\* vu_cmd_register.

Goto(place, s) == pc' = place /\ at' = s

Quit == Goto("done", 0) /\ result' = 1

\* No account is configured, or vu_ua_init fails.
BeginFails ==
  /\ pc = "begin"
  /\ Quit
  /\ UNCHANGED <<opts, tls, config, signal, mgr, pjsua>>

Single == opts.account # NoId

Begin ==
  /\ pc = "begin"
  /\ config # <<>>
  /\ Goto("adding", 1)
  /\ UNCHANGED <<opts, tls, config, signal, mgr, result, pjsua>>

\* The manager takes over the configured accounts, one after the other...
AddNext ==
  /\ pc = "adding" /\ at \in DOMAIN config
  /\ accounts' = AddAccount(accounts, config[at])
  /\ Goto("adding", at + 1)
  /\ UNCHANGED <<opts, tls, config, signal, acc, attached, result, pjsua>>

\* ... and is attached.  With -a the account is looked up, without it the loops
\* start at the first one.
Attach ==
  /\ pc = "adding" /\ at \notin DOMAIN config
  /\ attached' = TRUE
  /\ IF Single /\ Found(accounts, opts.account) = {}
     THEN Goto("detach", 0) /\ result' = 1
     ELSE /\ IF opts.unregister THEN Goto("detach", 0)
             ELSE IF Single
             THEN \E s \in InUse : IsFirst(accounts, opts.account, s + 1) /\ Goto("register", s)
             ELSE Goto("register", 0)
          /\ result' = result
  /\ UNCHANGED <<opts, tls, config, signal, accounts, acc, pjsua>>

\* Where the main thread goes when it is done registering slot s: with -a it
\* waits for that account, else it takes the next.
AfterRegister(s) == IF Single THEN Goto("waiting", s) ELSE Goto("register", s + 1)

ToRegister == pc = "register" /\ at \in InUse

\* A missing TLS transport, or pjsua_acc_add, refuses the account: an error
\* with -a, a warning without.
RegisterRefused ==
  /\ ToRegister
  /\ Single \/ Cfg(at).enabled
  /\ IF Single THEN Goto("detach", 0) /\ result' = 1
               ELSE Goto("register", at + 1) /\ result' = result
  /\ UNCHANGED <<opts, tls, config, signal, mgr, pjsua>>

\* pjsua_acc_add stores the new id, and then sends the REGISTER.  A TCP account
\* falls back to UDP, a TLS account falls back to nothing.
RegisterAdd(c) ==
  /\ ToRegister
  /\ Single \/ Cfg(at).enabled
  /\ Cfg(at).transport = "tls" => tls
  /\ ~Locked
  /\ reg[c] = "free" /\ \A d \in AccIds : d < c => reg[d] # "free"
  /\ acc' = [acc EXCEPT ![at].id = c]
  /\ reg' = [reg EXCEPT ![c] = "none"]
  /\ Goto("added", at)
  /\ UNCHANGED <<opts, tls, config, signal, accounts, attached, result, cb, history>>

\* Only then is the state written, over what a callback may have reported.
RegisterMark ==
  /\ pc = "added"
  /\ acc' = [acc EXCEPT ![at].state = "REGISTERING"]
  /\ overwritten' = IF acc[at].state \in {"REGISTERED", "FAILED"}
                    THEN overwritten \cup {at} ELSE overwritten
  /\ AfterRegister(at)
  /\ UNCHANGED <<opts, tls, config, signal, accounts, attached, result, reg, cb, accepted>>

RegisterSkip ==
  /\ ToRegister /\ ~Single /\ ~Cfg(at).enabled
  /\ Goto("register", at + 1)
  /\ UNCHANGED <<opts, tls, config, signal, mgr, result, pjsua>>

RegisteredAll ==
  /\ pc = "register" /\ at \notin InUse
  /\ Goto("wait", 0)
  /\ UNCHANGED <<opts, tls, config, signal, mgr, result, pjsua>>

\* Without -a the command waits for each enabled account that is still
\* registering when its turn comes, as long as no signal arrived.
WaitBegin ==
  /\ pc = "wait" /\ at \in InUse /\ running
  /\ Goto(IF Cfg(at).enabled /\ acc[at].state = "REGISTERING" THEN "waiting" ELSE "wait",
          IF Cfg(at).enabled /\ acc[at].state = "REGISTERING" THEN at ELSE at + 1)
  /\ UNCHANGED <<opts, tls, config, signal, mgr, result, pjsua>>

WaitedAll ==
  /\ pc = "wait"
  /\ at \notin InUse \/ ~running
  /\ Goto("detach", 0)
  /\ UNCHANGED <<opts, tls, config, signal, mgr, result, pjsua>>

\* vu_account_wait_registration of slot at, which looks at no signal; without
\* -a its outcome is not looked at.
AfterWait(status) ==
  IF Single THEN Goto("detach", 0) /\ result' = status
            ELSE Goto("wait", at + 1) /\ result' = result

Waiting == pc = "waiting"

WaitRegistered ==
  /\ Waiting
  /\ acc[at].state = "REGISTERED"
  /\ AfterWait(0)
  /\ UNCHANGED <<opts, tls, config, signal, mgr, pjsua>>

WaitFailed ==
  /\ Waiting
  /\ acc[at].state = "FAILED"
  /\ AfterWait(1)
  /\ UNCHANGED <<opts, tls, config, signal, mgr, pjsua>>

WaitTimesOutWithoutError ==
  /\ Waiting
  /\ opts.timed
  /\ AfterWait(0)
  /\ UNCHANGED <<opts, tls, config, signal, mgr, pjsua>>

WaitTimesOutWhenInterrupted ==
  /\ Waiting
  /\ opts.timed /\ ~running
  /\ AfterWait(1)
  /\ UNCHANGED <<opts, tls, config, signal, mgr, pjsua>>

\* The timer is looked at before the state; a timer of 0 never expires.
WaitTimesOut ==
  /\ Waiting
  /\ opts.timed
  /\ AfterWait(1)
  /\ UNCHANGED <<opts, tls, config, signal, mgr, pjsua>>

----------------------------------------------------------------------------
\* The cleanup: the manager is detached, every account unregistered, the
\* manager wiped, and PJSUA destroyed, which waits for its threads.

Detach ==
  /\ pc = "detach"
  /\ attached' = FALSE
  /\ Goto("unregister", 0)
  /\ UNCHANGED <<opts, tls, config, signal, accounts, acc, result, pjsua>>

UnregisterSkipFailed ==
  /\ pc = "unregister" /\ at \in InUse
  /\ acc[at].state # "REGISTERED"
  /\ Goto("unregister", at + 1)
  /\ UNCHANGED <<opts, tls, config, signal, mgr, result, pjsua>>

\* vu_account_unregister has nothing to do for an account never added.
UnregisterSkip ==
  /\ pc = "unregister" /\ at \in InUse
  /\ acc[at].id = Invalid
  /\ Goto("unregister", at + 1)
  /\ UNCHANGED <<opts, tls, config, signal, mgr, result, pjsua>>

UnregisterWithoutDelete ==
  /\ pc = "unregister" /\ at \in InUse
  /\ acc[at].id # Invalid
  /\ acc' = [acc EXCEPT ![at] = [id |-> Invalid, state |-> "UNREGISTERED"]]
  /\ Goto("unregister", at + 1)
  /\ UNCHANGED <<opts, tls, config, signal, accounts, attached, result, pjsua>>

\* pjsua_acc_set_registration: PJSUA gives the lock up again before the
\* account is deleted, so that an answer can still be reported.
UnregisterMark ==
  /\ pc = "unregister" /\ at \in InUse
  /\ acc[at].id # Invalid
  /\ acc' = [acc EXCEPT ![at].state = "UNREGISTERING"]
  /\ Goto("marked", at)
  /\ UNCHANGED <<opts, tls, config, signal, accounts, attached, result, pjsua>>

\* pjsua_acc_del waits for a callback to return.
UnregisterDelete ==
  /\ pc = "marked"
  /\ ~Locked
  /\ reg' = [reg EXCEPT ![acc[at].id] = "free"]
  /\ Goto("deleted", at)
  /\ UNCHANGED <<opts, tls, config, signal, mgr, result, cb, history>>

UnregisterDone ==
  /\ pc = "deleted"
  /\ acc' = [acc EXCEPT ![at] = [id |-> Invalid, state |-> "UNREGISTERED"]]
  /\ Goto("unregister", at + 1)
  /\ UNCHANGED <<opts, tls, config, signal, accounts, attached, result, pjsua>>

\* The memset of vu_account_manager_cleanup leaves id 0 in every slot.
Wipe ==
  /\ pc = "unregister" /\ at \notin InUse
  /\ accounts' = <<>>
  /\ acc' = [s \in Slots |-> [id |-> 0, state |-> "UNREGISTERED"]]
  /\ Goto("wiped", 0)
  /\ UNCHANGED <<opts, tls, config, signal, attached, result, pjsua>>

Shutdown ==
  /\ pc = "wiped"
  /\ ~Locked
  /\ reg' = [c \in AccIds |-> "free"]
  /\ Goto("done", 0)
  /\ UNCHANGED <<opts, tls, config, signal, mgr, result, cb, history>>

----------------------------------------------------------------------------
Register ==
  \/ RegisterRefused \/ (\E c \in AccIds : RegisterAdd(c)) \/ RegisterMark
  \/ RegisterSkip \/ RegisteredAll

Wait == WaitBegin \/ WaitedAll \/ WaitRegistered \/ WaitFailed \/ WaitTimesOut

Unregister ==
  UnregisterSkip \/ UnregisterMark \/ UnregisterDelete \/ UnregisterDone

Prepare == BeginFails \/ Begin \/ AddNext \/ Attach

Main == Prepare \/ Register \/ Wait \/ Detach \/ Unregister \/ Wipe \/ Shutdown

Worker == (\E c \in AccIds : OnRegState(c)) \/ ReportState

Next ==
  \/ ~stuck /\ Main
  \/ Worker
  \/ Interrupt

\* The main thread and the worker are scheduled, and a thread that waits for
\* PJSUA's lock gets it in the end.  No registrar is obliged to answer.
Spec == Init /\ [][Next]_vars
FairSpec == Spec /\ SF_vars(~stuck /\ Main) /\ WF_vars(ReportState)

----------------------------------------------------------------------------
\* While the manager is attached and no callback for its account is under way, a
\* slot says of its registration what PJSUA last heard for its own account, in
\* whatever order answers and steps come: it shows no outcome the account did not
\* have, and no outcome is lost - but for the one vu_account_register writes over
\* (account.c:274), until the next answer (sip_ua.c:355-362, account.c:373-381).
StatusIsOwn ==
  \A s \in InUse :
    attached /\ acc[s].id # Invalid /\ cb.id # acc[s].id =>
      LET last == reg[acc[s].id]
      IN  /\ acc[s].state = "REGISTERED" => last \in {"ok", "other"}
          /\ acc[s].state = "FAILED" => last \in {"failed", "other"}
          /\ last = "ok" => acc[s].state = "REGISTERED" \/ s \in overwritten
          /\ last = "failed" => acc[s].state = "FAILED" \/ s \in overwritten

\* The manager lives on the stack of vu_cmd_register: before it is wiped every
\* account is out of PJSUA and no callback still holds one of its slots
\* (cmd_register.c:112-115), so that no answer is written into a wiped one.
NothingOutlivesManager ==
  pc \in {"wiped", "done"} =>
    /\ \A c \in AccIds : reg[c] = "free"
    /\ cb.slot = NoSlot

\* An account that was unregistered stays so: no answer to an earlier REGISTER
\* changes it again (account.c:291-299).
UnregisteredIsFinal ==
  [][\A s \in InUse :
       pc \in {"unregister", "marked", "deleted"} /\ s < at =>
         acc'[s].state = acc[s].state]_vars

\* `register -a` exits with 0 only if the registrar accepted the account, and
\* not for a timeout, a refusal or another account (cmd_register.c:65-73).
SuccessIsAccepted ==
  pc = "done" /\ result = 0 /\ Single /\ ~opts.unregister =>
    opts.account \in accepted

\* With a timeout the command comes to its end even if no registrar ever
\* answers and no signal arrives (account.c:345-362) - unless a signal hits the
\* main thread inside a log call.
RegisterReturns == opts.timed ~> pc = "done" \/ stuck

\* "Exit Codes ... 1 | Error / Test failed" (README.md:373): a run that exits
\* with 0 has registered every account it was to register.
ExitStatusTells ==
  pc = "done" /\ result = 0 /\ ~Single /\ ~opts.unregister =>
    \A i \in DOMAIN config : config[i].enabled => config[i].id \in accepted
=============================================================================
