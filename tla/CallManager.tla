---------------------------- MODULE CallManager ----------------------------
(***************************************************************************)
(* The call table of src/src/core/call.c and the PJSUA callbacks that       *)
(* update it (src/src/core/sip_ua.c).                                       *)
(*                                                                          *)
(* Two kinds of activity share the table without a lock of their own: the   *)
(* main thread, which runs vu_call_make, vu_call_hangup and                 *)
(* vu_call_hangup_all, and the PJSUA worker, which runs on_incoming_call    *)
(* and on_call_state.  PJSUA itself is outside this repository: a session   *)
(* is known by its call id, follows the INVITE session states, and holds    *)
(* its dialog lock while one of its callbacks runs, so that a callback of   *)
(* the session and a pjsua_call_* request about it exclude each other.      *)
(***************************************************************************)
EXTENDS Integers, FiniteSets

CONSTANTS
  MaxCalls,    \* VU_MAX_CALLS, the number of slots of the table
  Ids,         \* the call ids of PJSUA, which it uses again after a call
  Invalid,     \* PJSUA_INVALID_ID
  Commands     \* which commands of the program are considered

ASSUME MaxCallsAssumption == MaxCalls \in Nat \ {0}
ASSUME InvalidAssumption == Invalid \notin Ids
ASSUME CommandsAssumption == Commands \subseteq {"call", "receive", "test"}

VARIABLES
  command,     \* the command this process runs
  call,        \* the slots: the call id and the state each one records
  inv,         \* PJSUA: the INVITE session state behind each call id
  cb,          \* PJSUA: the callback that runs for each call id, if any
  answered,    \* PJSUA: incoming sessions answered with a 200
  told,        \* PJSUA: sessions it was asked to hang up
  app          \* what the main thread is doing to the table

vars == <<command, call, inv, cb, answered, told, app>>

----------------------------------------------------------------------------
Slots == 0 .. MaxCalls - 1
NoSlot == -1

CallState == {"NULL", "CALLING", "INCOMING", "EARLY", "CONNECTING",
              "CONFIRMED", "DISCONNECTED"}

InvState == (CallState \ {"NULL"}) \cup {"FREE"}

\* "arrived": on_incoming_call has been entered, "claimed": it owns a slot and
\* may still answer, "state": on_call_state has looked the session up.
Callback == [at : {"none", "arrived", "claimed", "state"},
             slot : Slots \cup {NoSlot}]

NoCallback == [at |-> "none", slot |-> NoSlot]

Idle == [pc |-> "idle", slot |-> NoSlot, id |-> Invalid]

TypeOK ==
  /\ command \in Commands
  /\ call \in [Slots -> [id : Ids \cup {Invalid}, state : CallState]]
  /\ inv \in [Ids -> InvState]
  /\ cb \in [Ids -> Callback]
  /\ answered \subseteq Ids
  /\ told \subseteq Ids
  /\ app \in [pc : {"idle", "claimed", "stored", "marked", "asked",
                    "draining", "closed"},
              slot : Slots \cup {NoSlot},
              id : Ids \cup {Invalid}]

----------------------------------------------------------------------------
\* `call` dials and installs no handler for incoming calls, `receive` only
\* takes calls, `test` does both in one process.
Dials == command \in {"call", "test"}
Receives == command \in {"receive", "test"}

\* A session that can still change state.
Live(c) == inv[c] \notin {"FREE", "DISCONNECTED"}

\* The for loops of the table stop at the first slot that matches.
First(s, S) == s \in S /\ \A t \in S : s <= t

SlotsWithAny(c) == {s \in Slots : call[s].id # Invalid}

SlotsWith(c) == {s \in Slots : call[s].id = c}

FreeSlots == {s \in Slots : call[s].id = Invalid /\ call[s].state = "NULL"}

Init ==
  /\ command \in Commands
  /\ call = [s \in Slots |-> [id |-> Invalid, state |-> "NULL"]]
  /\ inv = [c \in Ids |-> "FREE"]
  /\ cb = [c \in Ids |-> NoCallback]
  /\ answered = {}
  /\ told = {}
  /\ app = Idle

----------------------------------------------------------------------------
\* PJSUA and the remote party.  A session created here dials, one created by
\* the remote rings here; either may end at any time, and one that rings here
\* goes on only once this program has answered it.

InvNext ==
  [CALLING |-> {"EARLY", "CONNECTING", "DISCONNECTED"},
   INCOMING |-> {"CONNECTING", "DISCONNECTED"},
   EARLY |-> {"CONNECTING", "DISCONNECTED"},
   CONNECTING |-> {"CONFIRMED", "DISCONNECTED"},
   CONFIRMED |-> {"DISCONNECTED"}]

\* The callback of session c returns; after a DISCONNECTED one PJSUA releases
\* the call id, which a later session may carry again.
CallbackReturns(c) ==
  /\ cb' = [cb EXCEPT ![c] = NoCallback]
  /\ IF inv[c] = "DISCONNECTED"
     THEN /\ inv' = [inv EXCEPT ![c] = "FREE"]
          /\ answered' = answered \ {c}
          /\ told' = told \ {c}
     ELSE UNCHANGED <<inv, answered, told>>

\* An INVITE arrives and PJSUA calls on_incoming_call.
Arrive(c) ==
  /\ inv[c] = "FREE"
  /\ inv' = [inv EXCEPT ![c] = "INCOMING"]
  /\ cb' = [cb EXCEPT ![c] = [at |-> "arrived", slot |-> NoSlot]]
  /\ UNCHANGED <<command, call, answered, told, app>>

----------------------------------------------------------------------------
\* on_call_state: PJSUA moves the session to another state and calls back; the
\* callback reads the state and looks the slot up by call id...
OnCallState(c) ==
  /\ cb[c].at = "none"
  /\ Live(c)
  /\ \E st \in InvNext[inv[c]] :
       /\ inv[c] = "INCOMING" /\ st = "CONNECTING" => c \in answered
       /\ inv' = [inv EXCEPT ![c] = st]
  /\ \E s \in Slots \cup {NoSlot} :
       /\ IF SlotsWith(c) = {} THEN s = NoSlot ELSE First(s, SlotsWith(c))
       /\ cb' = [cb EXCEPT ![c] = [at |-> "state", slot |-> s]]
  /\ UNCHANGED <<command, call, answered, told, app>>

StateChangedKeepsId(entry, st) == [entry EXCEPT !.state = st]

StateChangedDropsConfirmed(entry, st) ==
  IF st = "DISCONNECTED" THEN [id |-> Invalid, state |-> st]
  ELSE IF st = "CONFIRMED" THEN entry
  ELSE [entry EXCEPT !.state = st]

StateChangedIgnoresEnd(entry, st) ==
  IF st = "DISCONNECTED" THEN [entry EXCEPT !.id = Invalid]
  ELSE [entry EXCEPT !.state = st]

\* vu_call_on_state_change: what a state reported by PJSUA does to an entry.
StateChanged(entry, st) ==
  IF st = "DISCONNECTED"
  THEN [id |-> Invalid, state |-> st]
  ELSE [entry EXCEPT !.state = st]

\* ... as if a lock held around vu_call_hangup were also taken here.
ApplyStateLocked(c) ==
  /\ app.pc \notin {"marked", "asked"}
  /\ cb[c].at = "state"
  /\ cb[c].slot # NoSlot
  /\ call' = [call EXCEPT ![cb[c].slot] = StateChanged(@, inv[c])]
  /\ CallbackReturns(c)
  /\ UNCHANGED <<command, app>>

\* ... and writes it into that slot, whatever the slot holds by then.
ApplyState(c) ==
  /\ cb[c].at = "state"
  /\ cb[c].slot # NoSlot
  /\ call' = [call EXCEPT ![cb[c].slot] = StateChanged(@, inv[c])]
  /\ CallbackReturns(c)
  /\ UNCHANGED <<command, app>>

\* The lookup found nothing: the session is not in the table, or no more.
IgnoreState(c) ==
  /\ cb[c].at = "state"
  /\ cb[c].slot = NoSlot
  /\ CallbackReturns(c)
  /\ UNCHANGED <<command, call, app>>

----------------------------------------------------------------------------
\* on_incoming_call of sip_ua.c calls the handler of the command, if it has one:
\* `call` has none, and leaves the session ringing.
LeaveRinging(c) ==
  /\ ~Receives
  /\ cb[c].at = "arrived"
  /\ CallbackReturns(c)
  /\ UNCHANGED <<command, call, app>>

\* on_incoming_call of cmd_receive.c and test_engine.c.  A session already in
\* the table keeps its slot, else vu_call_on_incoming takes the first free one.
TrackIncoming(c) ==
  /\ Receives
  /\ cb[c].at = "arrived"
  /\ \E s \in Slots :
       /\ First(s, IF SlotsWith(c) # {} THEN SlotsWith(c) ELSE FreeSlots)
       /\ call' = IF SlotsWith(c) # {} THEN call
                  ELSE [call EXCEPT ![s] = [id |-> c, state |-> "INCOMING"]]
       /\ cb' = [cb EXCEPT ![c] = [at |-> "claimed", slot |-> s]]
  /\ UNCHANGED <<command, inv, answered, told, app>>

ForgetIncoming(c) ==
  /\ Receives
  /\ cb[c].at = "arrived"
  /\ SlotsWith(c) = {} /\ FreeSlots = {}
  /\ CallbackReturns(c)
  /\ UNCHANGED <<command, call, app>>

\* No slot is left: the call is hung up with 486, and the nested on_call_state
\* for its end finds no slot.
RejectIncoming(c) ==
  /\ Receives
  /\ cb[c].at = "arrived"
  /\ SlotsWith(c) = {} /\ FreeSlots = {}
  /\ inv' = [inv EXCEPT ![c] = "DISCONNECTED"]
  /\ told' = told \cup {c}
  /\ cb' = [cb EXCEPT ![c] = [at |-> "state", slot |-> NoSlot]]
  /\ UNCHANGED <<command, call, answered, app>>

AnswerableUnguarded(a) == a \in Ids => inv[a] = "INCOMING"

\* vu_call_answer refuses an invalid id; PJSUA refuses what does not ring here.
Answerable(a) == a \in Ids /\ inv[a] = "INCOMING"

\* The callback, after answer_delay_ms if one is set, answers the call its slot
\* names by then; without auto_answer it only returns.
AnswerIncoming(c) ==
  /\ cb[c].at = "claimed"
  /\ \/ UNCHANGED answered
     \/ LET a == call[cb[c].slot].id IN
          /\ Answerable(a)
          /\ answered' = answered \cup {a}
  /\ cb' = [cb EXCEPT ![c] = NoCallback]
  /\ UNCHANGED <<command, call, inv, told, app>>

----------------------------------------------------------------------------
\* vu_call_make.  Its early returns (bad arguments, the agent not running, no
\* registered account, no free slot) leave everything as it is.

\* The slot is wiped; its id and state keep it looking free.
MakeClaim ==
  /\ Dials
  /\ app.pc = "idle"
  /\ \E s \in Slots :
       /\ First(s, FreeSlots)
       /\ call' = [call EXCEPT ![s] = [id |-> Invalid, state |-> "NULL"]]
       /\ app' = [pc |-> "claimed", slot |-> s, id |-> Invalid]
  /\ UNCHANGED <<command, inv, cb, answered, told>>

\* pjsua_call_make_call sends the INVITE and stores the new call id.
MakeDialled(c) ==
  /\ app.pc = "claimed"
  /\ inv[c] = "FREE"
  /\ inv' = [inv EXCEPT ![c] = "CALLING"]
  /\ call' = [call EXCEPT ![app.slot].id = c]
  /\ app' = [app EXCEPT !.pc = "stored"]
  /\ UNCHANGED <<command, cb, answered, told>>

MakeFailed ==
  /\ app.pc = "claimed"
  /\ call' = [call EXCEPT ![app.slot].id = Invalid]
  /\ app' = Idle
  /\ UNCHANGED <<command, inv, cb, answered, told>>

\* Only after PJSUA returned is the state written.
MakeDone ==
  /\ app.pc = "stored"
  /\ call' = [call EXCEPT ![app.slot].state = "CALLING"]
  /\ app' = Idle
  /\ UNCHANGED <<command, inv, cb, answered, told>>

----------------------------------------------------------------------------
\* vu_call_hangup of a call that is not hung up yet.

HangupMarkEarly(s) ==
  /\ app.pc = "idle"
  /\ call[s].id # Invalid
  /\ app' = [pc |-> "marked", slot |-> s, id |-> call[s].id]
  /\ call' = [call EXCEPT ![s] = [id |-> Invalid, state |-> "DISCONNECTED"]]
  /\ UNCHANGED <<command, inv, cb, answered, told>>

\* The id is captured and the slot marked invalid, so that no callback finds it.
HangupMark(s) ==
  /\ app.pc = "idle"
  /\ call[s].id # Invalid
  /\ app' = [pc |-> "marked", slot |-> s, id |-> call[s].id]
  /\ call' = [call EXCEPT ![s].id = Invalid]
  /\ UNCHANGED <<command, inv, cb, answered, told>>

\* pjsua_call_hangup waits for a callback of that session to return.
HangupAsk ==
  /\ app.pc = "marked"
  /\ cb[app.id].at = "none"
  /\ told' = IF Live(app.id) THEN told \cup {app.id} ELSE told
  /\ app' = [app EXCEPT !.pc = "asked"]
  /\ UNCHANGED <<command, call, inv, cb, answered>>

HangupDone ==
  /\ app.pc = "asked"
  /\ call' = [call EXCEPT ![app.slot].state = "DISCONNECTED"]
  /\ app' = Idle
  /\ UNCHANGED <<command, inv, cb, answered, told>>

----------------------------------------------------------------------------
\* vu_call_hangup_all, the last thing a command does to its table: first PJSUA
\* is asked to end every session, then the slots in use are marked.

HangupAllAsk ==
  /\ app.pc = "idle"
  /\ told' = told \cup {c \in Ids : Live(c)}
  /\ app' = [app EXCEPT !.pc = "draining"]
  /\ UNCHANGED <<command, call, inv, cb, answered>>

HangupAllMark ==
  /\ app.pc = "draining"
  /\ call' = [s \in Slots |->
                IF call[s].id # Invalid
                THEN [id |-> Invalid, state |-> "DISCONNECTED"]
                ELSE call[s]]
  /\ app' = [app EXCEPT !.pc = "closed"]
  /\ UNCHANGED <<command, inv, cb, answered, told>>

----------------------------------------------------------------------------
Callbacks(c) ==
  \/ OnCallState(c) \/ ApplyState(c) \/ IgnoreState(c)
  \/ LeaveRinging(c) \/ TrackIncoming(c) \/ RejectIncoming(c) \/ AnswerIncoming(c)

Make == MakeClaim \/ (\E c \in Ids : MakeDialled(c)) \/ MakeFailed \/ MakeDone

Hangup == (\E s \in Slots : HangupMark(s)) \/ HangupAsk \/ HangupDone

HangupAll == HangupAllAsk \/ HangupAllMark

Next ==
  \/ \E c \in Ids : Arrive(c) \/ Callbacks(c)
  \/ Make \/ Hangup \/ HangupAll

Spec == Init /\ [][Next]_vars

----------------------------------------------------------------------------
\* A call id in the table names a session PJSUA still keeps, and no two slots
\* carry the same one, although PJSUA uses its ids again: so a lookup by id
\* (call.c:195-205) finds no other slot than that of the session.  Ids and slot
\* pointers read before are not spoken of: HangupAsk may hold an id that went to
\* another session since (call.c:161), and in `test` ApplyState a slot that did.
IdsAreLive ==
  /\ \A s \in Slots : call[s].id # Invalid => inv[call[s].id] # "FREE"
  /\ \A s, t \in Slots :
       call[s].id = call[t].id /\ call[s].id # Invalid => s = t

\* The session of a hangup between its two halves (call.c:161-169).
BeingHungUp(c) == app.pc = "marked" /\ app.id = c

Tracked(c) == SlotsWith(c) # {} \/ BeingHungUp(c) \/ c \in told

\* Every session this command dialled, or its on_incoming_call took, is in the
\* table, being hung up or told to end: none is left ringing or talking where no
\* hangup can reach it.  Not spoken of: a call that comes in to a command that
\* handles none, which rings on in no slot; one whose callback did not run yet;
\* and `test`, which both dials and receives (see SlotIsKept).
Handled(c) == Live(c) /\ cb[c].at # "arrived" /\ (inv[c] = "INCOMING" => Receives)

NoOrphan ==
  command # "test" /\ app.pc # "closed" =>
    \A c \in Ids : Handled(c) => Tracked(c)

Progress ==
  [NULL |-> 0, CALLING |-> 1, INCOMING |-> 1, EARLY |-> 2, CONNECTING |-> 3,
   CONFIRMED |-> 4, DISCONNECTED |-> 5]

\* The table never claims more progress than its session made, so that
\* vu_call_wait_connected (call.c:230) returns VU_OK for connected calls only.
NeverAhead ==
  command # "test" =>
    \A s \in Slots : call[s].id # Invalid =>
      Progress[call[s].state] <= Progress[inv[call[s].id]]

\* An ended call stays ended: no callback still in flight when vu_call_hangup
\* returns can bring it back (call.c:169-174).  MakeDone can, which
\* ReachedStateIsSeen is about, and so can a callback that outlives hangup_all.
EndedStaysEnded ==
  [][\A s \in Slots :
       /\ command # "test" /\ app.pc \notin {"stored", "closed"}
       /\ call[s].state = "DISCONNECTED"
       => call'[s].state = "DISCONNECTED"]_vars

\* "Update call state from PJSUA callback" (call.h:155): once the callback has
\* run, the slot shows the state of its session.
Follows ==
  \A s \in Slots :
    /\ call[s].id # Invalid
    /\ cb[call[s].id].at = "none"
    /\ ~(app.pc = "stored" /\ app.slot = s)
    => call[s].state = inv[call[s].id]

\* The commands that only receive keep the table in step with PJSUA.
ReceiverFollows == command = "receive" => Follows

----------------------------------------------------------------------------
\* Fairness.  The main thread and the worker are threads of the operating
\* system, and no code of theirs stops between the steps of an operation it
\* began, and a thread that waits for PJSUA's lock gets it in the end, however
\* often callbacks take it (hence SF).  Nothing is assumed of the remote party,
\* of PJSUA's own progress, or of the operations a command chooses to begin.
Fairness ==
  /\ WF_vars((\E c \in Ids : MakeDialled(c)) \/ MakeFailed \/ MakeDone)
  /\ SF_vars(HangupAsk)
  /\ WF_vars(HangupDone)
  /\ WF_vars(HangupAllMark)
  /\ \A c \in Ids :
       WF_vars(\/ ApplyState(c) \/ IgnoreState(c) \/ LeaveRinging(c)
               \/ TrackIncoming(c) \/ RejectIncoming(c) \/ AnswerIncoming(c))

FairSpec == Spec /\ Fairness

\* vu_call_hangup returns: the main thread waits in pjsua_call_hangup for the
\* callback of the session (call.c:169), so that callback must not wait for it.
HangupReturns == app.pc = "marked" ~> app.pc = "idle"

\* Once PJSUA reports the end of a call that is in the table, the loops that
\* wait for it (cmd_receive.c:199, 205) get to see it.
EndIsSeen ==
  \A s \in Slots :
    call[s].id # Invalid /\ inv[call[s].id] = "DISCONNECTED"
      ~> call[s].state = "DISCONNECTED"

PhaseOf(state) ==
  CASE state = "NULL" -> "unused"
    [] state = "CONFIRMED" -> "talking"
    [] state = "DISCONNECTED" -> "over"
    [] OTHER -> "setup"

Lifecycle == INSTANCE CallLifecycle WITH
  phase <- [s \in Slots |-> PhaseOf(call[s].state)],
  open <- app.pc # "closed"

\* The table of a command that only receives keeps the promise of
\* CallLifecycle, through every interleaving of hangups and callbacks.
ImplementsLifecycle == Lifecycle!LifecycleSpec

----------------------------------------------------------------------------
\* What the comments of the code say and the code does not do.

\* "Maximum concurrent calls" (call.h:40): a call is refused for want of a slot
\* only while MaxCalls calls are in progress.
CapacityIsConcurrent ==
  app.pc # "closed" /\ FreeSlots = {} =>
    \A s \in Slots : call[s].state # "DISCONNECTED"

\* vu_call_wait_state "Returns VU_OK if state reached" (call.h:125): when the
\* session is connected and its callback has run, the waiting caller sees it.
ReachedStateIsSeen ==
  \A s \in Slots :
    /\ app.pc = "idle"
    /\ call[s].id # Invalid
    /\ cb[call[s].id].at = "none"
    /\ inv[call[s].id] = "CONFIRMED"
    => call[s].state = "CONFIRMED"

\* "Find a free call slot" (call.c:59): a slot given to an incoming call is its
\* own until that call ends, so the session stays within reach of a hangup.
SlotIsKept ==
  app.pc # "closed" => \A c \in Ids : Handled(c) => Tracked(c)
=============================================================================
