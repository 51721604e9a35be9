--------------------------- MODULE CallLifecycle ---------------------------
(***************************************************************************)
(* What a slot of the call table promises to the code that waits on it      *)
(* (vu_call_wait_state, the loops of cmd_call.c and cmd_receive.c): a call  *)
(* is set up, may connect, ends, and then neither comes back nor gives its  *)
(* slot to another call.  The promise lasts until the table is closed by    *)
(* vu_call_hangup_all; what it holds after that is not specified.           *)
(***************************************************************************)
CONSTANT Slots

VARIABLES
  phase,   \* how far the call of each slot has come
  open     \* FALSE once the owner has closed the table

lifecycle == <<phase, open>>

Phases == {"unused", "setup", "talking", "over"}

LifecycleInit ==
  /\ phase = [s \in Slots |-> "unused"]
  /\ open = TRUE

Start(s) ==
  /\ open
  /\ phase[s] = "unused"
  /\ phase' = [phase EXCEPT ![s] = "setup"]
  /\ UNCHANGED open

Connect(s) ==
  /\ open
  /\ phase[s] = "setup"
  /\ phase' = [phase EXCEPT ![s] = "talking"]
  /\ UNCHANGED open

End(s) ==
  /\ open
  /\ phase[s] \in {"setup", "talking"}
  /\ phase' = [phase EXCEPT ![s] = "over"]
  /\ UNCHANGED open

\* Closing ends the calls in progress, except those whose hangup is under way.
Close ==
  /\ open
  /\ open' = FALSE
  /\ \E S \in SUBSET {s \in Slots : phase[s] \in {"setup", "talking"}} :
       phase' = [s \in Slots |-> IF s \in S THEN "over" ELSE phase[s]]

Closed ==
  /\ ~open
  /\ open' = FALSE
  /\ phase' \in [Slots -> Phases]

LifecycleNext ==
  \/ \E s \in Slots : Start(s) \/ Connect(s) \/ End(s)
  \/ Close
  \/ Closed

LifecycleSpec == LifecycleInit /\ [][LifecycleNext]_lifecycle
=============================================================================
