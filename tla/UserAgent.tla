----------------------------- MODULE UserAgent -----------------------------
(***************************************************************************)
(* The user agent of src/src/core/sip_ua.c: the life of g_ua and of the     *)
(* PJSUA library under it, and the codec filter.  Actions here change this  *)
(* component's own variables only; the modules that extend it compose them  *)
(* with the callbacks and with the commands.                                *)
(***************************************************************************)
EXTENDS Naturals, Sequences, SequencesExt

CONSTANTS
  Codecs,           \* the codecs PJSUA offers
  HighestPriority,  \* PJMEDIA_CODEC_PRIO_HIGHEST
  NormalPriority,   \* PJMEDIA_CODEC_PRIO_NORMAL
  BufferSize,       \* the characters `buf` takes, 255
  Width(_),         \* the characters of a codec's name
  Cut(_, _)         \* the codec that the first characters of a name stand for,
                    \* "" for none

ASSUME PriorityAssumption ==
  /\ HighestPriority \in Nat /\ NormalPriority \in Nat
  /\ 0 < NormalPriority /\ NormalPriority <= HighestPriority

VARIABLES
  ua,     \* g_ua: its state, and whether it holds a memory pool
  lib,    \* whether PJSUA is created
  links,  \* g_ua: the managers attached, and whether handlers are installed
  codec,  \* PJSUA: the priority of each codec, 0 for a disabled one
  filter  \* vu_ua_set_codec_filter: the codecs tried, the next priority, and
          \* how many were enabled

uaVars == <<ua, lib, links, codec, filter>>

\* INITIALIZING lasts no longer than vu_ua_init.
UAState == {"UNINITIALIZED", "RUNNING", "SHUTTING_DOWN", "STOPPED"}

Priority == 0 .. HighestPriority

UATypeOK ==
  /\ ua \in [state : UAState, pool : BOOLEAN, initialized : BOOLEAN]
  /\ lib \in BOOLEAN
  /\ links \subseteq {"accounts", "calls", "handlers"}
  /\ codec \in [Codecs -> Priority]
  /\ filter \in [tried : Nat, next : Priority, enabled : Nat]

UAInit ==
  /\ ua = [state |-> "UNINITIALIZED", pool |-> FALSE, initialized |-> FALSE]
  /\ lib = FALSE
  /\ links = {}
  /\ codec = [c \in Codecs |-> NormalPriority]
  /\ filter = [tried |-> 0, next |-> HighestPriority, enabled |-> 0]

----------------------------------------------------------------------------
\* vu_ua_init.  A missing TCP or TLS transport, or no null audio device, is
\* only warned of (what it means for an account is part of Registration).
InitUA ==
  /\ ~ua.initialized
  /\ ua' = [state |-> "RUNNING", pool |-> TRUE, initialized |-> TRUE]
  /\ lib' = TRUE
  /\ UNCHANGED <<links, codec, filter>>

\* pjsua_create fails, or one of pjsua_init, the UDP transport, pjsua_start and
\* the memory pool, each of which destroys PJSUA again.
InitUAFails ==
  /\ ~ua.initialized
  /\ ua' = [ua EXCEPT !.state = "UNINITIALIZED"]
  /\ lib' = FALSE
  /\ UNCHANGED <<links, codec, filter>>

----------------------------------------------------------------------------
\* vu_ua_set_codec_filter works on a copy of the list, names and commas, that
\* ends where the buffer does: a name behind the end is gone, the one across it
\* is cut.
Before(list, i) ==
  FoldLeft(LAMBDA n, name : n + Width(name) + 1, 0, SubSeq(list, 1, i - 1))

Copied(list) ==
  [i \in DOMAIN list |->
     LET room == BufferSize - Before(list, i)
     IN  CASE room >= Width(list[i]) -> list[i]
           [] 0 < room /\ room < Width(list[i]) -> Cut(list[i], room)
           [] OTHER -> ""]

\* Every codec is disabled...
NothingTried == [tried |-> 0, next |-> HighestPriority, enabled |-> 0]

DisableCodecs ==
  /\ codec' = [c \in Codecs |-> 0]
  /\ filter' = NothingTried
  /\ UNCHANGED <<ua, lib, links>>

PriorityKept == filter.next

\* ... then the codecs of the copy are enabled one after the other, from the
\* highest priority down, but not below the normal one.
NextPriority ==
  IF filter.next > NormalPriority THEN filter.next - 1 ELSE filter.next

Enable(name) ==
  /\ codec' = [codec EXCEPT ![name] = filter.next]
  /\ filter' = [tried |-> filter.tried + 1,
                next |-> NextPriority,
                enabled |-> filter.enabled + 1]
  /\ UNCHANGED <<ua, lib, links>>

\* A name that PJSUA does not offer is skipped, and so is an empty one.
SkipCodec ==
  /\ filter' = [filter EXCEPT !.tried = @ + 1]
  /\ UNCHANGED <<ua, lib, links, codec>>

EnableOrSkip(name) == IF name \in Codecs THEN Enable(name) ELSE SkipCodec

----------------------------------------------------------------------------
\* vu_ua_set_account_manager, vu_ua_set_call_manager, vu_ua_set_callbacks.
Attach(what) ==
  /\ links' = links \cup what
  /\ UNCHANGED <<ua, lib, codec, filter>>

DetachManagers ==
  /\ links' = links \ {"accounts", "calls"}
  /\ UNCHANGED <<ua, lib, codec, filter>>

\* vu_ua_shutdown: pjsua_destroy first stops the threads of PJSUA...
BeginShutdown ==
  /\ ua.initialized
  /\ ua' = [ua EXCEPT !.state = "SHUTTING_DOWN", !.pool = FALSE]
  /\ UNCHANGED <<lib, links, codec, filter>>

\* ... and the handlers go last.
EndShutdown ==
  /\ ua' = [ua EXCEPT !.state = "STOPPED", !.initialized = FALSE]
  /\ lib' = FALSE
  /\ links' = links \ {"handlers"}
  /\ UNCHANGED <<codec, filter>>
=============================================================================
