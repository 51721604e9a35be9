--------------------------- MODULE MCCallCommands ---------------------------
(***************************************************************************)
(* Instances of CallCommands for TLC.                                       *)
(***************************************************************************)
EXTENDS CallCommands

CONSTANTS c1, c2

Own == [id |-> "a", transport |-> "udp", enabled |-> TRUE]

\* "gsm" is a codec, "gsm-efr" is none.
MCWidth(name) ==
  CASE name = "gsm" -> 3 [] name = "gsm-efr" -> 7 [] OTHER -> 4

MCCut(name, n) == IF name = "gsm-efr" /\ n = 3 THEN "gsm" ELSE ""

MCAccounts == {<<>>, <<Own>>}

Plain(cmd) ==
  [command |-> cmd, account |-> NoId, codecs |-> <<>>, timed |-> TRUE,
   record |-> FALSE, play |-> FALSE, delayed |-> FALSE, dtmf |-> FALSE,
   hangup |-> TRUE, auto |-> TRUE]

\* Each option in some run of each command.
MCOptions ==
  {[Plain("call") EXCEPT !.record = TRUE, !.play = TRUE, !.codecs = <<"pcmu", "g729", "opus">>],
   [Plain("call") EXCEPT !.account = "a", !.play = TRUE, !.delayed = TRUE, !.dtmf = TRUE,
                         !.timed = FALSE, !.hangup = FALSE],
   [Plain("call") EXCEPT !.account = "b"],
   [Plain("call") EXCEPT !.codecs = <<"g729">>, !.hangup = FALSE],
   [Plain("receive") EXCEPT !.record = TRUE, !.codecs = <<"opus", "pcmu", "opus">>],
   [Plain("receive") EXCEPT !.play = TRUE, !.dtmf = TRUE, !.hangup = FALSE,
                            !.codecs = <<"opus", "pcmu", "opus", "pcmu", "gsm-efr", "pcma">>],
   [Plain("receive") EXCEPT !.timed = FALSE, !.hangup = FALSE],
   [Plain("receive") EXCEPT !.auto = FALSE, !.record = TRUE]}
=============================================================================
