---------------------------- MODULE MCTestEngine ----------------------------
(***************************************************************************)
(* Instances of TestEngine for TLC.                                         *)
(***************************************************************************)
EXTENDS TestEngine

CONSTANTS c1, c2

Own(id) == [id |-> id, transport |-> "udp", enabled |-> TRUE]

\* A test names no codecs.
MCWidth(name) == 4

MCCut(name, n) == ""

MCAccounts == {<<Own("a"), Own("b")>>}

Action(name) == [action |-> name, file |-> TRUE, digits |-> <<>>]
Expecting(digits) == [Action("expect_dtmf") EXCEPT !.digits = digits]

Role(id, actions) == [account |-> id, auto |-> TRUE, timed |-> TRUE, actions |-> actions]

MCTest(callerActions, receiverActions) ==
  [command |-> "test", codecs |-> <<>>, json |-> TRUE,
   caller |-> Role("a", callerActions),
   receiver |-> Role("b", receiverActions),
   expect |-> NoExpect]

\* Files that never get as far as a call.
MCRefused ==
  {[MCTest(<<>>, <<>>) EXCEPT !.json = FALSE],
   [MCTest(<<>>, <<>>) EXCEPT !.caller = NoRole],
   [MCTest(<<>>, <<>>) EXCEPT !.receiver.account = "a"]}

\* Every kind of action; a receiver that hangs up, under a caller who may wait
\* for ever; two files played on one call; digits, also for a receiver that is
\* replaced; a call that is not to connect; a table that is full before the
\* caller dials.
Recorded ==
  [MCTest(<<Action("hangup")>>, <<Action("record"), Action("fax"), Action("play"), Action("wait")>>)
     EXCEPT !.expect.beeps = 1]
HungUp ==
  [MCTest(<<Action("play")>>, <<Action("hangup")>>) EXCEPT !.caller.timed = FALSE]
PlayedTwice == MCTest(<<Action("play"), Action("play")>>, <<>>)
Expects(digits) ==
  [MCTest(<<>>, <<Expecting(digits)>>) EXCEPT !.caller.timed = FALSE]
Heard == Expects(<<2>>)
HeardOfTwo == Expects(<<1>>)
Missed ==
  [MCTest(<<>>, <<>>) EXCEPT !.expect.connected = FALSE, !.receiver.auto = FALSE]
Crowded == [Missed EXCEPT !.caller.timed = FALSE]

MCTests ==
  MCRefused \cup {Recorded, HungUp, PlayedTwice, Heard, HeardOfTwo, Missed, Crowded}

\* Calls, places where they come in, digits, signals.
MCBound(test) ==
  LET B(c, p, d, s) == [calls |-> c, places |-> p, digits |-> d, signal |-> s]
  IN  CASE test \in {Recorded, HungUp} -> B(1, EnginePlaces, 0, TRUE)
        [] test = Heard -> B(1, EnginePlaces, 2, FALSE)
        [] test = HeardOfTwo -> B(2, {"connect", "act"}, 1, FALSE)
        [] test = PlayedTwice -> B(0, EnginePlaces, 0, FALSE)
        [] test = Crowded -> B(4, {"register"}, 0, FALSE)
        [] OTHER -> B(1, EnginePlaces, 0, FALSE)

MCExpecting == {[MCTest(<<>>, <<Action("record")>>)
                   EXCEPT !.expect = [connected |-> TRUE, beeps |-> 1,
                                      frequency |-> 1000, digits |-> <<>>]]}

MCAnalyses == {[beeps |-> 0, frequency |-> 0], [beeps |-> 1, frequency |-> 440]}
=============================================================================
