--------------------------- MODULE TestDefinition ---------------------------
(***************************************************************************)
(* The test files of src/src/test/test_parser.c: what becomes of a JSON     *)
(* document.  Operators only.  A missing field of the document is one that  *)
(* holds its default; a role that is missing altogether is NoRole, an       *)
(* `expect` that is missing NoExpect.  Values are reduced to what the       *)
(* engine decides on: a file name to whether there is one, a timeout to     *)
(* whether it ever expires, the pattern of expect_dtmf to its digits.       *)
(***************************************************************************)
EXTENDS Naturals, Sequences, SequencesExt

CONSTANTS
  MaxActions,  \* VU_MAX_TEST_ACTIONS, of one role
  NoAccount    \* an "account" that is missing or empty

ASSUME MaxActionsAssumption == MaxActions \in Nat \ {0}

ActionTypes == {"wait", "send_dtmf", "expect_dtmf", "play_audio",
                "record_audio", "expect_beeps", "hangup"}

\* parse_action_type, where "none" stands for VU_ACTION_NONE.
ActionType(name) ==
  CASE name = "play" -> "play_audio"
    [] name = "record" -> "record_audio"
    [] name \in ActionTypes -> name
    [] OTHER -> "none"

ParsesAction(entry) == ActionType(entry.action) # "none"

ParseAction(entry) == [entry EXCEPT !.action = ActionType(entry.action)]

\* An action that does not parse is dropped; those beyond the limit are ignored.
ParseActions(entries) ==
  LET valid == SelectSeq(entries, ParsesAction)
      count == IF Len(valid) < MaxActions THEN Len(valid) ELSE MaxActions
  IN  [i \in 1 .. count |-> ParseAction(valid[i])]

NoRole == [account |-> NoAccount, auto |-> FALSE, timed |-> FALSE, actions |-> <<>>]

ParseRole(role) == [role EXCEPT !.actions = ParseActions(role.actions)]

NoExpect == [connected |-> TRUE, beeps |-> 0, frequency |-> 0, digits |-> <<>>]

\* vu_test_parse_file returns NULL for a file that cannot be read or is not JSON.
Loads(test) == test.json

\* `dtmf_received` is not looked for.
ParseExpect(expect) == [expect EXCEPT !.digits = <<>>]

ParseTest(test) ==
  [caller |-> ParseRole(test.caller),
   receiver |-> ParseRole(test.receiver),
   expect |-> ParseExpect(test.expect)]
=============================================================================
