\* Every command, two slots and three call ids.
CONSTANTS
  c1 = c1
  c2 = c2
  c3 = c3
  Ids = {c1, c2, c3}
  Invalid = Invalid
  MaxCalls = 2
  Commands = {"call", "receive", "test"}
SPECIFICATION Spec
SYMMETRY IdSymmetry
\* The program may end, and a table no call is left in stops.
CHECK_DEADLOCK FALSE
INVARIANTS
  TypeOK
  IdsAreLive
  NoOrphan
  NeverAhead
  ReceiverFollows
PROPERTIES
  EndedStaysEnded
