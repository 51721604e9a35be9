\* A command that dials.
CONSTANTS
  c1 = c1
  c2 = c2
  c3 = c3
  Ids = {c1, c2}
  Invalid = Invalid
  MaxCalls = 2
  Commands = {"call"}
SPECIFICATION Spec
CHECK_DEADLOCK FALSE
INVARIANT
  ReachedStateIsSeen
