\* A command that only receives, under fairness.
CONSTANTS
  c1 = c1
  c2 = c2
  c3 = c3
  Ids = {c1, c2}
  Invalid = Invalid
  MaxCalls = 2
  Commands = {"receive"}
SPECIFICATION FairSpec
CHECK_DEADLOCK FALSE
PROPERTIES
  HangupReturns
  EndIsSeen
  ImplementsLifecycle
