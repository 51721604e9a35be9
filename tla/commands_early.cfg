\* The same instance, against what the README says of --auto-answer.
CONSTANTS
  c1 = c1
  c2 = c2
  Ids = {c1, c2}
  ZeroId = c1
  Invalid = Invalid
  MaxCalls = 2
  Commands = {"call", "receive"}
  Codecs = {"opus", "pcmu", "pcma", "gsm"}
  HighestPriority = 3
  NormalPriority = 1
  BufferSize = 23
  Width <- MCWidth
  Cut <- MCCut
  MaxAccounts = 1
  NoId = NoId
  ConfiguredAccounts <- MCAccounts
  Options <- MCOptions
SPECIFICATION CommandSpec
\* A command ends.
CHECK_DEADLOCK FALSE
INVARIANT AutoAnswers
