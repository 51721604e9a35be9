\* One test, which expects a beep of 1000 Hz.
CONSTANTS
  c1 = c1
  c2 = c2
  Ids = {c1, c2}
  ZeroId = c1
  Invalid = Invalid
  MaxCalls = 2
  Commands = {"test"}
  Codecs = {"pcmu"}
  HighestPriority = 2
  NormalPriority = 1
  BufferSize = 23
  Width <- MCWidth
  Cut <- MCCut
  MaxAccounts = 2
  NoId = NoId
  ConfiguredAccounts <- MCAccounts
  Options <- MCExpecting
  MaxActions = 2
  NoAccount = NoId
  MaxDtmf = 1
  Bound <- MCBound
  Analyses <- MCAnalyses
SPECIFICATION EngineSpec
\* A test ends.
CHECK_DEADLOCK FALSE
INVARIANT PassedMeetsExpect
