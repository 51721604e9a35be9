\* Both legs of a call and a call that comes later, the digits of one leg.
CONSTANTS
  c1 = c1
  c2 = c2
  Ids = {c1, c2}
  ZeroId = c1
  Invalid = Invalid
  MaxCalls = 3
  Commands = {"test"}
  Codecs = {"pcmu"}
  HighestPriority = 2
  NormalPriority = 1
  BufferSize = 23
  Width <- MCWidth
  Cut <- MCCut
  MaxAccounts = 2
  NoId = NoId
  ConfiguredAccounts <- MCAccounts
  Options <- MCTests
  MaxActions = 2
  NoAccount = NoId
  MaxDtmf = 1
  Bound <- MCBound
  Analyses <- MCAnalyses
SPECIFICATION FairEngineSpec
\* A test ends.
CHECK_DEADLOCK FALSE
INVARIANTS
  EngineTypeOK
  PassedIsEarned
  BufferIsOwn
  TestMediaIsOwned
  NothingOutlivesTest
PROPERTIES
  TestEnds
