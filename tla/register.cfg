\* Two accounts; every file, every option, every answer at any time.
CONSTANTS
  MaxAccounts = 2
  NoId = NoId
  Files <- MCFiles
  Options <- MCOptions
SPECIFICATION FairSpec
\* The command ends.
CHECK_DEADLOCK FALSE
INVARIANTS
  TypeOK
  StatusIsOwn
  NothingOutlivesManager
  SuccessIsAccepted
PROPERTIES
  UnregisteredIsFinal
  RegisterReturns
