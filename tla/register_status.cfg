\* The same instance, against the documented exit status.
CONSTANTS
  MaxAccounts = 2
  NoId = NoId
  Files <- MCFiles
  Options <- MCOptions
SPECIFICATION Spec
\* The command ends.
CHECK_DEADLOCK FALSE
INVARIANT ExitStatusTells
