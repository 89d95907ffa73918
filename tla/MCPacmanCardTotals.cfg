SPECIFICATION Spec
CONSTANTS
  Files <- MCFiles
  Arguments <- MCArguments
  MaxConnects = 2
INVARIANTS
  EachLoopSendsTotal
CHECK_DEADLOCK FALSE
