SPECIFICATION ReadoutSpec
CONSTANTS
  Files <- MCFiles
  Arguments <- MCArguments
  MaxConnects = 2
INVARIANTS
  ReadoutTypeOK
  ReadsWhatWasSent
PROPERTIES
  SentIsRead
CHECK_DEADLOCK FALSE
