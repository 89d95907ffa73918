SPECIFICATION FairSpec
CONSTANTS
  Files <- MCFiles
  Arguments <- MCArguments
  MaxConnects = 2
INVARIANTS
  TypeOK
  MessageParsesBack
  FileIsSentInOrder
  LoopSendsTotal
  GroupsAreApart
PROPERTIES
  Connects
CHECK_DEADLOCK FALSE
