SPECIFICATION Spec
CONSTANTS
  Sizes = {2, 3}
  INT_MAX = 7
  MaxPackets = 4
  MaxReports = 3
INVARIANTS
  TypeOK
  BytesConservedUnlessRaced
CHECK_DEADLOCK FALSE
