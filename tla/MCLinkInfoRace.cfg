SPECIFICATION Spec
CONSTANTS
  Sizes = {2, 3}
  INT_MAX = 511
  MaxPackets = 4
  MaxReports = 3
INVARIANTS
  BytesConserved
CHECK_DEADLOCK FALSE
