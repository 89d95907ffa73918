SPECIFICATION Spec
CONSTANTS
  None = None
  Error = Error
  Samples = {1, 200}
  IoNumbers = {1, 256}
  Plain <- MCPlain
  MaxCalls = 3
INVARIANTS
  TypeOK
  KeptIsCurrent
PROPERTIES
  FieldsAreIndependent
  DictRestoresPacket
  FileRestoresPacket
CHECK_DEADLOCK FALSE
