SPECIFICATION Spec
CONSTANTS
  None = None
  Error = Error
  Samples = {1, 200}
  IoNumbers = {1, 256}
  Plain <- MCPlain
  MaxCalls = 3
PROPERTIES
  FileRestoresDiagnostics
CHECK_DEADLOCK FALSE
