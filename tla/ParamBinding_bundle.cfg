SPECIFICATION Spec
CONSTANTS
  MaxParams = 2
  MaxLimit = 2
  MaxRecords = 2
INVARIANTS
  BundledArgsBound
CHECK_DEADLOCK FALSE
