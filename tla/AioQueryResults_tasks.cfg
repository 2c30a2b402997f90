SPECIFICATION Spec
CONSTANTS
  Task = {t1, t2}
  Interruptible = {t1}
  MaxRows = 3
  MaxExecutions = 3
  Chunk = 2
INVARIANTS
  TypeOK
PROPERTIES
  CallsReturn
  ImplementsIteration
