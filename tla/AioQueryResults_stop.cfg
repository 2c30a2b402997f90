SPECIFICATION Spec
CONSTANTS
  Task = {t1, t2}
  Interruptible = {t1}
  MaxRows = 3
  MaxExecutions = 2
  Chunk = 2
INVARIANTS
  RowsRunOut
