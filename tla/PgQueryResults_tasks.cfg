SPECIFICATION Spec
CONSTANTS
  Task = {t1, t2}
  MaxRows = 3
  MaxExecutions = 2
  MaxTransactions = 2
  Prefetch = 2
INVARIANTS
  TypeOK
  NoAbandonedRows
PROPERTIES
  ImplementsIteration
