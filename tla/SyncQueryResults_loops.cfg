SPECIFICATION Spec
CONSTANTS
  Loop = {l1, l2, l3}
  MaxRows = 3
INVARIANTS
  TypeOK
PROPERTIES
  LoneLoopComplete
  LoneLoopEnds
  ImplementsIteration
