SPECIFICATION Spec
CONSTANTS
  Stem <- MCStem
  Name <- MCName
  Type <- MCType
  Column <- MCColumn
  MaxColumns = 3
  Modes <- MCRowMode
  Camel <- MCCamel
  Singular <- MCSingular
  Escape <- MCEscape
INVARIANTS
  RowColumnsDecollided
CHECK_DEADLOCK FALSE
