SPECIFICATION Spec
CONSTANTS
  Stem <- MCStem
  Name <- MCName
  Type <- MCType
  Column <- MCColumn
  MaxColumns = 3
  Modes <- MCAllModes
  Camel <- MCCamel
  Singular <- MCSingular
  Escape <- MCEscape
INVARIANTS
  TypeOK
  Decollided
  CleanFieldsDistinct
  CleanNeverFails
CHECK_DEADLOCK FALSE
