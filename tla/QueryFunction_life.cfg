CONSTANTS
  MaxParams = 3
  MaxLimit = 2
  MaxRecords = 2
  CommentWords = {"update", "for"}
  MaxCtes = 2
  MaxColumns = 2
  MaxEmbedded = 2
  OverrideSpecs <- MCOverrides
  NullabilitySpecs <- MCNullabilities
  MaxSpecs = 2
SPECIFICATION Spec
INVARIANTS
  TypeOK
  TypeFollowsSource
  ReuseKeepsNullability
  ValidatedTypeBound
  ArgumentsBound
  WritesRun
  ReadsStayIterators
  DocumentsSignature
  FieldsAligned
  NullsGuarded
  ValidatedOrRefused
CHECK_DEADLOCK FALSE
