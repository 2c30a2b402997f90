CONSTANTS
  Options <- MCAllOptions
  Catalogs <- MCCatalogs
  QuerySets <- MCQuerySets
  DefaultSchema = "public"
  NoTable = NoTable
  Camel <- MCCamel
  FuncName <- MCFuncName
  MethodName <- MCMethodName
  MaxQueries = 3
SPECIFICATION Spec
INVARIANTS TypeOK CollisionsReported ReferencesResolve DefinitionsDistinct EveryQueryWritten
CHECK_DEADLOCK FALSE
