SPECIFICATION ImpSpec
CONSTANTS
  Options <- MCOptions
  Packages <- MCPackages
  Files = {"a", "b"}
  Drivers = {"sqlite3", "aiosqlite", "asyncpg", "sqlalchemy"}
  Companions = {"none", "scalar", "row", "model"}
INVARIANTS
  ModuleLoads
  CallsResolve
  CheckerResolves
  ImportsUsed
  ReadsAsDeclared
CHECK_DEADLOCK FALSE
