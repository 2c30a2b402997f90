SPECIFICATION ImpSpec
CONSTANTS
  Options <- MCOptions
  Packages <- MCPackages
  Files = {"a", "b"}
  Drivers = {"sqlite3", "aiosqlite"}
  Companions = {"none", "scalar"}
INVARIANTS
  RegistrationsImported
CHECK_DEADLOCK FALSE
