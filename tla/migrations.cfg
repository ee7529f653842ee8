SPECIFICATION FairMigrationsSpec
CONSTANTS
  Procs = {p1, p2, p3}
  MaxRuns = 2
CHECK_DEADLOCK FALSE
INVARIANTS
  MigrationsTypeOK
  SchemaMatchesRecord
  ServesOnSchema
PROPERTY
  MigrationsEnd
