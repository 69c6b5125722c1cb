\* Two instances and an operator: upgrades and downgrades at the same time.
CONSTANTS
    Migrators = {m1, m2}
    MaxRuns = 3
SPECIFICATION MigrationsSpec
INVARIANTS
    MigrationsTypeOK
    SchemaMatchesRevision
    FailsAloneOnlyForNames
PROPERTY EveryRunEnds
