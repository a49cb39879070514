SPECIFICATION FairSpec
CONSTANTS
    Proc = {p1, p2}
    Build <- BuildSet
    Top = 2
    Known <- KnownBy
    Text <- Files
    Rebuild <- Rebuilds
    Pid = {1, 2}
    MaxBoot = 1
    TTL = 1
    Patience = 1
    NULL = NULL
INVARIANTS
    SchemaIsItsLedger
    LostOnlyByOverstaying
    SuccessMeansMigrated
PROPERTIES
    NewerIsNotMigrated
    MigrateReturns
