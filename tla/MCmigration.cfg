CONSTANTS
    first = first
    r1 = r1
    r2 = r2
    Initial <- first
    Requested <- OneRequested
    InstalledBefore = {1, 2, 3}
    MaxFaults = 1
    MaxReloads = 1
SPECIFICATION FairSpec
INVARIANTS
    TypeOK
    PolicyIsLast
    OneMigration
    AttemptSuffices
PROPERTY UndisturbedMigrationCompletes
CHECK_DEADLOCK FALSE
