CONSTANTS
    first = first
    r1 = r1
    r2 = r2
    Initial <- first
    Requested <- OneRequested
    InstalledBefore = {1, 2, 3}
    MaxFaults = 0
    MaxReloads = 0
SPECIFICATION FairSpec
PROPERTY RepairClears
CHECK_DEADLOCK FALSE
