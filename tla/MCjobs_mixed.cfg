CONSTANTS
    p1 = p1
    p2 = p2
    p3 = p3
    u1 = u1
    u2 = u2
    u3 = u3
    None = None
    Requests <- TwoRequests
    Units <- TwoUnits
    Ops = {"start", "status", "check-updates", "audit-packages"}
    OneAtATime = {}
    Mishaps = {"abort", "orphan", "reboot"}
SPECIFICATION Spec
SYMMETRY Interchangeable2
INVARIANTS
    SuccessIsReal
    FlockFollowsStarts
CHECK_DEADLOCK FALSE
