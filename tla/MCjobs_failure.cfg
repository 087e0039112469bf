CONSTANTS
    p1 = p1
    p2 = p2
    p3 = p3
    u1 = u1
    u2 = u2
    u3 = u3
    None = None
    Requests <- TwoRequests
    Units <- TwoUnits
    Ops = {"start", "status"}
    OneAtATime = {}
    Mishaps = {}
SPECIFICATION FairSpec
PROPERTY FailureReported
CHECK_DEADLOCK FALSE
