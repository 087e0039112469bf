CONSTANTS
    p1 = p1
    p2 = p2
    p3 = p3
    u1 = u1
    u2 = u2
    u3 = u3
    None = None
    Requests <- TwoRequests
    Units <- TwoUnits
    Ops = {"start", "status"}
    OneAtATime = {"start"}
    Mishaps = {}
SPECIFICATION Spec
INVARIANT SerializedJobs
CHECK_DEADLOCK FALSE
