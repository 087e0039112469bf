CONSTANTS
    p1 = p1
    p2 = p2
    p3 = p3
    u1 = u1
    u2 = u2
    u3 = u3
    None = None
    Requests <- ThreeRequests
    Units <- ThreeUnits
    Ops = {"start"}
    OneAtATime = {}
    Mishaps = {"abort", "orphan", "reboot"}
SPECIFICATION Spec
SYMMETRY Interchangeable3
INVARIANTS
    TypeOK
    TrackedJobsSerialized
PROPERTY SlotSpec
CHECK_DEADLOCK FALSE
