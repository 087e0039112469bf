CONSTANTS
    f1 = f1
    f2 = f2
    pi = pi
    admin = admin
    None = None
    Torn = Torn
    Flows <- OneFlow
    Accounts <- TwoAccounts
    Dismissable = {}
    MaxFaults = 1
    MaxDraws = 4
SPECIFICATION Spec
INVARIANT RetryStateUsable
CHECK_DEADLOCK FALSE
