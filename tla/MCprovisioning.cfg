CONSTANTS
    f1 = f1
    f2 = f2
    pi = pi
    admin = admin
    None = None
    Torn = Torn
    Flows <- TwoFlows
    Accounts <- TwoAccounts
    Dismissable <- HostAndFinish
    MaxFaults = 2
    MaxDraws = 4
SPECIFICATION FairSpec
INVARIANTS
    TypeOK
    TrustAgrees
    EntryWorks
    OnlyRivalsRefuse
PROPERTIES
    EnrolmentSpec
    PartialSetupRetries
CHECK_DEADLOCK FALSE
