SPECIFICATION FairSpec
CONSTANTS
    s1 = s1
    Services = {s1}
    Dialogs = {d1, d2}
    Presses = {p1}
    Choices <- SomeChoices
    Runtimes = {r1, r2}
    MaxFaults = 1
    None = None
INVARIANTS
    TypeOK
    HostAgrees
    NoChangeMissed
PROPERTIES
    RestartsListed
    OptionsComeIntoForce
