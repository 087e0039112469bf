SPECIFICATION FairSpec
CONSTANTS
    m1 = m1  m2 = m2  m3 = m3  i1 = i1  k1 = k1  k2 = k2
    MachineIds = {k1, k2}
    Machine = k1
    Mounts = {m1, m2, m3}
    Interfaces = {i1}
    Services = {}
    Tailscale = tailscaled
    MaxFilesystems = 2
    MaxInterfaces = 1
    MaxServices = 1
    AgentServices = 0
    MaxPreviews = 1
    MaxNames = 1
    MaxBytes = 2
    Absent = Absent
    Requests = {q1, q2}
    First = first
    Candidates <- SomeHosts
    Slug <- SlugOf
    Cadence = 2
    MaxEvents = 2
INVARIANTS
    TypeOK
    EveryItemShown
    NoStepBack
    ShownIsFit
PROPERTIES
    ChecksApart
    OnlineSettles
