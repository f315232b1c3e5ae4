SPECIFICATION FairSpec
CONSTANTS
    t1 = t1
    t2 = t2
    k1 = k1
    k2 = k2
    a1 = a1
    None = None
    Anon = Anon
    Client = {c1, c2}
    Token = {t1, t2}
    Task = {k1, k2}
    Agent = {a1}
    TaskOf <- Owner
    AgentOf <- Shared
    MaxFaults = 2
    MaxSnapshots = 6
CHECK_DEADLOCK FALSE
INVARIANTS TypeOK SessionScoped OneTime MappedIsEnsured HostPathLive
PROPERTY Recovers
