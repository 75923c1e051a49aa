CONSTANTS
    s1 = s1
    s2 = s2
    s3 = s3
    c1 = c1
    c2 = c2
    m1 = m1
    m2 = m2
    g1 = g1
    Servers = {s1, s2, s3}
    Callsigns = {c1}
    Messages = {m1}
    Stubs = {g1}
    NoServer = NoServer
    Everyone = Everyone
    Sites <- Homes
    Addressee <- Addressees
    Topology <- Chain
    MaxHops = 4
    MaxSpace = 30
    DropLimit = 10
    MaxCount = 40
    Budget <- NoBudget
    FirstCount = 3
    Scenarios <- Failing
SPECIFICATION SettledSpec
INVARIANTS NetTypeOK RoutesAreLinks EveryoneHears RoutesLead
CHECK_DEADLOCK FALSE
