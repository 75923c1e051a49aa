CONSTANTS
    s1 = s1
    s2 = s2
    s3 = s3
    c1 = c1
    c2 = c2
    m1 = m1
    m2 = m2
    g1 = g1
    Servers = {s1, s2, s3}
    Callsigns = {c1}
    Messages = {}
    Stubs = {}
    NoServer = NoServer
    Everyone = Everyone
    Sites <- Homes
    Addressee <- Addressees
    Topology <- Ring
    MaxHops = 4
    MaxSpace = 30
    DropLimit = 10
    MaxCount = 40
    Budget <- NoBudget
    FirstCount = 3
    Scenarios <- Rebooting
SPECIFICATION SettledSpec
INVARIANTS OneKnowsAllKnow
CHECK_DEADLOCK FALSE
