CONSTANTS
    c1 = c1
    c2 = c2
    Users = {u1, u2}
    Objects = {o1, o2}
    Callsigns = {c1, c2}
    Lines <- Traffic
    Writes <- Written
    Freed = Freed
    NoClient = NoClient
    Nobody = Nobody
    Limits = {1, 2}
    Burst = 3
    PingTime = 2
    IdleTime = 2
    KillRating = 11
    MaxBusy = 1
SPECIFICATION FairSpec
INVARIANTS UsersTypeOK PrivateClients UniqueCallsigns WithinLimit
PROPERTIES NobodyLingers
