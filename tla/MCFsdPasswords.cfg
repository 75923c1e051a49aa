CONSTANTS
    s1 = s1
    s2 = s2
    s3 = s3
    g1 = g1
    pilot = pilot
    one = one
    other = other
    Servers = {s1, s2, s3}
    Stubs = {g1}
    Cids = {pilot}
    Passwords = {one, other}
    low = low
    high = high
    Levels = {low, high}
    Trusted <- Trusts
    Topology <- Chain
    Offset <- Zones
    MaxClock = 2
    Budget <- Most
    Budgets <- Mixed
SPECIFICATION MCSpec
SYMMETRY Renaming
INVARIANT PasswordsAgree
CHECK_DEADLOCK FALSE
