CONSTANTS
    Clients = {c1, c2}
    Sockets = {s1, s2}
    Aircraft = {a1}
    Positions = {"FEEDER"}
    BadPosition = "OBSERVER"
    NoOne = NoOne
    NoSocket = NoSocket
    MaxCount = 2
    MaxOutbox = 1
    MaxInbox = 2
    MaxPicks = 2
SPECIFICATION NetworkSpec
SYMMETRY ClientSymmetry
INVARIANTS NetworkTypeOK NoWrongOwner GhostNeverOwns InboundKnowsSender TimerMatchesState
PROPERTIES ConsentedTransfer
