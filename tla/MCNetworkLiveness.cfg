CONSTANTS
    Clients = {c1, c2}
    Sockets = {s1, s2}
    Aircraft = {a1}
    Positions = {"FEEDER"}
    BadPosition = "OBSERVER"
    NoOne = NoOne
    NoSocket = NoSocket
    MaxCount = 2
    MaxOutbox = 1
    MaxInbox = 1
    MaxPicks = 2
SPECIFICATION FairNetworkSpec
PROPERTIES DisplaysConverge HandoffsEnd
