CONSTANTS
    Sockets = {s1, s2, s3}
    Aircraft = {a1, a2}
    Positions = {"FEEDER"}
    BadPosition = "OBSERVER"
    NoOne = NoOne
    NoSocket = NoSocket
    MaxCount = 3
    MaxOutbox = 1
SPECIFICATION Spec
SYMMETRY SocketSymmetry
INVARIANTS TypeOK SocketIndex OwnerStaffed LastWord LastList
PROPERTIES Announced ImplementsTrackOwnership
