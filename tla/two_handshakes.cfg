SPECIFICATION Spec
CONSTANTS
    MaxRooms = 2
    PlayerSlots = 10
    ObserverSlots = 4
    AdminSlots = 3
    Sessions = {s1, s2, s3}
    NoSession = NoSession
    NoPeer = NoPeer
    Tickets <- OneMember
    Strangers <- LastOfTheBlock
    Readers = {g1, g2}
    Reaper = Reaper
    AllowMulticast = FALSE
    IdleTimeout = 0
    MaxTime = 1
INVARIANTS
    ReachableByAddress
SYMMETRY Symmetry
CHECK_DEADLOCK FALSE
