SPECIFICATION Spec
CONSTANTS
    MaxRooms = 2
    PlayerSlots = 10
    ObserverSlots = 4
    AdminSlots = 3
    Sessions = {s1, s2}
    NoSession = NoSession
    NoPeer = NoPeer
    Tickets <- FullRoom
    Strangers <- LastOfTheBlock
    Readers = {g1}
    Reaper = Reaper
    AllowMulticast = FALSE
    IdleTimeout = 0
    MaxTime = 1
INVARIANTS
    RoomMatesAreHeard
CHECK_DEADLOCK FALSE
