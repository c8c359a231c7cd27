SPECIFICATION FairSpec
CONSTANTS
    MaxRooms = 2
    PlayerSlots = 10
    ObserverSlots = 4
    AdminSlots = 3
    Sessions = {s1, s2}
    NoSession = NoSession
    NoPeer = NoPeer
    Tickets <- TwoRooms
    Strangers <- LastOfTheBlock
    Readers = {g1, g2}
    Reaper = Reaper
    AllowMulticast = TRUE
    IdleTimeout = 0
    MaxTime = 1
INVARIANTS
    RelayTypeOK
    TableAgrees
    RoomsAreIsolated
CHECK_DEADLOCK FALSE
PROPERTIES
    WritersEnd
    SilentPeersGo
