SPECIFICATION StoreSpec
CONSTANTS
    Players = {p1, p2, p3}
    RoomIds = {r1, r2}
    Nobody = Nobody
    Absent = Absent
    NoPassword = NoPassword
    Passwords = {}
    PrivacyKinds = {"public"}
    MMRFloors = {0}
    MMRs = {0}
    Invitees = {}
    GameModes = {1}
    DefaultGameMode = 1
    MaxRooms = 2
    PlayerSlots = 2
    ObserverSlots = 0
    AdminSlots = 0
    ClosedRoomLinger = 0
    KickBlockFirst = 1
    KickBlockStep = 1
    MaxTime = 1
    MaxKicks = 0
    Nowhere = Nowhere
    Unborn = Unborn
    Ended = Ended
INVARIANTS
    OneRoomAtATime
    IndexesMatchRooms
    NoSharedVirtualIP
PROPERTIES
    ImplementsOccupancy
SYMMETRY Symmetry
CHECK_DEADLOCK FALSE
