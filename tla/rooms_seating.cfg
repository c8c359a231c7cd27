SPECIFICATION StoreSpec
CONSTANTS
    Players = {p1, p2, p3, p4}
    RoomIds = {r1}
    Nobody = Nobody
    Absent = Absent
    NoPassword = NoPassword
    Passwords = {}
    PrivacyKinds = {"public"}
    MMRFloors = {0}
    MMRs = {0}
    Invitees = {}
    GameModes = {1}
    DefaultGameMode = 1
    MaxRooms = 1
    PlayerSlots = 3
    ObserverSlots = 1
    AdminSlots = 1
    ClosedRoomLinger = 0
    KickBlockFirst = 1
    KickBlockStep = 1
    MaxTime = 1
    MaxKicks = 0
    Nowhere = Nowhere
    Unborn = Unborn
    Ended = Ended
INVARIANTS
    StoreTypeOK
    SeatsAndAddressesAgree
    HostSitsWhereSaid
PROPERTIES
    AddressIsKept
    MatchPinsThePlaces
SYMMETRY Symmetry
CHECK_DEADLOCK FALSE
