SPECIFICATION FairStoreSpec
CONSTANTS
    Players = {p1, p2}
    RoomIds = {r1}
    Nobody = Nobody
    Absent = Absent
    NoPassword = NoPassword
    Passwords = {pw}
    PrivacyKinds = {"public", "password", "invite"}
    MMRFloors = {0}
    MMRs = {1}
    Invitees = {p2}
    GameModes = {1}
    DefaultGameMode = 1
    MaxRooms = 1
    PlayerSlots = 2
    ObserverSlots = 0
    AdminSlots = 1
    ClosedRoomLinger = 1
    KickBlockFirst = 1
    KickBlockStep = 2
    MaxTime = 3
    MaxKicks = 2
    Nowhere = Nowhere
    Unborn = Unborn
    Ended = Ended
PROPERTIES
    EndedForGood
    KickBlockIsAbsolute
    EndedRoomsAreForgotten
CHECK_DEADLOCK FALSE
