SPECIFICATION Spec
CONSTANTS
    Players = {p1, p2}
    RoomIds = {r1}
    Nobody = Nobody
    Absent = Absent
    NoPassword = NoPassword
    Passwords = {}
    PrivacyKinds = {"public"}
    MMRFloors = {0}
    MMRs = {0}
    Invitees = {}
    GameModes = {1}
    DefaultGameMode = 1
    MaxRooms = 1
    PlayerSlots = 2
    ObserverSlots = 0
    AdminSlots = 0
    ClosedRoomLinger = 0
    KickBlockFirst = 1
    KickBlockStep = 1
    MaxTime = 1
    MaxKicks = 1
    Lifetime = 1
    FriendPairs = {}
    AskedStatuses = {"open"}
    Requests = {q1, q2}
    MaxTickets = 2
INVARIANTS
    KickedHoldNoTicket
SYMMETRY Symmetry
CHECK_DEADLOCK FALSE
