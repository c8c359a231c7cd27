SPECIFICATION Spec
CONSTANTS
    Players = {p1, p2}
    RoomIds = {r1}
    Nobody = Nobody
    Absent = Absent
    NoPassword = NoPassword
    Passwords = {pw}
    PrivacyKinds = {"public", "password"}
    MMRFloors = {0}
    MMRs = {1}
    Invitees = {}
    GameModes = {1}
    DefaultGameMode = 1
    MaxRooms = 1
    PlayerSlots = 2
    ObserverSlots = 1
    AdminSlots = 0
    ClosedRoomLinger = 0
    KickBlockFirst = 1
    KickBlockStep = 1
    MaxTime = 1
    MaxKicks = 1
    Lifetime = 1
    FriendPairs = {}
    AskedStatuses = {"closed"}
    Requests = {q1}
    MaxTickets = 2
INVARIANTS
    ApiTypeOK
    TicketsFollowMembership
    BarredSitNowhere
    KickedHoldNoTicket
PROPERTIES
    NoRoomWithoutItsDoor
SYMMETRY Symmetry
CHECK_DEADLOCK FALSE
