SPECIFICATION PeopleSpec
CONSTANTS
    Members = {owner, ann}
    Persons = {x, y, z}
    Players = {x, y}
    Visitors = {v}
    Nobody = Nobody
    AtOnce = 1
    HeadAdmin = owner
    Passphrases = {old, new}
    FirstPassword = old
    Tokens = {x, y}
    SessionLifetime = 1
    SanctionKinds = {"ban"}
    Durations = {0, 1}
    Labels = {noob}
    Banners = {b1}
    StrayLifts = FALSE
    MaxClock = 3
    MaxActs = 4
    MaxFriends = 1
    PollLimit = 1
    OpenRooms = {r1}
    StaleInboxes = FALSE
    MaxRows = 1
    Lobby = lobby
    RoomIds = {r1}
    History = 2
    MaxPosts = 3
    MaxLives = 2
    IdleWindow = 1
    MaxTime = 2
    MaxStarts = 2
    Raters = {v}
    Scores = {0, 1, 2}
    Interval = 2
    LastDay = 6
INVARIANTS
    PeopleTypeOK
    SessionsFollowTheAccount
    DisabledFollowsBans
    
    RailsAgree
    
    SeatedAreKnown
    FlushMissesOnlyTheGap
    DoorsCatchUp
SYMMETRY Symmetry
CHECK_DEADLOCK FALSE
