SPECIFICATION FairPathSpec
CONSTANTS
    Window = 2
    BitmapWidth = 2
    Pushers = {g1, g2}
    Capacity = 2
    MaxPackets = 4
INVARIANTS
    PathTypeOK
    NoLostWakeUp
    SentInOrder
    AcceptsExactly
PROPERTIES
    QueuedMovesOn
CHECK_DEADLOCK FALSE
