SPECIFICATION Spec
CONSTANTS
    Parts = {"service", "app"}
    Tickets = {1, 2}
    Conns = {c1, c2}
    Callers = {q1}
    Interval = 1
    LocalExpiry = 1
    Timeout = 1
    TicketTTL = 2
    MaxTurns = 4
    Stays = {1, 2}
    Rooms = {r1, r2}
    Jobs = {j1, j2}
    MaxMoves = 3
INVARIANTS
    RevocationBites
PROPERTIES
    ImplementsNetwork
    NoLateHandshake
    
CHECK_DEADLOCK FALSE
