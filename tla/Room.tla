---------------------------------- MODULE Room ----------------------------------
(* One lobby: the Room value of coordinator/internal/room/state.go and          *)
(* privacy.go, and what each of its methods does to it.  A method that can      *)
(* refuse is two operators here, its guard and its effect; the store           *)
(* (RoomStore.tla) calls them under its mutex.                                  *)
(*                                                                              *)
(* Data left out: the room's name, its description and the host's self-reported *)
(* latency, which decide nothing.  A password and its hash are one value        *)
(* (package secret is taken to verify exactly the password it hashed).          *)
EXTENDS Integers, Ipam

CONSTANTS
    Players,           \* account identifiers
    Nobody,            \* the empty identifier "": an empty seat
    Passwords,         \* room passwords in use
    NoPassword,        \* the empty password, and the empty hash
    PrivacyKinds,      \* the kinds of door the hosts choose from
    MMRFloors,         \* the minimum MMRs the hosts choose from
    GameModes,         \* the Dota modes on offer
    DefaultGameMode,   \* gamemode.Default
    ClosedRoomLinger,  \* how long a closed room stays readable
    KickBlockFirst,    \* the first block, and what each further kick adds
    KickBlockStep

ASSUME RoomAssumption ==
    /\ Nobody \notin Players
    /\ NoPassword \notin Passwords
    /\ PrivacyKinds \subseteq {"public", "password", "friends", "invite"}
    /\ "public" \in PrivacyKinds
    /\ MMRFloors \subseteq Nat /\ 0 \in MMRFloors
    /\ DefaultGameMode \in GameModes
    /\ ClosedRoomLinger \in Nat
    /\ KickBlockFirst \in Nat /\ KickBlockStep \in Nat

Statuses == {"open", "locked_in_game", "open_to_new_players", "closed"}
Persons  == Players \union {Nobody}

\* Go's zero time.Time, so long ago that any linger after it has run out.
ZeroTime == 0 - ClosedRoomLinger - 1

RoomRecord ==
    [ Index : RoomIndexes, HostID : Players, Status : Statuses,
      GameMode : GameModes, Privacy : PrivacyKinds, MinMMR : MMRFloors,
      PasswordHash : Passwords \union {NoPassword}, Invites : SUBSET Players,
      Slots : [Seats -> Persons], Observers : [GallerySeats -> Persons],
      Admins : [AdminSeats -> Persons], Addr : [AddrIndexes -> Persons],
      HostSlot : Int, HostWatching : BOOLEAN,
      KickedUntil : [Players -> Nat], KickCount : [Players -> Nat],
      ClosedAt : Int, HostInGame : BOOLEAN ]

\* What the door is told about somebody (privacy.go, Applicant).
Applicant ==
    [ ID : Players, MMR : Nat, Password : Passwords \union {NoPassword},
      Friend : BOOLEAN, Admin : BOOLEAN ]
--------------------------------------------------------------------------------
(* Seats and addresses *)

Holds(group, p) == \E i \in DOMAIN group : group[i] = p

\* i is the first empty place: what a loop that stops at the first "" finds.
LowestFree(group, i) ==
    /\ i \in DOMAIN group
    /\ group[i] = Nobody
    /\ \A j \in DOMAIN group : group[j] = Nobody => i <= j

HasFree(group) == \E i \in DOMAIN group : group[i] = Nobody

Without(group, p) == [i \in DOMAIN group |-> IF group[i] = p THEN Nobody ELSE group[i]]

\* SlotOf: the kinds of seat, and whether somebody has any.
IsPlaying(r, p)  == Holds(r.Slots, p)
IsWatching(r, p) == ~ IsPlaying(r, p) /\ Holds(r.Observers, p)
IsMember(r, p)   == Holds(r.Slots, p) \/ Holds(r.Observers, p)
IsSeated(r, p)   == IsMember(r, p) \/ Holds(r.Admins, p)

\* takeAddress: whoever holds one keeps it; otherwise the lowest free one, and
\* none, silently, when the pool is empty.
TakeAddress(addr, p) ==
    IF Holds(addr, p) \/ ~ HasFree(addr)
    THEN addr
    ELSE [addr EXCEPT ![CHOOSE i \in DOMAIN addr : LowestFree(addr, i)] = p]

\* AddressOf, where Holds(r.Addr, p).
AddressOf(r, p) == CHOOSE i \in DOMAIN r.Addr : r.Addr[i] = p
--------------------------------------------------------------------------------
(* The life of a room *)

IsClosed(r) == r.Status = "closed"
Locked(r) ==
    \/ r.Status = "locked_in_game"
    \/ r.HostInGame /\ r.Status # "open_to_new_players"

NewRoom(index, host) ==
    [ Index |-> index, HostID |-> host, Status |-> "open",
      GameMode |-> DefaultGameMode, Privacy |-> "public", MinMMR |-> 0,
      PasswordHash |-> NoPassword, Invites |-> {},
      Slots |-> [i \in Seats |-> IF i = 0 THEN host ELSE Nobody],
      Observers |-> [i \in GallerySeats |-> Nobody],
      Admins |-> [i \in AdminSeats |-> Nobody],
      Addr |-> [i \in AddrIndexes |-> IF i = 0 THEN host ELSE Nobody],
      HostSlot |-> 0, HostWatching |-> FALSE,
      KickedUntil |-> [p \in Players |-> 0], KickCount |-> [p \in Players |-> 0],
      ClosedAt |-> ZeroTime, HostInGame |-> FALSE ]

\* Mutant of Close: a second end overwrites the moment of the first.
CloseAgain(r, now) == [r EXCEPT !.Status = "closed", !.ClosedAt = now]

\* Close: closing twice keeps the first time.
Close(r, now) ==
    IF IsClosed(r) THEN r ELSE [r EXCEPT !.Status = "closed", !.ClosedAt = now]

\* Out of every group of seats and out of the address pool.
Removed(r, p) ==
    [r EXCEPT !.Slots = Without(r.Slots, p), !.Observers = Without(r.Observers, p),
              !.Admins = Without(r.Admins, p), !.Addr = Without(r.Addr, p)]

\* Mutants of Leave: the host's leaving ends nothing; the room outlives its host
\* with nobody's name on it; the address stays behind.
LeaveAndGoOn(r, p, now)  == Removed(r, p)
LeaveNobodyHost(r, p, now) == [Removed(r, p) EXCEPT !.HostID = IF @ = p THEN Nobody ELSE @]
LeaveKeepingAddress(r, p, now) ==
    LET out == [Removed(r, p) EXCEPT !.Addr = r.Addr]
    IN  IF p = r.HostID THEN Close(out, now) ELSE out

\* Leave: the host takes the room with them.
Leave(r, p, now) ==
    IF p = r.HostID THEN Close(Removed(r, p), now) ELSE Removed(r, p)

\* Mutant of SeeHost: an ended room is looked at again and ends again.
SeeHostAgain(r, online, inGame, now) ==
    LET seen == [r EXCEPT !.HostInGame = inGame]
    IN  IF online /\ ~ IsClosed(r) THEN seen
        ELSE [seen EXCEPT !.Status = "closed", !.ClosedAt = now]

\* SeeHost: a host who cannot be seen closes the room on this call.
SeeHost(r, online, inGame, now) ==
    IF IsClosed(r) THEN r
    ELSE LET seen == [r EXCEPT !.HostInGame = inGame]
         IN  IF online THEN seen ELSE Close(seen, now)
--------------------------------------------------------------------------------
(* The door *)

KickBlocked(r, p, now) == now < r.KickedUntil[p]

\* Mutant of Admissible: the kick block is left to each kind of seat to ask for.
AdmissibleBlocked(r, p, now) == ~ IsClosed(r) /\ ~ IsSeated(r, p)

\* admissible: what every kind of seat asks first.
Admissible(r, p, now) == ~ IsClosed(r) /\ ~ KickBlocked(r, p, now) /\ ~ IsSeated(r, p)

\* knock: the MMR floor and the room's privacy, for everybody but staff.
Knock(r, who) ==
    \/ who.Admin
    \/ /\ r.MinMMR > 0 => who.MMR >= r.MinMMR
       /\ r.Privacy = "password" => who.Password # NoPassword /\ who.Password = r.PasswordHash
       /\ r.Privacy = "friends" => who.Friend
       /\ r.Privacy = "invite" => who.ID \in r.Invites

MayEnter(r, who, now) == Admissible(r, who.ID, now) /\ ~ Locked(r) /\ Knock(r, who)

Join(r, p, seat) ==
    [r EXCEPT !.Slots[seat] = p, !.Addr = TakeAddress(r.Addr, p)]

JoinObserver(r, p, seat) ==
    [r EXCEPT !.Observers[seat] = p, !.Addr = TakeAddress(r.Addr, p)]

JoinAdmin(r, p, seat) == [r EXCEPT !.Admins[seat] = p]
--------------------------------------------------------------------------------
(* What people in the room do *)

\* Mutant of MayMove: Locked, as at the door, instead of the lock of its own.
MayMoveUnlessLocked(r, p, seat, watching) ==
    /\ ~ IsClosed(r) /\ ~ Locked(r)
    /\ IsMember(r, p)
    /\ IF watching THEN seat \in GallerySeats /\ r.Observers[seat] = Nobody
                   ELSE seat \in Seats /\ r.Slots[seat] = Nobody

\* Move: the lock here is not Locked: a host in a match stops it even in a room
\* reopened to new players.  Asking for the seat one has is granted and changes
\* nothing, so it is no step.
MayMove(r, p, seat, watching) ==
    /\ ~ IsClosed(r)
    /\ r.Status # "locked_in_game" /\ ~ r.HostInGame
    /\ IsMember(r, p)
    /\ IF watching THEN seat \in GallerySeats /\ r.Observers[seat] = Nobody
                   ELSE seat \in Seats /\ r.Slots[seat] = Nobody

Reseated(r, p, seat, watching) ==
    LET up == [r EXCEPT !.Slots = Without(r.Slots, p), !.Observers = Without(r.Observers, p)]
    IN  IF watching THEN [up EXCEPT !.Observers[seat] = p] ELSE [up EXCEPT !.Slots[seat] = p]

\* Mutants of Move: a host who moves is still looked for in the old seat; who
\* moves gets an address anew.
MoveForgettingHost(r, p, seat, watching) == Reseated(r, p, seat, watching)
MoveReaddressing(r, p, seat, watching) ==
    [Reseated(r, p, seat, watching) EXCEPT
        !.Addr = TakeAddress(Without(r.Addr, p), p),
        !.HostSlot = IF p = r.HostID THEN seat ELSE @,
        !.HostWatching = IF p = r.HostID THEN watching ELSE @]

Move(r, p, seat, watching) ==
    IF p = r.HostID
    THEN [Reseated(r, p, seat, watching) EXCEPT !.HostSlot = seat, !.HostWatching = watching]
    ELSE Reseated(r, p, seat, watching)

KickBlockFor(count) == KickBlockFirst + (count - 1) * KickBlockStep

\* Kick: the target need not be seated, and the room may be closed.
MayKick(r, actor, target) == actor = r.HostID /\ target # r.HostID

Kick(r, target, now) ==
    LET count == r.KickCount[target] + 1
    IN  [Leave(r, target, now) EXCEPT !.KickCount[target] = count,
                                      !.KickedUntil[target] = now + KickBlockFor(count)]

\* SetStatus takes any of the four statuses, "closed" included, and assigns it.
MaySetStatus(r, actor) == actor = r.HostID /\ ~ IsClosed(r)
SetStatus(r, status)   == [r EXCEPT !.Status = status]

\* SetHost: only to somebody sitting in a playing seat; asking for the present
\* host changes nothing.
MaySetHost(r, p) == ~ IsClosed(r) /\ p # r.HostID /\ IsPlaying(r, p)
SetHost(r, p) ==
    [r EXCEPT !.HostID = p, !.HostWatching = FALSE,
              !.HostSlot = CHOOSE i \in Seats : r.Slots[i] = p]

\* SetPrivacy: a password room keeps the password it has when none is given; any
\* other kind forgets it.  Nobody already inside is asked to leave.
MaySetPrivacy(r, actor, kind, password) ==
    /\ actor = r.HostID /\ ~ IsClosed(r)
    /\ kind = "password" => password # NoPassword \/ r.PasswordHash # NoPassword

SetPrivacy(r, kind, password, floor) ==
    [r EXCEPT !.Privacy = kind, !.MinMMR = floor,
              !.PasswordHash = CASE kind # "password" -> NoPassword
                                 [] kind = "password" /\ password # NoPassword -> password
                                 [] OTHER -> @]

MayInvite(r, actor)   == actor = r.HostID /\ ~ IsClosed(r)
Invite(r, target)     == [r EXCEPT !.Invites = @ \union {target}]
MayUninvite(r, actor) == actor = r.HostID
Uninvite(r, target)   == [r EXCEPT !.Invites = @ \ {target}]

MaySetGameMode(r, actor) == actor = r.HostID /\ ~ Locked(r)
SetGameMode(r, mode)     == [r EXCEPT !.GameMode = mode]
=================================================================================
