------------------------------ MODULE Coordinator ------------------------------
(* The coordinator's API over the room store and the ticket store               *)
(* (coordinator/internal/api/http.go, lobby.go, moderation.go; ticket/ticket.go;*)
(* the timer goroutine of cmd/coordinator/main.go).                             *)
(*                                                                              *)
(* Each store call is atomic, a handler is not: net/http runs every request in  *)
(* a goroutine of its own, and between two store calls of one handler any other *)
(* may run.  doing[q] is what request q has yet to do; the timer's is           *)
(* timerTodo.  A handler that is one store call is one step and needs no q.     *)
(*                                                                              *)
(* A ticket's token is 256 random bits and only ever compared; tickets is the   *)
(* set of the entries.  Chat announcements, moderation records and logs are     *)
(* left out.                                                                    *)
EXTENDS RoomStore

CONSTANTS
    Lifetime,        \* ticket.Lifetime
    FriendPairs,     \* the friendships the social store has: sets of two players
    AskedStatuses,   \* bound: the statuses hosts ask setStatus for
    Requests,        \* bound: the requests of several calls in progress at once
    MaxTickets       \* bound: tickets in the store at once

ASSUME CoordinatorAssumption ==
    /\ Lifetime \in Nat
    /\ 0 \notin GameModes
    /\ AskedStatuses \subseteq Statuses
    /\ MaxTickets \in Nat

VARIABLES
    tickets,     \* ticket.Store: claims with their expiry
    doing,       \* request -> what its handler has yet to do
    timerTodo,   \* rooms the running tick closed and has yet to revoke
    barred       \* players under a ban or a timeout

apiVars == <<tickets, doing, timerTodo, barred>>
vars    == <<rooms, indexes, unused, now, tickets, doing, timerTodo, barred>>

Idle == [do |-> "nothing"]

Init ==
    /\ StoreInit
    /\ tickets = {} /\ timerTodo = {} /\ barred = {}
    /\ doing = [q \in Requests |-> Idle]

Live(t) == now <= t.Expires

Begin(q, call)    == doing[q] = Idle /\ doing' = [doing EXCEPT ![q] = call]
Continue(q, call) == doing' = [doing EXCEPT ![q] = call]
Finish(q)         == Continue(q, Idle)

\* What a creation may ask for: NoMode and NoDoor are requests that name none.
NoMode == 0
NoDoor == [Privacy |-> "", Password |-> NoPassword, MinMMR |-> 0]
Doors  == [Privacy : PrivacyKinds, Password : Passwords \union {NoPassword}, MinMMR : MMRFloors]

\* Mutant of Issuing: the two identifiers of the claims swapped.
IssuingSwapped(id, p, ip) == [do |-> "issue", room |-> p, player |-> id, ip |-> ip]

Issuing(id, p, ip)    == [do |-> "issue", room |-> id, player |-> p, ip |-> ip]
RevokingOne(id, p)    == [do |-> "revoke_player", room |-> id, player |-> p]
RevokingRoom(id)      == [do |-> "revoke_room", room |-> id]

\* Moderators of a room have no entry in Addr: no handler seats one (JoinAdmin
\* has no caller), so a membership here is a player's or a watcher's.
TicketFor(id, p) ==
    IF MembershipGiven(rooms'[id], p) THEN Issuing(id, p, VirtualIP(rooms'[id], p)) ELSE Idle
--------------------------------------------------------------------------------
(* Ways in *)

AddTicket(id, p, ip) ==
    /\ Cardinality(tickets) < MaxTickets
    /\ tickets' = tickets \union
         {[PlayerID |-> p, RoomID |-> id, VirtualIP |-> ip, Expires |-> now + Lifetime]}

\* createRoom: barred, Create; then the ticket, the game mode and the door are
\* calls of their own.
CreateRoom(q, id, p, mode, door) ==
    /\ p \notin barred
    /\ Create(id, p)
    /\ Begin(q, [do |-> "issue_new", room |-> id, player |-> p,
                 ip |-> VirtualIP(rooms'[id], p), mode |-> mode, door |-> door])
    /\ UNCHANGED <<tickets, timerTodo, barred>>

IssueNew(q) ==
    /\ doing[q].do = "issue_new"
    /\ AddTicket(doing[q].room, doing[q].player, doing[q].ip)
    /\ Continue(q, [do |-> "mode", room |-> doing[q].room, player |-> doing[q].player,
                    mode |-> doing[q].mode, door |-> doing[q].door])
    /\ UNCHANGED <<storeVars, timerTodo, barred>>

\* No mode, or a refused one, leaves the room as it is and the creation goes on;
\* asking for no door ends it.
ChooseMode(q) ==
    LET c == doing[q] IN
    /\ c.do = "mode"
    /\ IF c.mode # NoMode /\ Stored(c.room) /\ MaySetGameMode(rooms[c.room], c.player)
       THEN SetRoomGameMode(c.room, c.player, c.mode) ELSE UNCHANGED storeVars
    /\ Continue(q, IF c.door = NoDoor THEN Idle
                   ELSE [do |-> "door", room |-> c.room, player |-> c.player, door |-> c.door])
    /\ UNCHANGED <<tickets, timerTodo, barred>>

MayHangDoor(c) ==
    /\ Stored(c.room)
    /\ MaySetPrivacy(rooms[c.room], c.player, c.door.Privacy, c.door.Password)

HangDoor(q) ==
    LET c == doing[q] IN
    /\ c.do = "door" /\ MayHangDoor(c)
    /\ SetRoomPrivacy(c.room, c.player, c.door.Privacy, c.door.Password, c.door.MinMMR)
    /\ Finish(q)
    /\ UNCHANGED <<tickets, timerTodo, barred>>

\* Mutant of UndoCreate: the tickets go, the room stays.
UndoCreateTicketsOnly(q) ==
    /\ doing[q].do = "door" /\ ~ MayHangDoor(doing[q])
    /\ Continue(q, RevokingRoom(doing[q].room))
    /\ UNCHANGED <<storeVars, tickets, timerTodo, barred>>

\* The door was refused: close the half-made room (the error of Close is
\* ignored) and go on to revoke its tickets.
UndoCreate(q) ==
    LET c == doing[q] IN
    /\ c.do = "door" /\ ~ MayHangDoor(c)
    /\ IF Stored(c.room) /\ rooms[c.room].HostID = c.player
       THEN CloseRoom(c.room, c.player) ELSE UNCHANGED storeVars
    /\ Continue(q, RevokingRoom(c.room))
    /\ UNCHANGED <<tickets, timerTodo, barred>>

\* Mutant of AskToEnter: the sanctions are not asked about.
AskToEnterBarred(q, id, p, mmr, password, watching) ==
    /\ Stored(id)
    /\ Begin(q, [do |-> "enter", room |-> id, watching |-> watching,
                 who |-> [ID |-> p, MMR |-> mmr, Password |-> password,
                          Friend |-> {rooms[id].HostID, p} \in FriendPairs, Admin |-> FALSE]])
    /\ UNCHANGED <<storeVars, tickets, timerTodo, barred>>

\* joinRoom and spectateRoom: barred and Get first; the applicant is assembled
\* from the room that was read.
AskToEnter(q, id, p, mmr, password, watching) ==
    /\ p \notin barred
    /\ Stored(id)
    /\ Begin(q, [do |-> "enter", room |-> id, watching |-> watching,
                 who |-> [ID |-> p, MMR |-> mmr, Password |-> password,
                          Friend |-> {rooms[id].HostID, p} \in FriendPairs, Admin |-> FALSE]])
    /\ UNCHANGED <<storeVars, tickets, timerTodo, barred>>

\* ... then the store decides; a join that seats somebody and cannot name the
\* host's address ends here too, without a ticket.
EnterRoom(q) ==
    LET c == doing[q] IN
    /\ c.do = "enter"
    /\ IF c.watching THEN JoinRoomObserver(c.room, c.who) ELSE JoinRoom(c.room, c.who)
    /\ Continue(q, TicketFor(c.room, c.who.ID))
    /\ UNCHANGED <<tickets, timerTodo, barred>>

RefuseEntry(q) ==
    LET c == doing[q] IN
    /\ c.do = "enter"
    /\ ~ IF c.watching THEN MayJoinObserver(c.room, c.who) ELSE MayJoin(c.room, c.who)
    /\ Finish(q)
    /\ UNCHANGED <<storeVars, tickets, timerTodo, barred>>

\* connectRoom: Membership asks whether p is seated, not whether the room goes on.
ConnectRoom(q, id, p) ==
    /\ SeatedIn(id, p) /\ MembershipGiven(rooms[id], p)
    /\ Begin(q, Issuing(id, p, VirtualIP(rooms[id], p)))
    /\ UNCHANGED <<storeVars, tickets, timerTodo, barred>>

Issue(q) ==
    /\ doing[q].do = "issue"
    /\ AddTicket(doing[q].room, doing[q].player, doing[q].ip)
    /\ Finish(q)
    /\ UNCHANGED <<storeVars, timerTodo, barred>>
--------------------------------------------------------------------------------
(* Ways out *)

\* Mutant of LeaveHandler: only the end of the room revokes.
LeaveHandlerEndOnly(q, id, p) ==
    /\ LeaveRoom(id, p)
    /\ Begin(q, IF LeaveEnds(id, p) THEN RevokingRoom(id) ELSE Idle)
    /\ UNCHANGED <<tickets, timerTodo, barred>>

LeaveHandler(q, id, p) ==
    /\ LeaveRoom(id, p)
    /\ Begin(q, IF LeaveEnds(id, p) THEN RevokingRoom(id) ELSE RevokingOne(id, p))
    /\ UNCHANGED <<tickets, timerTodo, barred>>

\* Mutant of KickHandler: the ticket of the person kicked is left alone.
KickHandlerSeatOnly(q, id, actor, target) ==
    /\ KickPlayer(id, actor, target)
    /\ Begin(q, Idle)
    /\ UNCHANGED <<tickets, timerTodo, barred>>

KickHandler(q, id, actor, target) ==
    /\ KickPlayer(id, actor, target)
    /\ Begin(q, RevokingOne(id, target))
    /\ UNCHANGED <<tickets, timerTodo, barred>>

\* moderation.go, closeRoom.
StaffCloseRoom(q, id) ==
    /\ CloseRoom(id, Nobody)
    /\ Begin(q, RevokingRoom(id))
    /\ UNCHANGED <<tickets, timerTodo, barred>>

\* moderation.go, sanction: the ban or timeout is recorded, then evict reads the
\* list of rooms, then leaves the rooms it found the player in and revokes.
\* Nobody is in two (OneRoomAtATime), so evict finds one room or none.
Sanction(q, p) ==
    /\ barred' = barred \union {p}
    /\ Begin(q, [do |-> "evict", player |-> p])
    /\ UNCHANGED <<storeVars, tickets, timerTodo>>

EvictList(q) ==
    LET c == doing[q] IN
    /\ c.do = "evict"
    /\ \/ RoomsOf(c.player) = {} /\ Finish(q)
       \/ \E id \in RoomsOf(c.player) :
             Continue(q, [do |-> "evict_from", room |-> id, player |-> c.player])
    /\ UNCHANGED <<storeVars, tickets, timerTodo, barred>>

EvictFrom(q) ==
    LET c == doing[q] IN
    /\ c.do = "evict_from"
    /\ IF Stored(c.room)
       THEN /\ LeaveRoom(c.room, c.player)
            /\ Continue(q, IF LeaveEnds(c.room, c.player) THEN RevokingRoom(c.room)
                           ELSE RevokingOne(c.room, c.player))
       ELSE UNCHANGED storeVars /\ Finish(q)
    /\ UNCHANGED <<tickets, timerTodo, barred>>

\* A timeout that runs out, or a sanction lifted.
Pardon(p) ==
    /\ p \in barred
    /\ barred' = barred \ {p}
    /\ UNCHANGED <<storeVars, tickets, doing, timerTodo>>

RevokePlayerRoom(q) ==
    LET c == doing[q] IN
    /\ c.do = "revoke_player"
    /\ tickets' = {t \in tickets : ~ (t.PlayerID = c.player /\ t.RoomID = c.room)}
    /\ Finish(q)
    /\ UNCHANGED <<storeVars, timerTodo, barred>>

RevokeRoom(q) ==
    /\ doing[q].do = "revoke_room"
    /\ tickets' = {t \in tickets : t.RoomID # doing[q].room}
    /\ Finish(q)
    /\ UNCHANGED <<storeVars, timerTodo, barred>>
--------------------------------------------------------------------------------
(* Handlers that are one store call *)

RoomSetting(id) ==
    \/ \E p \in Players :
          \/ \E seat \in Seats : MoveSeat(id, p, seat, FALSE)
          \/ \E seat \in GallerySeats : MoveSeat(id, p, seat, TRUE)
    \/ \E actor \in Players :
          \/ \E status \in AskedStatuses : SetRoomStatus(id, actor, status)
          \/ \E mode \in GameModes : SetRoomGameMode(id, actor, mode)
          \/ \E kind \in PrivacyKinds, password \in Passwords \union {NoPassword},
                floor \in MMRFloors : SetRoomPrivacy(id, actor, kind, password, floor)
    \/ \E actor \in Players, target \in Invitees :
          InvitePlayer(id, actor, target) \/ UninvitePlayer(id, actor, target)

SettingHandler(id) == RoomSetting(id) /\ UNCHANGED apiVars

\* changeHost: SetHost never names anybody whose address moved, so no ticket is
\* revoked.
ChangeHostHandler(id, p) == ChangeHost(id, p) /\ UNCHANGED apiVars

\* renewLease: the watchdog's call, which asks the ticket store alone.
RenewLease(t) ==
    /\ Live(t)
    /\ tickets' = (tickets \ {t}) \union {[t EXCEPT !.Expires = now + Lifetime]}
    /\ UNCHANGED <<storeVars, doing, timerTodo, barred>>
--------------------------------------------------------------------------------
(* The timer goroutine: Tick, then revoke each room the tick closed, then purge *)

\* createRoom has just recorded its caller as seen, and is over long before a
\* player seen that recently counts as gone.
SeenJustNow == {doing[q].player : q \in {q \in Requests : doing[q].do \in {"issue_new", "mode", "door"}}}

TimerTick ==
    /\ timerTodo = {}
    /\ \E online \in SUBSET HostsAsked : \E playing \in SUBSET HostsAsked :
          /\ SeenJustNow \intersect HostsAsked \subseteq online
          /\ Tick(online, playing)
          /\ timerTodo' = ClosedByTick(online, playing)
          /\ tickets' = IF timerTodo' = {} THEN {t \in tickets : Live(t)} ELSE tickets
    /\ UNCHANGED <<doing, barred>>

\* board.Drop aside, the last revocation is followed by Purge.
TimerRevoke(id) ==
    /\ id \in timerTodo
    /\ timerTodo' = timerTodo \ {id}
    /\ tickets' = {t \in tickets : t.RoomID # id /\ (timerTodo' = {} => Live(t))}
    /\ UNCHANGED <<storeVars, doing, barred>>

Clock == PassTime /\ UNCHANGED apiVars
--------------------------------------------------------------------------------
Request(q, id) ==
    \/ \E p \in Players :
          \/ \E mode \in GameModes \union {NoMode}, door \in Doors \union {NoDoor} :
                CreateRoom(q, id, p, mode, door)
          \/ \E mmr \in MMRs, password \in Passwords \union {NoPassword}, watching \in BOOLEAN :
                AskToEnter(q, id, p, mmr, password, watching)
          \/ ConnectRoom(q, id, p)
          \/ LeaveHandler(q, id, p)
    \/ \E actor, target \in Players : KickHandler(q, id, actor, target)
    \/ StaffCloseRoom(q, id)

Resume(q) ==
    \/ IssueNew(q) \/ ChooseMode(q) \/ HangDoor(q) \/ UndoCreate(q)
    \/ EnterRoom(q) \/ RefuseEntry(q) \/ Issue(q)
    \/ EvictList(q) \/ EvictFrom(q)
    \/ RevokePlayerRoom(q) \/ RevokeRoom(q)

Next ==
    \/ \E q \in Requests :
          \/ \E id \in RoomIds : Request(q, id)
          \/ \E p \in Players : Sanction(q, p)
          \/ Resume(q)
    \/ \E id \in RoomIds :
          \/ SettingHandler(id)
          \/ \E p \in Players : ChangeHostHandler(id, p)
          \/ TimerRevoke(id)
    \/ \E p \in Players : Pardon(p)
    \/ \E t \in tickets : RenewLease(t)
    \/ TimerTick
    \/ Clock

Spec == Init /\ [][Next]_vars
--------------------------------------------------------------------------------
\* The state of the API beside the store's.
ApiTypeOK ==
    /\ \A t \in tickets : DOMAIN t = {"PlayerID", "RoomID", "VirtualIP", "Expires"}
                          /\ t.PlayerID \in Players /\ t.RoomID \in RoomIds /\ t.Expires \in Nat
    /\ \A q \in Requests : doing[q].do \notin {"nothing", "evict"} => doing[q].room \in RoomIds
    /\ timerTodo \subseteq RoomIds /\ barred \subseteq Players

\* No request is between two of its calls, and the timer is not in its loop.
AtRest == (\A q \in Requests : doing[q] = Idle) /\ timerTodo = {}

\* A ticket opens the relay to its holder: outside requests in progress, a live
\* ticket for a room that is going on belongs to somebody seated there and names
\* the very address they hold.
TicketsFollowMembership ==
    AtRest => \A t \in tickets : Live(t) /\ IsOpen(t.RoomID) =>
        /\ SeatedIn(t.RoomID, t.PlayerID)
        /\ t.VirtualIP = VirtualIP(rooms[t.RoomID], t.PlayerID)

\* Nobody under a ban or a timeout sits in a room that is going on.
BarredSitNowhere == AtRest => \A p \in barred : RoomsOf(p) = {}

\* Somebody under a kick block holds no live ticket for that room.
KickedHoldNoTicket ==
    AtRest => \A t \in tickets :
        Live(t) /\ IsOpen(t.RoomID) => ~ KickBlocked(rooms[t.RoomID], t.PlayerID, now)

\* A creation that is done with its door leaves a room with that door, or none: a
\* public room never stands where somebody asked for a private one (createRoom).
NoRoomWithoutItsDoor ==
    [][\A q \in Requests : doing[q].do = "door" /\ doing'[q] # doing[q] =>
          LET id == doing[q].room  door == doing[q].door
          IN  rooms'[id] # Absent => rooms'[id].Privacy = door.Privacy
                                     /\ rooms'[id].MinMMR = door.MinMMR]_vars
=================================================================================
