------------------------------- MODULE RoomStore -------------------------------
(* The coordinator's room store (coordinator/internal/room/store.go).  Every    *)
(* method takes the store's one mutex for its whole body, so each is one        *)
(* atomic action.  A call the code refuses changes nothing and is no step; a    *)
(* call that changes the room and then answers an error is still a step (see    *)
(* MembershipGiven).                                                            *)
(*                                                                              *)
(* The host facts Tick asks for (player registry: last heartbeat, Dota          *)
(* running) are inputs here.                                                    *)
EXTENDS Room, FiniteSets

CONSTANTS
    RoomIds,     \* identifiers newRoomID may draw, each at most once
    Absent,      \* no room under that identifier, or no room at that index
    MMRs,        \* the MMRs applicants have
    Invitees,    \* bound: the people hosts invite
    MaxTime,     \* bound: the clock stops there
    MaxKicks     \* bound: kicks of one person from one room

ASSUME StoreAssumption ==
    /\ Absent \notin RoomIds /\ Absent \notin RoomRecord
    /\ MMRs \subseteq Nat /\ Invitees \subseteq Players
    /\ MaxTime \in Nat /\ MaxKicks \in Nat

VARIABLES
    rooms,       \* Store.rooms: id -> room, or Absent
    indexes,     \* Store.indexes: room index -> id, or Absent
    unused,      \* identifiers not drawn yet (8 random bytes never repeat)
    now          \* the clock the callers read

storeVars == <<rooms, indexes, unused, now>>

Stored(id)    == rooms[id] # Absent
IsOpen(id)    == Stored(id) /\ ~ IsClosed(rooms[id])
SeatedIn(id, p) == Stored(id) /\ IsSeated(rooms[id], p)

\* RoomOf / roomOfLocked: the rooms somebody is seated in, ended ones aside.
RoomsOf(p) == {id \in RoomIds : IsOpen(id) /\ IsSeated(rooms[id], p)}

\* Mutant of NotElsewhere: only the rooms one hosts count.
NotElsewhereHosting(p, wanted) ==
    \A id \in RoomIds \ {wanted} : IsOpen(id) => rooms[id].HostID # p

\* elsewhere, negated: p is in no other open room than wanted.
NotElsewhere(p, wanted) == RoomsOf(p) \subseteq {wanted}

\* membershipFor's answer, or an error: the member and the host both hold an
\* address, and the host's is one SlotIP accepts.
MembershipGiven(r, p) ==
    /\ Holds(r.Addr, p)
    /\ Holds(r.Addr, r.HostID) /\ AddressOf(r, r.HostID) \in SlotIPRange

VirtualIP(r, p) == MemberIP(r.Index, AddressOf(r, p))
HostIP(r)       == SlotIP(r.Index, AddressOf(r, r.HostID))

StoreInit ==
    /\ rooms = [id \in RoomIds |-> Absent]
    /\ indexes = [i \in RoomIndexes |-> Absent]
    /\ unused = RoomIds
    /\ now = 0
--------------------------------------------------------------------------------
(* Opening, joining, leaving *)

\* Mutant of FreeIndex: an index is free from its room's end, not from its sweep.
FreeIndexOnceEnded(i) ==
    LET free == {j \in RoomIndexes : indexes[j] \notin {id \in RoomIds : IsOpen(id)}}
    IN  i \in free /\ \A j \in free : i <= j

FreeIndex(i) ==
    /\ i \in RoomIndexes /\ indexes[i] = Absent
    /\ \A j \in RoomIndexes : indexes[j] = Absent => i <= j

Create(id, host) ==
    /\ RoomsOf(host) = {}
    /\ id \in unused
    /\ \E i \in RoomIndexes :
          /\ FreeIndex(i)
          /\ rooms' = [rooms EXCEPT ![id] = NewRoom(i, host)]
          /\ indexes' = [indexes EXCEPT ![i] = id]
    /\ unused' = unused \ {id}
    /\ UNCHANGED now

MayJoin(id, who) ==
    /\ NotElsewhere(who.ID, id)
    /\ Stored(id) /\ MayEnter(rooms[id], who, now) /\ HasFree(rooms[id].Slots)

JoinRoom(id, who) ==
    /\ MayJoin(id, who)
    /\ \E seat \in Seats :
          /\ LowestFree(rooms[id].Slots, seat)
          /\ rooms' = [rooms EXCEPT ![id] = Join(@, who.ID, seat)]
    /\ UNCHANGED <<indexes, unused, now>>

MayJoinObserver(id, who) ==
    /\ NotElsewhere(who.ID, id)
    /\ Stored(id) /\ MayEnter(rooms[id], who, now) /\ HasFree(rooms[id].Observers)

JoinRoomObserver(id, who) ==
    /\ MayJoinObserver(id, who)
    /\ \E seat \in GallerySeats :
          /\ LowestFree(rooms[id].Observers, seat)
          /\ rooms' = [rooms EXCEPT ![id] = JoinObserver(@, who.ID, seat)]
    /\ UNCHANGED <<indexes, unused, now>>

\* Neither the lock nor the door stops a moderator; a kick block does.
JoinRoomAdmin(id, p) ==
    /\ NotElsewhere(p, id)
    /\ Stored(id)
    /\ Admissible(rooms[id], p, now)
    /\ \E seat \in AdminSeats :
          /\ LowestFree(rooms[id].Admins, seat)
          /\ rooms' = [rooms EXCEPT ![id] = JoinAdmin(@, p, seat)]
    /\ UNCHANGED <<indexes, unused, now>>

\* Whoever asks, seated or not, and after the end too; the answer is whether
\* this ended the room.
LeaveRoom(id, p) ==
    /\ Stored(id)
    /\ rooms' = [rooms EXCEPT ![id] = Leave(@, p, now)]
    /\ UNCHANGED <<indexes, unused, now>>

LeaveEnds(id, p) == IsOpen(id) /\ p = rooms[id].HostID

\* Close: the room and its index go at once, without lingering.  The actor is
\* the host, or Nobody for the coordinator itself.
CloseRoom(id, actor) ==
    /\ Stored(id)
    /\ actor = Nobody \/ actor = rooms[id].HostID
    /\ rooms' = [rooms EXCEPT ![id] = Absent]
    /\ indexes' = [indexes EXCEPT ![rooms[id].Index] = Absent]
    /\ UNCHANGED <<unused, now>>
--------------------------------------------------------------------------------
(* Inside a room *)

MoveSeat(id, p, seat, watching) ==
    /\ Stored(id)
    /\ MayMove(rooms[id], p, seat, watching)
    /\ rooms' = [rooms EXCEPT ![id] = Move(@, p, seat, watching)]
    /\ UNCHANGED <<indexes, unused, now>>

KickPlayer(id, actor, target) ==
    /\ Stored(id)
    /\ MayKick(rooms[id], actor, target)
    /\ rooms[id].KickCount[target] < MaxKicks
    /\ rooms' = [rooms EXCEPT ![id] = Kick(@, target, now)]
    /\ UNCHANGED <<indexes, unused, now>>

SetRoomStatus(id, actor, status) ==
    /\ Stored(id)
    /\ MaySetStatus(rooms[id], actor)
    /\ rooms' = [rooms EXCEPT ![id] = SetStatus(@, status)]
    /\ UNCHANGED <<indexes, unused, now>>

ChangeHost(id, p) ==
    /\ Stored(id)
    /\ MaySetHost(rooms[id], p)
    /\ rooms' = [rooms EXCEPT ![id] = SetHost(@, p)]
    /\ UNCHANGED <<indexes, unused, now>>

SetRoomPrivacy(id, actor, kind, password, floor) ==
    /\ Stored(id)
    /\ MaySetPrivacy(rooms[id], actor, kind, password)
    /\ rooms' = [rooms EXCEPT ![id] = SetPrivacy(@, kind, password, floor)]
    /\ UNCHANGED <<indexes, unused, now>>

InvitePlayer(id, actor, target) ==
    /\ Stored(id)
    /\ MayInvite(rooms[id], actor)
    /\ rooms' = [rooms EXCEPT ![id] = Invite(@, target)]
    /\ UNCHANGED <<indexes, unused, now>>

UninvitePlayer(id, actor, target) ==
    /\ Stored(id)
    /\ MayUninvite(rooms[id], actor)
    /\ rooms' = [rooms EXCEPT ![id] = Uninvite(@, target)]
    /\ UNCHANGED <<indexes, unused, now>>

SetRoomGameMode(id, actor, mode) ==
    /\ Stored(id)
    /\ MaySetGameMode(rooms[id], actor)
    /\ rooms' = [rooms EXCEPT ![id] = SetGameMode(@, mode)]
    /\ UNCHANGED <<indexes, unused, now>>
--------------------------------------------------------------------------------
(* Time *)

\* What a tick makes of one room, given who is online and who is in a match.
Ticked(id, online, playing) ==
    SeeHost(rooms[id], rooms[id].HostID \in online, rooms[id].HostID \in playing, now)

Swept(id, online, playing) ==
    /\ Stored(id)
    /\ IsClosed(Ticked(id, online, playing))
    /\ now > Ticked(id, online, playing).ClosedAt + ClosedRoomLinger

\* Mutant of Tick: the record goes and the index stays taken.
TickLeakingIndex(online, playing) ==
    /\ rooms' = [id \in RoomIds |->
                    IF ~ Stored(id) \/ Swept(id, online, playing)
                    THEN Absent ELSE Ticked(id, online, playing)]
    /\ UNCHANGED <<indexes, unused, now>>

\* Tick: every room sees its host, and a room closed longer than the linger
\* loses its record and its index.
Tick(online, playing) ==
    /\ rooms' = [id \in RoomIds |->
                    IF ~ Stored(id) \/ Swept(id, online, playing)
                    THEN Absent ELSE Ticked(id, online, playing)]
    /\ indexes' = [i \in RoomIndexes |->
                    IF i \in {rooms[id].Index : id \in {k \in RoomIds : Swept(k, online, playing)}}
                    THEN Absent ELSE indexes[i]]
    /\ UNCHANGED <<unused, now>>

\* What Tick answers: the rooms that closed on this tick.
ClosedByTick(online, playing) ==
    {id \in RoomIds : IsOpen(id) /\ IsClosed(Ticked(id, online, playing))}

PassTime == now < MaxTime /\ now' = now + 1 /\ UNCHANGED <<rooms, indexes, unused>>
--------------------------------------------------------------------------------
Applicants ==
    [ ID : Players, MMR : MMRs, Password : Passwords \union {NoPassword},
      Friend : BOOLEAN, Admin : BOOLEAN ]

RoomCall(id) ==
    \/ \E p \in Players : Create(id, p)
    \/ \E who \in Applicants : JoinRoom(id, who) \/ JoinRoomObserver(id, who)
    \/ \E p \in Players : JoinRoomAdmin(id, p) \/ LeaveRoom(id, p)
    \/ \E actor \in Persons : CloseRoom(id, actor)
    \/ \E p \in Players :
          \/ \E seat \in Seats : MoveSeat(id, p, seat, FALSE)
          \/ \E seat \in GallerySeats : MoveSeat(id, p, seat, TRUE)
    \/ \E actor, target \in Players : KickPlayer(id, actor, target)
    \/ \E actor \in Players, target \in Invitees :
          InvitePlayer(id, actor, target) \/ UninvitePlayer(id, actor, target)
    \/ \E actor \in Players :
          \/ \E status \in Statuses : SetRoomStatus(id, actor, status)
          \/ \E mode \in GameModes : SetRoomGameMode(id, actor, mode)
          \/ \E kind \in PrivacyKinds, password \in Passwords \union {NoPassword},
                floor \in MMRFloors : SetRoomPrivacy(id, actor, kind, password, floor)
    \/ \E p \in Players : ChangeHost(id, p)

\* The facts are asked per room, of its host; those of ended rooms are ignored.
HostsAsked == {rooms[id].HostID : id \in {id \in RoomIds : IsOpen(id)}}
TickNow == \E online \in SUBSET HostsAsked : \E playing \in SUBSET HostsAsked : Tick(online, playing)

StoreNext == (\E id \in RoomIds : RoomCall(id)) \/ TickNow \/ PassTime

StoreSpec == StoreInit /\ [][StoreNext]_storeVars

\* main.go runs the tick from a timer that never stops, and time passes.
FairStoreSpec == StoreSpec /\ WF_storeVars(TickNow) /\ WF_storeVars(PassTime)
--------------------------------------------------------------------------------
(* Type correctness: every stored room is a room, every index names one or     *)
(* none.                                                                        *)
StoreTypeOK ==
    /\ rooms \in [RoomIds -> RoomRecord \union {Absent}]
    /\ indexes \in [RoomIndexes -> RoomIds \union {Absent}]
    /\ unused \subseteq RoomIds
    /\ now \in Nat
--------------------------------------------------------------------------------
(* Safety *)

\* Nobody is seated in two rooms that are going on (store.go, elsewhere: every
\* way in asks, and no way around it may exist).
OneRoomAtATime == \A p \in Players : \A id1, id2 \in RoomsOf(p) : id1 = id2

\* p is at one place of one group at most.
SitsOnce(r, p) ==
    /\ \A i, j \in Seats : r.Slots[i] = p /\ r.Slots[j] = p => i = j
    /\ \A i, j \in GallerySeats : r.Observers[i] = p /\ r.Observers[j] = p => i = j
    /\ \A i, j \in AdminSeats : r.Admins[i] = p /\ r.Admins[j] = p => i = j
    /\ Holds(r.Slots, p) => ~ Holds(r.Observers, p) /\ ~ Holds(r.Admins, p)
    /\ Holds(r.Observers, p) => ~ Holds(r.Admins, p)

\* p holds an address exactly while p plays or watches, and then one.
AddressFollowsSeat(r, p) ==
    /\ Holds(r.Addr, p) <=> IsMember(r, p)
    /\ \A i, j \in AddrIndexes : r.Addr[i] = p /\ r.Addr[j] = p => i = j

\* Seating and the address pool are two arrays written by different calls (D74,
\* D79), yet everybody sits once and the pool never runs out under a seat.
SeatsAndAddressesAgree ==
    \A id \in RoomIds : Stored(id) =>
        \A p \in Players : SitsOnce(rooms[id], p) /\ AddressFollowsSeat(rooms[id], p)

\* The host is in the place HostSlot and HostWatching name.
HostSits(r) ==
    IF r.HostWatching
    THEN r.HostSlot \in GallerySeats /\ r.Observers[r.HostSlot] = r.HostID
    ELSE r.HostSlot \in Seats /\ r.Slots[r.HostSlot] = r.HostID

\* A room that is going on has its host in the very place HostSlot and
\* HostWatching name: the host cannot be moved, replaced or removed without the
\* two following (D64, D79), and cannot leave without the room ending (D84).
HostSitsWhereSaid == \A id \in RoomIds : IsOpen(id) => HostSits(rooms[id])

\* The two maps of the store name each other: no index leaks and none is shared.
IndexesMatchRooms ==
    /\ \A id \in RoomIds : Stored(id) => indexes[rooms[id].Index] = id
    /\ \A i \in RoomIndexes : indexes[i] # Absent =>
          Stored(indexes[i]) /\ rooms[indexes[i]].Index = i

\* Every (room, address holder) pair has a virtual IP of its own, rooms that
\* linger after their end included.
NoSharedVirtualIP ==
    \A id1, id2 \in RoomIds : Stored(id1) /\ Stored(id2) =>
        \A p1, p2 \in Players :
            /\ Holds(rooms[id1].Addr, p1)
            /\ Holds(rooms[id2].Addr, p2)
            /\ VirtualIP(rooms[id1], p1) = VirtualIP(rooms[id2], p2)
            => id1 = id2 /\ p1 = p2
--------------------------------------------------------------------------------
(* What no step may do *)

\* While a kick block runs, the person gets no seat of any kind in that room: no
\* password, invitation, staff role or change of host opens it (state.go,
\* admissible: "never bypassed"), and nothing, a second kick included, shortens
\* it (D39).
KickBlockIsAbsolute ==
    [][\A id \in RoomIds, p \in Players : Stored(id) /\ Stored(id)' =>
          /\ KickBlocked(rooms[id], p, now) /\ SeatedIn(id, p)' => SeatedIn(id, p)
          /\ rooms'[id].KickedUntil[p] >= rooms[id].KickedUntil[p]]_storeVars

\* An address stays with its holder for as long as they sit: no change of seat,
\* side, host or status moves anybody to another address (D74).
AddressIsKept ==
    [][\A id \in RoomIds, p \in Players :
          Stored(id) /\ Stored(id)' /\ IsMember(rooms[id], p) /\ IsMember(rooms'[id], p)
          => \A i \in AddrIndexes : rooms[id].Addr[i] = p => rooms'[id].Addr[i] = p]_storeVars

\* In a locked room, and in one whose host is in a match, whoever holds a place
\* in the match or the gallery keeps that place or gives it up; in a locked room
\* nobody new gets one (D69).
MatchPinsThePlaces ==
    [][\A id \in RoomIds : IsOpen(id) /\ Stored(id)' =>
          LET r == rooms[id]  s == rooms'[id]
              kept(g, h, i) == h[i] \in {g[i], Nobody}
              moved(g, h, i) == h[i] # Nobody /\ h[i] # g[i] /\ IsMember(r, h[i])
          IN  /\ Locked(r) =>
                    /\ \A i \in Seats : kept(r.Slots, s.Slots, i)
                    /\ \A i \in GallerySeats : kept(r.Observers, s.Observers, i)
              /\ r.HostInGame =>
                    /\ \A i \in Seats : ~ moved(r.Slots, s.Slots, i)
                    /\ \A i \in GallerySeats : ~ moved(r.Observers, s.Observers, i)]_storeVars

\* An ended room stays ended, keeps the moment it ended and takes nobody, until
\* it is gone; and its identifier never names a room again.
EndedForGood ==
    [][\A id \in RoomIds :
          /\ Stored(id) /\ IsClosed(rooms[id]) /\ Stored(id)' =>
                /\ IsClosed(rooms'[id]) /\ rooms'[id].ClosedAt = rooms[id].ClosedAt
                /\ \A p \in Players : SeatedIn(id, p)' => SeatedIn(id, p)
          /\ ~ Stored(id) /\ id \notin unused => ~ Stored(id)']_storeVars
--------------------------------------------------------------------------------
(* Liveness *)

\* A room that ended long enough before the clock's bound is forgotten and its
\* index handed back, however its members behave afterwards (Tick).
EndedRoomsAreForgotten ==
    \A id \in RoomIds :
        (Stored(id) /\ IsClosed(rooms[id]) /\ rooms[id].ClosedAt + ClosedRoomLinger < MaxTime)
            ~> ~ Stored(id)
--------------------------------------------------------------------------------
(* What the comments say and the code does not do *)

\* state.go, takeAddress and SetHost: whoever is seated has the address their
\* tunnel needs, and the host moves nobody's: in a room that is going on every
\* member is told where the host is.
EverybodyCanBeToldTheHost ==
    \A id \in RoomIds : IsOpen(id) =>
        \A p \in Players : IsMember(rooms[id], p) => MembershipGiven(rooms[id], p)
=================================================================================
