--------------------------- MODULE CoordinatorProofs ---------------------------
(* The API over the room store and the ticket store: every step of it is a step *)
(* of the store or none, and with one handler at a time tickets and seats       *)
(* follow what was decided, while the timer and the settings run beside it.     *)
EXTENDS Coordinator, RoomStoreProofs

\* One handler of several calls at a time; timer and one-call handlers run beside it.
OneHandler == \A q1, q2 \in Requests : q1 = q2

\* A ticket is for a room that was drawn.
TicketTyped(t) ==
    /\ DOMAIN t = {"PlayerID", "RoomID", "VirtualIP", "Expires"}
    /\ t.PlayerID \in Players /\ t.RoomID \in RoomIds \ unused /\ t.Expires \in Nat

Creating == {"issue_new", "mode", "door"}

CallTyped(c) ==
    /\ c.do \in Creating \union {"nothing", "enter", "issue", "evict", "evict_from",
                                 "revoke_player", "revoke_room"}
    /\ c.do \notin {"nothing", "evict"} => c.room \in RoomIds \ unused
    /\ c.do \notin {"nothing", "enter", "revoke_room"} => c.player \in Players
    /\ c.do \in {"issue_new", "mode"} => c.mode \in GameModes \union {NoMode} /\ c.door \in Doors \union {NoDoor}
    /\ c.do = "door" => c.door \in Doors
    /\ c.do = "enter" => c.who \in Applicants

ApiTyped ==
    /\ \A t \in tickets : TicketTyped(t)
    /\ DOMAIN doing = Requests /\ \A q \in Requests : CallTyped(doing[q])
    /\ timerTodo \subseteq RoomIds /\ barred \subseteq Players

\* Nobody sits under a kick block.
NoneBlocked ==
    \A id \in RoomIds, p \in Players : SeatedIn(id, p) => ~ KickBlocked(rooms[id], p, now)

\* p plays or watches in the room and holds that address there.
Carries(id, p, ip) == IsMember(rooms[id], p) /\ ip = VirtualIP(rooms[id], p)

\* p hosts the room and nobody else is in it.
HostAlone(id, p) ==
    /\ rooms[id].HostID = p
    /\ \A other \in Players : IsSeated(rooms[id], other) => other = p

\* What the handler has read still stands when it goes on.
CallFits(c) ==
    /\ c.do \in {"issue", "issue_new"} => (IsOpen(c.room) => Carries(c.room, c.player, c.ip))
    /\ c.do \in Creating => (Stored(c.room) => HostAlone(c.room, c.player))
    /\ c.do = "enter" => c.who.ID \notin barred

\* What the handler has yet to revoke, and whom it has yet to evict.
Revokes(c, t) ==
    \/ c.do = "revoke_player" /\ c.room = t.RoomID /\ c.player = t.PlayerID
    \/ c.do = "revoke_room" /\ c.room = t.RoomID
Evicts(c, p) ==
    \/ c.do = "evict" /\ c.player = p
    \/ c.do = "evict_from" /\ c.player = p /\ RoomsOf(p) \subseteq {c.room}

TicketsOK ==
    \A t \in tickets : IsOpen(t.RoomID) =>
        \/ Carries(t.RoomID, t.PlayerID, t.VirtualIP)
        \/ \E q \in Requests : Revokes(doing[q], t)
BarredOK == \A p \in barred : RoomsOf(p) # {} => \E q \in Requests : Evicts(doing[q], p)

ApiInv ==
    /\ BlocksInv /\ ApiTyped
    /\ NoneBlocked /\ TicketsOK /\ BarredOK
    /\ \A q \in Requests : CallFits(doing[q])
--------------------------------------------------------------------------------
(* What a step leaves of a room: its block, its host unless somebody in it      *)
(* becomes the host, the kick blocks of those in it, and everybody but `out`.   *)

Stays(r, s, out) ==
    /\ s.HostID # r.HostID => IsSeated(r, s.HostID)
    /\ \A p \in Players : IsSeated(s, p) => s.KickedUntil[p] = r.KickedUntil[p]
    /\ \A p \in Players : IsMember(r, p) => IsMember(s, p) \/ p = out

LEMMA SamePlacesStay ==
    ASSUME NEW r, NEW s, NEW out, s.HostID = r.HostID, s.KickedUntil = r.KickedUntil,
           s.Slots = r.Slots, s.Observers = r.Observers
    PROVE  Stays(r, s, out)
  BY DEF Stays, IsMember

LEMMA LeaveStays ==
    ASSUME NEW r \in RoomRecord, NEW p \in Players, NEW t \in Nat
    PROVE  /\ Stays(r, Leave(r, p, t), p)
           /\ ~ IsSeated(Leave(r, p, t), p)
<1> DEFINE out == Removed(r, p)
           s == Leave(r, p, t)
<1>1. out \in RoomRecord
  BY RemovedType
<1>2. /\ out.Slots = Without(r.Slots, p) /\ out.Observers = Without(r.Observers, p)
      /\ out.Admins = Without(r.Admins, p) /\ out.HostID = r.HostID /\ out.KickedUntil = r.KickedUntil
  BY DEF Removed, RoomRecord
<1>3. s = out \/ s = Close(out, t)
  BY DEF Leave
<1>4. /\ s.Slots = out.Slots /\ s.Observers = out.Observers /\ s.Admins = out.Admins
      /\ s.HostID = out.HostID /\ s.KickedUntil = out.KickedUntil
  BY <1>1, <1>3 DEF Close, RoomRecord
<1>5. \A q \in Players \ {p} : IsMember(r, q) => IsMember(s, q)
  BY <1>2, <1>4, RoomParts DEF IsMember, Holds, Without
<1>6. ~ IsSeated(s, p)
  BY <1>2, <1>4, RoomParts, RoomAssumption DEF IsSeated, IsMember, Holds, Without
<1> QED
  BY <1>2, <1>4, <1>5, <1>6 DEF Stays

LEMMA KickStays ==
    ASSUME NEW r \in RoomRecord, NEW p \in Players, NEW t \in Nat
    PROVE  Stays(r, Kick(r, p, t), p)
<1> DEFINE out == Leave(r, p, t)
           s == Kick(r, p, t)
<1>1. out \in RoomRecord
  BY RemovedType, CloseType DEF Leave
<1>2. out.KickedUntil = r.KickedUntil
  BY <1>1 DEF Leave, Removed, Close, RoomRecord
<1>3. /\ s.Slots = out.Slots /\ s.Observers = out.Observers /\ s.Admins = out.Admins
      /\ s.HostID = out.HostID /\ \A q \in Players \ {p} : s.KickedUntil[q] = out.KickedUntil[q]
  BY <1>1 DEF Kick, RoomRecord
<1>4. Stays(r, out, p) /\ ~ IsSeated(out, p)
  BY LeaveStays
<1> QED
  BY <1>2, <1>3, <1>4 DEF Stays, IsSeated, IsMember

LEMMA JoinStays ==
    ASSUME NEW r \in RoomRecord, NEW p \in Players, NEW seat
    PROVE  /\ r.Slots[seat] = Nobody => Stays(r, Join(r, p, seat), Nobody)
           /\ r.Observers[seat] = Nobody => Stays(r, JoinObserver(r, p, seat), Nobody)
<1>1. ASSUME r.Slots[seat] = Nobody PROVE Stays(r, Join(r, p, seat), Nobody)
  <2> DEFINE s == Join(r, p, seat)
  <2>1. /\ s.Slots = [r.Slots EXCEPT ![seat] = p] /\ s.Observers = r.Observers
        /\ s.HostID = r.HostID /\ s.KickedUntil = r.KickedUntil
    BY DEF Join, RoomRecord
  <2>2. \A q \in Players : IsMember(r, q) => IsMember(s, q)
    BY <1>1, <2>1, RoomParts, RoomAssumption DEF IsMember, Holds
  <2> QED
    BY <2>1, <2>2 DEF Stays
<1>2. ASSUME r.Observers[seat] = Nobody PROVE Stays(r, JoinObserver(r, p, seat), Nobody)
  <2> DEFINE s == JoinObserver(r, p, seat)
  <2>1. /\ s.Observers = [r.Observers EXCEPT ![seat] = p] /\ s.Slots = r.Slots
        /\ s.HostID = r.HostID /\ s.KickedUntil = r.KickedUntil
    BY DEF JoinObserver, RoomRecord
  <2>2. \A q \in Players : IsMember(r, q) => IsMember(s, q)
    BY <1>2, <2>1, RoomParts, RoomAssumption DEF IsMember, Holds
  <2> QED
    BY <2>1, <2>2 DEF Stays
<1> QED
  BY <1>1, <1>2

\* Whoever moves is in the new place, and it was nobody's.
LEMMA MoveStays ==
    ASSUME NEW r \in RoomRecord, NEW p \in Players, NEW seat, NEW watching \in BOOLEAN,
           MayMove(r, p, seat, watching)
    PROVE  Stays(r, Move(r, p, seat, watching), Nobody)
<1> DEFINE up == [r EXCEPT !.Slots = Without(r.Slots, p), !.Observers = Without(r.Observers, p)]
           d == Reseated(r, p, seat, watching)
           s == Move(r, p, seat, watching)
<1>1. /\ up \in RoomRecord
      /\ up.Slots = Without(r.Slots, p) /\ up.Observers = Without(r.Observers, p)
      /\ up.HostID = r.HostID /\ up.KickedUntil = r.KickedUntil
  BY WithoutType DEF RoomRecord
<1>2. /\ d.HostID = r.HostID /\ d.KickedUntil = r.KickedUntil
      /\ d.Slots = IF watching THEN Without(r.Slots, p) ELSE [Without(r.Slots, p) EXCEPT ![seat] = p]
      /\ d.Observers = IF watching THEN [Without(r.Observers, p) EXCEPT ![seat] = p]
                                   ELSE Without(r.Observers, p)
  BY <1>1 DEF Reseated, RoomRecord
<1>3. /\ s.HostID = d.HostID /\ s.KickedUntil = d.KickedUntil
      /\ s.Slots = d.Slots /\ s.Observers = d.Observers
  BY <1>1 DEF Move, Reseated, RoomRecord
<1>4. /\ watching => seat \in GallerySeats /\ r.Observers[seat] = Nobody
      /\ ~ watching => seat \in Seats /\ r.Slots[seat] = Nobody
  BY DEF MayMove
<1> HIDE DEF s, d, up
<1>5. ASSUME NEW q \in Players, IsMember(r, q) PROVE IsMember(s, q)
  <2>1. CASE q = p
    BY <1>2, <1>3, <1>4, <2>1, RoomParts DEF IsMember, Holds, Without
  <2>2. CASE q # p
    <3>1. Holds(r.Slots, q) => Holds(s.Slots, q)
      BY <1>2, <1>3, <1>4, <2>2, RoomParts, RoomAssumption DEF Holds, Without
    <3>2. Holds(r.Observers, q) => Holds(s.Observers, q)
      BY <1>2, <1>3, <1>4, <2>2, RoomParts, RoomAssumption DEF Holds, Without
    <3> QED
      BY <1>5, <3>1, <3>2 DEF IsMember
  <2> QED
    BY <2>1, <2>2
<1> QED
  BY <1>2, <1>3, <1>5 DEF Stays, s

LEMMA SeeHostStays ==
    ASSUME NEW r \in RoomRecord, NEW online, NEW inGame, NEW t
    PROVE  Stays(r, SeeHost(r, online, inGame, t), Nobody)
<1> DEFINE s == SeeHost(r, online, inGame, t)
<1>1. /\ s.HostID = r.HostID /\ s.KickedUntil = r.KickedUntil
      /\ s.Slots = r.Slots /\ s.Observers = r.Observers
  BY DEF SeeHost, Close, RoomRecord
<1> QED
  BY <1>1, SamePlacesStay

LEMMA SettingsStay ==
    ASSUME NEW r \in RoomRecord
    PROVE  /\ \A status \in Statuses : Stays(r, SetStatus(r, status), Nobody)
           /\ \A mode \in GameModes : Stays(r, SetGameMode(r, mode), Nobody)
           /\ \A p \in Players : /\ Stays(r, Invite(r, p), Nobody)
                                 /\ Stays(r, Uninvite(r, p), Nobody)
                                 /\ MaySetHost(r, p) => Stays(r, SetHost(r, p), Nobody)
           /\ \A kind, password, floor : Stays(r, SetPrivacy(r, kind, password, floor), Nobody)
<1> DEFINE Same(s) == /\ s.HostID = r.HostID /\ s.KickedUntil = r.KickedUntil
                      /\ s.Slots = r.Slots /\ s.Observers = r.Observers
<1>1. ASSUME NEW s, Same(s) PROVE Stays(r, s, Nobody)
  BY <1>1, SamePlacesStay
<1>2. /\ \A status \in Statuses : Same(SetStatus(r, status))
      /\ \A mode \in GameModes : Same(SetGameMode(r, mode))
  BY DEF SetStatus, SetGameMode, RoomRecord
<1>3. \A p \in Players : Same(Invite(r, p)) /\ Same(Uninvite(r, p))
  BY DEF Invite, Uninvite, RoomRecord
<1>4. \A kind, password, floor : Same(SetPrivacy(r, kind, password, floor))
  BY DEF SetPrivacy, RoomRecord
<1>5. ASSUME NEW p \in Players, MaySetHost(r, p) PROVE Stays(r, SetHost(r, p), Nobody)
  <2> DEFINE s == SetHost(r, p)
  <2>1. /\ s.HostID = p /\ s.KickedUntil = r.KickedUntil
        /\ s.Slots = r.Slots /\ s.Observers = r.Observers
    BY DEF SetHost, RoomRecord
  <2> QED
    BY <1>5, <2>1 DEF Stays, IsMember, IsSeated, MaySetHost, IsPlaying
<1> HIDE DEF Same
<1> QED
  BY <1>1, <1>2, <1>3, <1>4, <1>5
--------------------------------------------------------------------------------
(* What a step leaves of who is where: nobody comes into a room but `in`,       *)
(* nobody goes out of one that stays but `out`, and that one is `where`.        *)

Company(in, where, out) ==
    /\ unused' \subseteq unused
    /\ \A id \in RoomIds :
          /\ Stored(id) /\ Stored(id)' =>
                /\ Follows(rooms[id], rooms'[id], in)
                /\ Stays(rooms[id], rooms'[id], IF id = where THEN out ELSE Nobody)
          /\ ~ Stored(id) /\ Stored(id)' =>
                /\ id \in unused \ unused'
                /\ HostAlone(id, in)' /\ Carries(id, in, VirtualIP(rooms[id], in))'
                /\ \A p \in Players : rooms'[id].KickedUntil[p] = 0

LEMMA NothingStays ==
    ASSUME NEW r, NEW in, NEW out PROVE Follows(r, r, in) /\ Stays(r, r, out)
  BY DEF Follows, Stays

LEMMA OneRoomCompany ==
    ASSUME BlocksInv, NEW id \in RoomIds, Stored(id), NEW s, s # Absent, NEW in, NEW out,
           Follows(rooms[id], s, in), Stays(rooms[id], s, out),
           rooms' = [rooms EXCEPT ![id] = s], UNCHANGED unused
    PROVE  Company(in, id, out)
<1>1. rooms'[id] = s /\ \A k \in RoomIds \ {id} : rooms'[k] = rooms[k]
  BY DEF BlocksInv, StoreInv, StoreTypeOK
<1>2. \A k \in RoomIds : Stored(k)' <=> Stored(k)
  BY <1>1 DEF Stored
<1> QED
  BY <1>1, <1>2, NothingStays DEF Company

LEMMA QuietCompany ==
    ASSUME UNCHANGED <<rooms, unused>>, NEW where PROVE Company(Nobody, where, Nobody)
  BY NothingStays DEF Company, Stored

LEMMA RoomOfRecord ==
    ASSUME BlocksInv, NEW id \in RoomIds, Stored(id)
    PROVE  RoomOK(rooms[id]) /\ rooms[id] \in RoomRecord /\ now \in Nat /\ id \notin unused
  BY DEF BlocksInv, StoreInv, StoreTypeOK, RoomOK

LEMMA RecordIsRoom == Absent \notin RoomRecord
  BY StoreAssumption

LEMMA CreateCompany ==
    ASSUME BlocksInv, BlocksInv', NEW id \in RoomIds, NEW p \in Players, Create(id, p)
    PROVE  Company(p, id, Nobody) /\ id \in RoomIds \ unused' /\ ~ Stored(id) /\ Stored(id)'
<1>1. PICK i \in RoomIndexes : rooms' = [rooms EXCEPT ![id] = NewRoom(i, p)]
  BY DEF Create
<1>2. id \in unused /\ ~ Stored(id) /\ unused' = unused \ {id}
  BY DEF Create, BlocksInv, StoreInv
<1>3. rooms'[id] = NewRoom(i, p) /\ \A k \in RoomIds \ {id} : rooms'[k] = rooms[k]
  BY <1>1 DEF BlocksInv, StoreInv, StoreTypeOK
<1>4. NewRoom(i, p) \in RoomRecord
  BY NewRoomType
<1>5. Stored(id)'
  BY <1>3, <1>4, RecordIsRoom DEF Stored
<1> DEFINE r == NewRoom(i, p)
<1>6. /\ r.HostID = p /\ r.KickedUntil = [q \in Players |-> 0]
      /\ \A other \in Players : IsSeated(r, other) => other = p
      /\ IsMember(r, p)
  <2>1. /\ r.Slots = [j \in Seats |-> IF j = 0 THEN p ELSE Nobody]
        /\ r.Observers = [j \in GallerySeats |-> Nobody]
        /\ r.Admins = [j \in AdminSeats |-> Nobody]
        /\ r.HostID = p /\ r.KickedUntil = [q \in Players |-> 0]
    BY DEF NewRoom
  <2>2. 0 \in Seats
    BY LayoutAssumption DEF Seats
  <2> HIDE DEF r
  <2> QED
    BY <2>1, <2>2, RoomAssumption DEF IsSeated, IsMember, Holds
<1> HIDE DEF r
<1>7. HostAlone(id, p)' /\ Carries(id, p, VirtualIP(rooms[id], p))'
  BY <1>3, <1>6 DEF HostAlone, Carries, r
<1>8. \A q \in Players : rooms'[id].KickedUntil[q] = 0
  BY <1>3, <1>6 DEF r
<1>9. \A k \in RoomIds \ {id} : Stored(k)' => Stored(k)
  BY <1>3 DEF Stored
<1> QED
  BY <1>2, <1>3, <1>5, <1>7, <1>8, <1>9, NothingStays DEF Company

LEMMA JoinCompany ==
    ASSUME BlocksInv, NEW id \in RoomIds, NEW who \in Applicants,
           JoinRoom(id, who) \/ JoinRoomObserver(id, who)
    PROVE  /\ Company(who.ID, id, Nobody)
           /\ Stored(id) /\ Stored(id)'
<1>1. who.ID \in Players /\ Stored(id) /\ ~ IsSeated(rooms[id], who.ID) /\ UNCHANGED <<indexes, unused, now>>
  BY DEF Applicants, JoinRoom, JoinRoomObserver, MayJoin, MayJoinObserver, MayEnter, Admissible
<1>2. RoomOK(rooms[id]) /\ rooms[id] \in RoomRecord
  BY <1>1, RoomOfRecord
<1>3. ASSUME NEW s, RoomOK(s), Follows(rooms[id], s, who.ID), Stays(rooms[id], s, Nobody),
             rooms' = [rooms EXCEPT ![id] = s]
      PROVE  Company(who.ID, id, Nobody) /\ Stored(id)'
  <2>1. s # Absent
    BY <1>3, RecordIsRoom DEF RoomOK
  <2>2. Stored(id)'
    BY <1>3, <2>1 DEF Stored, BlocksInv, StoreInv, StoreTypeOK
  <2> QED
    BY <1>1, <1>3, <2>1, <2>2, OneRoomCompany
<1>4. CASE JoinRoom(id, who)
  <2>1. PICK seat \in Seats : /\ rooms[id].Slots[seat] = Nobody
                              /\ rooms' = [rooms EXCEPT ![id] = Join(rooms[id], who.ID, seat)]
    BY <1>4 DEF JoinRoom, LowestFree
  <2> QED
    BY <1>1, <1>2, <1>3, <2>1, JoinOK, JoinFollows, JoinStays
<1>5. CASE JoinRoomObserver(id, who)
  <2>1. PICK seat \in GallerySeats :
           /\ rooms[id].Observers[seat] = Nobody
           /\ rooms' = [rooms EXCEPT ![id] = JoinObserver(rooms[id], who.ID, seat)]
    BY <1>5 DEF JoinRoomObserver, LowestFree
  <2> QED
    BY <1>1, <1>2, <1>3, <2>1, JoinObserverOK, JoinFollows, JoinStays
<1> QED
  BY <1>1, <1>4, <1>5

LEMMA LeaveCompany ==
    ASSUME BlocksInv, NEW id \in RoomIds, NEW p \in Players, LeaveRoom(id, p)
    PROVE  Company(Nobody, id, p) /\ ~ SeatedIn(id, p)'
<1>1. Stored(id) /\ rooms' = [rooms EXCEPT ![id] = Leave(rooms[id], p, now)] /\ UNCHANGED unused
  BY DEF LeaveRoom
<1>2. RoomOK(rooms[id]) /\ rooms[id] \in RoomRecord /\ now \in Nat
  BY <1>1, RoomOfRecord
<1>3. RoomOK(Leave(rooms[id], p, now))
  BY <1>2, LeaveOK
<1>4. Leave(rooms[id], p, now) # Absent
  BY <1>3, RecordIsRoom DEF RoomOK
<1>5. Company(Nobody, id, p)
  BY <1>1, <1>2, <1>4, LeaveFollows, LeaveStays, OneRoomCompany
<1>6. rooms'[id] = Leave(rooms[id], p, now)
  BY <1>1 DEF BlocksInv, StoreInv, StoreTypeOK
<1> QED
  BY <1>2, <1>5, <1>6, LeaveStays DEF SeatedIn

LEMMA KickCompany ==
    ASSUME BlocksInv, NEW id \in RoomIds, NEW actor \in Players, NEW p \in Players, KickPlayer(id, actor, p)
    PROVE  Company(Nobody, id, p)
<1>1. /\ Stored(id) /\ MayKick(rooms[id], actor, p)
      /\ rooms' = [rooms EXCEPT ![id] = Kick(rooms[id], p, now)] /\ UNCHANGED unused
  BY DEF KickPlayer
<1>2. RoomOK(rooms[id]) /\ rooms[id] \in RoomRecord /\ now \in Nat
  BY <1>1, RoomOfRecord
<1>3. RoomOK(Kick(rooms[id], p, now))
  BY <1>1, <1>2, KickOK
<1>4. Kick(rooms[id], p, now) # Absent
  BY <1>3, RecordIsRoom DEF RoomOK
<1> QED
  BY <1>1, <1>2, <1>4, KickFollows, KickStays, OneRoomCompany

LEMMA CloseCompany ==
    ASSUME BlocksInv, NEW id \in RoomIds, NEW actor, CloseRoom(id, actor), NEW where
    PROVE  Company(Nobody, where, Nobody) /\ ~ Stored(id)'
<1>1. rooms' = [rooms EXCEPT ![id] = Absent] /\ UNCHANGED unused
  BY DEF CloseRoom
<1>2. ~ Stored(id)' /\ \A k \in RoomIds \ {id} : rooms'[k] = rooms[k]
  BY <1>1 DEF BlocksInv, StoreInv, StoreTypeOK, Stored
<1>3. \A k \in RoomIds : Stored(k)' => rooms'[k] = rooms[k] /\ Stored(k)
  BY <1>2 DEF Stored
<1> QED
  BY <1>1, <1>2, <1>3, NothingStays DEF Company

LEMMA SettingCompany ==
    ASSUME BlocksInv, NEW id \in RoomIds,
           \/ RoomSetting(id)
           \/ \E p \in Players : ChangeHost(id, p)
           \/ \E actor \in Players, status \in Statuses : SetRoomStatus(id, actor, status)
    PROVE  Company(Nobody, id, Nobody)
<1>0. /\ Stored(id) => RoomOK(rooms[id]) /\ rooms[id] \in RoomRecord
      /\ Invitees \subseteq Players /\ Nobody \in Persons
  BY RoomOfRecord, StoreAssumption DEF Persons
<1>1. ASSUME NEW s, RoomOK(s), Follows(rooms[id], s, Nobody), Stays(rooms[id], s, Nobody),
             Stored(id), rooms' = [rooms EXCEPT ![id] = s], UNCHANGED unused
      PROVE  Company(Nobody, id, Nobody)
  <2>1. s # Absent
    BY <1>1, RecordIsRoom DEF RoomOK
  <2> QED
    BY <1>1, <2>1, OneRoomCompany
<1>2. ASSUME NEW p \in Players, NEW seat, NEW watching \in BOOLEAN, MoveSeat(id, p, seat, watching)
      PROVE  Company(Nobody, id, Nobody)
  <2>1. /\ Stored(id) /\ MayMove(rooms[id], p, seat, watching) /\ IsMember(rooms[id], p)
        /\ rooms' = [rooms EXCEPT ![id] = Move(rooms[id], p, seat, watching)]
        /\ UNCHANGED unused
    BY <1>2 DEF MoveSeat, MayMove
  <2> QED
    BY <1>0, <1>1, <2>1, MoveOK, MoveFollows, MoveStays
<1>3. ASSUME NEW actor \in Players, NEW status \in Statuses, SetRoomStatus(id, actor, status)
      PROVE  Company(Nobody, id, Nobody)
  BY <1>0, <1>1, <1>3, SettingsOK, SettingsFollow, SettingsStay DEF SetRoomStatus, MaySetStatus
<1>4. ASSUME NEW actor \in Players, NEW mode \in GameModes, SetRoomGameMode(id, actor, mode)
      PROVE  Company(Nobody, id, Nobody)
  BY <1>0, <1>1, <1>4, SettingsOK, SettingsFollow, SettingsStay DEF SetRoomGameMode
<1>5. ASSUME NEW actor \in Players, NEW kind \in PrivacyKinds,
             NEW password \in Passwords \union {NoPassword}, NEW floor \in MMRFloors,
             SetRoomPrivacy(id, actor, kind, password, floor)
      PROVE  Company(Nobody, id, Nobody)
  BY <1>0, <1>1, <1>5, SettingsOK, SettingsFollow, SettingsStay DEF SetRoomPrivacy
<1>6. ASSUME NEW actor \in Players, NEW target \in Invitees,
             InvitePlayer(id, actor, target) \/ UninvitePlayer(id, actor, target)
      PROVE  Company(Nobody, id, Nobody)
  BY <1>0, <1>1, <1>6, SettingsOK, SettingsFollow, SettingsStay DEF InvitePlayer, UninvitePlayer
<1>7. ASSUME NEW p \in Players, ChangeHost(id, p) PROVE Company(Nobody, id, Nobody)
  BY <1>0, <1>1, <1>7, SetHostOK, SettingsFollow, SettingsStay DEF ChangeHost
<1> QED
  BY <1>2, <1>3, <1>4, <1>5, <1>6, <1>7, CoordinatorAssumption DEF RoomSetting

LEMMA TickCompany ==
    ASSUME BlocksInv, NEW online, NEW playing, Tick(online, playing), NEW where
    PROVE  Company(Nobody, where, Nobody)
<1>1. ASSUME NEW k \in RoomIds, Stored(k)
      PROVE  /\ Follows(rooms[k], Ticked(k, online, playing), Nobody)
             /\ Stays(rooms[k], Ticked(k, online, playing), Nobody)
  <2> DEFINE seen == rooms[k].HostID \in online
             inGame == rooms[k].HostID \in playing
  <2>1. rooms[k] \in RoomRecord /\ now \in Nat
    BY <1>1, RoomOfRecord
  <2>2. Ticked(k, online, playing) = SeeHost(rooms[k], seen, inGame, now)
    BY DEF Ticked
  <2>3. seen \in BOOLEAN /\ inGame \in BOOLEAN
    OBVIOUS
  <2> HIDE DEF seen, inGame
  <2> QED
    BY <2>1, <2>2, <2>3, SeeHostFollows, SeeHostStays
<1>2. \A k \in RoomIds : Stored(k)' => Stored(k) /\ rooms'[k] = Ticked(k, online, playing)
  BY DEF Tick, Stored
<1>3. unused' = unused
  BY DEF Tick
<1> QED
  BY <1>1, <1>2, <1>3 DEF Company
--------------------------------------------------------------------------------
(* Every step of the API is a step of the store, or none *)

\* One step for each handler that calls the store.
LEMMA StepsOfStore ==
    ASSUME ApiTyped, [Next]_vars
    PROVE  [StoreNext]_storeVars
<1> USE DEF storeVars
<1>1. ASSUME NEW id \in RoomIds, RoomCall(id) PROVE StoreNext
  BY <1>1 DEF StoreNext
<1>2. ASSUME NEW q \in Requests, NEW id \in RoomIds, Request(q, id) PROVE [StoreNext]_storeVars
  <2>1. ASSUME NEW p \in Players, NEW mode, NEW door, CreateRoom(q, id, p, mode, door)
        PROVE  RoomCall(id)
    BY <2>1 DEF CreateRoom, RoomCall
  <2>2. ASSUME NEW p \in Players, LeaveHandler(q, id, p) PROVE RoomCall(id)
    BY <2>2 DEF LeaveHandler, RoomCall
  <2>3. ASSUME NEW actor \in Players, NEW target \in Players, KickHandler(q, id, actor, target)
        PROVE  RoomCall(id)
    BY <2>3 DEF KickHandler, RoomCall
  <2>4. ASSUME StaffCloseRoom(q, id) PROVE RoomCall(id)
    <3>1. Nobody \in Persons
      BY DEF Persons
    <3> QED
      BY <2>4, <3>1 DEF StaffCloseRoom, RoomCall
  <2>5. ASSUME NEW p \in Players,
               \/ ConnectRoom(q, id, p)
               \/ \E mmr, password, watching : AskToEnter(q, id, p, mmr, password, watching)
        PROVE  UNCHANGED storeVars
    BY <2>5 DEF ConnectRoom, AskToEnter
  <2> QED
    BY <1>1, <1>2, <2>1, <2>2, <2>3, <2>4, <2>5 DEF Request
<1>3. ASSUME NEW q \in Requests, Resume(q) PROVE [StoreNext]_storeVars
  <2> DEFINE c == doing[q]
  <2>0. CallTyped(c)
    BY DEF ApiTyped
  <2>1. CASE ChooseMode(q)
    <3>1. c.do = "mode" /\ c.room \in RoomIds /\ c.player \in Players /\ c.mode \in GameModes \union {NoMode}
      BY <2>0, <2>1 DEF ChooseMode, CallTyped
    <3>2. UNCHANGED storeVars \/ (c.mode \in GameModes /\ SetRoomGameMode(c.room, c.player, c.mode))
      BY <2>1, <3>1 DEF ChooseMode
    <3> QED
      BY <1>1, <3>1, <3>2 DEF RoomCall
  <2>2. CASE HangDoor(q)
    <3>1. c.do = "door" /\ c.room \in RoomIds /\ c.player \in Players /\ c.door \in Doors
      BY <2>0, <2>2 DEF HangDoor, CallTyped
    <3>2. SetRoomPrivacy(c.room, c.player, c.door.Privacy, c.door.Password, c.door.MinMMR)
      BY <2>2 DEF HangDoor
    <3>3. /\ c.door.Privacy \in PrivacyKinds /\ c.door.MinMMR \in MMRFloors
          /\ c.door.Password \in Passwords \union {NoPassword}
      BY <3>1 DEF Doors
    <3> HIDE DEF c
    <3> QED
      BY <1>1, <3>1, <3>2, <3>3 DEF RoomCall
  <2>3. CASE UndoCreate(q)
    <3>1. c.room \in RoomIds /\ c.player \in Persons
      BY <2>0, <2>3 DEF UndoCreate, CallTyped, Creating, Persons
    <3>2. UNCHANGED storeVars \/ CloseRoom(c.room, c.player)
      BY <2>3 DEF UndoCreate
    <3> QED
      BY <1>1, <3>1, <3>2 DEF RoomCall
  <2>4. CASE EnterRoom(q)
    <3>1. c.room \in RoomIds /\ c.who \in Applicants
      BY <2>0, <2>4 DEF EnterRoom, CallTyped
    <3>2. JoinRoomObserver(c.room, c.who) \/ JoinRoom(c.room, c.who)
      BY <2>4 DEF EnterRoom
    <3> QED
      BY <1>1, <3>1, <3>2 DEF RoomCall
  <2>5. CASE EvictFrom(q)
    <3>1. c.room \in RoomIds /\ c.player \in Players
      BY <2>0, <2>5 DEF EvictFrom, CallTyped
    <3>2. UNCHANGED storeVars \/ LeaveRoom(c.room, c.player)
      BY <2>5 DEF EvictFrom
    <3> QED
      BY <1>1, <3>1, <3>2 DEF RoomCall
  <2>6. CASE \/ IssueNew(q) \/ RefuseEntry(q) \/ Issue(q) \/ EvictList(q)
             \/ RevokePlayerRoom(q) \/ RevokeRoom(q)
    BY <2>6 DEF IssueNew, RefuseEntry, Issue, EvictList, RevokePlayerRoom, RevokeRoom
  <2> QED
    BY <1>3, <2>1, <2>2, <2>3, <2>4, <2>5, <2>6 DEF Resume
<1>4. ASSUME NEW id \in RoomIds, SettingHandler(id) PROVE RoomCall(id)
  <2>1. AskedStatuses \subseteq Statuses
    BY CoordinatorAssumption
  <2>2. RoomSetting(id)
    BY <1>4 DEF SettingHandler
  <2> QED
    BY <2>1, <2>2 DEF RoomSetting, RoomCall
<1>5. ASSUME NEW id \in RoomIds, NEW p \in Players, ChangeHostHandler(id, p) PROVE RoomCall(id)
  BY <1>5 DEF ChangeHostHandler, RoomCall
<1>6. CASE TimerTick
  BY <1>6 DEF TimerTick, StoreNext, TickNow
<1>7. CASE Clock
  BY <1>7 DEF Clock, StoreNext
<1>8. ASSUME \/ \E q \in Requests, p \in Players : Sanction(q, p)
             \/ \E id \in RoomIds : TimerRevoke(id)
             \/ \E p \in Players : Pardon(p)
             \/ \E t \in tickets : RenewLease(t)
             \/ UNCHANGED vars
      PROVE  UNCHANGED storeVars
  BY <1>8 DEF Sanction, TimerRevoke, Pardon, RenewLease, vars
<1> QED
  BY <1>1, <1>2, <1>3, <1>4, <1>5, <1>6, <1>7, <1>8 DEF Next

\* Identifiers are only ever drawn.
LEMMA DrawnStayDrawn == ASSUME [StoreNext]_storeVars PROVE unused' \subseteq unused
<1>1. ASSUME NEW id \in RoomIds, RoomCall(id) PROVE unused' \subseteq unused
  BY <1>1 DEF RoomCall, Create, JoinRoom, JoinRoomObserver, JoinRoomAdmin, LeaveRoom, CloseRoom,
              MoveSeat, KickPlayer, InvitePlayer, UninvitePlayer, SetRoomStatus,
              SetRoomGameMode, SetRoomPrivacy, ChangeHost
<1> QED
  BY <1>1 DEF StoreNext, TickNow, Tick, PassTime, storeVars
--------------------------------------------------------------------------------
(* The types of tickets, calls and sanctions, with any number of handlers *)

LEMMA CallTypedStays ==
    ASSUME unused' \subseteq unused, NEW c, CallTyped(c) PROVE CallTyped(c)'
  BY DEF CallTyped

\* A handler's step: its own call changes, everybody's stays of its type.
LEMMA CallsTyped ==
    ASSUME ApiTyped, unused' \subseteq unused, NEW q \in Requests,
           \A c : c = doing'[q] => CallTyped(c)',
           doing' = [doing EXCEPT ![q] = doing'[q]]
    PROVE  DOMAIN doing' = Requests /\ \A k \in Requests : CallTyped(doing[k])'
<1>1. DOMAIN doing' = Requests /\ \A k \in Requests \ {q} : doing'[k] = doing[k]
  BY DEF ApiTyped
<1>2. ASSUME NEW k \in Requests PROVE \A c : c = doing'[k] => CallTyped(c)'
  BY <1>1, CallTypedStays DEF ApiTyped
<1>3. ASSUME NEW k \in Requests PROVE CallTyped(doing[k])'
  BY <1>2 DEF CallTyped
<1> QED
  BY <1>1, <1>3

LEMMA TicketsTyped ==
    ASSUME ApiTyped, unused' \subseteq unused, tickets' \subseteq tickets
    PROVE  \A t \in tickets' : TicketTyped(t)'
  BY DEF ApiTyped, TicketTyped

LEMMA AddTicketTyped ==
    ASSUME ApiTyped, unused' \subseteq unused, now \in Nat,
           NEW id \in RoomIds \ unused, NEW p \in Players, NEW ip, AddTicket(id, p, ip)
    PROVE  \A t \in tickets' : TicketTyped(t)'
<1> DEFINE new == [PlayerID |-> p, RoomID |-> id, VirtualIP |-> ip, Expires |-> now + Lifetime]
<1>1. tickets' = tickets \union {new}
  BY DEF AddTicket
<1>2. DOMAIN new = {"PlayerID", "RoomID", "VirtualIP", "Expires"}
  OBVIOUS
<1>3. new.PlayerID = p /\ new.RoomID = id /\ new.Expires = now + Lifetime
  OBVIOUS
<1>4. now + Lifetime \in Nat
  BY CoordinatorAssumption
<1> HIDE DEF new
<1> QED
  BY <1>1, <1>2, <1>3, <1>4 DEF ApiTyped, TicketTyped

LEMMA StartTyped == Init => BlocksInv /\ ApiTyped
<1> SUFFICES ASSUME Init PROVE BlocksInv /\ ApiTyped
  OBVIOUS
<1>1. BlocksInv
  BY InitInv DEF Init, StoreInit, BlocksInv, Stored
<1>2. \A q \in Requests : doing[q].do = "nothing"
  BY DEF Init, Idle
<1>3. DOMAIN doing = Requests /\ tickets = {} /\ timerTodo = {} /\ barred = {}
  BY DEF Init
<1>4. ApiTyped
  BY <1>2, <1>3 DEF ApiTyped, CallTyped, Creating
<1> QED
  BY <1>1, <1>4

\* What the handlers owe one another: the types of their parts of the state.
LEMMA RequestTyped ==
    ASSUME BlocksInv, BlocksInv', ApiTyped, unused' \subseteq unused,
           NEW q \in Requests, NEW id \in RoomIds, Request(q, id)
    PROVE  ApiTyped'
<1>0. Stored(id) => id \in RoomIds \ unused
  BY RoomOfRecord
<1>1. UNCHANGED <<tickets, timerTodo, barred>>
  BY DEF Request, CreateRoom, AskToEnter, ConnectRoom, LeaveHandler, KickHandler, StaffCloseRoom
<1>2. ASSUME NEW c, CallTyped(c)', Begin(q, c) PROVE ApiTyped'
  <2>1. doing' = [doing EXCEPT ![q] = c] /\ doing'[q] = c
    BY <1>2 DEF Begin, ApiTyped
  <2>2. DOMAIN doing' = Requests /\ \A k \in Requests : CallTyped(doing[k])'
    BY <1>2, <2>1, CallsTyped
  <2>3. \A t \in tickets' : TicketTyped(t)'
    BY <1>1, TicketsTyped
  <2> QED
    BY <1>1, <2>2, <2>3 DEF ApiTyped
<1>3. ASSUME NEW p \in Players, NEW mode \in GameModes \union {NoMode}, NEW door \in Doors \union {NoDoor},
             CreateRoom(q, id, p, mode, door)
      PROVE  ApiTyped'
  <2>1. PICK ip : Begin(q, [do |-> "issue_new", room |-> id, player |-> p,
                            ip |-> ip, mode |-> mode, door |-> door])
    BY <1>3 DEF CreateRoom
  <2>2. id \in RoomIds \ unused'
    BY <1>3, CreateCompany DEF CreateRoom
  <2>3. CallTyped([do |-> "issue_new", room |-> id, player |-> p, ip |-> ip, mode |-> mode, door |-> door])'
    BY <2>2 DEF CallTyped, Creating
  <2> QED
    BY <1>2, <2>1, <2>3
<1>4. ASSUME NEW p \in Players, NEW mmr \in MMRs, NEW password \in Passwords \union {NoPassword},
             NEW watching \in BOOLEAN, AskToEnter(q, id, p, mmr, password, watching)
      PROVE  ApiTyped'
  <2> DEFINE friend == {rooms[id].HostID, p} \in FriendPairs
             who == [ID |-> p, MMR |-> mmr, Password |-> password, Friend |-> friend, Admin |-> FALSE]
             c == [do |-> "enter", room |-> id, watching |-> watching, who |-> who]
  <2>1. Begin(q, c)
    BY <1>4 DEF AskToEnter
  <2>2. id \in RoomIds \ unused'
    BY <1>0, <1>4 DEF AskToEnter
  <2>3. friend \in BOOLEAN
    OBVIOUS
  <2> HIDE DEF friend
  <2>4. who \in Applicants
    BY <2>3 DEF Applicants
  <2> HIDE DEF who
  <2>5. c.do = "enter" /\ c.room = id /\ c.who = who
    OBVIOUS
  <2> HIDE DEF c
  <2>6. \A k : k = c => CallTyped(k)'
    BY <2>2, <2>4, <2>5 DEF CallTyped, Creating
  <2> QED
    BY <1>2, <2>1, <2>6
<1>5. ASSUME NEW p \in Players, ConnectRoom(q, id, p) PROVE ApiTyped'
  <2>1. PICK ip : Begin(q, Issuing(id, p, ip))
    BY <1>5 DEF ConnectRoom
  <2>2. id \in RoomIds \ unused'
    BY <1>0, <1>5 DEF ConnectRoom, SeatedIn
  <2>3. CallTyped(Issuing(id, p, ip))'
    BY <2>2 DEF CallTyped, Creating, Issuing
  <2> QED
    BY <1>2, <2>1, <2>3
<1>6. ASSUME NEW p \in Players, \/ LeaveHandler(q, id, p)
                                \/ \E actor \in Players : KickHandler(q, id, actor, p)
      PROVE  ApiTyped'
  <2>1. Begin(q, RevokingRoom(id)) \/ Begin(q, RevokingOne(id, p))
    BY <1>6 DEF LeaveHandler, KickHandler
  <2>2. id \in RoomIds \ unused'
    BY <1>0, <1>6 DEF LeaveHandler, LeaveRoom, KickHandler, KickPlayer
  <2>3. CallTyped(RevokingRoom(id))' /\ CallTyped(RevokingOne(id, p))'
    BY <2>2 DEF CallTyped, Creating, RevokingRoom, RevokingOne
  <2> QED
    BY <1>2, <2>1, <2>3
<1>7. ASSUME StaffCloseRoom(q, id) PROVE ApiTyped'
  <2>1. Begin(q, RevokingRoom(id))
    BY <1>7 DEF StaffCloseRoom
  <2>2. id \in RoomIds \ unused'
    BY <1>0, <1>7 DEF StaffCloseRoom, CloseRoom
  <2>3. CallTyped(RevokingRoom(id))'
    BY <2>2 DEF CallTyped, Creating, RevokingRoom
  <2> QED
    BY <1>2, <2>1, <2>3
<1> QED
  BY <1>3, <1>4, <1>5, <1>6, <1>7 DEF Request

LEMMA ResumeTyped ==
    ASSUME BlocksInv, BlocksInv', ApiTyped, unused' \subseteq unused, NEW q \in Requests, Resume(q)
    PROVE  ApiTyped'
<1> DEFINE c == doing[q]
<1>0. /\ CallTyped(c) /\ now \in Nat /\ UNCHANGED <<timerTodo, barred>>
      /\ \A id \in RoomIds : Stored(id) => id \in RoomIds \ unused
  <2>1. UNCHANGED <<timerTodo, barred>>
    BY DEF Resume, IssueNew, ChooseMode, HangDoor, UndoCreate, EnterRoom, RefuseEntry, Issue,
           EvictList, EvictFrom, RevokePlayerRoom, RevokeRoom
  <2> QED
    BY <2>1, RoomOfRecord DEF ApiTyped, BlocksInv, StoreInv, StoreTypeOK
<1>1. ASSUME NEW n, CallTyped(n)', Continue(q, n), \A t \in tickets' : TicketTyped(t)'
      PROVE  ApiTyped'
  <2>1. doing' = [doing EXCEPT ![q] = n] /\ doing'[q] = n
    BY <1>1 DEF Continue, ApiTyped
  <2>2. DOMAIN doing' = Requests /\ \A k \in Requests : CallTyped(doing[k])'
    BY <1>1, <2>1, CallsTyped
  <2> QED
    BY <1>0, <1>1, <2>2 DEF ApiTyped
<1>2. tickets' \subseteq tickets => \A t \in tickets' : TicketTyped(t)'
  BY TicketsTyped
<1>3. CallTyped(Idle)'
  BY DEF CallTyped, Idle, Creating
<1>4. CASE IssueNew(q)
  <2>1. /\ c.do = "issue_new" /\ c.room \in RoomIds \ unused /\ c.player \in Players
        /\ c.mode \in GameModes \union {NoMode} /\ c.door \in Doors \union {NoDoor}
    BY <1>0, <1>4 DEF IssueNew, CallTyped
  <2> DEFINE n == [do |-> "mode", room |-> c.room, player |-> c.player, mode |-> c.mode, door |-> c.door]
  <2>2. /\ n.do = "mode" /\ n.room = c.room /\ n.player = c.player /\ n.mode = c.mode /\ n.door = c.door
    OBVIOUS
  <2>3. Continue(q, n) /\ AddTicket(c.room, c.player, c.ip)
    BY <1>4 DEF IssueNew
  <2> HIDE DEF n, c
  <2>4. \A k : k = n => CallTyped(k)'
    BY <2>1, <2>2 DEF CallTyped, Creating
  <2>5. \A t \in tickets' : TicketTyped(t)'
    BY <1>0, <2>1, <2>3, AddTicketTyped
  <2> QED
    BY <1>1, <2>3, <2>4, <2>5
<1>5. CASE ChooseMode(q)
  <2>1. /\ c.do = "mode" /\ c.room \in RoomIds \ unused /\ c.player \in Players
        /\ c.door \in Doors \union {NoDoor} /\ tickets' = tickets
    BY <1>0, <1>5 DEF ChooseMode, CallTyped
  <2> DEFINE n == [do |-> "door", room |-> c.room, player |-> c.player, door |-> c.door]
  <2>2. n.do = "door" /\ n.room = c.room /\ n.player = c.player /\ n.door = c.door
    OBVIOUS
  <2>3. Continue(q, Idle) \/ (c.door # NoDoor /\ Continue(q, n))
    BY <1>5 DEF ChooseMode
  <2> HIDE DEF n, c
  <2>4. c.door # NoDoor => \A k : k = n => CallTyped(k)'
    BY <2>1, <2>2 DEF CallTyped, Creating
  <2> QED
    BY <1>1, <1>2, <1>3, <2>1, <2>3, <2>4
<1>6. CASE HangDoor(q) \/ RefuseEntry(q) \/ RevokePlayerRoom(q) \/ RevokeRoom(q)
  <2>1. Continue(q, Idle) /\ tickets' \subseteq tickets
    BY <1>6 DEF HangDoor, RefuseEntry, RevokePlayerRoom, RevokeRoom, Finish
  <2> QED
    BY <1>1, <1>2, <1>3, <2>1
<1>7. CASE UndoCreate(q)
  <2>1. c.room \in RoomIds \ unused /\ Continue(q, RevokingRoom(c.room)) /\ tickets' = tickets
    BY <1>0, <1>7 DEF UndoCreate, CallTyped
  <2> HIDE DEF c
  <2>2. \A k : k = RevokingRoom(c.room) => CallTyped(k)'
    BY <2>1 DEF RevokingRoom, CallTyped, Creating
  <2> QED
    BY <1>1, <1>2, <2>1, <2>2
<1>8. CASE EnterRoom(q)
  <2>1. c.room \in RoomIds \ unused /\ c.who.ID \in Players /\ tickets' = tickets
    BY <1>0, <1>8 DEF EnterRoom, CallTyped, Applicants
  <2>2. Continue(q, TicketFor(c.room, c.who.ID))
    BY <1>8 DEF EnterRoom
  <2> HIDE DEF c
  <2>3. ASSUME NEW ip, NEW k, k = Issuing(c.room, c.who.ID, ip) PROVE CallTyped(k)'
    BY <2>1, <2>3 DEF Issuing, CallTyped, Creating
  <2>4. TicketFor(c.room, c.who.ID) = Idle
        \/ \E ip : TicketFor(c.room, c.who.ID) = Issuing(c.room, c.who.ID, ip)
    BY DEF TicketFor
  <2> QED
    BY <1>1, <1>2, <1>3, <2>1, <2>2, <2>3, <2>4
<1>9. CASE Issue(q)
  <2>1. c.room \in RoomIds \ unused /\ c.player \in Players
    BY <1>0, <1>9 DEF Issue, CallTyped
  <2>2. Continue(q, Idle) /\ AddTicket(c.room, c.player, c.ip)
    BY <1>9 DEF Issue, Finish
  <2> HIDE DEF c
  <2>3. \A t \in tickets' : TicketTyped(t)'
    BY <1>0, <2>1, <2>2, AddTicketTyped
  <2> QED
    BY <1>1, <1>3, <2>2, <2>3
<1>10. CASE EvictList(q)
  <2>1. c.player \in Players /\ tickets' = tickets
    BY <1>0, <1>10 DEF EvictList, CallTyped
  <2>2. \/ Continue(q, Idle)
        \/ \E id \in RoomsOf(c.player) :
              Continue(q, [do |-> "evict_from", room |-> id, player |-> c.player])
    BY <1>10 DEF EvictList, Finish
  <2> HIDE DEF c
  <2>3. ASSUME NEW id \in RoomsOf(c.player),
               NEW k, k = [do |-> "evict_from", room |-> id, player |-> c.player]
        PROVE  CallTyped(k)'
    <3>1. id \in RoomIds \ unused
      BY <1>0 DEF RoomsOf, IsOpen
    <3> QED
      BY <2>1, <2>3, <3>1 DEF CallTyped, Creating
  <2> QED
    BY <1>1, <1>2, <1>3, <2>1, <2>2, <2>3
<1>11. CASE EvictFrom(q)
  <2>1. c.room \in RoomIds \ unused /\ c.player \in Players /\ tickets' = tickets
    BY <1>0, <1>11 DEF EvictFrom, CallTyped
  <2>2. \/ Continue(q, Idle) \/ Continue(q, RevokingRoom(c.room))
        \/ Continue(q, RevokingOne(c.room, c.player))
    BY <1>11 DEF EvictFrom, Finish
  <2> HIDE DEF c
  <2>3. /\ \A k : k = RevokingRoom(c.room) => CallTyped(k)'
        /\ \A k : k = RevokingOne(c.room, c.player) => CallTyped(k)'
    BY <2>1 DEF RevokingRoom, RevokingOne, CallTyped, Creating
  <2> QED
    BY <1>1, <1>2, <1>3, <2>1, <2>2, <2>3
<1> QED
  BY <1>4, <1>5, <1>6, <1>7, <1>8, <1>9, <1>10, <1>11 DEF Resume

\* What is beside the handlers of several calls: settings, the timer, the clock,
\* pardons and renewed leases.
Beside ==
    \/ \E id \in RoomIds : \/ SettingHandler(id) \/ TimerRevoke(id)
                           \/ \E p \in Players : ChangeHostHandler(id, p)
    \/ \E p \in Players : Pardon(p)
    \/ \E t \in tickets : RenewLease(t)
    \/ TimerTick \/ Clock \/ UNCHANGED vars

LEMMA StepCases ==
    ASSUME [Next]_vars
    PROVE  \/ \E q \in Requests, id \in RoomIds : Request(q, id)
           \/ \E q \in Requests, p \in Players : Sanction(q, p)
           \/ \E q \in Requests : Resume(q)
           \/ Beside
  BY DEF Next, Beside

\* Its tickets are those of before, or one of them with a later end.
LEMMA BesideLeaves ==
    ASSUME Beside
    PROVE  /\ UNCHANGED doing /\ barred' \subseteq barred
           /\ \A t \in tickets' : t \in tickets \/ \E old \in tickets : t = [old EXCEPT !.Expires = now + Lifetime]
           /\ timerTodo' \subseteq timerTodo \union RoomIds
<1> USE DEF apiVars, vars
<1>1. CASE \E id \in RoomIds : \/ SettingHandler(id) \/ TimerRevoke(id)
                               \/ \E p \in Players : ChangeHostHandler(id, p)
  BY <1>1 DEF SettingHandler, TimerRevoke, ChangeHostHandler
<1>2. CASE \E p \in Players : Pardon(p)
  BY <1>2 DEF Pardon
<1>3. CASE \E t \in tickets : RenewLease(t)
  BY <1>3 DEF RenewLease
<1>4. CASE TimerTick
  <2>1. PICK online, playing : timerTodo' = ClosedByTick(online, playing)
    BY <1>4 DEF TimerTick
  <2>2. timerTodo' \subseteq RoomIds
    BY <2>1 DEF ClosedByTick
  <2>3. tickets' \subseteq tickets /\ UNCHANGED <<doing, barred>>
    BY <1>4 DEF TimerTick
  <2> QED
    BY <2>2, <2>3
<1>5. CASE Clock \/ UNCHANGED vars
  BY <1>5 DEF Clock
<1> QED
  BY <1>1, <1>2, <1>3, <1>4, <1>5 DEF Beside

LEMMA RenewedIs ==
    ASSUME NEW t, TicketTyped(t), NEW end \in Nat
    PROVE  LET new == [t EXCEPT !.Expires = end]
           IN  /\ TicketTyped(new)
               /\ new.PlayerID = t.PlayerID /\ new.RoomID = t.RoomID /\ new.VirtualIP = t.VirtualIP
  BY DEF TicketTyped

LEMMA StepTyped == BlocksInv /\ ApiTyped /\ [Next]_vars => BlocksInv' /\ ApiTyped'
<1> SUFFICES ASSUME BlocksInv, ApiTyped, [Next]_vars PROVE BlocksInv' /\ ApiTyped'
  OBVIOUS
<1>1. [StoreNext]_storeVars
  BY StepsOfStore
<1>2. BlocksInv' /\ unused' \subseteq unused /\ now \in Nat
  BY <1>1, BlocksNext, DrawnStayDrawn DEF BlocksInv, StoreInv, StoreTypeOK
<1>3. ASSUME NEW q \in Requests, NEW id \in RoomIds, Request(q, id) PROVE ApiTyped'
  BY <1>2, <1>3, RequestTyped
<1>4. ASSUME NEW q \in Requests, NEW p \in Players, Sanction(q, p) PROVE ApiTyped'
  <2> DEFINE n == [do |-> "evict", player |-> p]
  <2>1. doing' = [doing EXCEPT ![q] = n] /\ tickets' = tickets /\ UNCHANGED timerTodo
        /\ barred' = barred \union {p}
    BY <1>4 DEF Sanction, Begin
  <2>2. n.do = "evict" /\ n.player = p
    OBVIOUS
  <2> HIDE DEF n
  <2>3. \A c : c = n => CallTyped(c)'
    BY <2>2 DEF CallTyped, Creating
  <2>4. doing'[q] = n
    BY <2>1 DEF ApiTyped
  <2>5. DOMAIN doing' = Requests /\ \A k \in Requests : CallTyped(doing[k])'
    BY <1>2, <2>1, <2>3, <2>4, CallsTyped
  <2>6. \A t \in tickets' : TicketTyped(t)'
    BY <1>2, <2>1, TicketsTyped
  <2> QED
    BY <2>1, <2>5, <2>6 DEF ApiTyped
<1>5. ASSUME NEW q \in Requests, Resume(q) PROVE ApiTyped'
  BY <1>2, <1>5, ResumeTyped
<1>6. ASSUME Beside PROVE ApiTyped'
  <2>1. /\ UNCHANGED doing /\ barred' \subseteq barred /\ timerTodo' \subseteq timerTodo \union RoomIds
        /\ \A t \in tickets' : t \in tickets \/ \E old \in tickets : t = [old EXCEPT !.Expires = now + Lifetime]
    BY <1>6, BesideLeaves
  <2>2. \A t \in tickets' : TicketTyped(t)
    <3>1. now + Lifetime \in Nat
      BY <1>2, CoordinatorAssumption
    <3> QED
      BY <2>1, <3>1, RenewedIs DEF ApiTyped
  <2>3. \A t \in tickets' : TicketTyped(t)'
    BY <1>2, <2>2 DEF TicketTyped
  <2>4. \A k \in Requests : \A c : c = doing[k] => CallTyped(c)'
    BY <1>2, CallTypedStays DEF ApiTyped
  <2>5. \A k \in Requests : CallTyped(doing[k])'
    BY <2>1, <2>4 DEF CallTyped
  <2> QED
    BY <2>1, <2>3, <2>5 DEF ApiTyped
<1> QED
  BY <1>2, <1>3, <1>4, <1>5, <1>6, StepCases

LEMMA ApiAlwaysTyped == Spec => [](BlocksInv /\ ApiTyped)
  BY StartTyped, StepTyped, PTL DEF Spec

\* The state of the API beside the store's is of its type, and no ticket or call names
\* a room that was never drawn, with any number of handlers at work (ApiTypeOK).
THEOREM ApiTypeCorrect == Spec => []ApiTypeOK
<1>1. ApiTyped => ApiTypeOK
  BY DEF ApiTyped, ApiTypeOK, TicketTyped, CallTyped, Creating
<1> QED
  BY <1>1, ApiAlwaysTyped, PTL

\* Whatever interleaving of its handlers and its timer runs, what the API does to the
\* rooms is what the store may do: what RoomStoreProofs proves holds under the API.
THEOREM ApiRunsTheStore == Spec => StoreSpec
<1>1. Init => StoreInit
  BY DEF Init
<1>2. (BlocksInv /\ ApiTyped) /\ [Next]_vars => [StoreNext]_storeVars
  BY StepsOfStore
<1> QED
  BY <1>1, <1>2, ApiAlwaysTyped, PTL DEF Spec, StoreSpec
--------------------------------------------------------------------------------
(* What a change of company leaves of tickets, sanctions and kick blocks *)

\* Whoever goes on carrying an address carries the same one.
LEMMA CarriesOn ==
    ASSUME BlocksInv, BlocksInv', StepKeeps, NEW in, NEW where, NEW out, Company(in, where, out),
           NEW id \in RoomIds, NEW p \in Players, NEW ip, Carries(id, p, ip),
           Stored(id), Stored(id)', ~ (id = where /\ p = out)
    PROVE  Carries(id, p, ip)'
<1> DEFINE r == rooms[id]
           s == rooms'[id]
<1>1. RoomOK(r) /\ RoomOK(s) /\ r \in RoomRecord /\ s \in RoomRecord
  <2>1. RoomOK(r) /\ RoomOK(s)
    BY DEF BlocksInv, StoreInv
  <2> QED
    BY <2>1 DEF RoomOK
<1>2. IsMember(r, p) /\ IsMember(s, p) /\ s.Index = r.Index
  <2>1. p # Nobody
    BY RoomAssumption
  <2> QED
    BY <2>1 DEF Company, Stays, Follows, Carries
<1>3. \A i \in AddrIndexes : r.Addr[i] = p => s.Addr[i] = p
  BY <1>2 DEF StepKeeps, Keeps
<1>4. Holds(r.Addr, p) /\ \A i, j \in AddrIndexes : s.Addr[i] = p /\ s.Addr[j] = p => i = j
  BY <1>1, <1>2 DEF RoomOK, AddressFollowsSeat
<1>5. DOMAIN r.Addr = AddrIndexes /\ DOMAIN s.Addr = AddrIndexes
  BY <1>1, RoomParts
<1>6. PICK i \in AddrIndexes : r.Addr[i] = p
  BY <1>4, <1>5 DEF Holds
<1>7. s.Addr[i] = p
  BY <1>3, <1>6
<1>8. AddressOf(r, p) \in AddrIndexes /\ r.Addr[AddressOf(r, p)] = p
  BY <1>5, <1>6 DEF AddressOf
<1>9. AddressOf(s, p) \in AddrIndexes /\ s.Addr[AddressOf(s, p)] = p
  BY <1>5, <1>7 DEF AddressOf
<1>10. AddressOf(s, p) = AddressOf(r, p)
  BY <1>3, <1>4, <1>8, <1>9
<1> QED
  BY <1>2, <1>10 DEF Carries, VirtualIP

\* A room that is going on after a step, and was drawn before, was going on before.
LEMMA OpenBefore ==
    ASSUME NEW in, NEW where, NEW out, Company(in, where, out), NEW id \in RoomIds \ unused
    PROVE  /\ Stored(id)' => Stored(id)
           /\ IsOpen(id)' => IsOpen(id)
  BY DEF Company, Follows, IsOpen

LEMMA TicketsFollow ==
    ASSUME ApiInv, BlocksInv', StepKeeps, NEW in, NEW where, NEW out, Company(in, where, out),
           NEW t \in tickets, IsOpen(t.RoomID)'
    PROVE  \/ Carries(t.RoomID, t.PlayerID, t.VirtualIP)'
           \/ \E q \in Requests : Revokes(doing[q], t)
           \/ t.RoomID = where /\ t.PlayerID = out
<1> DEFINE id == t.RoomID
           p == t.PlayerID
           ip == t.VirtualIP
<1>1. id \in RoomIds \ unused /\ p \in Players
  BY DEF ApiInv, ApiTyped, TicketTyped
<1>2. IsOpen(id) /\ Stored(id) /\ Stored(id)'
  BY <1>1, OpenBefore DEF IsOpen
<1>3. Carries(id, p, ip) \/ \E q \in Requests : Revokes(doing[q], t)
  BY <1>2 DEF ApiInv, TicketsOK
<1>4. CASE Carries(id, p, ip) /\ ~ (id = where /\ p = out)
  <2>1. ASSUME NEW k, k = id, NEW b, b = p, NEW a, a = ip PROVE Carries(k, b, a)'
    BY <1>1, <1>2, <1>4, <2>1, CarriesOn DEF ApiInv
  <2> QED
    BY <2>1
<1> QED
  BY <1>3, <1>4

\* Nobody but `in` is in a room that is going on and was not before.
LEMMA NobodyNew ==
    ASSUME BlocksInv, NEW in, NEW where, NEW out, Company(in, where, out),
           NEW p \in Players, p # in
    PROVE  RoomsOf(p)' \subseteq RoomsOf(p)
  BY DEF Company, Follows, HostAlone, RoomsOf, IsOpen

LEMMA StillNoneBlocked ==
    ASSUME BlocksInv, NoneBlocked, StepKeeps, now \in Nat, now' \in Nat, now' >= now, BlocksInv',
           NEW in, NEW where, NEW out, Company(in, where, out)
    PROVE  NoneBlocked'
<1> SUFFICES ASSUME NEW id \in RoomIds, NEW p \in Players, SeatedIn(id, p)'
             PROVE  now' >= rooms'[id].KickedUntil[p] /\ rooms'[id].KickedUntil[p] \in Nat
  BY DEF NoneBlocked, KickBlocked
<1>0. rooms'[id].KickedUntil[p] \in Nat
  <2>1. RoomOK(rooms'[id])
    BY DEF BlocksInv, StoreInv, SeatedIn
  <2> QED
    BY <2>1 DEF RoomOK, RoomRecord
<1>1. CASE Stored(id)
  <2>1. ~ KickBlocked(rooms[id], p, now)
    BY <1>1 DEF StepKeeps, Admissible, NoneBlocked, SeatedIn
  <2>2. rooms'[id].KickedUntil[p] = rooms[id].KickedUntil[p]
    BY <1>1 DEF Company, Stays, SeatedIn
  <2> QED
    BY <1>0, <2>1, <2>2 DEF KickBlocked
<1>2. CASE ~ Stored(id)
  BY <1>0, <1>2 DEF Company, SeatedIn
<1> QED
  BY <1>0, <1>1, <1>2

LEMMA JoinAdminCompany ==
    ASSUME BlocksInv, NEW id \in RoomIds, NEW p \in Players, JoinRoomAdmin(id, p)
    PROVE  Company(p, id, Nobody)
<1>1. Stored(id) /\ ~ IsSeated(rooms[id], p) /\ UNCHANGED unused
  BY DEF JoinRoomAdmin, Admissible
<1>2. PICK seat \in AdminSeats :
         /\ rooms[id].Admins[seat] = Nobody
         /\ rooms' = [rooms EXCEPT ![id] = JoinAdmin(rooms[id], p, seat)]
  BY DEF JoinRoomAdmin, LowestFree
<1> DEFINE s == JoinAdmin(rooms[id], p, seat)
<1>3. RoomOK(rooms[id]) /\ rooms[id] \in RoomRecord
  BY <1>1, RoomOfRecord
<1>4. RoomOK(s) /\ Follows(rooms[id], s, p)
  BY <1>1, <1>2, <1>3, JoinAdminOK, JoinFollows
<1>5. Stays(rooms[id], s, Nobody)
  <2>1. /\ s.HostID = rooms[id].HostID /\ s.KickedUntil = rooms[id].KickedUntil
        /\ s.Slots = rooms[id].Slots /\ s.Observers = rooms[id].Observers
    BY <1>3 DEF JoinAdmin, RoomRecord
  <2> QED
    BY <2>1, SamePlacesStay
<1>6. s # Absent
  BY <1>4, RecordIsRoom DEF RoomOK
<1> QED
  BY <1>1, <1>2, <1>4, <1>5, <1>6, OneRoomCompany

\* Whatever the store does, somebody comes in, or somebody goes out, or neither.
LEMMA StoreCompany ==
    ASSUME BlocksInv, BlocksInv', [StoreNext]_storeVars
    PROVE  \E in, where, out : Company(in, where, out)
<1>1. ASSUME NEW id \in RoomIds, RoomCall(id) PROVE \E in, where, out : Company(in, where, out)
  <2>1. CASE \E p \in Players : Create(id, p)
    BY <2>1, CreateCompany
  <2>2. CASE \E who \in Applicants : JoinRoom(id, who) \/ JoinRoomObserver(id, who)
    BY <2>2, JoinCompany
  <2>3. CASE \E p \in Players : JoinRoomAdmin(id, p) \/ LeaveRoom(id, p)
    BY <2>3, JoinAdminCompany, LeaveCompany
  <2>4. CASE \E actor \in Persons : CloseRoom(id, actor)
    BY <2>4, CloseCompany
  <2>5. CASE \E actor, target \in Players : KickPlayer(id, actor, target)
    BY <2>5, KickCompany
  <2>6. CASE \/ RoomSetting(id)
             \/ \E p \in Players : ChangeHost(id, p)
             \/ \E actor \in Players, status \in Statuses : SetRoomStatus(id, actor, status)
    BY <2>6, SettingCompany
  <2> QED
    BY <1>1, <2>1, <2>2, <2>3, <2>4, <2>5, <2>6 DEF RoomCall, RoomSetting
<1>2. CASE TickNow
  BY <1>2, TickCompany DEF TickNow
<1>3. CASE PassTime \/ UNCHANGED storeVars
  BY <1>3, QuietCompany DEF PassTime, storeVars
<1> QED
  BY <1>1, <1>2, <1>3 DEF StoreNext

\* Whoever is under a kick block is out of the room, in every reachable state of the
\* store: no kick leaves its target seated, and no way in takes them back (state.go,
\* Kick, admissible).
THEOREM KickedNeverSit == StoreSpec => []NoneBlocked
<1>1. StoreInit => NoneBlocked
  BY DEF StoreInit, NoneBlocked, SeatedIn, Stored
<1>2. BlocksInv /\ BlocksInv' /\ NoneBlocked /\ [StoreNext]_storeVars => NoneBlocked'
  <2> SUFFICES ASSUME BlocksInv, BlocksInv', NoneBlocked, [StoreNext]_storeVars PROVE NoneBlocked'
    OBVIOUS
  <2>1. PICK in, where, out : Company(in, where, out)
    BY StoreCompany
  <2>2. StepKeeps /\ now \in Nat /\ now' \in Nat /\ now' >= now
    BY NextKeeps, ClockForward
  <2> QED
    BY <2>1, <2>2, StillNoneBlocked
<1> QED
  BY <1>1, <1>2, BlocksInvariant, PTL DEF StoreSpec

\* ... and so under the API, with any number of handlers at work: a ticket may outlive
\* a kick for a moment, the seat never does.
THEOREM KickedNeverSitUnderApi == Spec => []NoneBlocked
  BY ApiRunsTheStore, KickedNeverSit, PTL

\* What a handler in the middle of its calls has read stands while others run that
\* neither let anybody in nor out.
LEMMA CallStillFits ==
    ASSUME BlocksInv, BlocksInv', StepKeeps, NEW where, Company(Nobody, where, Nobody), barred' \subseteq barred,
           NEW c, CallTyped(c), CallFits(c)
    PROVE  CallFits(c)'
<1>1. ASSUME c.do \in {"issue", "issue_new"}, IsOpen(c.room)'
      PROVE  Carries(c.room, c.player, c.ip)'
  <2>1. c.room \in RoomIds \ unused /\ c.player \in Players /\ c.player # Nobody
    BY <1>1, RoomAssumption DEF CallTyped
  <2>2. IsOpen(c.room) /\ Stored(c.room) /\ Stored(c.room)'
    BY <1>1, <2>1, OpenBefore DEF IsOpen
  <2>3. Carries(c.room, c.player, c.ip)
    BY <1>1, <2>2 DEF CallFits
  <2> QED
    BY <2>1, <2>2, <2>3, CarriesOn
<1>2. ASSUME c.do \in Creating, Stored(c.room)' PROVE HostAlone(c.room, c.player)'
  <2>1. c.room \in RoomIds \ unused /\ c.player \in Players
    BY <1>2 DEF CallTyped, Creating
  <2>2. Stored(c.room) /\ HostAlone(c.room, c.player)
    BY <1>2, <2>1, OpenBefore DEF CallFits
  <2>3. rooms'[c.room].HostID \in Players
    BY <1>2, <2>1 DEF BlocksInv, StoreInv, RoomOK, RoomRecord
  <2>4. /\ Follows(rooms[c.room], rooms'[c.room], Nobody)
        /\ rooms'[c.room].HostID # rooms[c.room].HostID => IsSeated(rooms[c.room], rooms'[c.room].HostID)
    BY <1>2, <2>1, <2>2 DEF Company, Stays
  <2> QED
    BY <2>2, <2>3, <2>4, RoomAssumption DEF HostAlone, Follows
<1> QED
  BY <1>1, <1>2 DEF CallFits
--------------------------------------------------------------------------------
(* The handlers' steps, one handler at a time *)

\* What every step may rely on.
Stepping ==
    /\ ApiInv /\ [StoreNext]_storeVars
    /\ BlocksInv' /\ ApiTyped' /\ StepKeeps /\ now \in Nat /\ now' \in Nat /\ now' >= now

LEMMA StepsOn == ApiInv /\ [Next]_vars => Stepping
<1> SUFFICES ASSUME ApiInv, [Next]_vars PROVE Stepping
  OBVIOUS
<1>1. BlocksInv /\ ApiTyped
  BY DEF ApiInv
<1>2. [StoreNext]_storeVars
  BY <1>1, StepsOfStore
<1> QED
  BY <1>1, <1>2, StepTyped, NextKeeps, ClockForward DEF Stepping

LEMMA HandlerDone ==
    ASSUME OneHandler, Stepping, NEW q \in Requests, NoneBlocked',
           \A t \in tickets' : IsOpen(t.RoomID)' =>
              Carries(t.RoomID, t.PlayerID, t.VirtualIP)' \/ Revokes(doing'[q], t),
           \A b \in barred' : RoomsOf(b)' # {} => Evicts(doing[q], b)',
           CallFits(doing[q])'
    PROVE  ApiInv'
<1>1. TicketsOK'
  BY DEF TicketsOK
<1>2. BarredOK'
  BY DEF BarredOK
<1>3. \A k \in Requests : CallFits(doing[k])'
  BY DEF OneHandler
<1> QED
  BY <1>1, <1>2, <1>3 DEF ApiInv, Stepping

LEMMA HandlerStep ==
    ASSUME OneHandler, Stepping, NEW q \in Requests,
           NEW in, NEW where, NEW out, Company(in, where, out)
    PROVE  /\ NoneBlocked'
           /\ \A t \in tickets : IsOpen(t.RoomID)' =>
                 \/ Carries(t.RoomID, t.PlayerID, t.VirtualIP)'
                 \/ Revokes(doing[q], t)
                 \/ t.RoomID = where /\ t.PlayerID = out
           /\ \A b \in barred : /\ b # in => RoomsOf(b)' \subseteq RoomsOf(b)
                                /\ RoomsOf(b) # {} => Evicts(doing[q], b)
<1>0. \A k \in Requests : k = q
  BY DEF OneHandler
<1>1. NoneBlocked'
  BY StillNoneBlocked DEF Stepping, ApiInv
<1>2. ASSUME NEW t \in tickets, IsOpen(t.RoomID)'
      PROVE  \/ Carries(t.RoomID, t.PlayerID, t.VirtualIP)'
             \/ Revokes(doing[q], t)
             \/ t.RoomID = where /\ t.PlayerID = out
  BY <1>0, <1>2, TicketsFollow DEF Stepping
<1>3. ASSUME NEW b \in barred
      PROVE  /\ b # in => RoomsOf(b)' \subseteq RoomsOf(b)
             /\ RoomsOf(b) # {} => Evicts(doing[q], b)
  <2>1. b \in Players
    BY DEF Stepping, ApiInv, ApiTyped
  <2>2. b # in => RoomsOf(b)' \subseteq RoomsOf(b)
    BY <2>1, NobodyNew DEF Stepping, ApiInv
  <2> QED
    BY <1>0, <2>2 DEF Stepping, ApiInv, BarredOK
<1> QED
  BY <1>1, <1>2, <1>3

\* A step of a handler that neither revokes nor evicts at the moment.
LEMMA PlainStep ==
    ASSUME OneHandler, Stepping, NEW q \in Requests,
           doing[q].do \notin {"evict", "evict_from", "revoke_player", "revoke_room"},
           NEW in, NEW where, NEW out, Company(in, where, out), in \notin barred, UNCHANGED barred,
           \A t \in tickets' : t \in tickets \/ (IsOpen(t.RoomID)' => Carries(t.RoomID, t.PlayerID, t.VirtualIP)'),
           \A t \in tickets : t.RoomID = where /\ t.PlayerID = out => Revokes(doing'[q], t),
           CallFits(doing[q])'
    PROVE  ApiInv'
<1>1. \A t : ~ Revokes(doing[q], t)
  BY DEF Revokes
<1>2. \A b : ~ Evicts(doing[q], b)
  BY DEF Evicts
<1>3. \A t \in tickets' : IsOpen(t.RoomID)' =>
         Carries(t.RoomID, t.PlayerID, t.VirtualIP)' \/ Revokes(doing'[q], t)
  BY <1>1, HandlerStep
<1>4. \A b \in barred' : RoomsOf(b)' = {}
  BY <1>2, HandlerStep
<1> QED
  BY <1>3, <1>4, HandlerStep, HandlerDone

\* ... and one that lets nobody out of a room.
LEMMA PlainStepIn ==
    ASSUME OneHandler, Stepping, NEW q \in Requests,
           doing[q].do \notin {"evict", "evict_from", "revoke_player", "revoke_room"},
           NEW in, NEW where, Company(in, where, Nobody), in \notin barred, UNCHANGED barred,
           \A t \in tickets' : t \in tickets \/ (IsOpen(t.RoomID)' => Carries(t.RoomID, t.PlayerID, t.VirtualIP)'),
           CallFits(doing[q])'
    PROVE  ApiInv'
<1>1. \A t \in tickets : t.PlayerID # Nobody
  BY RoomAssumption DEF Stepping, ApiInv, ApiTyped, TicketTyped
<1> QED
  BY <1>1, PlainStep

LEMMA NobodyIsBarred == ASSUME Stepping PROVE Nobody \notin barred
  BY RoomAssumption DEF Stepping, ApiInv, ApiTyped

\* What a handler goes on to do.
LEMMA BeginIs ==
    ASSUME Stepping, NEW q \in Requests
    PROVE  \A c : Begin(q, c) => doing[q] = Idle /\ doing[q].do = "nothing" /\ doing'[q] = c
  BY DEF Stepping, ApiInv, ApiTyped, Begin, Idle

LEMMA ContinueIs ==
    ASSUME Stepping, NEW q \in Requests
    PROVE  \A c : Continue(q, c) => doing'[q] = c
  BY DEF Stepping, ApiInv, ApiTyped, Continue

\* Calls that ask nothing of what was read.
LEMMA EasyFits ==
    ASSUME NEW q, doing'[q].do \notin Creating \union {"issue", "enter"}
    PROVE  CallFits(doing[q])'
  BY DEF CallFits, Creating

LEMMA CallKindsAre ==
    /\ Idle.do = "nothing"
    /\ \A id, p : RevokingOne(id, p).do = "revoke_player" /\ RevokingOne(id, p).room = id
                  /\ RevokingOne(id, p).player = p
    /\ \A id : RevokingRoom(id).do = "revoke_room" /\ RevokingRoom(id).room = id
    /\ \A id, p, ip : /\ Issuing(id, p, ip).do = "issue" /\ Issuing(id, p, ip).room = id
                      /\ Issuing(id, p, ip).player = p /\ Issuing(id, p, ip).ip = ip
  BY DEF Idle, RevokingOne, RevokingRoom, Issuing

LEMMA CallFitsNext ==
    ASSUME NEW q, NEW c, doing'[q] = c,
           c.do \in {"issue", "issue_new"} => (IsOpen(c.room)' => Carries(c.room, c.player, c.ip)'),
           c.do \in Creating => (Stored(c.room)' => HostAlone(c.room, c.player)'),
           c.do = "enter" => c.who.ID \notin barred'
    PROVE  CallFits(doing[q])'
  BY DEF CallFits

LEMMA CreateKeeps ==
    ASSUME OneHandler, Stepping, NEW q \in Requests, NEW id \in RoomIds, NEW p \in Players,
           NEW mode, NEW door, CreateRoom(q, id, p, mode, door)
    PROVE  ApiInv'
<1>1. PICK ip : /\ ip = VirtualIP(rooms'[id], p)
                /\ Begin(q, [do |-> "issue_new", room |-> id, player |-> p,
                             ip |-> ip, mode |-> mode, door |-> door])
  BY DEF CreateRoom
<1> DEFINE c == [do |-> "issue_new", room |-> id, player |-> p, ip |-> ip, mode |-> mode, door |-> door]
<1>2. c.do = "issue_new" /\ c.room = id /\ c.player = p /\ c.ip = ip
  OBVIOUS
<1>3. doing'[q] = c /\ doing[q].do = "nothing"
  BY <1>1, BeginIs
<1> HIDE DEF c
<1>4. Create(id, p) /\ p \notin barred /\ UNCHANGED <<tickets, barred>>
  BY DEF CreateRoom
<1>5. Company(p, id, Nobody) /\ ~ Stored(id) /\ Stored(id)'
  BY <1>4, CreateCompany DEF Stepping, ApiInv
<1>6. HostAlone(id, p)' /\ Carries(id, p, ip)'
  BY <1>1, <1>5 DEF Company, Carries
<1>7. CallFits(doing[q])'
  BY <1>2, <1>3, <1>6, CallFitsNext
<1> QED
  BY <1>3, <1>4, <1>5, <1>7, PlainStepIn

LEMMA AskKeeps ==
    ASSUME OneHandler, Stepping, NEW q \in Requests, NEW id \in RoomIds, NEW p \in Players,
           NEW mmr, NEW password, NEW watching, AskToEnter(q, id, p, mmr, password, watching)
    PROVE  ApiInv'
<1> DEFINE friend == {rooms[id].HostID, p} \in FriendPairs
           who == [ID |-> p, MMR |-> mmr, Password |-> password, Friend |-> friend, Admin |-> FALSE]
           c == [do |-> "enter", room |-> id, watching |-> watching, who |-> who]
<1>1. who.ID = p
  OBVIOUS
<1>2. Begin(q, c) /\ p \notin barred /\ UNCHANGED storeVars /\ UNCHANGED <<tickets, barred>>
  BY DEF AskToEnter
<1> HIDE DEF who
<1>3. c.do = "enter" /\ c.who = who
  OBVIOUS
<1> HIDE DEF c
<1>4. doing'[q] = c /\ doing[q].do = "nothing"
  BY <1>2, BeginIs
<1>5. CallFits(doing[q])'
  BY <1>1, <1>2, <1>3, <1>4 DEF CallFits, Creating
<1>6. Company(Nobody, id, Nobody)
  BY <1>2, QuietCompany DEF storeVars
<1> QED
  BY <1>2, <1>4, <1>5, <1>6, PlainStepIn, NobodyIsBarred

\* A member that the store names an address for carries it.
LEMMA NamedCarries ==
    ASSUME NEW r, RoomOK(r), NEW p \in Players, MembershipGiven(r, p)
    PROVE  IsMember(r, p)
  BY DEF RoomOK, AddressFollowsSeat, MembershipGiven

LEMMA ConnectKeeps ==
    ASSUME OneHandler, Stepping, NEW q \in Requests, NEW id \in RoomIds, NEW p \in Players,
           ConnectRoom(q, id, p)
    PROVE  ApiInv'
<1>1. PICK ip : ip = VirtualIP(rooms[id], p) /\ Begin(q, Issuing(id, p, ip))
  BY DEF ConnectRoom
<1>2. doing'[q] = Issuing(id, p, ip) /\ doing[q].do = "nothing"
  BY <1>1, BeginIs
<1>3. /\ SeatedIn(id, p) /\ MembershipGiven(rooms[id], p) /\ UNCHANGED storeVars
      /\ UNCHANGED <<tickets, barred>>
  BY DEF ConnectRoom
<1>4. Carries(id, p, ip)
  <2>1. RoomOK(rooms[id])
    BY <1>3 DEF SeatedIn, Stepping, ApiInv, BlocksInv, StoreInv
  <2> QED
    BY <1>1, <1>3, <2>1, NamedCarries DEF Carries
<1>5. Carries(id, p, ip)'
  BY <1>3, <1>4 DEF Carries, storeVars
<1>6. CallFits(doing[q])'
  BY <1>2, <1>5, CallFitsNext, CallKindsAre DEF Creating
<1>7. Company(Nobody, id, Nobody)
  BY <1>3, QuietCompany DEF storeVars
<1> QED
  BY <1>2, <1>3, <1>6, <1>7, PlainStepIn, NobodyIsBarred

LEMMA LeaveKeepsApi ==
    ASSUME OneHandler, Stepping, NEW q \in Requests, NEW id \in RoomIds, NEW p \in Players,
           LeaveHandler(q, id, p) \/ \E actor \in Players : KickHandler(q, id, actor, p)
    PROVE  ApiInv'
<1>1. PICK c \in {RevokingRoom(id), RevokingOne(id, p)} : Begin(q, c)
  BY DEF LeaveHandler, KickHandler
<1>2. doing'[q] = c /\ doing[q].do = "nothing"
  BY <1>1, BeginIs
<1>3. UNCHANGED <<tickets, barred>>
  BY DEF LeaveHandler, KickHandler
<1>4. Company(Nobody, id, p)
  BY LeaveCompany, KickCompany DEF LeaveHandler, KickHandler, Stepping, ApiInv
<1>5. \A t : t.RoomID = id /\ t.PlayerID = p => Revokes(c, t)
  BY <1>1, CallKindsAre DEF Revokes
<1>6. CallFits(doing[q])'
  BY <1>1, <1>2, EasyFits, CallKindsAre DEF Creating
<1> QED
  BY <1>2, <1>3, <1>4, <1>5, <1>6, PlainStep, NobodyIsBarred

LEMMA StaffCloseKeeps ==
    ASSUME OneHandler, Stepping, NEW q \in Requests, NEW id \in RoomIds, StaffCloseRoom(q, id)
    PROVE  ApiInv'
<1>1. Begin(q, RevokingRoom(id)) /\ CloseRoom(id, Nobody) /\ UNCHANGED <<tickets, barred>>
  BY DEF StaffCloseRoom
<1>2. doing'[q] = RevokingRoom(id) /\ doing[q].do = "nothing"
  BY <1>1, BeginIs
<1>3. Company(Nobody, id, Nobody)
  BY <1>1, CloseCompany DEF Stepping, ApiInv
<1>4. CallFits(doing[q])'
  BY <1>2, EasyFits, CallKindsAre DEF Creating
<1> QED
  BY <1>1, <1>2, <1>3, <1>4, PlainStepIn, NobodyIsBarred

\* Whoever is sanctioned anew is yet to be evicted; everybody else was out already.
LEMMA SanctionKeeps ==
    ASSUME OneHandler, Stepping, NEW q \in Requests, NEW p \in Players, Sanction(q, p)
    PROVE  ApiInv'
<1> DEFINE c == [do |-> "evict", player |-> p]
<1>1. Begin(q, c) /\ UNCHANGED storeVars /\ tickets' = tickets /\ barred' = barred \union {p}
  BY DEF Sanction
<1>2. c.do = "evict" /\ c.player = p
  OBVIOUS
<1> HIDE DEF c
<1>3. doing'[q] = c /\ doing[q].do = "nothing"
  BY <1>1, BeginIs
<1>4. Company(Nobody, Nobody, Nobody) /\ Nobody \notin barred
  BY <1>1, QuietCompany, NobodyIsBarred DEF storeVars
<1>5. /\ NoneBlocked'
      /\ \A t \in tickets : IsOpen(t.RoomID)' =>
            \/ Carries(t.RoomID, t.PlayerID, t.VirtualIP)'
            \/ Revokes(doing[q], t)
            \/ t.RoomID = Nobody /\ t.PlayerID = Nobody
      /\ \A b \in barred : RoomsOf(b)' \subseteq RoomsOf(b) /\ (RoomsOf(b) # {} => Evicts(doing[q], b))
  BY <1>4, HandlerStep
<1>6. \A t \in tickets' : IsOpen(t.RoomID)' => Carries(t.RoomID, t.PlayerID, t.VirtualIP)'
  BY <1>1, <1>3, <1>5, RoomAssumption DEF Revokes, Stepping, ApiInv, ApiTyped, TicketTyped
<1>7. \A b \in barred' : RoomsOf(b)' # {} => Evicts(doing[q], b)'
  BY <1>1, <1>2, <1>3, <1>5 DEF Evicts
<1>8. CallFits(doing[q])'
  BY <1>2, <1>3, EasyFits DEF Creating
<1> QED
  BY <1>5, <1>6, <1>7, <1>8, HandlerDone

LEMMA RequestKeeps ==
    ASSUME OneHandler, Stepping, NEW q \in Requests, NEW id \in RoomIds, Request(q, id)
    PROVE  ApiInv'
  BY CreateKeeps, AskKeeps, ConnectKeeps, LeaveKeepsApi, StaffCloseKeeps DEF Request

\* A ticket just issued names an address its holder carries, or a room that has ended.
LEMMA IssuedCarries ==
    ASSUME Stepping, NEW q \in Requests, doing[q].do \in {"issue", "issue_new"}, UNCHANGED storeVars,
           AddTicket(doing[q].room, doing[q].player, doing[q].ip)
    PROVE  \A t \in tickets' : t \in tickets \/ (IsOpen(t.RoomID)' => Carries(t.RoomID, t.PlayerID, t.VirtualIP)')
<1>1. PICK c : c = doing[q]
  OBVIOUS
<1> DEFINE new == [PlayerID |-> c.player, RoomID |-> c.room, VirtualIP |-> c.ip, Expires |-> now + Lifetime]
<1>2. tickets' = tickets \union {new}
  BY <1>1 DEF AddTicket
<1>3. new.PlayerID = c.player /\ new.RoomID = c.room /\ new.VirtualIP = c.ip
  OBVIOUS
<1> HIDE DEF new
<1>4. IsOpen(c.room) => Carries(c.room, c.player, c.ip)
  BY <1>1 DEF Stepping, ApiInv, CallFits
<1>5. IsOpen(c.room)' => Carries(c.room, c.player, c.ip)'
  BY <1>4 DEF IsOpen, Stored, Carries, storeVars
<1> QED
  BY <1>2, <1>3, <1>5 DEF IsOpen, Stored, Carries

LEMMA IssueKeeps ==
    ASSUME OneHandler, Stepping, NEW q \in Requests, Issue(q)
    PROVE  ApiInv'
<1>1. /\ doing[q].do = "issue" /\ UNCHANGED storeVars /\ UNCHANGED barred /\ Continue(q, Idle)
      /\ AddTicket(doing[q].room, doing[q].player, doing[q].ip)
  BY DEF Issue, Finish
<1>2. CallFits(doing[q])'
  BY <1>1, ContinueIs, EasyFits, CallKindsAre DEF Creating
<1>3. Company(Nobody, Nobody, Nobody)
  BY <1>1, QuietCompany DEF storeVars
<1> QED
  BY <1>1, <1>2, <1>3, IssuedCarries, PlainStepIn, NobodyIsBarred

LEMMA IssueNewKeeps ==
    ASSUME OneHandler, Stepping, NEW q \in Requests, IssueNew(q)
    PROVE  ApiInv'
<1>0. PICK old : old = doing[q]
  OBVIOUS
<1> DEFINE c == [do |-> "mode", room |-> old.room, player |-> old.player, mode |-> old.mode, door |-> old.door]
<1>1. /\ old.do = "issue_new" /\ UNCHANGED storeVars /\ UNCHANGED barred /\ Continue(q, c)
      /\ AddTicket(doing[q].room, doing[q].player, doing[q].ip)
  BY <1>0 DEF IssueNew
<1>2. c.do = "mode" /\ c.room = old.room /\ c.player = old.player
  OBVIOUS
<1> HIDE DEF c
<1>3. Stored(old.room) => HostAlone(old.room, old.player)
  BY <1>0, <1>1 DEF Stepping, ApiInv, CallFits, Creating
<1>4. Stored(old.room)' => HostAlone(old.room, old.player)'
  BY <1>1, <1>3 DEF Stored, HostAlone, storeVars
<1>5. CallFits(doing[q])'
  <2>1. doing'[q] = c
    BY <1>1, ContinueIs
  <2> QED
    BY <1>2, <1>4, <2>1 DEF CallFits
<1>6. Company(Nobody, Nobody, Nobody)
  BY <1>1, QuietCompany DEF storeVars
<1> QED
  BY <1>0, <1>1, <1>5, <1>6, IssuedCarries, PlainStepIn, NobodyIsBarred

LEMMA ChooseModeKeeps ==
    ASSUME OneHandler, Stepping, NEW q \in Requests, ChooseMode(q)
    PROVE  ApiInv'
<1>0. PICK old : old = doing[q]
  OBVIOUS
<1>1. /\ old.do = "mode" /\ CallTyped(old) /\ CallFits(old)
  BY <1>0 DEF ChooseMode, Stepping, ApiInv, ApiTyped
<1>2. old.room \in RoomIds \ unused /\ old.player \in Players /\ old.mode \in GameModes \union {NoMode}
      /\ old.door \in Doors \union {NoDoor}
  BY <1>1 DEF CallTyped
<1>3. Company(Nobody, old.room, Nobody)
  <2>1. CASE UNCHANGED storeVars
    BY <2>1, QuietCompany DEF storeVars
  <2>2. CASE old.mode # NoMode /\ SetRoomGameMode(old.room, old.player, old.mode)
    <3>1. RoomSetting(old.room)
      BY <1>2, <2>2 DEF RoomSetting
    <3> QED
      BY <1>2, <3>1, SettingCompany DEF Stepping, ApiInv
  <2> QED
    BY <1>0, <2>1, <2>2 DEF ChooseMode
<1> DEFINE c == [do |-> "door", room |-> old.room, player |-> old.player, door |-> old.door]
<1>4. c.do = "door" /\ c.room = old.room /\ c.player = old.player /\ c.door = old.door
  OBVIOUS
<1>5. UNCHANGED <<tickets, barred>> /\ (Continue(q, Idle) \/ (old.door # NoDoor /\ Continue(q, c)))
  BY <1>0 DEF ChooseMode
<1> HIDE DEF c
<1>6. doing'[q] = Idle \/ (old.door # NoDoor /\ doing'[q] = c)
  BY <1>5, ContinueIs
<1>7. CallFits(c) /\ (old.door # NoDoor => CallTyped(c))
  BY <1>1, <1>2, <1>4 DEF CallFits, CallTyped, Creating
<1>8. ASSUME NEW k, k = c, old.door # NoDoor PROVE CallFits(k)'
  BY <1>3, <1>5, <1>7, <1>8, CallStillFits DEF Stepping, ApiInv
<1>9. CallFits(doing[q])'
  <2>1. CASE doing'[q] = Idle
    BY <2>1, EasyFits, CallKindsAre DEF Creating
  <2>2. CASE old.door # NoDoor /\ doing'[q] = c
    BY <1>8, <2>2 DEF CallFits
  <2> QED
    BY <1>6, <2>1, <2>2
<1> QED
  BY <1>0, <1>1, <1>3, <1>5, <1>9, PlainStepIn, NobodyIsBarred

LEMMA HangDoorKeeps ==
    ASSUME OneHandler, Stepping, NEW q \in Requests, HangDoor(q)
    PROVE  ApiInv'
<1>0. PICK c : c = doing[q]
  OBVIOUS
<1>1. /\ c.do = "door" /\ CallTyped(c)
      /\ SetRoomPrivacy(c.room, c.player, c.door.Privacy, c.door.Password, c.door.MinMMR)
  BY <1>0 DEF HangDoor, Stepping, ApiInv, ApiTyped
<1>2. c.room \in RoomIds /\ c.player \in Players /\ c.door \in Doors
  BY <1>1 DEF CallTyped
<1>3. c.door.Privacy \in PrivacyKinds /\ c.door.Password \in Passwords \union {NoPassword} /\ c.door.MinMMR \in MMRFloors
  BY <1>2 DEF Doors
<1>4. RoomSetting(c.room)
  BY <1>1, <1>2, <1>3 DEF RoomSetting
<1>5. Company(Nobody, c.room, Nobody)
  BY <1>2, <1>4, SettingCompany DEF Stepping, ApiInv
<1>6. UNCHANGED <<tickets, barred>> /\ doing'[q] = Idle
  BY ContinueIs DEF HangDoor, Finish
<1>7. CallFits(doing[q])'
  BY <1>6, EasyFits, CallKindsAre DEF Creating
<1> QED
  BY <1>0, <1>1, <1>5, <1>6, <1>7, PlainStepIn, NobodyIsBarred

LEMMA UndoCreateKeeps ==
    ASSUME OneHandler, Stepping, NEW q \in Requests, UndoCreate(q)
    PROVE  ApiInv'
<1>0. PICK c : c = doing[q]
  OBVIOUS
<1>1. c.do = "door" /\ c.room \in RoomIds
  BY <1>0 DEF UndoCreate, Stepping, ApiInv, ApiTyped, CallTyped
<1>2. UNCHANGED storeVars \/ CloseRoom(c.room, c.player)
  BY <1>0 DEF UndoCreate
<1>3. Company(Nobody, c.room, Nobody)
  BY <1>1, <1>2, QuietCompany, CloseCompany DEF storeVars, Stepping, ApiInv
<1>4. UNCHANGED <<tickets, barred>> /\ doing'[q] = RevokingRoom(c.room)
  BY <1>0, ContinueIs DEF UndoCreate
<1>5. CallFits(doing[q])'
  BY <1>4, EasyFits, CallKindsAre DEF Creating
<1> QED
  BY <1>0, <1>1, <1>3, <1>4, <1>5, PlainStepIn, NobodyIsBarred

LEMMA EnterKeeps ==
    ASSUME OneHandler, Stepping, NEW q \in Requests, EnterRoom(q)
    PROVE  ApiInv'
<1>0. PICK c : c = doing[q]
  OBVIOUS
<1>1. c.do = "enter" /\ CallTyped(c) /\ CallFits(c)
  BY <1>0 DEF EnterRoom, Stepping, ApiInv, ApiTyped
<1>2. c.room \in RoomIds /\ c.who \in Applicants /\ c.who.ID \notin barred
  BY <1>1 DEF CallTyped, CallFits
<1>3. c.who.ID \in Players
  BY <1>2 DEF Applicants
<1>4. JoinRoom(c.room, c.who) \/ JoinRoomObserver(c.room, c.who)
  BY <1>0 DEF EnterRoom
<1>5. Company(c.who.ID, c.room, Nobody) /\ Stored(c.room)'
  BY <1>2, <1>4, JoinCompany DEF Stepping, ApiInv
<1>6. UNCHANGED <<tickets, barred>> /\ doing'[q] = TicketFor(c.room, c.who.ID)
  BY <1>0, ContinueIs DEF EnterRoom
<1>7. CallFits(doing[q])'
  <2>1. CASE doing'[q] = Idle
    BY <2>1, EasyFits, CallKindsAre DEF Creating
  <2>2. CASE MembershipGiven(rooms'[c.room], c.who.ID)
    <3>1. PICK ip : ip = VirtualIP(rooms'[c.room], c.who.ID)
      OBVIOUS
    <3>2. doing'[q] = Issuing(c.room, c.who.ID, ip)
      BY <1>6, <2>2, <3>1 DEF TicketFor
    <3>3. RoomOK(rooms'[c.room])
      BY <1>2, <1>5 DEF Stepping, BlocksInv, StoreInv
    <3>4. Carries(c.room, c.who.ID, ip)'
      BY <1>3, <2>2, <3>1, <3>3, NamedCarries DEF Carries
    <3> QED
      BY <3>2, <3>4, CallFitsNext, CallKindsAre DEF Creating
  <2> QED
    BY <1>6, <2>1, <2>2 DEF TicketFor
<1> QED
  BY <1>0, <1>1, <1>2, <1>5, <1>6, <1>7, PlainStepIn

LEMMA RefuseKeeps ==
    ASSUME OneHandler, Stepping, NEW q \in Requests, RefuseEntry(q)
    PROVE  ApiInv'
<1>1. /\ doing[q].do = "enter" /\ UNCHANGED storeVars /\ UNCHANGED <<tickets, barred>> /\ Continue(q, Idle)
  BY DEF RefuseEntry, Finish
<1>2. CallFits(doing[q])'
  BY <1>1, ContinueIs, EasyFits, CallKindsAre DEF Creating
<1>3. Company(Nobody, Nobody, Nobody)
  BY <1>1, QuietCompany DEF storeVars
<1> QED
  BY <1>1, <1>2, <1>3, PlainStepIn, NobodyIsBarred

LEMMA EvictListKeeps ==
    ASSUME OneHandler, Stepping, NEW q \in Requests, EvictList(q)
    PROVE  ApiInv'
<1>0. PICK c : c = doing[q]
  OBVIOUS
<1>1. c.do = "evict" /\ UNCHANGED storeVars /\ UNCHANGED <<tickets, barred>>
  BY <1>0 DEF EvictList
<1>2. Company(Nobody, Nobody, Nobody) /\ Nobody \notin barred
  BY <1>1, QuietCompany, NobodyIsBarred DEF storeVars
<1>3. /\ NoneBlocked'
      /\ \A t \in tickets : IsOpen(t.RoomID)' =>
            \/ Carries(t.RoomID, t.PlayerID, t.VirtualIP)'
            \/ Revokes(doing[q], t)
            \/ t.RoomID = Nobody /\ t.PlayerID = Nobody
      /\ \A b \in barred : RoomsOf(b)' \subseteq RoomsOf(b) /\ (RoomsOf(b) # {} => Evicts(doing[q], b))
  BY <1>2, HandlerStep
<1>4. \A t \in tickets' : IsOpen(t.RoomID)' => Carries(t.RoomID, t.PlayerID, t.VirtualIP)'
  BY <1>0, <1>1, <1>3, RoomAssumption DEF Revokes, Stepping, ApiInv, ApiTyped, TicketTyped
<1>5. \A b \in barred : RoomsOf(b) # {} => b = c.player
  BY <1>0, <1>1, <1>3 DEF Evicts
<1>6. CASE RoomsOf(c.player) = {} /\ Finish(q)
  <2>1. doing'[q] = Idle
    BY <1>6, ContinueIs DEF Finish
  <2>2. CallFits(doing[q])'
    BY <2>1, EasyFits, CallKindsAre DEF Creating
  <2>3. \A b \in barred' : RoomsOf(b)' = {}
    BY <1>1, <1>3, <1>5, <1>6
  <2> QED
    BY <1>3, <1>4, <2>2, <2>3, HandlerDone
<1>7. ASSUME NEW id \in RoomsOf(c.player), Continue(q, [do |-> "evict_from", room |-> id, player |-> c.player])
      PROVE  ApiInv'
  <2> DEFINE n == [do |-> "evict_from", room |-> id, player |-> c.player]
  <2>1. n.do = "evict_from" /\ n.room = id /\ n.player = c.player
    OBVIOUS
  <2>2. doing'[q] = n
    BY <1>7, ContinueIs
  <2> HIDE DEF n
  <2>3. CallFits(doing[q])'
    BY <2>1, <2>2, EasyFits DEF Creating
  <2>4. c.player \in Players
    BY <1>0, <1>1 DEF Stepping, ApiInv, ApiTyped, CallTyped
  <2>5. RoomsOf(c.player) \subseteq {id}
    BY <1>7, <2>4 DEF Stepping, ApiInv, BlocksInv, StoreInv, OneRoomAtATime
  <2>6. \A b \in barred' : RoomsOf(b)' # {} => Evicts(doing[q], b)'
    BY <1>1, <1>3, <1>5, <2>1, <2>2, <2>5 DEF Evicts
  <2> QED
    BY <1>3, <1>4, <2>3, <2>6, HandlerDone
<1> QED
  BY <1>0, <1>6, <1>7 DEF EvictList

LEMMA EvictFromKeeps ==
    ASSUME OneHandler, Stepping, NEW q \in Requests, EvictFrom(q)
    PROVE  ApiInv'
<1>0. PICK c : c = doing[q]
  OBVIOUS
<1>1. /\ c.do = "evict_from" /\ UNCHANGED <<tickets, barred>>
      /\ c.room \in RoomIds /\ c.player \in Players
  BY <1>0 DEF EvictFrom, Stepping, ApiInv, ApiTyped, CallTyped
<1>2. \/ Stored(c.room) /\ LeaveRoom(c.room, c.player)
         /\ doing'[q] \in {RevokingRoom(c.room), RevokingOne(c.room, c.player)}
      \/ ~ Stored(c.room) /\ UNCHANGED storeVars /\ doing'[q] = Idle
  BY <1>0, ContinueIs DEF EvictFrom, Finish
<1>3. CallFits(doing[q])'
  BY <1>2, EasyFits, CallKindsAre DEF Creating
<1>4. Company(Nobody, c.room, c.player) /\ ~ SeatedIn(c.room, c.player)' /\ Nobody \notin barred
  <2>1. Stored(c.room) => Company(Nobody, c.room, c.player) /\ ~ SeatedIn(c.room, c.player)'
    BY <1>1, <1>2, LeaveCompany DEF Stepping, ApiInv
  <2>2. CASE ~ Stored(c.room)
    <3>1. UNCHANGED <<rooms, unused>>
      BY <1>2, <2>2 DEF storeVars
    <3> QED
      BY <2>2, <3>1, NothingStays, NobodyIsBarred DEF Company, Stored, SeatedIn
  <2> QED
    BY <2>1, <2>2, NobodyIsBarred DEF Stepping
<1>5. /\ NoneBlocked'
      /\ \A t \in tickets : IsOpen(t.RoomID)' =>
            \/ Carries(t.RoomID, t.PlayerID, t.VirtualIP)'
            \/ Revokes(doing[q], t)
            \/ t.RoomID = c.room /\ t.PlayerID = c.player
      /\ \A b \in barred : RoomsOf(b)' \subseteq RoomsOf(b) /\ (RoomsOf(b) # {} => Evicts(doing[q], b))
  BY <1>4, HandlerStep
<1>6. \A b \in barred' : RoomsOf(b)' = {}
  <2> SUFFICES ASSUME NEW b \in barred', NEW id \in RoomsOf(b)' PROVE FALSE
    OBVIOUS
  <2>1. b \in barred /\ id \in RoomsOf(b)
    BY <1>1, <1>5
  <2>2. b = c.player /\ id = c.room
    BY <1>0, <1>1, <1>5, <2>1 DEF Evicts
  <2>3. SeatedIn(id, b)'
    BY DEF RoomsOf, IsOpen, SeatedIn
  <2> QED
    BY <1>4, <2>2, <2>3
<1>7. \A t \in tickets' : IsOpen(t.RoomID)' =>
         Carries(t.RoomID, t.PlayerID, t.VirtualIP)' \/ Revokes(doing'[q], t)
  <2> SUFFICES ASSUME NEW t \in tickets, IsOpen(t.RoomID)', t.RoomID = c.room, t.PlayerID = c.player
               PROVE  Revokes(doing'[q], t)
    BY <1>0, <1>1, <1>5 DEF Revokes
  <2>1. IsOpen(c.room)'
    OBVIOUS
  <2>2. doing'[q] \in {RevokingRoom(c.room), RevokingOne(c.room, c.player)}
    BY <1>2, <2>1 DEF IsOpen, Stored, storeVars
  <2> QED
    BY <2>2, CallKindsAre DEF Revokes
<1> QED
  BY <1>3, <1>5, <1>6, <1>7, HandlerDone

LEMMA RevokeKeeps ==
    ASSUME OneHandler, Stepping, NEW q \in Requests, RevokePlayerRoom(q) \/ RevokeRoom(q)
    PROVE  ApiInv'
<1>0. PICK c : c = doing[q]
  OBVIOUS
<1>1. /\ c.do \in {"revoke_player", "revoke_room"} /\ UNCHANGED storeVars /\ UNCHANGED barred
      /\ doing'[q] = Idle
      /\ \A t \in tickets' : t \in tickets /\ ~ Revokes(c, t)
  BY <1>0, ContinueIs DEF RevokePlayerRoom, RevokeRoom, Finish, Revokes
<1>2. Company(Nobody, Nobody, Nobody) /\ Nobody \notin barred
  BY <1>1, QuietCompany, NobodyIsBarred DEF storeVars
<1>3. /\ NoneBlocked'
      /\ \A t \in tickets : IsOpen(t.RoomID)' =>
            \/ Carries(t.RoomID, t.PlayerID, t.VirtualIP)'
            \/ Revokes(c, t)
            \/ t.RoomID = Nobody /\ t.PlayerID = Nobody
      /\ \A b \in barred : RoomsOf(b)' \subseteq RoomsOf(b) /\ (RoomsOf(b) # {} => Evicts(c, b))
  BY <1>0, <1>2, HandlerStep
<1>4. \A t \in tickets' : IsOpen(t.RoomID)' => Carries(t.RoomID, t.PlayerID, t.VirtualIP)'
  BY <1>1, <1>3, RoomAssumption DEF Stepping, ApiInv, ApiTyped, TicketTyped
<1>5. \A b \in barred' : RoomsOf(b)' = {}
  BY <1>1, <1>3 DEF Evicts
<1>6. CallFits(doing[q])'
  BY <1>1, EasyFits, CallKindsAre DEF Creating
<1> QED
  BY <1>3, <1>4, <1>5, <1>6, HandlerDone

LEMMA ResumeKeeps ==
    ASSUME OneHandler, Stepping, NEW q \in Requests, Resume(q)
    PROVE  ApiInv'
  BY IssueNewKeeps, ChooseModeKeeps, HangDoorKeeps, UndoCreateKeeps, EnterKeeps, RefuseKeeps,
     IssueKeeps, EvictListKeeps, EvictFromKeeps, RevokeKeeps DEF Resume
--------------------------------------------------------------------------------
(* ... and what runs beside it, at any moment *)

LEMMA BesideCompany ==
    ASSUME Stepping, Beside
    PROVE  \E where : Company(Nobody, where, Nobody)
<1>1. CASE \E id \in RoomIds : SettingHandler(id) \/ \E p \in Players : ChangeHostHandler(id, p)
  BY <1>1, SettingCompany DEF SettingHandler, ChangeHostHandler, Stepping, ApiInv
<1>2. CASE TimerTick
  BY <1>2, TickCompany DEF TimerTick, Stepping, ApiInv
<1>3. CASE \/ \E id \in RoomIds : TimerRevoke(id)
           \/ \E p \in Players : Pardon(p)
           \/ \E t \in tickets : RenewLease(t)
           \/ Clock \/ UNCHANGED vars
  <2>1. UNCHANGED <<rooms, unused>>
    BY <1>3 DEF TimerRevoke, Pardon, RenewLease, Clock, PassTime, storeVars, vars
  <2> QED
    BY <2>1, QuietCompany
<1> QED
  BY <1>1, <1>2, <1>3 DEF Beside

LEMMA BesideKeeps ==
    ASSUME Stepping, Beside
    PROVE  ApiInv'
<1>1. PICK where : Company(Nobody, where, Nobody)
  BY BesideCompany
<1>2. /\ UNCHANGED doing /\ barred' \subseteq barred
      /\ \A t \in tickets' : t \in tickets \/ \E old \in tickets : t = [old EXCEPT !.Expires = now + Lifetime]
  BY BesideLeaves
<1>3. NoneBlocked'
  BY <1>1, StillNoneBlocked DEF Stepping, ApiInv
<1>4. \A t \in tickets : IsOpen(t.RoomID)' =>
         Carries(t.RoomID, t.PlayerID, t.VirtualIP)' \/ \E q \in Requests : Revokes(doing[q], t)
  <2>1. \A t \in tickets : t.PlayerID # Nobody
    BY RoomAssumption DEF Stepping, ApiInv, ApiTyped, TicketTyped
  <2> QED
    BY <1>1, <2>1, TicketsFollow DEF Stepping
<1>5. ASSUME NEW t \in tickets'
      PROVE  \E old \in tickets :
                t.PlayerID = old.PlayerID /\ t.RoomID = old.RoomID /\ t.VirtualIP = old.VirtualIP
  <2>1. now + Lifetime \in Nat /\ \A old \in tickets : TicketTyped(old)
    BY CoordinatorAssumption DEF Stepping, ApiInv, ApiTyped
  <2>2. CASE t \in tickets
    BY <2>2
  <2>3. ASSUME NEW old \in tickets, t = [old EXCEPT !.Expires = now + Lifetime]
        PROVE  t.PlayerID = old.PlayerID /\ t.RoomID = old.RoomID /\ t.VirtualIP = old.VirtualIP
    BY <2>1, <2>3, RenewedIs
  <2> QED
    BY <1>2, <2>2, <2>3
<1>6. TicketsOK'
  <2> SUFFICES ASSUME NEW t \in tickets', IsOpen(t.RoomID)'
               PROVE  Carries(t.RoomID, t.PlayerID, t.VirtualIP)' \/ \E q \in Requests : Revokes(doing[q], t)'
    BY DEF TicketsOK
  <2>1. PICK old \in tickets :
           t.PlayerID = old.PlayerID /\ t.RoomID = old.RoomID /\ t.VirtualIP = old.VirtualIP
    BY <1>5
  <2>2. IsOpen(old.RoomID)'
    BY <2>1 DEF IsOpen, Stored
  <2>3. CASE Carries(old.RoomID, old.PlayerID, old.VirtualIP)'
    BY <2>1, <2>3 DEF Carries
  <2>4. CASE \E q \in Requests : Revokes(doing[q], old)
    BY <1>2, <2>1, <2>4 DEF Revokes
  <2> QED
    BY <1>4, <2>2, <2>3, <2>4
<1>7. BarredOK'
  <2> SUFFICES ASSUME NEW b \in barred', RoomsOf(b)' # {}
               PROVE  \E q \in Requests : Evicts(doing[q], b)'
    BY DEF BarredOK
  <2>1. b \in barred /\ b \in Players
    BY <1>2 DEF Stepping, ApiInv, ApiTyped
  <2>2. RoomsOf(b)' \subseteq RoomsOf(b)
    BY <1>1, <2>1, NobodyNew, RoomAssumption DEF Stepping, ApiInv
  <2>3. PICK q \in Requests : Evicts(doing[q], b)
    BY <2>1, <2>2 DEF Stepping, ApiInv, BarredOK
  <2> QED
    BY <1>2, <2>2, <2>3 DEF Evicts
<1>8. \A q \in Requests : CallFits(doing[q])'
  <2>1. ASSUME NEW q \in Requests, NEW c, c = doing[q] PROVE CallFits(c)'
    <3>1. CallTyped(c) /\ CallFits(c)
      BY <2>1 DEF Stepping, ApiInv, ApiTyped
    <3> QED
      BY <1>1, <1>2, <3>1, CallStillFits DEF Stepping, ApiInv
  <2> QED
    BY <1>2, <2>1 DEF CallFits
<1> QED
  BY <1>3, <1>6, <1>7, <1>8 DEF ApiInv, Stepping

LEMMA ApiNext == ASSUME OneHandler PROVE ApiInv /\ [Next]_vars => ApiInv'
<1> SUFFICES ASSUME ApiInv, [Next]_vars PROVE ApiInv'
  OBVIOUS
<1>1. Stepping
  BY StepsOn
<1> QED
  BY <1>1, StepCases, RequestKeeps, SanctionKeeps, ResumeKeeps, BesideKeeps

LEMMA ApiStart == Init => ApiInv
<1> SUFFICES ASSUME Init PROVE ApiInv
  OBVIOUS
<1>1. BlocksInv /\ ApiTyped
  BY StartTyped
<1>2. NoneBlocked
  BY DEF NoneBlocked, SeatedIn, Stored, Init, StoreInit
<1>3. TicketsOK /\ BarredOK
  BY DEF TicketsOK, BarredOK, Init
<1>4. \A q \in Requests : doing[q].do = "nothing"
  BY DEF Init, Idle
<1>5. \A q \in Requests : CallFits(doing[q])
  BY <1>4 DEF CallFits, Creating
<1> QED
  BY <1>1, <1>2, <1>3, <1>5 DEF ApiInv

\* The invariant of the API while one handler of several calls runs at a time: beside
\* its type, nobody sits under a kick block, every ticket for a room that goes on is
\* carried by its holder or about to be revoked, everybody barred is out or about to be
\* evicted, and what a handler has read still stands.
THEOREM ApiInvariant == ASSUME OneHandler PROVE Spec => []ApiInv
  BY ApiStart, ApiNext, PTL DEF Spec

\* At rest every live ticket for a room that goes on belongs to somebody seated there,
\* with the address they hold (ticket.go, RevokePlayerRoom, RevokeRoom; http.go).
THEOREM TicketsAlwaysFollow == ASSUME OneHandler PROVE Spec => []TicketsFollowMembership
<1>1. ApiInv => TicketsFollowMembership
  <2> SUFFICES ASSUME ApiInv, AtRest, NEW t \in tickets, IsOpen(t.RoomID)
               PROVE  /\ SeatedIn(t.RoomID, t.PlayerID)
                      /\ t.VirtualIP = VirtualIP(rooms[t.RoomID], t.PlayerID)
    BY DEF TicketsFollowMembership
  <2>1. \A q \in Requests : ~ Revokes(doing[q], t)
    BY DEF AtRest, Idle, Revokes
  <2>2. Carries(t.RoomID, t.PlayerID, t.VirtualIP)
    BY <2>1 DEF ApiInv, TicketsOK
  <2> QED
    BY <2>2 DEF Carries, SeatedIn, IsSeated, IsOpen
<1> QED
  BY <1>1, ApiInvariant, PTL

\* At rest nobody under a ban or a timeout sits in a room that goes on
\* (moderation.go, sanction, evict).
THEOREM BarredAlwaysOut == ASSUME OneHandler PROVE Spec => []BarredSitNowhere
<1>1. ApiInv => BarredSitNowhere
  BY DEF ApiInv, BarredOK, BarredSitNowhere, AtRest, Idle, Evicts
<1> QED
  BY <1>1, ApiInvariant, PTL

\* At rest nobody under a kick block holds a live ticket for that room (http.go,
\* kickPlayer; state.go, Kick).
THEOREM KickedNeverHold == ASSUME OneHandler PROVE Spec => []KickedHoldNoTicket
<1>1. ApiInv => KickedHoldNoTicket
  <2> SUFFICES ASSUME ApiInv, AtRest, NEW t \in tickets, IsOpen(t.RoomID)
               PROVE  ~ KickBlocked(rooms[t.RoomID], t.PlayerID, now)
    BY DEF KickedHoldNoTicket
  <2>1. \A q \in Requests : ~ Revokes(doing[q], t)
    BY DEF AtRest, Idle, Revokes
  <2>2. Carries(t.RoomID, t.PlayerID, t.VirtualIP)
    BY <2>1 DEF ApiInv, TicketsOK
  <2>3. SeatedIn(t.RoomID, t.PlayerID)
    BY <2>2 DEF Carries, SeatedIn, IsSeated, IsOpen
  <2>4. t.RoomID \in RoomIds /\ t.PlayerID \in Players
    BY DEF ApiInv, ApiTyped, TicketTyped
  <2> QED
    BY <2>3, <2>4 DEF ApiInv, NoneBlocked
<1> QED
  BY <1>1, ApiInvariant, PTL

\* What a creation does when it is done with its door.
LEMMA DoorDone ==
    ASSUME OneHandler, ApiInv, [Next]_vars, NEW q \in Requests, NEW c, c = doing[q],
           c.do = "door", doing'[q] # doing[q], rooms'[c.room] # Absent
    PROVE  rooms'[c.room].Privacy = c.door.Privacy /\ rooms'[c.room].MinMMR = c.door.MinMMR
<1>0. Stepping /\ \A k \in Requests : k = q
  BY StepsOn DEF OneHandler
<1>1. HangDoor(q) \/ UndoCreate(q)
  <2>1. ASSUME NEW n PROVE ~ Begin(q, n)
    BY DEF Begin, Idle
  <2>2. ~ \E id \in RoomIds : Request(q, id)
    BY <2>1 DEF Request, CreateRoom, AskToEnter, ConnectRoom, LeaveHandler, KickHandler, StaffCloseRoom
  <2>3. ~ \E p \in Players : Sanction(q, p)
    BY <2>1 DEF Sanction
  <2>4. Resume(q)
    BY <1>0, <2>2, <2>3, StepCases, BesideLeaves
  <2> QED
    BY <2>4 DEF Resume, IssueNew, ChooseMode, EnterRoom, RefuseEntry, Issue, EvictList, EvictFrom,
                RevokePlayerRoom, RevokeRoom
<1>2. c.room \in RoomIds \ unused /\ c.player \in Players
  BY <1>0 DEF Stepping, ApiInv, ApiTyped, CallTyped
<1>3. CASE HangDoor(q)
  <2>1. /\ Stored(c.room)
        /\ rooms' = [rooms EXCEPT ![c.room] =
                        SetPrivacy(@, c.door.Privacy, c.door.Password, c.door.MinMMR)]
    BY <1>3 DEF HangDoor, SetRoomPrivacy
  <2>2. rooms[c.room] \in RoomRecord
    BY <1>0, <1>2, <2>1, RoomOfRecord DEF Stepping, ApiInv
  <2>3. rooms'[c.room] = SetPrivacy(rooms[c.room], c.door.Privacy, c.door.Password, c.door.MinMMR)
    BY <1>0, <1>2, <2>1 DEF Stepping, ApiInv, BlocksInv, StoreInv, StoreTypeOK
  <2> QED
    BY <2>2, <2>3 DEF SetPrivacy, RoomRecord
<1>4. CASE UndoCreate(q)
  <2>1. Stored(c.room) => rooms[c.room].HostID = c.player
    BY <1>0 DEF Stepping, ApiInv, CallFits, Creating, HostAlone
  <2>2. CASE Stored(c.room)
    <3>1. CloseRoom(c.room, c.player)
      BY <1>4, <2>1, <2>2 DEF UndoCreate
    <3>2. ~ Stored(c.room)'
      BY <1>0, <1>2, <3>1, CloseCompany DEF Stepping, ApiInv
    <3> QED
      BY <3>2 DEF Stored
  <2>3. CASE ~ Stored(c.room)
    BY <1>4, <2>3 DEF UndoCreate, Stored, storeVars
  <2> QED
    BY <2>2, <2>3
<1> QED
  BY <1>1, <1>3, <1>4

\* A creation that is done with its door leaves a room with that door, or none (http.go,
\* createRoom): the refused door closes the room, for its creator still hosts it.
THEOREM NeverWithoutItsDoor == ASSUME OneHandler PROVE Spec => NoRoomWithoutItsDoor
<1>1. ASSUME ApiInv, [Next]_vars, NEW q \in Requests, doing[q].do = "door", doing'[q] # doing[q],
             rooms'[doing[q].room] # Absent
      PROVE  /\ rooms'[doing[q].room].Privacy = doing[q].door.Privacy
             /\ rooms'[doing[q].room].MinMMR = doing[q].door.MinMMR
  <2>1. PICK c : c = doing[q]
    OBVIOUS
  <2> QED
    BY <1>1, <2>1, DoorDone
<1>2. ApiInv /\ [Next]_vars =>
        [\A q \in Requests : doing[q].do = "door" /\ doing'[q] # doing[q] =>
          LET id == doing[q].room  door == doing[q].door
          IN  rooms'[id] # Absent => rooms'[id].Privacy = door.Privacy
                                     /\ rooms'[id].MinMMR = door.MinMMR]_vars
  BY <1>1
<1> QED
  BY <1>2, ApiInvariant, PTL DEF Spec, NoRoomWithoutItsDoor
=================================================================================
