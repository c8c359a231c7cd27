---------------------------- MODULE RoomStoreProofs ----------------------------
(* The invariants and the action properties of the room store, for every number *)
(* of rooms, players, seats and addresses the assumptions allow.                *)
EXTENDS RoomProofs

\* What a method makes of a room, beyond RoomOK: it keeps its block, stays ended
\* if it was, and seats nobody but who.
Follows(r, s, who) ==
    /\ s.Index = r.Index
    /\ IsClosed(r) => IsClosed(s)
    /\ \A q \in Players : IsSeated(s, q) => IsSeated(r, q) \/ q = who

\* The inductive invariant: the parts the properties name, with every stored
\* room RoomOK and no identifier both stored and still to be drawn.
StoreInv ==
    /\ StoreTypeOK
    /\ IndexesMatchRooms
    /\ OneRoomAtATime
    /\ \A id \in RoomIds : Stored(id) => RoomOK(rooms[id])
    /\ \A id \in unused : ~ Stored(id)
--------------------------------------------------------------------------------
(* What each method leaves of the room *)

\* Close seats nobody, keeps the room's index and opens nothing.
LEMMA CloseFollows ==
    ASSUME NEW r \in RoomRecord, NEW t \in Nat
    PROVE  Follows(r, Close(r, t), Nobody)
<1>1. /\ Close(r, t).Slots = r.Slots /\ Close(r, t).Observers = r.Observers
      /\ Close(r, t).Admins = r.Admins /\ Close(r, t).Index = r.Index
  BY DEF Close, RoomRecord
<1>2. IsClosed(Close(r, t))
  BY DEF Close, IsClosed, RoomRecord
<1> QED
  BY <1>1, <1>2 DEF Follows, IsSeated, IsMember

\* The same of Leave.
LEMMA LeaveFollows ==
    ASSUME NEW r \in RoomRecord, NEW p \in Players, NEW t \in Nat
    PROVE  Follows(r, Leave(r, p, t), Nobody)
<1> DEFINE out == Removed(r, p)
<1>1. out \in RoomRecord
  BY RemovedType
<1>2. /\ out.Slots = Without(r.Slots, p) /\ out.Observers = Without(r.Observers, p)
      /\ out.Admins = Without(r.Admins, p) /\ out.Index = r.Index /\ out.Status = r.Status
  BY DEF Removed, RoomRecord
<1>3. Follows(r, out, Nobody)
  BY <1>2, RoomParts, RoomAssumption DEF Follows, Without, IsSeated, IsMember, Holds, IsClosed
<1>4. Follows(out, Close(out, t), Nobody)
  BY <1>1, CloseFollows
<1>5. Follows(r, Close(out, t), Nobody)
  BY <1>3, <1>4, RoomAssumption DEF Follows
<1> QED
  BY <1>3, <1>5 DEF Leave

\* The same of Kick.
LEMMA KickFollows ==
    ASSUME NEW r \in RoomRecord, NEW p \in Players, NEW t \in Nat
    PROVE  Follows(r, Kick(r, p, t), Nobody)
<1> DEFINE out == Leave(r, p, t)
           s == Kick(r, p, t)
<1>1. out \in RoomRecord
  BY RemovedType, CloseType DEF Leave
<1>2. /\ s.Slots = out.Slots /\ s.Observers = out.Observers /\ s.Admins = out.Admins
      /\ s.Index = out.Index /\ s.Status = out.Status
  BY <1>1 DEF Kick, RoomRecord
<1> QED
  BY <1>2, LeaveFollows DEF Follows, IsSeated, IsMember, IsClosed

\* The three ways in seat only the person who came in.
LEMMA JoinFollows ==
    ASSUME NEW r \in RoomRecord, NEW p \in Players, NEW seat
    PROVE  /\ Follows(r, Join(r, p, seat), p)
           /\ Follows(r, JoinObserver(r, p, seat), p)
           /\ Follows(r, JoinAdmin(r, p, seat), p)
<1> DEFINE s == Join(r, p, seat)
           o == JoinObserver(r, p, seat)
           a == JoinAdmin(r, p, seat)
<1>1. Follows(r, s, p)
  <2>1. /\ s.Slots = [r.Slots EXCEPT ![seat] = p] /\ s.Observers = r.Observers
        /\ s.Admins = r.Admins /\ s.Index = r.Index /\ s.Status = r.Status
    BY DEF Join, RoomRecord
  <2> QED
    BY <2>1, RoomParts DEF Follows, IsSeated, IsMember, Holds, IsClosed
<1>2. Follows(r, o, p)
  <2>1. /\ o.Observers = [r.Observers EXCEPT ![seat] = p] /\ o.Slots = r.Slots
        /\ o.Admins = r.Admins /\ o.Index = r.Index /\ o.Status = r.Status
    BY DEF JoinObserver, RoomRecord
  <2> QED
    BY <2>1, RoomParts DEF Follows, IsSeated, IsMember, Holds, IsClosed
<1>3. Follows(r, a, p)
  <2>1. /\ a.Admins = [r.Admins EXCEPT ![seat] = p] /\ a.Slots = r.Slots
        /\ a.Observers = r.Observers /\ a.Index = r.Index /\ a.Status = r.Status
    BY DEF JoinAdmin, RoomRecord
  <2> QED
    BY <2>1, RoomParts DEF Follows, IsSeated, IsMember, Holds, IsClosed
<1> QED
  BY <1>1, <1>2, <1>3

\* Move seats nobody who was not in the room.
LEMMA MoveFollows ==
    ASSUME NEW r \in RoomRecord, NEW p \in Players, NEW seat, NEW watching \in BOOLEAN,
           IsMember(r, p)
    PROVE  Follows(r, Move(r, p, seat, watching), Nobody)
<1> DEFINE d == Reseated(r, p, seat, watching)
           s == Move(r, p, seat, watching)
           up == [r EXCEPT !.Slots = Without(r.Slots, p), !.Observers = Without(r.Observers, p)]
<1>1. /\ up.Slots = Without(r.Slots, p) /\ up.Observers = Without(r.Observers, p)
      /\ up.Admins = r.Admins /\ up.Index = r.Index /\ up.Status = r.Status
      /\ up \in RoomRecord
  BY WithoutType DEF RoomRecord
<1>2. /\ d \in RoomRecord
      /\ d.Admins = r.Admins /\ d.Index = r.Index /\ d.Status = r.Status
      /\ d.Slots \in {Without(r.Slots, p), [Without(r.Slots, p) EXCEPT ![seat] = p]}
      /\ d.Observers \in {Without(r.Observers, p), [Without(r.Observers, p) EXCEPT ![seat] = p]}
  BY <1>1 DEF Reseated, RoomRecord, Persons
<1>3. /\ s.Slots = d.Slots /\ s.Observers = d.Observers /\ s.Admins = r.Admins
      /\ s.Index = r.Index /\ s.Status = r.Status
  BY <1>2 DEF Move, RoomRecord
<1>4. ASSUME NEW q \in Players, q # p
      PROVE  Holds(s.Slots, q) \/ Holds(s.Observers, q) => IsMember(r, q)
  <2>1. q # Nobody
    BY RoomAssumption
  <2>2. Holds(s.Slots, q) => Holds(r.Slots, q)
    <3>1. CASE s.Slots = Without(r.Slots, p)
      BY <2>1, <3>1, RoomParts DEF Without, Holds
    <3>2. CASE s.Slots = [Without(r.Slots, p) EXCEPT ![seat] = p]
      BY <1>4, <2>1, <3>2, RoomParts DEF Without, Holds
    <3> QED
      BY <1>2, <1>3, <3>1, <3>2
  <2>3. Holds(s.Observers, q) => Holds(r.Observers, q)
    <3>1. CASE s.Observers = Without(r.Observers, p)
      BY <2>1, <3>1, RoomParts DEF Without, Holds
    <3>2. CASE s.Observers = [Without(r.Observers, p) EXCEPT ![seat] = p]
      BY <1>4, <2>1, <3>2, RoomParts DEF Without, Holds
    <3> QED
      BY <1>2, <1>3, <3>1, <3>2
  <2> QED
    BY <2>2, <2>3 DEF IsMember
<1> QED
  BY <1>3, <1>4 DEF Follows, IsSeated, IsMember, IsClosed

\* The same of SeeHost, whatever the registry answers.
LEMMA SeeHostFollows ==
    ASSUME NEW r \in RoomRecord, NEW online \in BOOLEAN, NEW inGame \in BOOLEAN, NEW t \in Nat
    PROVE  Follows(r, SeeHost(r, online, inGame, t), Nobody)
<1> DEFINE seen == [r EXCEPT !.HostInGame = inGame]
<1>1. /\ seen \in RoomRecord
      /\ seen.Slots = r.Slots /\ seen.Observers = r.Observers /\ seen.Admins = r.Admins
      /\ seen.Index = r.Index /\ seen.Status = r.Status
  BY DEF RoomRecord
<1>2. Follows(r, seen, Nobody) /\ Follows(r, r, Nobody)
  BY <1>1 DEF Follows, IsSeated, IsMember, IsClosed
<1>3. Follows(seen, Close(seen, t), Nobody)
  BY <1>1, CloseFollows
<1>4. Follows(r, Close(seen, t), Nobody)
  BY <1>2, <1>3, RoomAssumption DEF Follows
<1> QED
  BY <1>2, <1>4 DEF SeeHost

\* The same of the settings: status, host, door, invitations, game mode.
LEMMA SettingsFollow ==
    ASSUME NEW r \in RoomRecord
    PROVE  /\ \A status \in Statuses : ~ IsClosed(r) => Follows(r, SetStatus(r, status), Nobody)
           /\ \A mode \in GameModes : Follows(r, SetGameMode(r, mode), Nobody)
           /\ \A p \in Players : /\ Follows(r, Invite(r, p), Nobody)
                                 /\ Follows(r, Uninvite(r, p), Nobody)
                                 /\ Follows(r, SetHost(r, p), Nobody)
           /\ \A kind, password, floor : Follows(r, SetPrivacy(r, kind, password, floor), Nobody)
<1>1. ASSUME NEW status \in Statuses, ~ IsClosed(r) PROVE Follows(r, SetStatus(r, status), Nobody)
  BY <1>1 DEF SetStatus, Follows, IsSeated, IsMember, RoomRecord
<1>2. ASSUME NEW mode \in GameModes PROVE Follows(r, SetGameMode(r, mode), Nobody)
  BY DEF SetGameMode, Follows, IsSeated, IsMember, IsClosed, RoomRecord
<1>3. ASSUME NEW p \in Players
      PROVE  /\ Follows(r, Invite(r, p), Nobody) /\ Follows(r, Uninvite(r, p), Nobody)
             /\ Follows(r, SetHost(r, p), Nobody)
  BY DEF Invite, Uninvite, SetHost, Follows, IsSeated, IsMember, IsClosed, RoomRecord
<1>4. ASSUME NEW kind, NEW password, NEW floor
      PROVE  Follows(r, SetPrivacy(r, kind, password, floor), Nobody)
  BY DEF SetPrivacy, Follows, IsSeated, IsMember, IsClosed, RoomRecord
<1> QED
  BY <1>1, <1>2, <1>3, <1>4
--------------------------------------------------------------------------------
(* What each action of the store leaves of the store *)

\* A method run on one stored room, for somebody who may be in it.
LEMMA RoomChanged ==
    ASSUME StoreInv, NEW id \in RoomIds, Stored(id),
           NEW s, RoomOK(s),
           NEW who \in Persons, who \in Players => NotElsewhere(who, id),
           Follows(rooms[id], s, who),
           rooms' = [rooms EXCEPT ![id] = s], UNCHANGED <<indexes, unused, now>>
    PROVE  StoreInv'
<1>1. /\ rooms'[id] = s /\ s \in RoomRecord /\ s # Absent
      /\ \A k \in RoomIds \ {id} : rooms'[k] = rooms[k]
      /\ rooms[id] \in RoomRecord
  BY StoreAssumption DEF StoreInv, StoreTypeOK, RoomOK, Stored
<1>2. /\ \A k \in RoomIds : Stored(k)' <=> Stored(k)
      /\ \A k \in RoomIds : Stored(k) => rooms'[k].Index = rooms[k].Index
      /\ \A k \in RoomIds : IsOpen(k)' => IsOpen(k)
  BY <1>1 DEF Stored, IsOpen, Follows
<1>3. StoreTypeOK'
  BY <1>1 DEF StoreInv, StoreTypeOK
<1>4. IndexesMatchRooms'
  <2>1. \A k \in RoomIds : Stored(k)' => indexes'[rooms'[k].Index] = k
    BY <1>2 DEF StoreInv, IndexesMatchRooms
  <2>2. ASSUME NEW i \in RoomIndexes, indexes'[i] # Absent
        PROVE  (Stored(indexes[i]) /\ rooms[indexes[i]].Index = i)'
    <3>1. indexes'[i] = indexes[i] /\ indexes[i] \in RoomIds
      BY <2>2 DEF StoreInv, StoreTypeOK
    <3> QED
      BY <1>2, <2>2, <3>1 DEF StoreInv, IndexesMatchRooms
  <2> QED
    BY <2>1, <2>2 DEF IndexesMatchRooms
<1>5. OneRoomAtATime'
  <2>1. ASSUME NEW p \in Players, p # who PROVE RoomsOf(p)' \subseteq RoomsOf(p)
    BY <1>1, <1>2, <2>1 DEF RoomsOf, Follows
  <2>2. ASSUME who \in Players PROVE RoomsOf(who)' \subseteq {id}
    BY <1>1, <1>2, <2>2 DEF RoomsOf, NotElsewhere
  <2>3. ASSUME NEW p \in Players, NEW id1 \in RoomsOf(p)', NEW id2 \in RoomsOf(p)'
        PROVE  id1 = id2
    BY <2>1, <2>2, <2>3 DEF StoreInv, OneRoomAtATime
  <2> QED
    BY <2>3 DEF OneRoomAtATime
<1>6. \A k \in RoomIds : Stored(k)' => RoomOK(rooms'[k])
  BY <1>1, <1>2 DEF StoreInv
<1>7. \A k \in unused' : ~ Stored(k)'
  BY <1>2 DEF StoreInv, StoreTypeOK
<1> QED
  BY <1>3, <1>4, <1>5, <1>6, <1>7 DEF StoreInv

\* An empty store satisfies the invariant (NewStore).
LEMMA InitInv == StoreInit => StoreInv
<1> SUFFICES ASSUME StoreInit PROVE StoreInv
  OBVIOUS
<1>1. \A id \in RoomIds : ~ Stored(id)
  BY DEF StoreInit, Stored
<1>2. StoreTypeOK
  BY DEF StoreInit, StoreTypeOK
<1>3. IndexesMatchRooms /\ OneRoomAtATime
  BY <1>1 DEF StoreInit, IndexesMatchRooms, OneRoomAtATime, RoomsOf, IsOpen
<1> QED
  BY <1>1, <1>2, <1>3 DEF StoreInv, StoreTypeOK

\* Create takes a free index and an unused identifier for a host who sits
\* nowhere.
LEMMA CreateInv ==
    ASSUME StoreInv, NEW id \in RoomIds, NEW host \in Players, Create(id, host)
    PROVE  StoreInv'
<1>1. PICK i \in RoomIndexes :
         /\ indexes[i] = Absent
         /\ rooms' = [rooms EXCEPT ![id] = NewRoom(i, host)]
         /\ indexes' = [indexes EXCEPT ![i] = id]
  BY DEF Create, FreeIndex
<1> DEFINE r == NewRoom(i, host)
<1>2. RoomOK(r) /\ r \in RoomRecord /\ r # Absent /\ r.Index = i
  BY NewRoomOK, StoreAssumption DEF RoomOK, NewRoom
<1>3. \A p \in Players : IsSeated(r, p) => p = host
  BY RoomAssumption DEF NewRoom, IsSeated, IsMember, Holds
<1>4. ~ Stored(id) /\ RoomsOf(host) = {} /\ id \in unused /\ unused' = unused \ {id} /\ now' = now
  BY DEF Create, StoreInv
<1>5. /\ rooms'[id] = r /\ \A k \in RoomIds \ {id} : rooms'[k] = rooms[k]
      /\ indexes'[i] = id /\ \A j \in RoomIndexes \ {i} : indexes'[j] = indexes[j]
  BY <1>1 DEF StoreInv, StoreTypeOK
<1> HIDE DEF r
<1>6. StoreTypeOK'
  BY <1>1, <1>2, <1>4 DEF StoreInv, StoreTypeOK, r
<1>7. IndexesMatchRooms'
  <2>1. ASSUME NEW k \in RoomIds, Stored(k)' PROVE indexes'[rooms'[k].Index] = k
    <3>1. CASE k = id
      BY <1>2, <1>5, <3>1
    <3>2. CASE k # id
      <4>1. Stored(k) /\ rooms'[k] = rooms[k] /\ indexes[rooms[k].Index] = k
        BY <1>5, <2>1, <3>2 DEF Stored, StoreInv, IndexesMatchRooms
      <4>2. rooms[k].Index \in RoomIndexes /\ rooms[k].Index # i
        BY <1>1, <4>1, RoomParts, StoreAssumption DEF StoreInv, RoomOK
      <4> QED
        BY <1>5, <4>1, <4>2
    <3> QED
      BY <3>1, <3>2
  <2>2. ASSUME NEW j \in RoomIndexes, indexes'[j] # Absent
        PROVE  (Stored(indexes[j]) /\ rooms[indexes[j]].Index = j)'
    <3>1. CASE j = i
      BY <1>2, <1>5, <3>1 DEF Stored
    <3>2. CASE j # i
      <4>1. indexes'[j] = indexes[j] /\ Stored(indexes[j]) /\ rooms[indexes[j]].Index = j
        BY <1>5, <2>2, <3>2 DEF StoreInv, IndexesMatchRooms
      <4>2. indexes[j] \in RoomIds /\ indexes[j] # id
        BY <1>4, <1>5, <2>2, <4>1 DEF StoreInv, StoreTypeOK
      <4> QED
        BY <1>5, <4>1, <4>2 DEF Stored
    <3> QED
      BY <3>1, <3>2
  <2> QED
    BY <2>1, <2>2 DEF IndexesMatchRooms
<1>8. OneRoomAtATime'
  <2>1. ASSUME NEW p \in Players, p # host PROVE RoomsOf(p)' \subseteq RoomsOf(p)
    BY <1>3, <1>5, <2>1 DEF RoomsOf, IsOpen, Stored
  <2>2. RoomsOf(host)' \subseteq {id}
    BY <1>4, <1>5 DEF RoomsOf, IsOpen, Stored
  <2>3. ASSUME NEW p \in Players, NEW id1 \in RoomsOf(p)', NEW id2 \in RoomsOf(p)'
        PROVE  id1 = id2
    BY <2>1, <2>2, <2>3 DEF StoreInv, OneRoomAtATime
  <2> QED
    BY <2>3 DEF OneRoomAtATime
<1>9. \A k \in RoomIds : Stored(k)' => RoomOK(rooms'[k])
  BY <1>2, <1>5 DEF StoreInv, Stored
<1>10. \A k \in unused' : ~ Stored(k)'
  BY <1>4, <1>5 DEF StoreInv, StoreTypeOK, Stored
<1> QED
  BY <1>6, <1>7, <1>8, <1>9, <1>10 DEF StoreInv

\* Rooms that only disappear, each with its index, or change by a method that
\* seats nobody: what CloseRoom and Tick do.
LEMMA RoomsForgotten ==
    ASSUME StoreInv, NEW gone \in SUBSET RoomIds,
           \A k \in gone : Stored(k),
           NEW to, \A k \in RoomIds : Stored(k) => RoomOK(to[k]) /\ Follows(rooms[k], to[k], Nobody),
           rooms' = [k \in RoomIds |-> IF k \in gone \/ ~ Stored(k) THEN Absent ELSE to[k]],
           indexes' = [i \in RoomIndexes |->
                         IF i \in {rooms[k].Index : k \in gone} THEN Absent ELSE indexes[i]],
           UNCHANGED <<unused, now>>
    PROVE  StoreInv'
<1>1. \A k \in RoomIds : Stored(k) => to[k] \in RoomRecord /\ to[k] # Absent /\ rooms[k].Index \in RoomIndexes
  BY StoreAssumption, RoomParts DEF StoreInv, RoomOK
<1>2. /\ \A k \in RoomIds : Stored(k)' <=> Stored(k) /\ k \notin gone
      /\ \A k \in RoomIds : Stored(k)' => rooms'[k] = to[k]
  BY <1>1 DEF Stored
<1>3. StoreTypeOK'
  BY <1>1 DEF StoreInv, StoreTypeOK
<1>4. \A k \in RoomIds : Stored(k)' => rooms'[k].Index = rooms[k].Index
  BY <1>2 DEF Follows
<1>5. IndexesMatchRooms'
  <2>1. ASSUME NEW k \in RoomIds, Stored(k)' PROVE indexes'[rooms'[k].Index] = k
    <3>1. Stored(k) /\ k \notin gone /\ indexes[rooms[k].Index] = k /\ rooms[k].Index \in RoomIndexes
      BY <1>1, <1>2, <2>1 DEF StoreInv, IndexesMatchRooms
    <3>2. \A j \in gone : rooms[j].Index # rooms[k].Index
      BY <3>1 DEF StoreInv, IndexesMatchRooms
    <3> QED
      BY <1>4, <2>1, <3>1, <3>2
  <2>2. ASSUME NEW i \in RoomIndexes, indexes'[i] # Absent
        PROVE  (Stored(indexes[i]) /\ rooms[indexes[i]].Index = i)'
    <3>1. /\ indexes'[i] = indexes[i] /\ indexes[i] \in RoomIds
          /\ Stored(indexes[i]) /\ rooms[indexes[i]].Index = i
          /\ i \notin {rooms[k].Index : k \in gone}
      BY <2>2 DEF StoreInv, StoreTypeOK, IndexesMatchRooms
    <3>2. indexes[i] \notin gone
      BY <3>1
    <3> QED
      BY <1>2, <1>4, <3>1, <3>2
  <2> QED
    BY <2>1, <2>2 DEF IndexesMatchRooms
<1>6. OneRoomAtATime'
  <2>1. ASSUME NEW p \in Players PROVE RoomsOf(p)' \subseteq RoomsOf(p)
    BY <1>2, RoomAssumption DEF RoomsOf, IsOpen, Follows
  <2> QED
    BY <2>1 DEF StoreInv, OneRoomAtATime
<1>7. \A k \in RoomIds : Stored(k)' => RoomOK(rooms'[k])
  BY <1>2
<1>8. \A k \in unused' : ~ Stored(k)'
  BY <1>2 DEF StoreInv, StoreTypeOK
<1> QED
  BY <1>3, <1>5, <1>6, <1>7, <1>8 DEF StoreInv

\* Close forgets one room and its index together.
LEMMA CloseRoomInv ==
    ASSUME StoreInv, NEW id \in RoomIds, NEW actor \in Persons, CloseRoom(id, actor)
    PROVE  StoreInv'
<1>1. \A k \in RoomIds : Stored(k) => RoomOK(rooms[k]) /\ Follows(rooms[k], rooms[k], Nobody)
  BY DEF StoreInv, Follows
<1>2. Stored(id) /\ UNCHANGED <<unused, now>>
  BY DEF CloseRoom
<1>3. rooms' = [k \in RoomIds |-> IF k \in {id} \/ ~ Stored(k) THEN Absent ELSE rooms[k]]
  BY DEF CloseRoom, StoreInv, StoreTypeOK, Stored
<1>4. indexes' = [i \in RoomIndexes |->
                    IF i \in {rooms[k].Index : k \in {id}} THEN Absent ELSE indexes[i]]
  BY DEF CloseRoom, StoreInv, StoreTypeOK
<1> QED
  BY <1>1, <1>2, <1>3, <1>4, RoomsForgotten

\* Tick forgets the rooms it sweeps and their indexes, and every other room
\* sees its host.
LEMMA TickInv ==
    ASSUME StoreInv, NEW online, NEW playing, Tick(online, playing)
    PROVE  StoreInv'
<1> DEFINE gone == {k \in RoomIds : Swept(k, online, playing)}
           to == [k \in RoomIds |-> Ticked(k, online, playing)]
<1>1. ASSUME NEW k \in RoomIds, Stored(k)
      PROVE  RoomOK(to[k]) /\ Follows(rooms[k], to[k], Nobody)
  <2>1. RoomOK(rooms[k]) /\ rooms[k] \in RoomRecord /\ now \in Nat
    BY <1>1 DEF StoreInv, StoreTypeOK, RoomOK
  <2> DEFINE seen == rooms[k].HostID \in online
             inGame == rooms[k].HostID \in playing
  <2>2. to[k] = SeeHost(rooms[k], seen, inGame, now)
    BY DEF Ticked
  <2>3. seen \in BOOLEAN /\ inGame \in BOOLEAN
    OBVIOUS
  <2> HIDE DEF seen, inGame, to
  <2>4. RoomOK(SeeHost(rooms[k], seen, inGame, now))
    BY <2>1, <2>3, SeeHostOK
  <2>5. Follows(rooms[k], SeeHost(rooms[k], seen, inGame, now), Nobody)
    BY <2>1, <2>3, SeeHostFollows
  <2> QED
    BY <2>2, <2>4, <2>5
<1>2. gone \in SUBSET RoomIds /\ \A k \in gone : Stored(k)
  BY DEF Swept
<1>3. /\ rooms' = [k \in RoomIds |-> IF k \in gone \/ ~ Stored(k) THEN Absent ELSE to[k]]
      /\ indexes' = [i \in RoomIndexes |->
                       IF i \in {rooms[k].Index : k \in gone} THEN Absent ELSE indexes[i]]
      /\ UNCHANGED <<unused, now>>
  BY DEF Tick
<1> HIDE DEF gone, to
<1> QED
  BY <1>1, <1>2, <1>3, RoomsForgotten
--------------------------------------------------------------------------------
(* Every step *)

\* Every call on one room preserves the invariant: one step for each method of
\* the store.
LEMMA RoomCallInv ==
    ASSUME StoreInv, NEW id \in RoomIds, RoomCall(id)
    PROVE  StoreInv'
<1>0. /\ now \in Nat /\ Nobody \in Persons /\ Nobody \notin Players /\ Invitees \subseteq Players
      /\ Stored(id) => RoomOK(rooms[id]) /\ rooms[id] \in RoomRecord
  BY RoomAssumption, StoreAssumption DEF StoreInv, StoreTypeOK, Persons, RoomOK
<1>1. ASSUME NEW p \in Players, Create(id, p) PROVE StoreInv'
  BY <1>1, CreateInv
<1>2. ASSUME NEW who \in Applicants, JoinRoom(id, who) PROVE StoreInv'
  <2>1. /\ who.ID \in Players /\ NotElsewhere(who.ID, id) /\ Stored(id) /\ ~ IsSeated(rooms[id], who.ID)
        /\ UNCHANGED <<indexes, unused, now>>
    BY <1>2 DEF Applicants, JoinRoom, MayJoin, MayEnter, Admissible
  <2>2. PICK seat \in Seats : /\ rooms[id].Slots[seat] = Nobody
                              /\ rooms' = [rooms EXCEPT ![id] = Join(rooms[id], who.ID, seat)]
    BY <1>2 DEF JoinRoom, LowestFree
  <2>3. RoomOK(Join(rooms[id], who.ID, seat)) /\ Follows(rooms[id], Join(rooms[id], who.ID, seat), who.ID)
    BY <1>0, <2>1, <2>2, JoinOK, JoinFollows
  <2> QED
    BY <2>1, <2>2, <2>3, RoomChanged DEF Persons
<1>3. ASSUME NEW who \in Applicants, JoinRoomObserver(id, who) PROVE StoreInv'
  <2>1. /\ who.ID \in Players /\ NotElsewhere(who.ID, id) /\ Stored(id) /\ ~ IsSeated(rooms[id], who.ID)
        /\ UNCHANGED <<indexes, unused, now>>
    BY <1>3 DEF Applicants, JoinRoomObserver, MayJoinObserver, MayEnter, Admissible
  <2>2. PICK seat \in GallerySeats :
           /\ rooms[id].Observers[seat] = Nobody
           /\ rooms' = [rooms EXCEPT ![id] = JoinObserver(rooms[id], who.ID, seat)]
    BY <1>3 DEF JoinRoomObserver, LowestFree
  <2>3. /\ RoomOK(JoinObserver(rooms[id], who.ID, seat))
        /\ Follows(rooms[id], JoinObserver(rooms[id], who.ID, seat), who.ID)
    BY <1>0, <2>1, <2>2, JoinObserverOK, JoinFollows
  <2> QED
    BY <2>1, <2>2, <2>3, RoomChanged DEF Persons
<1>4. ASSUME NEW p \in Players, JoinRoomAdmin(id, p) PROVE StoreInv'
  <2>1. /\ NotElsewhere(p, id) /\ Stored(id) /\ ~ IsSeated(rooms[id], p)
        /\ UNCHANGED <<indexes, unused, now>>
    BY <1>4 DEF JoinRoomAdmin, Admissible
  <2>2. PICK seat \in AdminSeats :
           /\ rooms[id].Admins[seat] = Nobody
           /\ rooms' = [rooms EXCEPT ![id] = JoinAdmin(rooms[id], p, seat)]
    BY <1>4 DEF JoinRoomAdmin, LowestFree
  <2>3. /\ RoomOK(JoinAdmin(rooms[id], p, seat))
        /\ Follows(rooms[id], JoinAdmin(rooms[id], p, seat), p)
    BY <1>0, <2>1, <2>2, JoinAdminOK, JoinFollows
  <2> QED
    BY <2>1, <2>2, <2>3, RoomChanged DEF Persons
<1>5. ASSUME NEW p \in Players, LeaveRoom(id, p) PROVE StoreInv'
  BY <1>0, <1>5, LeaveOK, LeaveFollows, RoomChanged DEF LeaveRoom
<1>6. ASSUME NEW actor \in Persons, CloseRoom(id, actor) PROVE StoreInv'
  BY <1>6, CloseRoomInv
<1>7. ASSUME NEW p \in Players, NEW seat, NEW watching \in BOOLEAN, MoveSeat(id, p, seat, watching)
      PROVE  StoreInv'
  <2>1. /\ Stored(id) /\ MayMove(rooms[id], p, seat, watching) /\ IsMember(rooms[id], p)
        /\ rooms' = [rooms EXCEPT ![id] = Move(rooms[id], p, seat, watching)]
        /\ UNCHANGED <<indexes, unused, now>>
    BY <1>7 DEF MoveSeat, MayMove
  <2>2. /\ RoomOK(Move(rooms[id], p, seat, watching))
        /\ Follows(rooms[id], Move(rooms[id], p, seat, watching), Nobody)
    BY <1>0, <2>1, MoveOK, MoveFollows
  <2> QED
    BY <1>0, <2>1, <2>2, RoomChanged
<1>8. ASSUME NEW actor \in Players, NEW target \in Players, KickPlayer(id, actor, target)
      PROVE  StoreInv'
  BY <1>0, <1>8, KickOK, KickFollows, RoomChanged DEF KickPlayer
<1>9. ASSUME NEW actor \in Players, NEW status \in Statuses, SetRoomStatus(id, actor, status)
      PROVE  StoreInv'
  BY <1>0, <1>9, SettingsOK, SettingsFollow, RoomChanged DEF SetRoomStatus, MaySetStatus
<1>10. ASSUME NEW actor \in Players, NEW mode \in GameModes, SetRoomGameMode(id, actor, mode)
       PROVE  StoreInv'
  BY <1>0, <1>10, SettingsOK, SettingsFollow, RoomChanged DEF SetRoomGameMode
<1>11. ASSUME NEW actor \in Players, NEW kind \in PrivacyKinds,
              NEW password \in Passwords \union {NoPassword}, NEW floor \in MMRFloors,
              SetRoomPrivacy(id, actor, kind, password, floor)
       PROVE  StoreInv'
  BY <1>0, <1>11, SettingsOK, SettingsFollow, RoomChanged DEF SetRoomPrivacy
<1>12. ASSUME NEW actor \in Players, NEW target \in Invitees,
              InvitePlayer(id, actor, target) \/ UninvitePlayer(id, actor, target)
       PROVE  StoreInv'
  BY <1>0, <1>12, SettingsOK, SettingsFollow, RoomChanged DEF InvitePlayer, UninvitePlayer
<1>13. ASSUME NEW p \in Players, ChangeHost(id, p) PROVE StoreInv'
  BY <1>0, <1>13, SetHostOK, SettingsFollow, RoomChanged DEF ChangeHost
<1> QED
  BY <1>1, <1>2, <1>3, <1>4, <1>5, <1>6, <1>7, <1>8, <1>9, <1>10, <1>11, <1>12, <1>13 DEF RoomCall

\* Every step of the store preserves the invariant.
LEMMA NextInv == StoreInv /\ [StoreNext]_storeVars => StoreInv'
<1> SUFFICES ASSUME StoreInv, [StoreNext]_storeVars PROVE StoreInv'
  OBVIOUS
<1>1. ASSUME NEW id \in RoomIds, RoomCall(id) PROVE StoreInv'
  BY <1>1, RoomCallInv
<1>2. CASE TickNow
  BY <1>2, TickInv DEF TickNow
<1>3. CASE PassTime
  BY <1>3 DEF PassTime, StoreInv, StoreTypeOK, IndexesMatchRooms, OneRoomAtATime, RoomsOf, IsOpen, Stored
<1>4. CASE UNCHANGED storeVars
  BY <1>4 DEF storeVars, StoreInv, StoreTypeOK, IndexesMatchRooms, OneRoomAtATime, RoomsOf, IsOpen, Stored
<1> QED
  BY <1>1, <1>2, <1>3, <1>4 DEF StoreNext

\* StoreInv holds of every state the store can reach.
THEOREM StoreInvariant == StoreSpec => []StoreInv
BY InitInv, NextInv, PTL DEF StoreSpec
--------------------------------------------------------------------------------
(* What follows from it *)

\* The store's maps, its clock and every room in it have their types: every host
\* is a player, every status one of the four.
THEOREM StoreTypeCorrect == StoreSpec => []StoreTypeOK
BY StoreInvariant, PTL DEF StoreInv

\* The room map and the index map name each other (store.go, Create, Close and
\* Tick): an index is never leaked and never shared.
THEOREM IndexesAlwaysMatch == StoreSpec => []IndexesMatchRooms
BY StoreInvariant, PTL DEF StoreInv

\* Nobody is ever seated in two rooms that are going on (store.go, elsewhere).
THEOREM OneRoomAlways == StoreSpec => []OneRoomAtATime
BY StoreInvariant, PTL DEF StoreInv

\* Everybody sits once, and holds one address exactly while playing or watching:
\* the pool is as large as the seats it serves, so it never runs out under a
\* seat (state.go, takeAddress, dropAddress).
THEOREM SeatsAndAddressesAlwaysAgree == StoreSpec => []SeatsAndAddressesAgree
<1>1. StoreInv => SeatsAndAddressesAgree
  BY DEF StoreInv, SeatsAndAddressesAgree, RoomOK
<1> QED
  BY <1>1, StoreInvariant, PTL

\* In a room that is going on the host sits where HostSlot and HostWatching say
\* (state.go, Move, SetHost, Leave).
THEOREM HostAlwaysSits == StoreSpec => []HostSitsWhereSaid
<1>1. StoreInv => HostSitsWhereSaid
  BY DEF StoreInv, HostSitsWhereSaid, RoomOK, IsOpen
<1> QED
  BY <1>1, StoreInvariant, PTL

\* No two people hold one virtual IP, in one room or in two, those that linger
\* after their end included (store.go, membershipFor; ipam, MemberIP).
THEOREM NoSharedVirtualIPAlways == StoreSpec => []NoSharedVirtualIP
<1>1. ASSUME StoreInv PROVE NoSharedVirtualIP
  <2>1. ASSUME NEW id1 \in RoomIds, NEW id2 \in RoomIds, Stored(id1), Stored(id2),
               NEW p1 \in Players, NEW p2 \in Players,
               Holds(rooms[id1].Addr, p1), Holds(rooms[id2].Addr, p2),
               VirtualIP(rooms[id1], p1) = VirtualIP(rooms[id2], p2)
        PROVE  id1 = id2 /\ p1 = p2
    <3> DEFINE r1 == rooms[id1]
               r2 == rooms[id2]
    <3>1. r1 \in RoomRecord /\ r2 \in RoomRecord
      BY <1>1, <2>1 DEF StoreInv, StoreTypeOK, Stored
    <3>2. /\ r1.Index \in RoomIndexes /\ r2.Index \in RoomIndexes
          /\ DOMAIN r1.Addr = AddrIndexes /\ DOMAIN r2.Addr = AddrIndexes
      BY <3>1 DEF RoomRecord
    <3>3. /\ AddressOf(r1, p1) \in AddrIndexes /\ r1.Addr[AddressOf(r1, p1)] = p1
          /\ AddressOf(r2, p2) \in AddrIndexes /\ r2.Addr[AddressOf(r2, p2)] = p2
      BY <2>1, <3>2 DEF AddressOf, Holds
    <3>4. r1.Index = r2.Index /\ AddressOf(r1, p1) = AddressOf(r2, p2)
      BY <2>1, <3>2, <3>3, MemberAddressesDiffer DEF VirtualIP
    <3>5. id1 = id2
      BY <1>1, <2>1, <3>4 DEF StoreInv, IndexesMatchRooms
    <3> QED
      BY <3>3, <3>4, <3>5
  <2> QED
    BY <2>1 DEF NoSharedVirtualIP
<1> QED
  BY <1>1, StoreInvariant, PTL
--------------------------------------------------------------------------------
(* What no step of the store may do: the four action properties, about kick     *)
(* blocks, addresses, places and rooms that ended.                              *)

\* Every kick block of a room ends within the block the next kick would set.
BlocksEndInTime(r, t) ==
    \A p \in Players : r.KickedUntil[p] <= t + KickBlockFor(r.KickCount[p] + 1)

\* What MatchPinsThePlaces says of one room before and after a step.
Kept(g, h) == \A i \in DOMAIN g : h[i] \in {g[i], Nobody}
Moved(r, g, h) == \E i \in DOMAIN g : h[i] # Nobody /\ h[i] # g[i] /\ IsMember(r, h[i])
Pinned(r, s) ==
    /\ Locked(r) => Kept(r.Slots, s.Slots) /\ Kept(r.Observers, s.Observers)
    /\ r.HostInGame => ~ Moved(r, r.Slots, s.Slots) /\ ~ Moved(r, r.Observers, s.Observers)

\* What a method leaves of the moment a room ended, of its kick blocks, of the
\* addresses of those who stay and of the places a match pins.
Keeps(r, s, t) ==
    /\ IsClosed(r) => s.ClosedAt = r.ClosedAt
    /\ \A p \in Players : s.KickedUntil[p] >= r.KickedUntil[p]
    /\ \A p \in Players : IsMember(r, p) /\ IsMember(s, p) =>
          \A i \in AddrIndexes : r.Addr[i] = p => s.Addr[i] = p
    /\ BlocksEndInTime(s, t)
    /\ IsClosed(r) \/ Pinned(r, s)

\* The inductive invariant: StoreInv and the bound on kick blocks, without which
\* a second kick could end before the first.
BlocksInv == StoreInv /\ \A id \in RoomIds : Stored(id) => BlocksEndInTime(rooms[id], now)

\* What a step leaves of every room, and of the identifiers of those gone.
StepKeeps ==
    \A id \in RoomIds :
        /\ Stored(id) /\ Stored(id)' =>
              /\ Keeps(rooms[id], rooms'[id], now)
              /\ IsClosed(rooms[id]) => IsClosed(rooms'[id])
              /\ \A p \in Players :
                    SeatedIn(id, p)' => SeatedIn(id, p) \/ Admissible(rooms[id], p, now)
        /\ ~ Stored(id) /\ Stored(id)' => id \in unused /\ BlocksEndInTime(rooms'[id], now)
--------------------------------------------------------------------------------
(* What each method keeps of the room *)

\* A further kick blocks for longer (kickBlockFor).
LEMMA KickBlockGrows ==
    ASSUME NEW c \in Nat
    PROVE  /\ KickBlockFor(c + 1) \in Nat
           /\ KickBlockFor(c + 1) <= KickBlockFor(c + 2)
<1>1. KickBlockFirst \in Nat /\ KickBlockStep \in Nat
  BY RoomAssumption
<1>2. c * KickBlockStep \in Nat /\ (c + 1) * KickBlockStep = c * KickBlockStep + KickBlockStep
  BY <1>1
<1>3. (c + 1) - 1 = c /\ (c + 2) - 1 = c + 1
  OBVIOUS
<1> QED
  BY <1>1, <1>2, <1>3 DEF KickBlockFor

\* A method that leaves pool, blocks and end alone keeps them.
LEMMA SameKeeps ==
    ASSUME NEW r \in RoomRecord, NEW t \in Nat, BlocksEndInTime(r, t), NEW s,
           s.Addr = r.Addr, s.KickedUntil = r.KickedUntil, s.KickCount = r.KickCount,
           IsClosed(r) => s.ClosedAt = r.ClosedAt,
           IsClosed(r) \/ Pinned(r, s)
    PROVE  Keeps(r, s, t)
<1>1. \A p \in Players : r.KickedUntil[p] \in Nat
  BY DEF RoomRecord
<1> QED
  BY <1>1 DEF Keeps, BlocksEndInTime

\* Places nobody touched are pinned; so are places somebody was taken out of.
LEMMA SamePinned ==
    ASSUME NEW r \in RoomRecord, NEW s,
           \/ s.Slots = r.Slots /\ s.Observers = r.Observers
           \/ \E p : s.Slots = Without(r.Slots, p) /\ s.Observers = Without(r.Observers, p)
    PROVE  Pinned(r, s)
<1>1. \A i \in DOMAIN r.Slots : s.Slots[i] \in {r.Slots[i], Nobody}
  BY DEF Without
<1>2. \A i \in DOMAIN r.Observers : s.Observers[i] \in {r.Observers[i], Nobody}
  BY DEF Without
<1> QED
  BY <1>1, <1>2 DEF Pinned, Kept, Moved

\* Leave takes the address of nobody but the one who leaves.
LEMMA LeaveKeeps ==
    ASSUME NEW r \in RoomRecord, NEW t \in Nat, BlocksEndInTime(r, t), NEW p \in Players
    PROVE  /\ Keeps(r, Leave(r, p, t), t) /\ Leave(r, p, t) \in RoomRecord
           /\ Leave(r, p, t).KickedUntil = r.KickedUntil
           /\ Leave(r, p, t).KickCount = r.KickCount
<1> DEFINE out == Removed(r, p)
           s == Leave(r, p, t)
<1>1. /\ out \in RoomRecord
      /\ out.Slots = Without(r.Slots, p) /\ out.Observers = Without(r.Observers, p)
      /\ out.Addr = Without(r.Addr, p) /\ out.Status = r.Status /\ out.ClosedAt = r.ClosedAt
      /\ out.KickedUntil = r.KickedUntil /\ out.KickCount = r.KickCount
  BY RemovedType DEF Removed, RoomRecord
<1>2. /\ s \in RoomRecord
      /\ s.Slots = out.Slots /\ s.Observers = out.Observers /\ s.Addr = out.Addr
      /\ s.KickedUntil = r.KickedUntil /\ s.KickCount = r.KickCount
      /\ IsClosed(r) => s.ClosedAt = r.ClosedAt
  <2>1. CASE p = r.HostID
    <3>1. s = Close(out, t) /\ s \in RoomRecord
      BY <1>1, <2>1, CloseType DEF Leave
    <3>2. CASE IsClosed(out)
      BY <1>1, <3>1, <3>2 DEF Close
    <3>3. CASE ~ IsClosed(out)
      BY <1>1, <3>1, <3>3 DEF Close, IsClosed, RoomRecord
    <3> QED
      BY <3>2, <3>3
  <2>2. CASE p # r.HostID
    BY <1>1, <2>2 DEF Leave
  <2> QED
    BY <2>1, <2>2
<1>3. \A q \in Players : r.KickedUntil[q] \in Nat
  BY DEF RoomRecord
<1>4. ASSUME NEW q \in Players, IsMember(s, q), NEW i \in AddrIndexes, r.Addr[i] = q
      PROVE  s.Addr[i] = q
  <2>1. q # p
    BY <1>1, <1>2, <1>4, RoomParts, WithoutType, RoomAssumption DEF IsMember
  <2> QED
    BY <1>1, <1>2, <1>4, <2>1, RoomParts DEF Without
<1>5. Pinned(r, s)
  BY <1>1, <1>2, SamePinned
<1> QED
  BY <1>2, <1>3, <1>4, <1>5 DEF Keeps, BlocksEndInTime

\* A kick sets a block that ends no sooner than the one before it.
LEMMA KickKeeps ==
    ASSUME NEW r \in RoomRecord, NEW t \in Nat, BlocksEndInTime(r, t), NEW p \in Players
    PROVE  Keeps(r, Kick(r, p, t), t)
<1> DEFINE out == Leave(r, p, t)
           s == Kick(r, p, t)
           count == r.KickCount[p] + 1
<1>1. /\ Keeps(r, out, t) /\ out \in RoomRecord
      /\ out.KickedUntil = r.KickedUntil /\ out.KickCount = r.KickCount
  BY LeaveKeeps
<1>2. /\ r.KickCount \in [Players -> Nat] /\ r.KickedUntil \in [Players -> Nat]
      /\ KickBlockFor(count) \in Nat /\ KickBlockFor(count) <= KickBlockFor(count + 1)
      /\ KickBlockFor(count + 1) \in Nat
  <2>1. r.KickCount \in [Players -> Nat] /\ r.KickedUntil \in [Players -> Nat]
    BY DEF RoomRecord
  <2>2. r.KickCount[p] \in Nat /\ count \in Nat /\ count + 1 = r.KickCount[p] + 2
    BY <2>1
  <2> HIDE DEF count
  <2> QED
    BY <2>1, <2>2, KickBlockGrows DEF count
<1>3. /\ s.Slots = out.Slots /\ s.Observers = out.Observers /\ s.Addr = out.Addr
      /\ s.ClosedAt = out.ClosedAt
      /\ s.KickedUntil = [r.KickedUntil EXCEPT ![p] = t + KickBlockFor(count)]
      /\ s.KickCount = [r.KickCount EXCEPT ![p] = count]
  BY <1>1 DEF Kick, RoomRecord
<1>4. \A q \in Players : s.KickedUntil[q] >= r.KickedUntil[q]
  BY <1>2, <1>3 DEF BlocksEndInTime
<1>5. BlocksEndInTime(s, t)
  <2> SUFFICES ASSUME NEW q \in Players
               PROVE  s.KickedUntil[q] <= t + KickBlockFor(s.KickCount[q] + 1)
    BY DEF BlocksEndInTime
  <2>1. CASE q = p
    <3>1. s.KickedUntil[q] = t + KickBlockFor(count) /\ s.KickCount[q] = count
      BY <1>2, <1>3, <2>1
    <3> HIDE DEF count, s
    <3> QED
      BY <1>2, <3>1
  <2>2. CASE q # p
    BY <1>2, <1>3, <2>2 DEF BlocksEndInTime
  <2> QED
    BY <2>1, <2>2
<1>6. Keeps(r, s, t)
  <2> HIDE DEF out, s
  <2> QED
    BY <1>1, <1>3, <1>4, <1>5 DEF Keeps, IsMember, Pinned
<1> QED
  BY <1>6

\* Drawing an address takes nobody else's.
LEMMA TakeAddressKeeps ==
    ASSUME NEW addr \in [AddrIndexes -> Persons], NEW p \in Players,
           NEW q \in Players, NEW i \in AddrIndexes, addr[i] = q
    PROVE  TakeAddress(addr, p)[i] = q
<1> DEFINE j == CHOOSE j \in DOMAIN addr : LowestFree(addr, j)
<1>1. CASE Holds(addr, p) \/ ~ HasFree(addr)
  BY <1>1 DEF TakeAddress
<1>2. CASE ~ (Holds(addr, p) \/ ~ HasFree(addr))
  <2>1. DOMAIN addr \subseteq Nat
    BY LayoutAssumption DEF AddrIndexes
  <2>2. \E k \in DOMAIN addr : LowestFree(addr, k)
    BY <1>2, <2>1, LowestFreeExists
  <2>3. LowestFree(addr, j)
    BY <2>2
  <2>4. addr[j] = Nobody
    BY <2>3 DEF LowestFree
  <2>5. j # i
    BY <2>4, RoomAssumption
  <2>6. TakeAddress(addr, p) = [addr EXCEPT ![j] = p]
    BY <1>2 DEF TakeAddress
  <2> HIDE DEF j
  <2> QED
    BY <2>5, <2>6
<1> QED
  BY <1>1, <1>2

\* The three ways in: nobody's address, block or end is touched, and only a
\* moderator comes past a lock.
LEMMA JoinKeeps ==
    ASSUME NEW r \in RoomRecord, NEW t \in Nat, BlocksEndInTime(r, t),
           NEW p \in Players, NEW seat, ~ IsClosed(r), ~ IsSeated(r, p)
    PROVE  /\ seat \in Seats /\ ~ Locked(r) => Keeps(r, Join(r, p, seat), t)
           /\ seat \in GallerySeats /\ ~ Locked(r) => Keeps(r, JoinObserver(r, p, seat), t)
           /\ Keeps(r, JoinAdmin(r, p, seat), t)
<1>1. \A q \in Players : r.KickedUntil[q] \in Nat
  BY DEF RoomRecord
<1>2. \A q \in Players, i \in AddrIndexes : r.Addr[i] = q => TakeAddress(r.Addr, p)[i] = q
  BY RoomParts, TakeAddressKeeps
<1>3. ASSUME NEW s, s.Addr = TakeAddress(r.Addr, p) \/ s.Addr = r.Addr,
             s.KickedUntil = r.KickedUntil, s.KickCount = r.KickCount, Pinned(r, s)
      PROVE  Keeps(r, s, t)
  BY <1>1, <1>2, <1>3 DEF Keeps, BlocksEndInTime
<1>4. ASSUME seat \in Seats, ~ Locked(r)
      PROVE  Keeps(r, Join(r, p, seat), t)
  <2> DEFINE s == Join(r, p, seat)
  <2>1. /\ s.Addr = TakeAddress(r.Addr, p)
        /\ s.KickedUntil = r.KickedUntil /\ s.KickCount = r.KickCount
        /\ s.Slots = [r.Slots EXCEPT ![seat] = p] /\ s.Observers = r.Observers
    BY DEF Join, RoomRecord
  <2>2. Pinned(r, s)
    BY <1>4, <2>1, RoomParts DEF Pinned, Moved, IsSeated
  <2> QED
    BY <1>3, <2>1, <2>2
<1>5. ASSUME seat \in GallerySeats, ~ Locked(r)
      PROVE  Keeps(r, JoinObserver(r, p, seat), t)
  <2> DEFINE s == JoinObserver(r, p, seat)
  <2>1. /\ s.Addr = TakeAddress(r.Addr, p)
        /\ s.KickedUntil = r.KickedUntil /\ s.KickCount = r.KickCount
        /\ s.Observers = [r.Observers EXCEPT ![seat] = p] /\ s.Slots = r.Slots
    BY DEF JoinObserver, RoomRecord
  <2>2. Pinned(r, s)
    BY <1>5, <2>1, RoomParts DEF Pinned, Moved, IsSeated
  <2> QED
    BY <1>3, <2>1, <2>2
<1>6. Keeps(r, JoinAdmin(r, p, seat), t)
  <2> DEFINE s == JoinAdmin(r, p, seat)
  <2>1. /\ s.Addr = r.Addr /\ s.KickedUntil = r.KickedUntil /\ s.KickCount = r.KickCount
        /\ s.Slots = r.Slots /\ s.Observers = r.Observers
    BY DEF JoinAdmin, RoomRecord
  <2> QED
    BY <1>3, <2>1, SamePinned
<1> QED
  BY <1>4, <1>5, <1>6

\* A change of seat or side keeps the address (D74), and no match allows one.
LEMMA MoveKeeps ==
    ASSUME NEW r \in RoomRecord, NEW t \in Nat, BlocksEndInTime(r, t),
           NEW p \in Players, NEW seat, NEW watching \in BOOLEAN,
           MayMove(r, p, seat, watching)
    PROVE  Keeps(r, Move(r, p, seat, watching), t)
<1> DEFINE up == [r EXCEPT !.Slots = Without(r.Slots, p), !.Observers = Without(r.Observers, p)]
           d == Reseated(r, p, seat, watching)
           s == Move(r, p, seat, watching)
<1>1. /\ up \in RoomRecord /\ up.Addr = r.Addr
      /\ up.KickedUntil = r.KickedUntil /\ up.KickCount = r.KickCount
  BY WithoutType DEF RoomRecord
<1>2. /\ d.Addr = r.Addr /\ d.KickedUntil = r.KickedUntil /\ d.KickCount = r.KickCount
      /\ s.Addr = d.Addr /\ s.KickedUntil = d.KickedUntil /\ s.KickCount = d.KickCount
  <2>1. d.Addr = r.Addr /\ d.KickedUntil = r.KickedUntil /\ d.KickCount = r.KickCount
    BY <1>1 DEF Reseated, RoomRecord
  <2>2. s.Addr = d.Addr /\ s.KickedUntil = d.KickedUntil /\ s.KickCount = d.KickCount
    BY <1>1 DEF Move, Reseated, RoomRecord
  <2> QED
    BY <2>1, <2>2
<1>3. ~ IsClosed(r) /\ ~ Locked(r) /\ ~ r.HostInGame
  BY DEF MayMove, Locked
<1>4. Pinned(r, s)
  BY <1>3 DEF Pinned
<1> QED
  BY <1>2, <1>3, <1>4, SameKeeps

\* Whatever the registry answers about the host, only an open room ends, and
\* only now.
LEMMA SeeHostKeeps ==
    ASSUME NEW r \in RoomRecord, NEW t \in Nat, BlocksEndInTime(r, t),
           NEW online \in BOOLEAN, NEW inGame \in BOOLEAN
    PROVE  Keeps(r, SeeHost(r, online, inGame, t), t)
<1> DEFINE seen == [r EXCEPT !.HostInGame = inGame]
           s == SeeHost(r, online, inGame, t)
<1>1. /\ s.Addr = r.Addr /\ s.KickedUntil = r.KickedUntil /\ s.KickCount = r.KickCount
      /\ s.Slots = r.Slots /\ s.Observers = r.Observers
      /\ IsClosed(r) => s.ClosedAt = r.ClosedAt
  BY DEF SeeHost, Close, IsClosed, RoomRecord
<1> QED
  BY <1>1, SameKeeps, SamePinned

\* The settings touch neither pool nor blocks, and of an ended room's end nothing.
LEMMA SettingsKeep ==
    ASSUME NEW r \in RoomRecord, NEW t \in Nat, BlocksEndInTime(r, t)
    PROVE  /\ \A status \in Statuses : Keeps(r, SetStatus(r, status), t)
           /\ \A mode \in GameModes : Keeps(r, SetGameMode(r, mode), t)
           /\ \A p \in Players : /\ Keeps(r, Invite(r, p), t)
                                 /\ Keeps(r, Uninvite(r, p), t)
                                 /\ Keeps(r, SetHost(r, p), t)
           /\ \A kind, password, floor : Keeps(r, SetPrivacy(r, kind, password, floor), t)
<1> DEFINE Same(s) == /\ s.Addr = r.Addr /\ s.KickedUntil = r.KickedUntil
                      /\ s.KickCount = r.KickCount /\ s.ClosedAt = r.ClosedAt
                      /\ s.Slots = r.Slots /\ s.Observers = r.Observers
<1>1. ASSUME NEW s, Same(s) PROVE Keeps(r, s, t)
  BY <1>1, SameKeeps, SamePinned
<1>2. /\ \A status \in Statuses : Same(SetStatus(r, status))
      /\ \A mode \in GameModes : Same(SetGameMode(r, mode))
  BY DEF SetStatus, SetGameMode, RoomRecord
<1>3. \A p \in Players : Same(Invite(r, p)) /\ Same(Uninvite(r, p)) /\ Same(SetHost(r, p))
  BY DEF Invite, Uninvite, SetHost, RoomRecord
<1>4. \A kind, password, floor : Same(SetPrivacy(r, kind, password, floor))
  BY DEF SetPrivacy, RoomRecord
<1> HIDE DEF Same
<1> QED
  BY <1>1, <1>2, <1>3, <1>4
--------------------------------------------------------------------------------
(* What each step keeps of the store *)

\* A room nothing is done to keeps everything.
LEMMA NothingKeeps ==
    ASSUME NEW r \in RoomRecord, NEW t \in Nat, BlocksEndInTime(r, t)
    PROVE  Keeps(r, r, t)
BY SameKeeps, SamePinned

\* A method run on one stored room, for somebody whom it admits or for nobody.
LEMMA OneRoomStep ==
    ASSUME BlocksInv, NEW id \in RoomIds, Stored(id), NEW s,
           NEW who \in Persons, who \in Players => Admissible(rooms[id], who, now),
           Follows(rooms[id], s, who), Keeps(rooms[id], s, now),
           rooms' = [rooms EXCEPT ![id] = s], UNCHANGED <<indexes, unused, now>>
    PROVE  StepKeeps
<1>1. /\ rooms'[id] = s
      /\ \A k \in RoomIds \ {id} : rooms'[k] = rooms[k]
  BY DEF BlocksInv, StoreInv, StoreTypeOK
<1>2. ASSUME NEW k \in RoomIds, k # id, Stored(k) PROVE Keeps(rooms[k], rooms[k], now)
  BY <1>2, NothingKeeps DEF BlocksInv, StoreInv, StoreTypeOK, RoomOK
<1>3. ASSUME NEW p \in Players, SeatedIn(id, p)'
      PROVE  SeatedIn(id, p) \/ Admissible(rooms[id], p, now)
  BY <1>1, <1>3 DEF SeatedIn, Follows
<1>4. IsClosed(rooms[id]) => IsClosed(rooms'[id])
  BY <1>1 DEF Follows
<1>5. ASSUME NEW k \in RoomIds, k # id
      PROVE  /\ Stored(k)' <=> Stored(k)
             /\ \A p \in Players : SeatedIn(k, p)' => SeatedIn(k, p)
  BY <1>1, <1>5 DEF Stored, SeatedIn
<1> QED
  BY <1>1, <1>2, <1>3, <1>4, <1>5 DEF StepKeeps

\* Opening a room takes an identifier still to be drawn and touches no room.
LEMMA CreateStep ==
    ASSUME BlocksInv, NEW id \in RoomIds, NEW host \in Players, Create(id, host)
    PROVE  StepKeeps
<1>1. id \in unused /\ ~ Stored(id)
  BY DEF Create, BlocksInv, StoreInv
<1>2. PICK i : rooms' = [rooms EXCEPT ![id] = NewRoom(i, host)]
  BY DEF Create
<1>3. rooms'[id] = NewRoom(i, host) /\ \A k \in RoomIds \ {id} : rooms'[k] = rooms[k]
  BY <1>2 DEF BlocksInv, StoreInv, StoreTypeOK
<1>4. ASSUME NEW k \in RoomIds, Stored(k) PROVE Keeps(rooms[k], rooms[k], now)
  BY <1>4, NothingKeeps DEF BlocksInv, StoreInv, StoreTypeOK, RoomOK
<1>5. BlocksEndInTime(NewRoom(i, host), now)
  <2>1. now \in Nat /\ KickBlockFor(0 + 1) \in Nat
    BY KickBlockGrows DEF BlocksInv, StoreInv, StoreTypeOK
  <2> QED
    BY <2>1 DEF BlocksEndInTime, NewRoom
<1> QED
  BY <1>1, <1>3, <1>4, <1>5 DEF StepKeeps, Stored, SeatedIn

\* Closing forgets one room and touches no other.
LEMMA CloseRoomStep ==
    ASSUME BlocksInv, NEW id \in RoomIds, NEW actor \in Persons, CloseRoom(id, actor)
    PROVE  StepKeeps
<1>1. rooms' = [rooms EXCEPT ![id] = Absent]
  BY DEF CloseRoom
<1>2. ~ Stored(id)' /\ \A k \in RoomIds \ {id} : rooms'[k] = rooms[k]
  BY <1>1 DEF BlocksInv, StoreInv, StoreTypeOK, Stored
<1>3. ASSUME NEW k \in RoomIds, Stored(k) PROVE Keeps(rooms[k], rooms[k], now)
  BY <1>3, NothingKeeps DEF BlocksInv, StoreInv, StoreTypeOK, RoomOK
<1> QED
  BY <1>2, <1>3 DEF StepKeeps, Stored, SeatedIn

\* A tick shows every room its host, or forgets it.
LEMMA TickStep ==
    ASSUME BlocksInv, NEW online, NEW playing, Tick(online, playing)
    PROVE  StepKeeps
<1>1. ASSUME NEW k \in RoomIds, Stored(k)
      PROVE  /\ Keeps(rooms[k], Ticked(k, online, playing), now)
             /\ Follows(rooms[k], Ticked(k, online, playing), Nobody)
  <2> DEFINE seen == rooms[k].HostID \in online
             inGame == rooms[k].HostID \in playing
  <2>1. rooms[k] \in RoomRecord /\ now \in Nat /\ BlocksEndInTime(rooms[k], now)
    BY <1>1 DEF BlocksInv, StoreInv, StoreTypeOK, RoomOK
  <2>2. Ticked(k, online, playing) = SeeHost(rooms[k], seen, inGame, now)
    BY DEF Ticked
  <2>3. seen \in BOOLEAN /\ inGame \in BOOLEAN
    OBVIOUS
  <2> HIDE DEF seen, inGame
  <2> QED
    BY <2>1, <2>2, <2>3, SeeHostKeeps, SeeHostFollows
<1>2. \A k \in RoomIds : Stored(k)' => Stored(k) /\ rooms'[k] = Ticked(k, online, playing)
  BY DEF Tick, Stored
<1> QED
  BY <1>1, <1>2, RoomAssumption DEF StepKeeps, SeatedIn, Follows

\* One step for each method of the store.
LEMMA RoomCallStep ==
    ASSUME BlocksInv, NEW id \in RoomIds, RoomCall(id)
    PROVE  StepKeeps
<1>0. /\ now \in Nat /\ Nobody \in Persons /\ Nobody \notin Players /\ Invitees \subseteq Players
      /\ Stored(id) => rooms[id] \in RoomRecord /\ BlocksEndInTime(rooms[id], now)
  BY RoomAssumption, StoreAssumption DEF BlocksInv, StoreInv, StoreTypeOK, Persons, RoomOK
<1>1. ASSUME NEW p \in Players, Create(id, p) PROVE StepKeeps
  BY <1>1, CreateStep
<1>2. ASSUME NEW who \in Applicants,
             JoinRoom(id, who) \/ JoinRoomObserver(id, who)
      PROVE  StepKeeps
  <2>1. /\ who.ID \in Players /\ Stored(id) /\ Admissible(rooms[id], who.ID, now)
        /\ ~ Locked(rooms[id])
        /\ UNCHANGED <<indexes, unused, now>>
    BY <1>2 DEF Applicants, JoinRoom, JoinRoomObserver, MayJoin, MayJoinObserver, MayEnter
  <2>2. PICK seat : \/ /\ seat \in Seats
                       /\ rooms' = [rooms EXCEPT ![id] = Join(rooms[id], who.ID, seat)]
                    \/ /\ seat \in GallerySeats
                       /\ rooms' = [rooms EXCEPT ![id] = JoinObserver(rooms[id], who.ID, seat)]
    BY <1>2 DEF JoinRoom, JoinRoomObserver
  <2>3. ~ IsClosed(rooms[id]) /\ ~ IsSeated(rooms[id], who.ID)
    BY <2>1 DEF Admissible
  <2> QED
    BY <1>0, <2>1, <2>2, <2>3, JoinKeeps, JoinFollows, OneRoomStep DEF Persons
<1>3. ASSUME NEW p \in Players, JoinRoomAdmin(id, p) PROVE StepKeeps
  <2>1. Stored(id) /\ Admissible(rooms[id], p, now) /\ UNCHANGED <<indexes, unused, now>>
    BY <1>3 DEF JoinRoomAdmin
  <2>2. PICK seat : rooms' = [rooms EXCEPT ![id] = JoinAdmin(rooms[id], p, seat)]
    BY <1>3 DEF JoinRoomAdmin
  <2>3. ~ IsClosed(rooms[id]) /\ ~ IsSeated(rooms[id], p)
    BY <2>1 DEF Admissible
  <2> QED
    BY <1>0, <2>1, <2>2, <2>3, JoinKeeps, JoinFollows, OneRoomStep DEF Persons
<1>4. ASSUME NEW p \in Players, LeaveRoom(id, p) PROVE StepKeeps
  BY <1>0, <1>4, LeaveKeeps, LeaveFollows, OneRoomStep DEF LeaveRoom
<1>5. ASSUME NEW actor \in Persons, CloseRoom(id, actor) PROVE StepKeeps
  BY <1>5, CloseRoomStep
<1>6. ASSUME NEW p \in Players, NEW seat, NEW watching \in BOOLEAN, MoveSeat(id, p, seat, watching)
      PROVE  StepKeeps
  <2>1. /\ Stored(id) /\ MayMove(rooms[id], p, seat, watching) /\ IsMember(rooms[id], p)
        /\ rooms' = [rooms EXCEPT ![id] = Move(rooms[id], p, seat, watching)]
        /\ UNCHANGED <<indexes, unused, now>>
    BY <1>6 DEF MoveSeat, MayMove
  <2> QED
    BY <1>0, <2>1, MoveKeeps, MoveFollows, OneRoomStep
<1>7. ASSUME NEW actor \in Players, NEW target \in Players, KickPlayer(id, actor, target)
      PROVE  StepKeeps
  BY <1>0, <1>7, KickKeeps, KickFollows, OneRoomStep DEF KickPlayer
<1>8. ASSUME NEW actor \in Players, NEW status \in Statuses, SetRoomStatus(id, actor, status)
      PROVE  StepKeeps
  BY <1>0, <1>8, SettingsKeep, SettingsFollow, OneRoomStep DEF SetRoomStatus, MaySetStatus
<1>9. ASSUME NEW actor \in Players, NEW mode \in GameModes, SetRoomGameMode(id, actor, mode)
      PROVE  StepKeeps
  BY <1>0, <1>9, SettingsKeep, SettingsFollow, OneRoomStep DEF SetRoomGameMode
<1>10. ASSUME NEW actor \in Players, NEW kind \in PrivacyKinds,
              NEW password \in Passwords \union {NoPassword}, NEW floor \in MMRFloors,
              SetRoomPrivacy(id, actor, kind, password, floor)
       PROVE  StepKeeps
  BY <1>0, <1>10, SettingsKeep, SettingsFollow, OneRoomStep DEF SetRoomPrivacy
<1>11. ASSUME NEW actor \in Players, NEW target \in Invitees,
              InvitePlayer(id, actor, target) \/ UninvitePlayer(id, actor, target)
       PROVE  StepKeeps
  BY <1>0, <1>11, SettingsKeep, SettingsFollow, OneRoomStep DEF InvitePlayer, UninvitePlayer
<1>12. ASSUME NEW p \in Players, ChangeHost(id, p) PROVE StepKeeps
  BY <1>0, <1>12, SettingsKeep, SettingsFollow, OneRoomStep DEF ChangeHost
<1> QED
  BY <1>1, <1>2, <1>3, <1>4, <1>5, <1>6, <1>7, <1>8, <1>9, <1>10, <1>11, <1>12 DEF RoomCall

\* Every step of the store keeps what no step may touch.
LEMMA NextKeeps == BlocksInv /\ [StoreNext]_storeVars => StepKeeps
<1> SUFFICES ASSUME BlocksInv, [StoreNext]_storeVars PROVE StepKeeps
  OBVIOUS
<1>1. ASSUME NEW id \in RoomIds, RoomCall(id) PROVE StepKeeps
  BY <1>1, RoomCallStep
<1>2. CASE TickNow
  BY <1>2, TickStep DEF TickNow
<1>3. CASE UNCHANGED rooms
  <2>1. ASSUME NEW k \in RoomIds, Stored(k) PROVE Keeps(rooms[k], rooms[k], now)
    BY <2>1, NothingKeeps DEF BlocksInv, StoreInv, StoreTypeOK, RoomOK
  <2> QED
    BY <1>3, <2>1 DEF StepKeeps, Stored, SeatedIn
<1> QED
  BY <1>1, <1>2, <1>3 DEF StoreNext, PassTime, storeVars

\* Only PassTime moves the clock, and never back.
LEMMA ClockForward == BlocksInv /\ [StoreNext]_storeVars => now \in Nat /\ now' \in Nat /\ now' >= now
<1> SUFFICES ASSUME BlocksInv, [StoreNext]_storeVars PROVE now \in Nat /\ now' \in Nat /\ now' >= now
  OBVIOUS
<1>1. now \in Nat
  BY DEF BlocksInv, StoreInv, StoreTypeOK
<1>2. ASSUME NEW id \in RoomIds, RoomCall(id) PROVE now' = now
  BY <1>2 DEF RoomCall, Create, JoinRoom, JoinRoomObserver, JoinRoomAdmin, LeaveRoom, CloseRoom,
              MoveSeat, KickPlayer, InvitePlayer, UninvitePlayer, SetRoomStatus,
              SetRoomGameMode, SetRoomPrivacy, ChangeHost
<1>3. CASE TickNow
  BY <1>1, <1>3 DEF TickNow, Tick
<1> QED
  BY <1>1, <1>2, <1>3 DEF StoreNext, PassTime, storeVars

\* The bound on kick blocks is inductive beside StoreInv.
LEMMA BlocksNext == BlocksInv /\ [StoreNext]_storeVars => BlocksInv'
<1> SUFFICES ASSUME BlocksInv, [StoreNext]_storeVars PROVE BlocksInv'
  OBVIOUS
<1>1. StoreInv'
  BY NextInv DEF BlocksInv
<1>2. StepKeeps /\ now \in Nat /\ now' \in Nat /\ now' >= now
  BY NextKeeps, ClockForward
<1>3. ASSUME NEW id \in RoomIds, Stored(id)' PROVE BlocksEndInTime(rooms'[id], now')
  <2>1. BlocksEndInTime(rooms'[id], now)
    BY <1>2, <1>3 DEF StepKeeps, Keeps
  <2>2. /\ rooms'[id].KickedUntil \in [Players -> Nat]
        /\ rooms'[id].KickCount \in [Players -> Nat]
    BY <1>1, <1>3 DEF StoreInv, RoomOK, RoomRecord
  <2>3. \A c \in Nat : KickBlockFor(c + 1) \in Nat
    BY KickBlockGrows
  <2> QED
    BY <1>2, <2>1, <2>2, <2>3 DEF BlocksEndInTime
<1> QED
  BY <1>1, <1>3 DEF BlocksInv

\* The invariant holds of every state the store can reach.
LEMMA BlocksInvariant == StoreSpec => []BlocksInv
<1>1. StoreInit => BlocksInv
  BY InitInv DEF StoreInit, BlocksInv, Stored
<1> QED
  BY <1>1, BlocksNext, PTL DEF StoreSpec
--------------------------------------------------------------------------------
(* What no step may do *)

\* While a kick block runs the person gets no seat of any kind in that room, and
\* nothing, a second kick included, shortens it (state.go, admissible and Kick).
THEOREM KickBlockAlwaysAbsolute == StoreSpec => KickBlockIsAbsolute
<1>1. ASSUME BlocksInv, [StoreNext]_storeVars,
             NEW id \in RoomIds, NEW p \in Players, Stored(id), Stored(id)'
      PROVE  /\ KickBlocked(rooms[id], p, now) /\ SeatedIn(id, p)' => SeatedIn(id, p)
             /\ rooms'[id].KickedUntil[p] >= rooms[id].KickedUntil[p]
  BY <1>1, NextKeeps DEF StepKeeps, Keeps, Admissible
<1>2. BlocksInv /\ [StoreNext]_storeVars =>
        [\A id \in RoomIds, p \in Players : Stored(id) /\ Stored(id)' =>
          /\ KickBlocked(rooms[id], p, now) /\ SeatedIn(id, p)' => SeatedIn(id, p)
          /\ rooms'[id].KickedUntil[p] >= rooms[id].KickedUntil[p]]_storeVars
  BY <1>1
<1> QED
  BY <1>2, BlocksInvariant, PTL DEF StoreSpec, KickBlockIsAbsolute

\* No change of seat, side, host or status, and nobody else's coming or going,
\* moves anybody to another address (D74: takeAddress, dropAddress, Move).
THEOREM AddressAlwaysKept == StoreSpec => AddressIsKept
<1>1. ASSUME BlocksInv, [StoreNext]_storeVars,
             NEW id \in RoomIds, NEW p \in Players,
             Stored(id), Stored(id)', IsMember(rooms[id], p), IsMember(rooms'[id], p),
             NEW i \in AddrIndexes, rooms[id].Addr[i] = p
      PROVE  rooms'[id].Addr[i] = p
  BY <1>1, NextKeeps DEF StepKeeps, Keeps
<1>2. BlocksInv /\ [StoreNext]_storeVars =>
        [\A id \in RoomIds, p \in Players :
          Stored(id) /\ Stored(id)' /\ IsMember(rooms[id], p) /\ IsMember(rooms'[id], p)
          => \A i \in AddrIndexes : rooms[id].Addr[i] = p => rooms'[id].Addr[i] = p]_storeVars
  BY <1>1
<1> QED
  BY <1>2, BlocksInvariant, PTL DEF StoreSpec, AddressIsKept

\* A room that ended stays ended, keeps the moment of its end, takes nobody, and
\* once it is gone its identifier names no other room (state.go, Close and
\* admissible; store.go, Tick and Create).
THEOREM AlwaysEndedForGood == StoreSpec => EndedForGood
<1>1. ASSUME BlocksInv, [StoreNext]_storeVars, NEW id \in RoomIds
      PROVE  /\ Stored(id) /\ IsClosed(rooms[id]) /\ Stored(id)' =>
                /\ IsClosed(rooms'[id]) /\ rooms'[id].ClosedAt = rooms[id].ClosedAt
                /\ \A p \in Players : SeatedIn(id, p)' => SeatedIn(id, p)
             /\ ~ Stored(id) /\ id \notin unused => ~ Stored(id)'
  BY <1>1, NextKeeps DEF StepKeeps, Keeps, Admissible
<1>2. BlocksInv /\ [StoreNext]_storeVars =>
        [\A id \in RoomIds :
          /\ Stored(id) /\ IsClosed(rooms[id]) /\ Stored(id)' =>
                /\ IsClosed(rooms'[id]) /\ rooms'[id].ClosedAt = rooms[id].ClosedAt
                /\ \A p \in Players : SeatedIn(id, p)' => SeatedIn(id, p)
          /\ ~ Stored(id) /\ id \notin unused => ~ Stored(id)']_storeVars
  BY <1>1
<1> QED
  BY <1>2, BlocksInvariant, PTL DEF StoreSpec, EndedForGood

\* In a locked room, and in one whose host is in a match, whoever holds a place in
\* the match or the gallery keeps that place or gives it up, and nobody new gets
\* one past the lock (D69: state.go, Locked and Move).
THEOREM MatchAlwaysPinsThePlaces == StoreSpec => MatchPinsThePlaces
<1>1. ASSUME BlocksInv, [StoreNext]_storeVars, NEW id \in RoomIds, IsOpen(id), Stored(id)'
      PROVE  LET r == rooms[id]  s == rooms'[id]
                 kept(g, h, i) == h[i] \in {g[i], Nobody}
                 moved(g, h, i) == h[i] # Nobody /\ h[i] # g[i] /\ IsMember(r, h[i])
             IN  /\ Locked(r) =>
                       /\ \A i \in Seats : kept(r.Slots, s.Slots, i)
                       /\ \A i \in GallerySeats : kept(r.Observers, s.Observers, i)
                 /\ r.HostInGame =>
                       /\ \A i \in Seats : ~ moved(r.Slots, s.Slots, i)
                       /\ \A i \in GallerySeats : ~ moved(r.Observers, s.Observers, i)
  <2>1. Pinned(rooms[id], rooms'[id])
    BY <1>1, NextKeeps DEF StepKeeps, Keeps, IsOpen
  <2>2. DOMAIN rooms[id].Slots = Seats /\ DOMAIN rooms[id].Observers = GallerySeats
    BY <1>1, RoomParts DEF BlocksInv, StoreInv, RoomOK, IsOpen
  <2> QED
    BY <2>1, <2>2 DEF Pinned, Kept, Moved
<1>2. BlocksInv /\ [StoreNext]_storeVars =>
        [\A id \in RoomIds : IsOpen(id) /\ Stored(id)' =>
          LET r == rooms[id]  s == rooms'[id]
              kept(g, h, i) == h[i] \in {g[i], Nobody}
              moved(g, h, i) == h[i] # Nobody /\ h[i] # g[i] /\ IsMember(r, h[i])
          IN  /\ Locked(r) =>
                    /\ \A i \in Seats : kept(r.Slots, s.Slots, i)
                    /\ \A i \in GallerySeats : kept(r.Observers, s.Observers, i)
              /\ r.HostInGame =>
                    /\ \A i \in Seats : ~ moved(r.Slots, s.Slots, i)
                    /\ \A i \in GallerySeats : ~ moved(r.Observers, s.Observers, i)]_storeVars
  BY <1>1
<1> QED
  BY <1>2, BlocksInvariant, PTL DEF StoreSpec, MatchPinsThePlaces
=================================================================================
