----------------------------- MODULE OccupancyProofs -----------------------------
(* The room store implements Occupancy, whatever the constants: every step of   *)
(* the store is one step of the abstract specification.  A step that moves      *)
(* nobody is the end of no room, End({}).                                       *)
EXTENDS MCRoomStore, RoomStoreProofs

\* What a method leaves of who is in the room, who hosts it and whether it goes on.
SameCompany(r, s) ==
    /\ s.HostID = r.HostID
    /\ IsClosed(s) <=> IsClosed(r)
    /\ \A q \in Players : IsSeated(s, q) <=> IsSeated(r, q)
--------------------------------------------------------------------------------
(* Who is where *)

\* The mapping names the one room that is going on in which somebody sits.
Placed ==
    \A p \in Players :
        /\ \A id \in RoomsOf(p) : whereabouts[p] = id
        /\ RoomsOf(p) = {} => whereabouts[p] = Nowhere

LEMMA WhereaboutsIs == StoreInv => Placed
<1> SUFFICES ASSUME StoreInv, NEW p \in Players
             PROVE  /\ \A id \in RoomsOf(p) : whereabouts[p] = id
                    /\ RoomsOf(p) = {} => whereabouts[p] = Nowhere
  BY DEF Placed
<1>1. \A id1, id2 \in RoomsOf(p) : id1 = id2
  BY DEF StoreInv, OneRoomAtATime
<1>2. whereabouts[p] = IF RoomsOf(p) = {} THEN Nowhere ELSE CHOOSE id \in RoomsOf(p) : TRUE
  BY DEF whereabouts
<1> QED
  BY <1>1, <1>2

\* The mapping names the host of a room that is going on, and says of every other
\* whether it is to come or over.
LEMMA HostIs ==
    ASSUME StoreInv, NEW id \in RoomIds
    PROVE  /\ IsOpen(id) => hosts[id] = rooms[id].HostID /\ hosts[id] \in Players /\ id \notin unused
           /\ ~ IsOpen(id) /\ id \in unused => hosts[id] = Unborn
           /\ ~ IsOpen(id) /\ id \notin unused => hosts[id] = Ended
           /\ hosts[id] \in Players => IsOpen(id)
           /\ hosts \in [RoomIds -> Players \union {Unborn, Ended}]
<1>1. \A k \in RoomIds : IsOpen(k) => rooms[k].HostID \in Players /\ k \notin unused
  BY RoomParts DEF StoreInv, RoomOK, IsOpen
<1>2. \A k \in RoomIds : hosts[k] = IF k \in unused THEN Unborn
                                     ELSE IF IsOpen(k) THEN rooms[k].HostID ELSE Ended
  BY DEF hosts
<1> QED
  BY <1>1, <1>2, OccupancyAssumption DEF hosts
--------------------------------------------------------------------------------
(* The five kinds of steps *)

\* Some rooms end, perhaps none, and nothing happens to who is in the others.
LEMMA EndStep ==
    ASSUME StoreInv, StoreInv', unused' = unused, NEW ids \in SUBSET RoomIds,
           \A id \in ids : IsOpen(id) /\ ~ IsOpen(id)',
           \A k \in RoomIds \ ids :
              /\ IsOpen(k)' <=> IsOpen(k)
              /\ IsOpen(k) => /\ rooms'[k].HostID = rooms[k].HostID
                              /\ \A q \in Players : IsSeated(rooms'[k], q) <=> IsSeated(rooms[k], q)
    PROVE  Promise!Next
<1>1. \A id \in ids : hosts[id] \in Players
  BY HostIs
<1>2. ASSUME NEW p \in Players
      PROVE  whereabouts'[p] = IF whereabouts[p] \in ids THEN Nowhere ELSE whereabouts[p]
  <2>1. RoomsOf(p)' = RoomsOf(p) \ ids
    BY DEF RoomsOf
  <2>2. Placed /\ Placed'
    BY WhereaboutsIs, PTL
  <2>3. RoomsOf(p) \subseteq RoomIds /\ Nowhere \notin RoomIds
    BY OccupancyAssumption DEF RoomsOf
  <2> QED
    BY <2>1, <2>2, <2>3 DEF Placed
<1>3. whereabouts' = [p \in Players |-> IF whereabouts[p] \in ids THEN Nowhere ELSE whereabouts[p]]
  BY <1>2 DEF whereabouts
<1>4. ASSUME NEW id \in RoomIds
      PROVE  hosts'[id] = IF id \in ids THEN Ended ELSE hosts[id]
  BY DEF hosts, StoreInv, IsOpen
<1>5. hosts' = [id \in RoomIds |-> IF id \in ids THEN Ended ELSE hosts[id]]
  BY <1>4 DEF hosts
<1>6. Promise!End(ids)
  BY <1>1, <1>3, <1>5 DEF Promise!End, Promise!Alive
<1> QED
  BY <1>6 DEF Promise!Next

\* No room begins, ends or changes host.
LEMMA HostsStay ==
    ASSUME StoreInv, unused' = unused,
           \A k \in RoomIds : /\ IsOpen(k)' <=> IsOpen(k)
                              /\ IsOpen(k) => rooms'[k].HostID = rooms[k].HostID
    PROVE  hosts' = hosts
BY DEF hosts

\* Somebody who was nowhere comes into a room that is going on.
LEMMA EnterStep ==
    ASSUME StoreInv, StoreInv', unused' = unused,
           NEW id \in RoomIds, NEW p \in Players, IsOpen(id), RoomsOf(p) = {},
           \A k \in RoomIds : /\ IsOpen(k)' <=> IsOpen(k)
                              /\ IsOpen(k) => rooms'[k].HostID = rooms[k].HostID,
           \A k \in RoomIds : IsOpen(k) => \A q \in Players :
              IsSeated(rooms'[k], q) <=> IsSeated(rooms[k], q) \/ (k = id /\ q = p)
    PROVE  Promise!Next
<1>1. Placed /\ Placed'
  BY WhereaboutsIs, PTL
<1>2. RoomsOf(p)' = {id} /\ \A q \in Players \ {p} : RoomsOf(q)' = RoomsOf(q)
  BY DEF RoomsOf
<1>3. ASSUME NEW q \in Players
      PROVE  whereabouts'[q] = IF q = p THEN id ELSE whereabouts[q]
  <2>1. CASE q = p
    BY <1>1, <1>2, <2>1 DEF Placed
  <2>2. CASE q # p
    BY <1>1, <1>2, <2>2 DEF Placed
  <2> QED
    BY <2>1, <2>2
<1>4. whereabouts[p] = Nowhere
  BY <1>1 DEF Placed
<1>5. whereabouts' = [whereabouts EXCEPT ![p] = id]
  BY <1>3 DEF whereabouts
<1>6. hosts' = hosts /\ hosts[id] \in Players
  BY HostsStay, HostIs
<1>7. Promise!Enter(id, p)
  BY <1>4, <1>5, <1>6 DEF Promise!Enter, Promise!Alive
<1> QED
  BY <1>7 DEF Promise!Next

\* Somebody who is not the host goes out of a room that goes on.
LEMMA ExitStep ==
    ASSUME StoreInv, StoreInv', unused' = unused,
           NEW id \in RoomIds, NEW p \in Players, IsOpen(id),
           IsSeated(rooms[id], p), p # rooms[id].HostID,
           \A k \in RoomIds : /\ IsOpen(k)' <=> IsOpen(k)
                              /\ IsOpen(k) => rooms'[k].HostID = rooms[k].HostID,
           \A k \in RoomIds : IsOpen(k) => \A q \in Players :
              IsSeated(rooms'[k], q) <=> IsSeated(rooms[k], q) /\ ~ (k = id /\ q = p)
    PROVE  Promise!Next
<1>1. Placed /\ Placed'
  BY WhereaboutsIs, PTL
<1>2. id \in RoomsOf(p) /\ \A k \in RoomsOf(p) : k = id
  BY DEF StoreInv, OneRoomAtATime, RoomsOf
<1>3. RoomsOf(p)' = {} /\ \A q \in Players \ {p} : RoomsOf(q)' = RoomsOf(q)
  BY <1>2 DEF RoomsOf
<1>4. ASSUME NEW q \in Players
      PROVE  whereabouts'[q] = IF q = p THEN Nowhere ELSE whereabouts[q]
  <2>1. CASE q = p
    BY <1>1, <1>3, <2>1 DEF Placed
  <2>2. CASE q # p
    BY <1>1, <1>3, <2>2 DEF Placed
  <2> QED
    BY <2>1, <2>2
<1>5. whereabouts[p] = id /\ id # Nowhere
  BY <1>1, <1>2, OccupancyAssumption DEF Placed
<1>6. whereabouts' = [whereabouts EXCEPT ![p] = Nowhere]
  BY <1>4 DEF whereabouts
<1>7. hosts' = hosts /\ hosts[id] = rooms[id].HostID
  BY HostsStay, HostIs
<1>8. Promise!Exit(p)
  BY <1>5, <1>6, <1>7 DEF Promise!Exit
<1> QED
  BY <1>8 DEF Promise!Next

\* A room that is going on gets another of its people for a host.
LEMMA HandoverStep ==
    ASSUME StoreInv, StoreInv', unused' = unused,
           NEW id \in RoomIds, NEW p \in Players, IsOpen(id), IsSeated(rooms[id], p),
           rooms'[id].HostID = p,
           \A k \in RoomIds : /\ IsOpen(k)' <=> IsOpen(k)
                              /\ IsOpen(k) /\ k # id => rooms'[k].HostID = rooms[k].HostID
                              /\ IsOpen(k) => \A q \in Players :
                                    IsSeated(rooms'[k], q) <=> IsSeated(rooms[k], q)
    PROVE  Promise!Next
<1>1. Placed /\ Placed'
  BY WhereaboutsIs, PTL
<1>2. \A q \in Players : RoomsOf(q)' = RoomsOf(q)
  BY DEF RoomsOf
<1>3. ASSUME NEW q \in Players PROVE whereabouts'[q] = whereabouts[q]
  BY <1>1, <1>2 DEF Placed
<1>4. whereabouts' = whereabouts
  BY <1>3 DEF whereabouts
<1>5. whereabouts[p] = id
  BY <1>1 DEF Placed, RoomsOf
<1>6. ASSUME NEW k \in RoomIds PROVE hosts'[k] = IF k = id THEN p ELSE hosts[k]
  <2>1. id \notin unused /\ IsOpen(id)'
    BY HostIs
  <2> QED
    BY <2>1 DEF hosts
<1>7. hosts' = [hosts EXCEPT ![id] = p]
  BY <1>6 DEF hosts
<1>8. hosts[id] \in Players
  BY HostIs
<1>9. Promise!Handover(id, p)
  BY <1>4, <1>5, <1>7, <1>8 DEF Promise!Handover, Promise!Alive
<1> QED
  BY <1>9 DEF Promise!Next

\* A room opens around somebody who was nowhere.
LEMMA OpenStep ==
    ASSUME StoreInv, StoreInv', NEW id \in RoomIds, NEW p \in Players, Create(id, p)
    PROVE  Promise!Next
<1>1. Placed /\ Placed'
  BY WhereaboutsIs, PTL
<1>2. PICK i \in RoomIndexes : rooms' = [rooms EXCEPT ![id] = NewRoom(i, p)]
  BY DEF Create
<1> DEFINE r == NewRoom(i, p)
<1>3. /\ rooms'[id] = r /\ \A k \in RoomIds \ {id} : rooms'[k] = rooms[k]
      /\ RoomsOf(p) = {} /\ id \in unused /\ unused' = unused \ {id}
      /\ ~ Stored(id)
  BY <1>2 DEF Create, StoreInv, StoreTypeOK
<1>4. /\ \A q \in Players : IsSeated(r, q) <=> q = p
      /\ ~ IsClosed(r) /\ r.HostID = p
  <2>1. 0 \in Seats
    BY LayoutAssumption DEF Seats
  <2> QED
    BY <2>1, RoomAssumption DEF NewRoom, IsSeated, IsMember, Holds, IsClosed
<1>5. r # Absent
  BY NewRoomType, StoreAssumption
<1> HIDE DEF r
<1>6. /\ IsOpen(id)' /\ ~ IsOpen(id)
      /\ \A k \in RoomIds \ {id} : IsOpen(k)' <=> IsOpen(k)
  BY <1>3, <1>4, <1>5 DEF IsOpen, Stored
<1>7. RoomsOf(p)' = {id} /\ \A q \in Players \ {p} : RoomsOf(q)' = RoomsOf(q)
  BY <1>3, <1>4, <1>6 DEF RoomsOf
<1>8. ASSUME NEW q \in Players
      PROVE  whereabouts'[q] = IF q = p THEN id ELSE whereabouts[q]
  <2>1. CASE q = p
    BY <1>1, <1>7, <2>1 DEF Placed
  <2>2. CASE q # p
    BY <1>1, <1>7, <2>2 DEF Placed
  <2> QED
    BY <2>1, <2>2
<1>9. whereabouts[p] = Nowhere /\ whereabouts' = [whereabouts EXCEPT ![p] = id]
  BY <1>1, <1>3, <1>8 DEF Placed, whereabouts
<1>10. ASSUME NEW k \in RoomIds PROVE hosts'[k] = IF k = id THEN p ELSE hosts[k]
  <2>1. CASE k = id
    BY <1>3, <1>4, <1>6, <2>1 DEF hosts
  <2>2. CASE k # id
    BY <1>3, <1>6, <2>2 DEF hosts
  <2> QED
    BY <2>1, <2>2
<1>11. hosts[id] = Unborn /\ hosts' = [hosts EXCEPT ![id] = p]
  BY <1>3, <1>10 DEF hosts
<1>12. Promise!Open(id, p)
  BY <1>9, <1>11 DEF Promise!Open
<1> QED
  BY <1>12 DEF Promise!Next
--------------------------------------------------------------------------------
(* What each method makes of the company *)

\* Leave takes one person out, and the room with them if they host it.
LEMMA LeaveCompany ==
    ASSUME NEW r \in RoomRecord, NEW p \in Players, NEW t \in Nat
    PROVE  LET s == Leave(r, p, t) IN
           /\ s \in RoomRecord /\ s.HostID = r.HostID
           /\ IsClosed(s) <=> IsClosed(r) \/ p = r.HostID
           /\ \A q \in Players : IsSeated(s, q) <=> IsSeated(r, q) /\ q # p
<1> DEFINE out == Removed(r, p)
           s == Leave(r, p, t)
<1>1. /\ out \in RoomRecord /\ out.HostID = r.HostID /\ out.Status = r.Status
      /\ out.Slots = Without(r.Slots, p) /\ out.Observers = Without(r.Observers, p)
      /\ out.Admins = Without(r.Admins, p)
  BY RemovedType DEF Removed, RoomRecord
<1>2. ASSUME NEW S, NEW g \in [S -> Persons], NEW q \in Players
      PROVE  Holds(Without(g, p), q) <=> Holds(g, q) /\ q # p
  BY RoomAssumption DEF Without, Holds
<1>3. /\ s \in RoomRecord /\ s.HostID = r.HostID
      /\ s.Slots = out.Slots /\ s.Observers = out.Observers /\ s.Admins = out.Admins
      /\ IsClosed(s) <=> IsClosed(r) \/ p = r.HostID
  <2>1. CASE p = r.HostID
    <3>1. s = Close(out, t) /\ s \in RoomRecord
      BY <1>1, <2>1, CloseType DEF Leave
    <3>2. /\ Close(out, t).HostID = out.HostID /\ Close(out, t).Slots = out.Slots
          /\ Close(out, t).Observers = out.Observers /\ Close(out, t).Admins = out.Admins
          /\ IsClosed(Close(out, t))
      BY <1>1 DEF Close, IsClosed, RoomRecord
    <3> QED
      BY <1>1, <2>1, <3>1, <3>2
  <2>2. CASE p # r.HostID
    BY <1>1, <2>2 DEF Leave, IsClosed
  <2> QED
    BY <2>1, <2>2
<1>4. \A q \in Players : IsSeated(s, q) <=> IsSeated(r, q) /\ q # p
  <2> HIDE DEF s, out
  <2> QED
    BY <1>1, <1>2, <1>3, RoomParts DEF IsSeated, IsMember
<1> QED
  BY <1>3, <1>4

\* Kick does to the company what Leave does.
LEMMA KickCompany ==
    ASSUME NEW r \in RoomRecord, NEW p \in Players, NEW t \in Nat
    PROVE  LET s == Kick(r, p, t) IN
           /\ s.HostID = r.HostID
           /\ IsClosed(s) <=> IsClosed(r) \/ p = r.HostID
           /\ \A q \in Players : IsSeated(s, q) <=> IsSeated(r, q) /\ q # p
<1> DEFINE out == Leave(r, p, t)
           s == Kick(r, p, t)
<1>1. /\ out \in RoomRecord /\ out.HostID = r.HostID
      /\ IsClosed(out) <=> IsClosed(r) \/ p = r.HostID
      /\ \A q \in Players : IsSeated(out, q) <=> IsSeated(r, q) /\ q # p
  BY LeaveCompany
<1>2. /\ s.HostID = out.HostID /\ s.Status = out.Status
      /\ s.Slots = out.Slots /\ s.Observers = out.Observers /\ s.Admins = out.Admins
  BY <1>1 DEF Kick, RoomRecord
<1> QED
  BY <1>1, <1>2 DEF IsSeated, IsMember, IsClosed

\* The three ways in add one person to an empty place.
LEMMA JoinCompany ==
    ASSUME NEW r \in RoomRecord, NEW p \in Players, NEW seat
    PROVE  /\ seat \in Seats /\ r.Slots[seat] = Nobody =>
                LET s == Join(r, p, seat) IN
                /\ s.HostID = r.HostID /\ s.Status = r.Status
                /\ \A q \in Players : IsSeated(s, q) <=> IsSeated(r, q) \/ q = p
           /\ seat \in GallerySeats /\ r.Observers[seat] = Nobody =>
                LET s == JoinObserver(r, p, seat) IN
                /\ s.HostID = r.HostID /\ s.Status = r.Status
                /\ \A q \in Players : IsSeated(s, q) <=> IsSeated(r, q) \/ q = p
           /\ seat \in AdminSeats /\ r.Admins[seat] = Nobody =>
                LET s == JoinAdmin(r, p, seat) IN
                /\ s.HostID = r.HostID /\ s.Status = r.Status
                /\ \A q \in Players : IsSeated(s, q) <=> IsSeated(r, q) \/ q = p
<1>0. ASSUME NEW S, NEW g \in [S -> Persons], NEW i \in S, g[i] = Nobody
      PROVE  \A q \in Players : Holds([g EXCEPT ![i] = p], q) <=> Holds(g, q) \/ q = p
  BY <1>0, RoomAssumption DEF Holds
<1>1. ASSUME seat \in Seats, r.Slots[seat] = Nobody
      PROVE  LET s == Join(r, p, seat) IN
             /\ s.HostID = r.HostID /\ s.Status = r.Status
             /\ \A q \in Players : IsSeated(s, q) <=> IsSeated(r, q) \/ q = p
  <2> DEFINE s == Join(r, p, seat)
  <2>1. /\ s.HostID = r.HostID /\ s.Status = r.Status
        /\ s.Slots = [r.Slots EXCEPT ![seat] = p]
        /\ s.Observers = r.Observers /\ s.Admins = r.Admins
    BY DEF Join, RoomRecord
  <2> HIDE DEF s
  <2>2. \A q \in Players : IsSeated(s, q) <=> IsSeated(r, q) \/ q = p
    BY <1>0, <1>1, <2>1, RoomParts DEF IsSeated, IsMember
  <2> QED
    BY <2>1, <2>2 DEF s
<1>2. ASSUME seat \in GallerySeats, r.Observers[seat] = Nobody
      PROVE  LET s == JoinObserver(r, p, seat) IN
             /\ s.HostID = r.HostID /\ s.Status = r.Status
             /\ \A q \in Players : IsSeated(s, q) <=> IsSeated(r, q) \/ q = p
  <2> DEFINE s == JoinObserver(r, p, seat)
  <2>1. /\ s.HostID = r.HostID /\ s.Status = r.Status
        /\ s.Observers = [r.Observers EXCEPT ![seat] = p]
        /\ s.Slots = r.Slots /\ s.Admins = r.Admins
    BY DEF JoinObserver, RoomRecord
  <2> HIDE DEF s
  <2>2. \A q \in Players : IsSeated(s, q) <=> IsSeated(r, q) \/ q = p
    BY <1>0, <1>2, <2>1, RoomParts DEF IsSeated, IsMember
  <2> QED
    BY <2>1, <2>2 DEF s
<1>3. ASSUME seat \in AdminSeats, r.Admins[seat] = Nobody
      PROVE  LET s == JoinAdmin(r, p, seat) IN
             /\ s.HostID = r.HostID /\ s.Status = r.Status
             /\ \A q \in Players : IsSeated(s, q) <=> IsSeated(r, q) \/ q = p
  <2> DEFINE s == JoinAdmin(r, p, seat)
  <2>1. /\ s.HostID = r.HostID /\ s.Status = r.Status
        /\ s.Admins = [r.Admins EXCEPT ![seat] = p]
        /\ s.Slots = r.Slots /\ s.Observers = r.Observers
    BY DEF JoinAdmin, RoomRecord
  <2> HIDE DEF s
  <2>2. \A q \in Players : IsSeated(s, q) <=> IsSeated(r, q) \/ q = p
    BY <1>0, <1>3, <2>1, RoomParts DEF IsSeated, IsMember
  <2> QED
    BY <2>1, <2>2 DEF s
<1> QED
  BY <1>1, <1>2, <1>3

\* A change of seat or side changes the company in nothing.
LEMMA MoveCompany ==
    ASSUME NEW r \in RoomRecord, NEW p \in Players, NEW seat, NEW watching \in BOOLEAN,
           MayMove(r, p, seat, watching)
    PROVE  SameCompany(r, Move(r, p, seat, watching))
<1> DEFINE up == [r EXCEPT !.Slots = Without(r.Slots, p), !.Observers = Without(r.Observers, p)]
           d == Reseated(r, p, seat, watching)
           s == Move(r, p, seat, watching)
<1>1. /\ up \in RoomRecord
      /\ up.Slots = Without(r.Slots, p) /\ up.Observers = Without(r.Observers, p)
      /\ up.Admins = r.Admins /\ up.HostID = r.HostID /\ up.Status = r.Status
  BY WithoutType DEF RoomRecord
<1>2. /\ d.Admins = r.Admins /\ d.HostID = r.HostID /\ d.Status = r.Status
      /\ d.Slots = IF watching THEN Without(r.Slots, p)
                   ELSE [Without(r.Slots, p) EXCEPT ![seat] = p]
      /\ d.Observers = IF watching THEN [Without(r.Observers, p) EXCEPT ![seat] = p]
                       ELSE Without(r.Observers, p)
      /\ s.Slots = d.Slots /\ s.Observers = d.Observers /\ s.Admins = d.Admins
      /\ s.HostID = d.HostID /\ s.Status = d.Status
  <2>1. CASE watching
    BY <1>1, <2>1 DEF Move, Reseated, RoomRecord
  <2>2. CASE ~ watching
    BY <1>1, <2>2 DEF Move, Reseated, RoomRecord
  <2> QED
    BY <2>1, <2>2
<1>3. ASSUME NEW q \in Players PROVE IsMember(s, q) <=> IsMember(r, q)
  <2>1. /\ IsMember(r, p)
        /\ watching => seat \in GallerySeats /\ r.Observers[seat] = Nobody
        /\ ~ watching => seat \in Seats /\ r.Slots[seat] = Nobody
    BY DEF MayMove
  <2>2. CASE watching
    <3>1. /\ s.Slots = Without(r.Slots, p)
          /\ s.Observers = [Without(r.Observers, p) EXCEPT ![seat] = p]
      BY <1>2, <2>2
    <3> HIDE DEF s
    <3>2. Holds(s.Observers, p)
      BY <2>1, <2>2, <3>1, RoomParts DEF Holds, Without
    <3>3. ASSUME q # p PROVE Holds(s.Slots, q) <=> Holds(r.Slots, q)
      BY <3>1, <3>3, RoomParts, RoomAssumption DEF Holds, Without
    <3>4. ASSUME q # p PROVE Holds(s.Observers, q) <=> Holds(r.Observers, q)
      BY <2>1, <2>2, <3>1, <3>4, RoomParts, RoomAssumption DEF Holds, Without
    <3> QED
      BY <2>1, <3>2, <3>3, <3>4 DEF IsMember
  <2>3. CASE ~ watching
    <3>1. /\ s.Slots = [Without(r.Slots, p) EXCEPT ![seat] = p]
          /\ s.Observers = Without(r.Observers, p)
      BY <1>2, <2>3
    <3> HIDE DEF s
    <3>2. Holds(s.Slots, p)
      BY <2>1, <2>3, <3>1, RoomParts DEF Holds, Without
    <3>3. ASSUME q # p PROVE Holds(s.Observers, q) <=> Holds(r.Observers, q)
      BY <3>1, <3>3, RoomParts, RoomAssumption DEF Holds, Without
    <3>4. ASSUME q # p PROVE Holds(s.Slots, q) <=> Holds(r.Slots, q)
      BY <2>1, <2>3, <3>1, <3>4, RoomParts, RoomAssumption DEF Holds, Without
    <3> QED
      BY <2>1, <3>2, <3>3, <3>4 DEF IsMember
  <2> QED
    BY <2>2, <2>3
<1>4. s.Admins = r.Admins /\ s.HostID = r.HostID /\ s.Status = r.Status
  BY <1>2
<1> HIDE DEF s
<1>5. SameCompany(r, s)
  BY <1>3, <1>4 DEF SameCompany, IsSeated, IsClosed
<1> QED
  BY <1>5 DEF s

\* A room that sees its host keeps its company; an unseen host ends it.
LEMMA SeeHostCompany ==
    ASSUME NEW r \in RoomRecord, NEW online \in BOOLEAN, NEW inGame \in BOOLEAN, NEW t \in Nat
    PROVE  LET s == SeeHost(r, online, inGame, t) IN
           /\ s.HostID = r.HostID
           /\ IsClosed(r) => IsClosed(s)
           /\ \A q \in Players : IsSeated(s, q) <=> IsSeated(r, q)
<1> DEFINE s == SeeHost(r, online, inGame, t)
<1>1. /\ s.HostID = r.HostID /\ s.Slots = r.Slots /\ s.Observers = r.Observers
      /\ s.Admins = r.Admins
      /\ IsClosed(r) => IsClosed(s)
  BY DEF SeeHost, Close, IsClosed, RoomRecord
<1> QED
  BY <1>1 DEF IsSeated, IsMember

\* The settings leave the company alone, save that the host may end the room by
\* its status and hand it to somebody in it.
LEMMA SettingsCompany ==
    ASSUME NEW r \in RoomRecord
    PROVE  /\ \A status \in Statuses :
                LET s == SetStatus(r, status) IN
                /\ s.HostID = r.HostID /\ s.Status = status
                /\ \A q \in Players : IsSeated(s, q) <=> IsSeated(r, q)
           /\ \A mode \in GameModes : SameCompany(r, SetGameMode(r, mode))
           /\ \A p \in Players : SameCompany(r, Invite(r, p)) /\ SameCompany(r, Uninvite(r, p))
           /\ \A p \in Players :
                LET s == SetHost(r, p) IN
                /\ s.HostID = p /\ s.Status = r.Status
                /\ \A q \in Players : IsSeated(s, q) <=> IsSeated(r, q)
           /\ \A kind, password, floor : SameCompany(r, SetPrivacy(r, kind, password, floor))
<1>1. ASSUME NEW status \in Statuses
      PROVE  LET s == SetStatus(r, status) IN
             /\ s.HostID = r.HostID /\ s.Status = status
             /\ \A q \in Players : IsSeated(s, q) <=> IsSeated(r, q)
  BY DEF SetStatus, IsSeated, IsMember, RoomRecord
<1>2. \A mode \in GameModes : SameCompany(r, SetGameMode(r, mode))
  BY DEF SetGameMode, SameCompany, IsSeated, IsMember, IsClosed, RoomRecord
<1>3. \A p \in Players : SameCompany(r, Invite(r, p)) /\ SameCompany(r, Uninvite(r, p))
  BY DEF Invite, Uninvite, SameCompany, IsSeated, IsMember, IsClosed, RoomRecord
<1>4. ASSUME NEW p \in Players
      PROVE  LET s == SetHost(r, p) IN
             /\ s.HostID = p /\ s.Status = r.Status
             /\ \A q \in Players : IsSeated(s, q) <=> IsSeated(r, q)
  BY DEF SetHost, IsSeated, IsMember, RoomRecord
<1>5. ASSUME NEW kind, NEW password, NEW floor
      PROVE  SameCompany(r, SetPrivacy(r, kind, password, floor))
  BY DEF SetPrivacy, SameCompany, IsSeated, IsMember, IsClosed, RoomRecord
<1> QED
  BY <1>1, <1>2, <1>3, <1>4, <1>5
--------------------------------------------------------------------------------
(* Every step *)

\* A method that ends no room and moves nobody is the end of no room.
LEMMA QuietStep ==
    ASSUME StoreInv, StoreInv', NEW id \in RoomIds, Stored(id), NEW s \in RoomRecord,
           s.HostID = rooms[id].HostID,
           IsClosed(s) => IsClosed(rooms[id]),
           ~ IsClosed(rooms[id]) => \A q \in Players : IsSeated(s, q) <=> IsSeated(rooms[id], q),
           IsClosed(rooms[id]) => IsClosed(s),
           rooms' = [rooms EXCEPT ![id] = s], UNCHANGED <<indexes, unused, now>>
    PROVE  Promise!Next
<1>1. rooms'[id] = s /\ \A k \in RoomIds \ {id} : rooms'[k] = rooms[k]
  BY DEF StoreInv, StoreTypeOK
<1>2. s # Absent
  BY StoreAssumption
<1>3. \A k \in RoomIds : IsOpen(k)' <=> IsOpen(k)
  BY <1>1, <1>2 DEF IsOpen, Stored
<1>4. \A k \in RoomIds : IsOpen(k) =>
         /\ rooms'[k].HostID = rooms[k].HostID
         /\ \A q \in Players : IsSeated(rooms'[k], q) <=> IsSeated(rooms[k], q)
  BY <1>1 DEF IsOpen
<1> DEFINE none == {}
<1>5. none \in SUBSET RoomIds /\ (\A k \in none : FALSE) /\ RoomIds \ none = RoomIds
  OBVIOUS
<1> HIDE DEF none
<1> QED
  BY <1>3, <1>4, <1>5, EndStep

\* A method that ends the room, whoever sat in it.
LEMMA LastStep ==
    ASSUME StoreInv, StoreInv', NEW id \in RoomIds, IsOpen(id), NEW s,
           IsClosed(s) \/ s = Absent,
           rooms' = [rooms EXCEPT ![id] = s], unused' = unused
    PROVE  Promise!Next
<1>1. rooms'[id] = s /\ \A k \in RoomIds \ {id} : rooms'[k] = rooms[k]
  BY DEF StoreInv, StoreTypeOK
<1>2. ~ IsOpen(id)' /\ \A k \in RoomIds \ {id} : IsOpen(k)' <=> IsOpen(k)
  BY <1>1 DEF IsOpen, Stored
<1> QED
  BY <1>1, <1>2, EndStep

\* One step of the store's methods is one step of Occupancy.
LEMMA RoomCallSimulated ==
    ASSUME StoreInv, StoreInv', NEW id \in RoomIds, RoomCall(id)
    PROVE  Promise!Next
<1>0. /\ now \in Nat /\ Invitees \subseteq Players
      /\ Stored(id) => rooms[id] \in RoomRecord
      /\ IsOpen(id) <=> Stored(id) /\ ~ IsClosed(rooms[id])
  BY StoreAssumption DEF StoreInv, StoreTypeOK, RoomOK, IsOpen
<1>r. ASSUME Stored(id), NEW s, rooms' = [rooms EXCEPT ![id] = s], s \in RoomRecord
      PROVE  /\ rooms'[id] = s /\ s # Absent
             /\ \A k \in RoomIds \ {id} : rooms'[k] = rooms[k]
             /\ IsOpen(id)' <=> ~ IsClosed(s)
             /\ \A k \in RoomIds \ {id} : IsOpen(k)' <=> IsOpen(k)
  <2>1. /\ rooms'[id] = s /\ s # Absent
        /\ \A k \in RoomIds \ {id} : rooms'[k] = rooms[k]
    BY <1>r, StoreAssumption DEF StoreInv, StoreTypeOK
  <2> QED
    BY <2>1 DEF IsOpen, Stored
<1>t. ASSUME Stored(id), NEW s, rooms' = [rooms EXCEPT ![id] = s]
      PROVE  s \in RoomRecord \/ s = Absent
  <2>1. rooms'[id] = s
    BY <1>t DEF StoreInv, StoreTypeOK
  <2> QED
    BY <2>1 DEF StoreInv, StoreTypeOK
<1>1. ASSUME NEW p \in Players, Create(id, p) PROVE Promise!Next
  BY <1>1, OpenStep
<1>2. ASSUME NEW p \in Players, Stored(id), Admissible(rooms[id], p, now), NotElsewhere(p, id),
             NEW s \in RoomRecord, rooms' = [rooms EXCEPT ![id] = s], unused' = unused,
             s.HostID = rooms[id].HostID, s.Status = rooms[id].Status,
             \A q \in Players : IsSeated(s, q) <=> IsSeated(rooms[id], q) \/ q = p
      PROVE  Promise!Next
  <2>1. IsOpen(id) /\ ~ IsClosed(s)
    BY <1>0, <1>2 DEF Admissible, IsClosed
  <2>2. RoomsOf(p) = {}
    BY <1>2 DEF Admissible, NotElsewhere, RoomsOf
  <2>3. /\ rooms'[id] = s /\ \A k \in RoomIds \ {id} : rooms'[k] = rooms[k]
        /\ \A k \in RoomIds : IsOpen(k)' <=> IsOpen(k)
    BY <1>2, <1>r, <2>1
  <2>4. \A k \in RoomIds : IsOpen(k) => rooms'[k].HostID = rooms[k].HostID
    BY <1>2, <2>3
  <2>5. \A k \in RoomIds : IsOpen(k) => \A q \in Players :
           IsSeated(rooms'[k], q) <=> IsSeated(rooms[k], q) \/ (k = id /\ q = p)
    BY <1>2, <2>3
  <2> QED
    BY <1>2, <2>1, <2>2, <2>3, <2>4, <2>5, EnterStep
<1>3. ASSUME NEW who \in Applicants, JoinRoom(id, who) PROVE Promise!Next
  <2>1. /\ who.ID \in Players /\ Stored(id) /\ Admissible(rooms[id], who.ID, now)
        /\ NotElsewhere(who.ID, id) /\ unused' = unused
    BY <1>3 DEF Applicants, JoinRoom, MayJoin, MayEnter
  <2>2. PICK seat \in Seats : /\ rooms[id].Slots[seat] = Nobody
                              /\ rooms' = [rooms EXCEPT ![id] = Join(rooms[id], who.ID, seat)]
    BY <1>3 DEF JoinRoom, LowestFree
  <2> DEFINE s == Join(rooms[id], who.ID, seat)
  <2>3. s \in RoomRecord
    BY <1>0, <2>1, <2>2, JoinType
  <2>4. /\ s.HostID = rooms[id].HostID /\ s.Status = rooms[id].Status
        /\ \A q \in Players : IsSeated(s, q) <=> IsSeated(rooms[id], q) \/ q = who.ID
    BY <1>0, <2>1, <2>2, JoinCompany
  <2>5. rooms' = [rooms EXCEPT ![id] = s]
    BY <2>2
  <2> HIDE DEF s
  <2> QED
    BY <1>2, <2>1, <2>3, <2>4, <2>5
<1>4. ASSUME NEW who \in Applicants, JoinRoomObserver(id, who) PROVE Promise!Next
  <2>1. /\ who.ID \in Players /\ Stored(id) /\ Admissible(rooms[id], who.ID, now)
        /\ NotElsewhere(who.ID, id) /\ unused' = unused
    BY <1>4 DEF Applicants, JoinRoomObserver, MayJoinObserver, MayEnter
  <2>2. PICK seat \in GallerySeats :
           /\ rooms[id].Observers[seat] = Nobody
           /\ rooms' = [rooms EXCEPT ![id] = JoinObserver(rooms[id], who.ID, seat)]
    BY <1>4 DEF JoinRoomObserver, LowestFree
  <2> DEFINE s == JoinObserver(rooms[id], who.ID, seat)
  <2>3. s \in RoomRecord
    BY <1>0, <2>1, <2>2, JoinType
  <2>4. /\ s.HostID = rooms[id].HostID /\ s.Status = rooms[id].Status
        /\ \A q \in Players : IsSeated(s, q) <=> IsSeated(rooms[id], q) \/ q = who.ID
    BY <1>0, <2>1, <2>2, JoinCompany
  <2>5. rooms' = [rooms EXCEPT ![id] = s]
    BY <2>2
  <2> HIDE DEF s
  <2> QED
    BY <1>2, <2>1, <2>3, <2>4, <2>5
<1>5. ASSUME NEW p \in Players, JoinRoomAdmin(id, p) PROVE Promise!Next
  <2>1. /\ Stored(id) /\ Admissible(rooms[id], p, now)
        /\ NotElsewhere(p, id) /\ unused' = unused
    BY <1>5 DEF JoinRoomAdmin
  <2>2. PICK seat \in AdminSeats :
           /\ rooms[id].Admins[seat] = Nobody
           /\ rooms' = [rooms EXCEPT ![id] = JoinAdmin(rooms[id], p, seat)]
    BY <1>5 DEF JoinRoomAdmin, LowestFree
  <2> DEFINE s == JoinAdmin(rooms[id], p, seat)
  <2>3. s \in RoomRecord
    BY <1>0, <2>1, <2>2, JoinType
  <2>4. /\ s.HostID = rooms[id].HostID /\ s.Status = rooms[id].Status
        /\ \A q \in Players : IsSeated(s, q) <=> IsSeated(rooms[id], q) \/ q = p
    BY <1>0, <2>1, <2>2, JoinCompany
  <2>5. rooms' = [rooms EXCEPT ![id] = s]
    BY <2>2
  <2> HIDE DEF s
  <2> QED
    BY <1>2, <2>1, <2>3, <2>4, <2>5
<1>6. ASSUME NEW p \in Players, Stored(id), NEW s \in RoomRecord,
             rooms' = [rooms EXCEPT ![id] = s], UNCHANGED <<indexes, unused, now>>,
             s.HostID = rooms[id].HostID,
             IsClosed(s) <=> IsClosed(rooms[id]) \/ p = rooms[id].HostID,
             \A q \in Players : IsSeated(s, q) <=> IsSeated(rooms[id], q) /\ q # p
      PROVE  Promise!Next
  <2>1. CASE IsClosed(rooms[id])
    BY <1>6, <2>1, QuietStep
  <2>2. CASE IsOpen(id) /\ p = rooms[id].HostID
    BY <1>6, <2>2, LastStep
  <2>3. CASE IsOpen(id) /\ p # rooms[id].HostID /\ ~ IsSeated(rooms[id], p)
    BY <1>0, <1>6, <2>3, QuietStep
  <2>4. CASE IsOpen(id) /\ p # rooms[id].HostID /\ IsSeated(rooms[id], p)
    <3>1. /\ rooms'[id] = s /\ \A k \in RoomIds \ {id} : rooms'[k] = rooms[k]
          /\ \A k \in RoomIds : IsOpen(k)' <=> IsOpen(k)
      BY <1>0, <1>6, <1>r, <2>4
    <3>2. \A k \in RoomIds : IsOpen(k) => rooms'[k].HostID = rooms[k].HostID
      BY <1>6, <3>1
    <3>3. \A k \in RoomIds : IsOpen(k) => \A q \in Players :
             IsSeated(rooms'[k], q) <=> IsSeated(rooms[k], q) /\ ~ (k = id /\ q = p)
      BY <1>6, <3>1
    <3> QED
      BY <1>6, <2>4, <3>1, <3>2, <3>3, ExitStep
  <2> QED
    BY <1>0, <1>6, <2>1, <2>2, <2>3, <2>4
<1>7. ASSUME NEW p \in Players, LeaveRoom(id, p) PROVE Promise!Next
  <2> DEFINE s == Leave(rooms[id], p, now)
  <2>1. Stored(id) /\ rooms' = [rooms EXCEPT ![id] = s] /\ UNCHANGED <<indexes, unused, now>>
    BY <1>7 DEF LeaveRoom
  <2>2. /\ s \in RoomRecord /\ s.HostID = rooms[id].HostID
        /\ IsClosed(s) <=> IsClosed(rooms[id]) \/ p = rooms[id].HostID
        /\ \A q \in Players : IsSeated(s, q) <=> IsSeated(rooms[id], q) /\ q # p
    BY <1>0, <2>1, LeaveCompany
  <2> HIDE DEF s
  <2> QED
    BY <1>6, <2>1, <2>2
<1>8. ASSUME NEW actor \in Players, NEW target \in Players, KickPlayer(id, actor, target)
      PROVE  Promise!Next
  <2> DEFINE s == Kick(rooms[id], target, now)
  <2>1. Stored(id) /\ rooms' = [rooms EXCEPT ![id] = s] /\ UNCHANGED <<indexes, unused, now>>
    BY <1>8 DEF KickPlayer
  <2>2. s \in RoomRecord
    BY <1>0, <2>1, KickOK DEF StoreInv, RoomOK
  <2>3. /\ s.HostID = rooms[id].HostID
        /\ IsClosed(s) <=> IsClosed(rooms[id]) \/ target = rooms[id].HostID
        /\ \A q \in Players : IsSeated(s, q) <=> IsSeated(rooms[id], q) /\ q # target
    BY <1>0, <2>1, KickCompany
  <2> HIDE DEF s
  <2> QED
    BY <1>6, <2>1, <2>2, <2>3
<1>9. ASSUME NEW actor \in Persons, CloseRoom(id, actor) PROVE Promise!Next
  <2>1. Stored(id) /\ rooms' = [rooms EXCEPT ![id] = Absent] /\ unused' = unused
    BY <1>9 DEF CloseRoom
  <2>2. CASE IsOpen(id)
    BY <2>1, <2>2, LastStep
  <2>3. CASE ~ IsOpen(id)
    <3>1. /\ ~ IsOpen(id)'
          /\ \A k \in RoomIds \ {id} : rooms'[k] = rooms[k]
      BY <2>1 DEF StoreInv, StoreTypeOK, IsOpen, Stored
    <3>2. \A k \in RoomIds : IsOpen(k)' <=> IsOpen(k)
      BY <2>3, <3>1 DEF IsOpen, Stored
    <3> DEFINE none == {}
    <3>3. none \in SUBSET RoomIds /\ (\A k \in none : FALSE) /\ RoomIds \ none = RoomIds
      OBVIOUS
    <3> HIDE DEF none
    <3> QED
      BY <2>1, <2>3, <3>1, <3>2, <3>3, EndStep
  <2> QED
    BY <2>2, <2>3
<1>10. ASSUME Stored(id), NEW s \in RoomRecord, SameCompany(rooms[id], s),
              rooms' = [rooms EXCEPT ![id] = s], UNCHANGED <<indexes, unused, now>>
       PROVE  Promise!Next
  BY <1>10, QuietStep DEF SameCompany
<1>11. ASSUME NEW p \in Players, NEW seat, NEW watching \in BOOLEAN, MoveSeat(id, p, seat, watching)
       PROVE  Promise!Next
  <2>1. /\ Stored(id) /\ MayMove(rooms[id], p, seat, watching)
        /\ rooms' = [rooms EXCEPT ![id] = Move(rooms[id], p, seat, watching)]
        /\ UNCHANGED <<indexes, unused, now>>
    BY <1>11 DEF MoveSeat
  <2>2. Move(rooms[id], p, seat, watching) \in RoomRecord
    BY <1>0, <2>1, MoveOK DEF StoreInv, RoomOK
  <2> QED
    BY <1>0, <1>10, <2>1, <2>2, MoveCompany
<1>12. ASSUME NEW actor \in Players, NEW status \in Statuses, SetRoomStatus(id, actor, status)
       PROVE  Promise!Next
  <2> DEFINE s == SetStatus(rooms[id], status)
  <2>1. /\ IsOpen(id) /\ rooms' = [rooms EXCEPT ![id] = s]
        /\ UNCHANGED <<indexes, unused, now>>
    BY <1>12 DEF SetRoomStatus, MaySetStatus, IsOpen
  <2>2. /\ s \in RoomRecord /\ s.HostID = rooms[id].HostID /\ s.Status = status
        /\ \A q \in Players : IsSeated(s, q) <=> IsSeated(rooms[id], q)
    BY <1>0, <2>1, SettingsCompany DEF SetStatus, RoomRecord
  <2> HIDE DEF s
  <2>3. CASE status = "closed"
    BY <2>1, <2>2, <2>3, LastStep DEF IsClosed
  <2>4. CASE status # "closed"
    BY <1>0, <2>1, <2>2, <2>4, QuietStep DEF IsClosed
  <2> QED
    BY <2>3, <2>4
<1>13. ASSUME NEW actor \in Players, NEW mode \in GameModes, SetRoomGameMode(id, actor, mode)
       PROVE  Promise!Next
  <2>1. /\ Stored(id) /\ rooms' = [rooms EXCEPT ![id] = SetGameMode(rooms[id], mode)]
        /\ UNCHANGED <<indexes, unused, now>>
    BY <1>13 DEF SetRoomGameMode
  <2>2. SetGameMode(rooms[id], mode) \in RoomRecord
    BY <1>0, <2>1 DEF SetGameMode, RoomRecord
  <2> QED
    BY <1>0, <1>10, <2>1, <2>2, SettingsCompany
<1>14. ASSUME NEW actor \in Players, NEW kind \in PrivacyKinds,
              NEW password \in Passwords \union {NoPassword}, NEW floor \in MMRFloors,
              SetRoomPrivacy(id, actor, kind, password, floor)
       PROVE  Promise!Next
  <2>1. /\ Stored(id)
        /\ rooms' = [rooms EXCEPT ![id] = SetPrivacy(rooms[id], kind, password, floor)]
        /\ UNCHANGED <<indexes, unused, now>>
    BY <1>14 DEF SetRoomPrivacy
  <2>2. SetPrivacy(rooms[id], kind, password, floor) \in RoomRecord
    BY <1>0, <2>1, SettingsOK DEF StoreInv, RoomOK
  <2> QED
    BY <1>0, <1>10, <2>1, <2>2, SettingsCompany
<1>15. ASSUME NEW actor \in Players, NEW target \in Invitees,
              InvitePlayer(id, actor, target) \/ UninvitePlayer(id, actor, target)
       PROVE  Promise!Next
  <2>1. target \in Players /\ Stored(id) /\ UNCHANGED <<indexes, unused, now>>
    BY <1>0, <1>15 DEF InvitePlayer, UninvitePlayer
  <2>2. /\ Invite(rooms[id], target) \in RoomRecord
        /\ Uninvite(rooms[id], target) \in RoomRecord
    BY <1>0, <2>1 DEF Invite, Uninvite, RoomRecord
  <2>3. \/ rooms' = [rooms EXCEPT ![id] = Invite(rooms[id], target)]
        \/ rooms' = [rooms EXCEPT ![id] = Uninvite(rooms[id], target)]
    BY <1>15 DEF InvitePlayer, UninvitePlayer
  <2> QED
    BY <1>0, <1>10, <2>1, <2>2, <2>3, SettingsCompany
<1>16. ASSUME NEW p \in Players, ChangeHost(id, p) PROVE Promise!Next
  <2> DEFINE s == SetHost(rooms[id], p)
  <2>1. /\ IsOpen(id) /\ IsSeated(rooms[id], p)
        /\ rooms' = [rooms EXCEPT ![id] = s] /\ unused' = unused
    BY <1>16 DEF ChangeHost, MaySetHost, IsOpen, IsPlaying, IsSeated, IsMember
  <2>2. /\ s \in RoomRecord /\ s.HostID = p /\ s.Status = rooms[id].Status
        /\ \A q \in Players : IsSeated(s, q) <=> IsSeated(rooms[id], q)
    <3>1. s \in RoomRecord
      BY <1>0, <1>16, <1>t, <2>1, SetHostOK DEF ChangeHost, StoreInv, RoomOK, IsOpen
    <3> QED
      BY <1>0, <2>1, <3>1, SettingsCompany
  <2> HIDE DEF s
  <2>3. /\ rooms'[id] = s /\ \A k \in RoomIds \ {id} : rooms'[k] = rooms[k]
        /\ \A k \in RoomIds : IsOpen(k)' <=> IsOpen(k)
    BY <1>0, <1>r, <2>1, <2>2 DEF IsClosed
  <2>4. \A k \in RoomIds : IsOpen(k) => \A q \in Players :
           IsSeated(rooms'[k], q) <=> IsSeated(rooms[k], q)
    BY <2>2, <2>3
  <2> QED
    BY <2>1, <2>2, <2>3, <2>4, HandoverStep
<1> QED
  BY <1>1, <1>3, <1>4, <1>5, <1>7, <1>8, <1>9, <1>11, <1>12, <1>13, <1>14, <1>15, <1>16
  DEF RoomCall

\* A tick ends the rooms whose hosts cannot be seen, together; what it forgets
\* was over.
LEMMA TickSimulated ==
    ASSUME StoreInv, StoreInv', NEW online, NEW playing, Tick(online, playing)
    PROVE  Promise!Next
<1> DEFINE ids == {id \in RoomIds : IsOpen(id) /\ ~ IsOpen(id)'}
<1>1. ASSUME NEW k \in RoomIds, Stored(k)
      PROVE  /\ Ticked(k, online, playing).HostID = rooms[k].HostID
             /\ IsClosed(rooms[k]) => IsClosed(Ticked(k, online, playing))
             /\ \A q \in Players : IsSeated(Ticked(k, online, playing), q) <=> IsSeated(rooms[k], q)
  <2> DEFINE seen == rooms[k].HostID \in online
             inGame == rooms[k].HostID \in playing
             s == SeeHost(rooms[k], seen, inGame, now)
  <2>1. rooms[k] \in RoomRecord /\ now \in Nat
    BY <1>1 DEF StoreInv, StoreTypeOK, RoomOK
  <2>2. Ticked(k, online, playing) = s
    BY DEF Ticked
  <2>3. seen \in BOOLEAN /\ inGame \in BOOLEAN
    OBVIOUS
  <2> HIDE DEF seen, inGame
  <2>4. /\ s.HostID = rooms[k].HostID
        /\ IsClosed(rooms[k]) => IsClosed(s)
        /\ \A q \in Players : IsSeated(s, q) <=> IsSeated(rooms[k], q)
    BY <2>1, <2>3, SeeHostCompany
  <2> HIDE DEF s
  <2> QED
    BY <2>2, <2>4
<1>2. \A k \in RoomIds : Stored(k)' => Stored(k) /\ rooms'[k] = Ticked(k, online, playing)
  BY DEF Tick, Stored
<1>3. \A k \in RoomIds : IsOpen(k)' => IsOpen(k)
  BY <1>1, <1>2 DEF IsOpen
<1>4. ids \in SUBSET RoomIds /\ \A k \in ids : IsOpen(k) /\ ~ IsOpen(k)'
  OBVIOUS
<1>5. ASSUME NEW k \in RoomIds \ ids
      PROVE  /\ IsOpen(k)' <=> IsOpen(k)
             /\ IsOpen(k) => /\ rooms'[k].HostID = rooms[k].HostID
                             /\ \A q \in Players : IsSeated(rooms'[k], q) <=> IsSeated(rooms[k], q)
  <2>1. IsOpen(k)' <=> IsOpen(k)
    BY <1>3
  <2>2. ASSUME IsOpen(k)
        PROVE  /\ rooms'[k].HostID = rooms[k].HostID
               /\ \A q \in Players : IsSeated(rooms'[k], q) <=> IsSeated(rooms[k], q)
    <3>1. Stored(k) /\ rooms'[k] = Ticked(k, online, playing)
      BY <1>2, <2>1, <2>2 DEF IsOpen
    <3> QED
      BY <1>1, <3>1
  <2> QED
    BY <2>1, <2>2
<1>6. unused' = unused
  BY DEF Tick
<1> HIDE DEF ids
<1> QED
  BY <1>4, <1>5, <1>6, EndStep

\* Every step of the store is a step of Occupancy, or leaves its two variables.
LEMMA StepSimulated ==
    StoreInv /\ StoreInv' /\ [StoreNext]_storeVars => [Promise!Next]_(Promise!occupancyVars)
<1> SUFFICES ASSUME StoreInv, StoreInv', [StoreNext]_storeVars
             PROVE  [Promise!Next]_(Promise!occupancyVars)
  OBVIOUS
<1>1. ASSUME NEW id \in RoomIds, RoomCall(id) PROVE Promise!Next
  BY <1>1, RoomCallSimulated
<1>2. CASE TickNow
  BY <1>2, TickSimulated DEF TickNow
<1>3. CASE UNCHANGED <<rooms, indexes, unused>>
  <2>1. whereabouts' = whereabouts /\ hosts' = hosts
    BY <1>3 DEF whereabouts, hosts, RoomsOf, IsOpen, Stored
  <2> QED
    BY <2>1 DEF Promise!occupancyVars
<1> QED
  BY <1>1, <1>2, <1>3 DEF StoreNext, PassTime, storeVars

\* An empty store maps to nobody anywhere and every room to come.
LEMMA InitSimulated == StoreInit => Promise!Init
<1> SUFFICES ASSUME StoreInit PROVE Promise!Init
  OBVIOUS
<1>1. \A p \in Players : RoomsOf(p) = {}
  BY DEF StoreInit, RoomsOf, IsOpen, Stored
<1> QED
  BY <1>1 DEF StoreInit, Promise!Init, whereabouts, hosts

\* The room store (store.go) implements Occupancy: a person in one room that is
\* going on or in none, a room living exactly as long as its host is in it, no
\* identifier starting twice.
THEOREM StoreImplementsOccupancy == StoreSpec => ImplementsOccupancy
BY InitSimulated, StepSimulated, StoreInvariant, PTL
DEF StoreSpec, ImplementsOccupancy, Promise!Spec
=================================================================================
