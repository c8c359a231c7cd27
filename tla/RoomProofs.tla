------------------------------- MODULE RoomProofs -------------------------------
(* What the address plan guarantees and what each method of a room preserves,   *)
(* whatever the constants: one lemma per method over one room, from which       *)
(* RoomStoreProofs proves the store's invariants.                               *)
EXTENDS RoomStore, TLAPS, WellFoundedInduction, FiniteSetTheorems
--------------------------------------------------------------------------------
(* The address plan *)

\* The number the two low octets of an address spell.
HostPart(ip) == ip[3] * 256 + ip[4]

\* Adding to the last octet alone loses no carry: a block's 32 addresses never
\* straddle a multiple of 256 (OffsetFrom, offsetFrom).
LEMMA OffsetWithoutCarry ==
    ASSUME NEW i \in RoomIndexes, NEW offset \in 0..31
    PROVE  HostPart(OffsetFrom(i, offset)) = 32 * i + offset
<1> DEFINE high == (i * 32) \div 256
           low  == (i * 32) % 256
<1>1. i \in Nat /\ i * 32 <= 65504 /\ offset \in 0..31
  BY LayoutAssumption DEF RoomIndexes, AddressesPerRoom
<1>2. high \in 0..255 /\ low \in 0..224 /\ i * 32 = high * 256 + low
  BY <1>1
<1>3. high % 256 = high /\ (low + offset) % 256 = low + offset
  BY <1>1, <1>2
<1>4. HostPart(OffsetFrom(i, offset)) = ((high % 256) * 256) + ((low + offset) % 256)
  BY DEF HostPart, OffsetFrom, SubnetBase, AddressesPerRoom
<1> QED
  BY <1>1, <1>2, <1>3, <1>4

\* Every address a room hands out lies in the room's own /27.
THEOREM AddressInItsBlock ==
    ASSUME NEW i \in RoomIndexes, NEW offset \in 0..31
    PROVE  BlockOf(OffsetFrom(i, offset)) = i
<1>1. i \in Nat /\ HostPart(OffsetFrom(i, offset)) = 32 * i + offset /\ offset \in 0..31
  BY OffsetWithoutCarry, LayoutAssumption DEF RoomIndexes, AddressesPerRoom
<1>2. (32 * i + offset) \div 32 = i
  BY <1>1
<1> QED
  BY <1>1, <1>2 DEF BlockOf, HostPart, AddressesPerRoom

\* Two members of one room or of two have two addresses: the plan is injective
\* in the room index and the member index together (MemberIP).
THEOREM MemberAddressesDiffer ==
    ASSUME NEW i \in RoomIndexes, NEW j \in RoomIndexes,
           NEW m \in AddrIndexes, NEW n \in AddrIndexes,
           MemberIP(i, m) = MemberIP(j, n)
    PROVE  i = j /\ m = n
<1>1. PlayerBaseOffset + m \in 0..31 /\ PlayerBaseOffset + n \in 0..31 /\ m \in Nat /\ n \in Nat
  BY LayoutAssumption DEF AddrIndexes, MemberSlots, PlayerBaseOffset, AdminBaseOffset, AddressesPerRoom
<1>2. /\ HostPart(MemberIP(i, m)) = 32 * i + (PlayerBaseOffset + m)
      /\ HostPart(MemberIP(j, n)) = 32 * j + (PlayerBaseOffset + n)
  BY <1>1, OffsetWithoutCarry DEF MemberIP
<1>3. i \in Nat /\ j \in Nat
  BY LayoutAssumption DEF RoomIndexes
<1> QED
  BY <1>1, <1>2, <1>3 DEF PlayerBaseOffset

\* A moderator's address is no member's, in any room: moderators are kept out of
\* the members' pool (AdminIP).
THEOREM AdminAddressesApart ==
    ASSUME NEW i \in RoomIndexes, NEW j \in RoomIndexes,
           NEW m \in AddrIndexes, NEW seat \in AdminSeats
    PROVE  MemberIP(i, m) # AdminIP(j, seat)
<1>1. /\ PlayerBaseOffset + m \in 0..16 /\ m \in Nat
      /\ PlayerBaseOffset + m \in 0..31
      /\ AdminBaseOffset + seat \in 17..31 /\ AdminBaseOffset + seat \in 0..31 /\ seat \in Nat
  BY LayoutAssumption
  DEF AddrIndexes, AdminSeats, MemberSlots, PlayerBaseOffset, AdminBaseOffset, AddressesPerRoom
<1>2. /\ HostPart(MemberIP(i, m)) = 32 * i + (PlayerBaseOffset + m)
      /\ HostPart(AdminIP(j, seat)) = 32 * j + (AdminBaseOffset + seat)
  BY <1>1, OffsetWithoutCarry DEF MemberIP, AdminIP
<1>3. i \in Nat /\ j \in Nat
  BY LayoutAssumption DEF RoomIndexes
<1> QED
  BY <1>1, <1>2, <1>3 DEF PlayerBaseOffset, AdminBaseOffset
--------------------------------------------------------------------------------
(* Rooms *)

\* A room whose seats, addresses and host agree.
RoomOK(r) ==
    /\ r \in RoomRecord
    /\ \A p \in Players : SitsOnce(r, p) /\ AddressFollowsSeat(r, p)
    /\ ~ IsClosed(r) => HostSits(r)
--------------------------------------------------------------------------------
(* Places *)

\* A loop over the places of a group stops at a first free one if there is any
\* (takeAddress, Join, JoinObserver, JoinAdmin).
LEMMA LowestFreeExists ==
    ASSUME NEW group, DOMAIN group \subseteq Nat, HasFree(group)
    PROVE  \E i \in DOMAIN group : LowestFree(group, i)
<1> DEFINE free == {i \in DOMAIN group : group[i] = Nobody}
<1>1. free \subseteq Nat /\ free # {}
  BY DEF HasFree
<1>2. \E i \in free : \A j \in free : ~ (<<j, i>> \in OpToRel(<, Nat))
  BY <1>1, WFMin, NatLessThanWellFounded
<1>3. PICK i \in free : \A j \in free : ~ (<<j, i>> \in OpToRel(<, Nat))
  BY <1>2
<1>4. \A j \in free : j \in Nat /\ i \in Nat /\ ~ (j < i)
  BY <1>1, <1>3, Zenon DEF OpToRel
<1>5. \A j \in free : i <= j
  BY <1>4
<1> QED
  BY <1>3, <1>5 DEF LowestFree

\* Taking somebody out of a group leaves a group (Leave, dropAddress).
LEMMA WithoutType ==
    ASSUME NEW S, NEW group \in [S -> Persons], NEW p
    PROVE  /\ Without(group, p) \in [S -> Persons]
           /\ p # Nobody => ~ Holds(Without(group, p), p)
           /\ \A q \in Players \ {p} : \A i \in S : Without(group, p)[i] = q <=> group[i] = q
BY RoomAssumption DEF Without, Persons, Holds

\* The address pool stays an address pool when somebody draws from it
\* (takeAddress).
LEMMA TakeAddressType ==
    ASSUME NEW addr \in [AddrIndexes -> Persons], NEW p \in Players
    PROVE  TakeAddress(addr, p) \in [AddrIndexes -> Persons]
BY DEF TakeAddress, Persons
--------------------------------------------------------------------------------
(* Types *)

\* NewRoom builds a room.
LEMMA NewRoomType ==
    ASSUME NEW index \in RoomIndexes, NEW host \in Players
    PROVE  NewRoom(index, host) \in RoomRecord
BY RoomAssumption, LayoutAssumption DEF NewRoom, RoomRecord, Persons, Statuses, ZeroTime, Seats

\* Close leaves a room a room, whenever it is called.
LEMMA CloseType ==
    ASSUME NEW r \in RoomRecord, NEW t \in Nat
    PROVE  Close(r, t) \in RoomRecord
<1>1. t \in Int /\ "closed" \in Statuses
  BY DEF Statuses
<1>2. [r EXCEPT !.Status = "closed", !.ClosedAt = t] \in RoomRecord
  BY <1>1 DEF RoomRecord
<1> QED
  BY <1>2 DEF Close

\* Leave's removal of one person leaves a room a room.
LEMMA RemovedType ==
    ASSUME NEW r \in RoomRecord, NEW p \in Players
    PROVE  Removed(r, p) \in RoomRecord
BY WithoutType DEF Removed, RoomRecord

\* The three ways in leave a room a room (Join, JoinObserver, JoinAdmin).
LEMMA JoinType ==
    ASSUME NEW r \in RoomRecord, NEW p \in Players, NEW seat
    PROVE  /\ Join(r, p, seat) \in RoomRecord
           /\ JoinObserver(r, p, seat) \in RoomRecord
           /\ JoinAdmin(r, p, seat) \in RoomRecord
BY TakeAddressType DEF Join, JoinObserver, JoinAdmin, RoomRecord, Persons

\* SetHost leaves a room a room, with a place the new host really has.
LEMMA SetHostType ==
    ASSUME NEW r \in RoomRecord, NEW p \in Players, MaySetHost(r, p)
    PROVE  SetHost(r, p) \in RoomRecord
<1>1. \E i \in Seats : r.Slots[i] = p
  BY DEF MaySetHost, IsPlaying, Holds, RoomRecord
<1>2. (CHOOSE i \in Seats : r.Slots[i] = p) \in Int
  BY <1>1, LayoutAssumption DEF Seats
<1> QED
  BY <1>2 DEF SetHost, RoomRecord
--------------------------------------------------------------------------------
(* The address pool *)

\* The place k of the teams and the gallery laid end to end.
Place(r, k) == IF k < PlayerSlots THEN r.Slots[k] ELSE r.Observers[k - PlayerSlots]

\* Whoever plays or watches has a place of their own, so a free seat or gallery
\* place means fewer members than addresses.
LEMMA MembersHavePlaces ==
    ASSUME NEW r \in RoomRecord, NEW p \in Players
    PROVE  IsMember(r, p) <=> \E k \in AddrIndexes : Place(r, k) = p
<1>1. /\ r.Slots \in [Seats -> Persons] /\ r.Observers \in [GallerySeats -> Persons]
      /\ PlayerSlots \in Nat /\ ObserverSlots \in Nat
  BY LayoutAssumption DEF RoomRecord
<1>2. ASSUME NEW i \in Seats, r.Slots[i] = p
      PROVE  i \in AddrIndexes /\ Place(r, i) = p
  BY <1>1, <1>2 DEF Place, Seats, AddrIndexes, MemberSlots
<1>3. ASSUME NEW i \in GallerySeats, r.Observers[i] = p
      PROVE  PlayerSlots + i \in AddrIndexes /\ Place(r, PlayerSlots + i) = p
  BY <1>1, <1>3 DEF Place, GallerySeats, AddrIndexes, MemberSlots
<1>4. ASSUME NEW k \in AddrIndexes, Place(r, k) = p
      PROVE  IsMember(r, p)
  <2>1. CASE k < PlayerSlots
    BY <1>1, <1>4, <2>1 DEF Place, Seats, AddrIndexes, IsMember, Holds
  <2>2. CASE ~ (k < PlayerSlots)
    <3>1. k - PlayerSlots \in GallerySeats /\ r.Observers[k - PlayerSlots] = p
      BY <1>1, <1>4, <2>2 DEF Place, GallerySeats, AddrIndexes, MemberSlots
    <3> QED
      BY <1>1, <3>1 DEF IsMember, Holds
  <2> QED
    BY <2>1, <2>2
<1> QED
  BY <1>1, <1>2, <1>3, <1>4 DEF IsMember, Holds

\* While one place is empty, one address is free: the pool is as large as the
\* teams and the gallery together, nobody outside them holds an address and
\* nobody holds two (takeAddress never answers "none" to somebody being seated).
LEMMA AddressLeftForAPlace ==
    ASSUME NEW r, RoomOK(r), NEW place \in AddrIndexes, Place(r, place) = Nobody
    PROVE  HasFree(r.Addr)
<1> DEFINE T == AddrIndexes \ {place}
           f == [i \in AddrIndexes |-> CHOOSE k \in T : Place(r, k) = r.Addr[i]]
<1> SUFFICES ASSUME ~ HasFree(r.Addr) PROVE FALSE
  OBVIOUS
<1>1. r \in RoomRecord /\ r.Addr \in [AddrIndexes -> Persons]
  BY DEF RoomOK, RoomRecord
<1>2. \A i \in AddrIndexes : r.Addr[i] \in Players
  BY <1>1 DEF HasFree, Persons
<1>3. \A i \in AddrIndexes : \E k \in T : Place(r, k) = r.Addr[i]
  <2>1. ASSUME NEW i \in AddrIndexes PROVE \E k \in AddrIndexes : Place(r, k) = r.Addr[i]
    <3>1. Holds(r.Addr, r.Addr[i])
      BY <1>1 DEF Holds
    <3>2. IsMember(r, r.Addr[i])
      BY <1>2, <3>1 DEF RoomOK, AddressFollowsSeat
    <3> QED
      BY <1>1, <1>2, <3>2, MembersHavePlaces
  <2> QED
    BY <1>2, <2>1, RoomAssumption
<1>4. f \in [AddrIndexes -> T] /\ \A i \in AddrIndexes : Place(r, f[i]) = r.Addr[i]
  BY <1>3
<1>5. /\ IsFiniteSet(AddrIndexes) /\ Cardinality(AddrIndexes) \in Nat
      /\ IsFiniteSet(T) /\ Cardinality(T) = Cardinality(AddrIndexes) - 1
  <2>1. 0 \in Int /\ MemberSlots - 1 \in Int
    BY LayoutAssumption DEF MemberSlots
  <2>2. IsFiniteSet(AddrIndexes)
    BY <2>1, FS_Interval DEF AddrIndexes
  <2> QED
    BY <2>2, FS_RemoveElement, FS_CardinalityType
<1>6. \E i, j \in AddrIndexes : i # j /\ f[i] = f[j]
  <2>1. Cardinality(T) < Cardinality(AddrIndexes)
    BY <1>5
  <2> HIDE DEF f, T
  <2> QED
    BY <1>4, <1>5, <2>1, FS_PigeonHole
<1>7. PICK i \in AddrIndexes, j \in AddrIndexes : i # j /\ f[i] = f[j]
  BY <1>6
<1>8. r.Addr[i] = r.Addr[j]
  BY <1>4, <1>7
<1> QED
  BY <1>2, <1>7, <1>8 DEF RoomOK, AddressFollowsSeat

\* What takeAddress gives to somebody who holds none.
LEMMA TakeAddressGives ==
    ASSUME NEW addr \in [AddrIndexes -> Persons], NEW p \in Players,
           ~ Holds(addr, p), HasFree(addr)
    PROVE  \E i \in AddrIndexes : addr[i] = Nobody /\ TakeAddress(addr, p) = [addr EXCEPT ![i] = p]
<1>1. DOMAIN addr = AddrIndexes /\ AddrIndexes \subseteq Nat
  BY LayoutAssumption DEF AddrIndexes
<1>2. \E i \in DOMAIN addr : LowestFree(addr, i)
  BY <1>1, LowestFreeExists
<1>3. LowestFree(addr, CHOOSE i \in DOMAIN addr : LowestFree(addr, i))
  BY <1>2
<1> QED
  BY <1>1, <1>3 DEF TakeAddress, LowestFree
--------------------------------------------------------------------------------
(* Methods *)

\* The groups of a room, each with its places.
LEMMA RoomParts ==
    ASSUME NEW r \in RoomRecord
    PROVE  /\ r.Slots \in [Seats -> Persons] /\ r.Observers \in [GallerySeats -> Persons]
           /\ r.Admins \in [AdminSeats -> Persons] /\ r.Addr \in [AddrIndexes -> Persons]
           /\ DOMAIN r.Slots = Seats /\ DOMAIN r.Observers = GallerySeats
           /\ DOMAIN r.Admins = AdminSeats /\ DOMAIN r.Addr = AddrIndexes
           /\ r.HostID \in Players /\ r.Index \in RoomIndexes
BY DEF RoomRecord

\* A new room has its host seated and addressed (NewRoom).
LEMMA NewRoomOK ==
    ASSUME NEW index \in RoomIndexes, NEW host \in Players
    PROVE  RoomOK(NewRoom(index, host))
<1> DEFINE r == NewRoom(index, host)
<1>1. r \in RoomRecord
  BY NewRoomType
<1>2. 0 \in Seats /\ 0 \in AddrIndexes
  BY LayoutAssumption DEF Seats, AddrIndexes, MemberSlots
<1>3. /\ r.Slots = [i \in Seats |-> IF i = 0 THEN host ELSE Nobody]
      /\ r.Observers = [i \in GallerySeats |-> Nobody]
      /\ r.Admins = [i \in AdminSeats |-> Nobody]
      /\ r.Addr = [i \in AddrIndexes |-> IF i = 0 THEN host ELSE Nobody]
      /\ r.HostID = host /\ r.HostSlot = 0 /\ r.HostWatching = FALSE
  BY DEF NewRoom
<1>4. HostSits(r)
  BY <1>2, <1>3 DEF HostSits
<1>5. ASSUME NEW p \in Players PROVE SitsOnce(r, p) /\ AddressFollowsSeat(r, p)
  BY <1>2, <1>3, RoomAssumption DEF SitsOnce, AddressFollowsSeat, IsMember, Holds
<1> QED
  BY <1>1, <1>4, <1>5 DEF RoomOK

\* Closing disturbs no seat; a closed room owes its host no place (Close).
LEMMA CloseOK ==
    ASSUME NEW r, RoomOK(r), NEW t \in Nat
    PROVE  RoomOK(Close(r, t))
<1> DEFINE s == Close(r, t)
<1>1. r \in RoomRecord /\ s \in RoomRecord
  BY CloseType DEF RoomOK
<1>2. s.Slots = r.Slots /\ s.Observers = r.Observers /\ s.Admins = r.Admins /\ s.Addr = r.Addr
  BY <1>1 DEF Close, RoomRecord
<1>3. IsClosed(s)
  BY <1>1 DEF Close, IsClosed, RoomRecord
<1> QED
  BY <1>1, <1>2, <1>3 DEF RoomOK, SitsOnce, AddressFollowsSeat, IsMember, Holds

\* Removing somebody keeps everybody else's seat and address; only the host's
\* own removal could leave the room without its host.
LEMMA RemovedOK ==
    ASSUME NEW r, RoomOK(r), NEW p \in Players
    PROVE  /\ Removed(r, p) \in RoomRecord
           /\ ~ IsSeated(Removed(r, p), p)
           /\ \A q \in Players : SitsOnce(Removed(r, p), q) /\ AddressFollowsSeat(Removed(r, p), q)
           /\ p # r.HostID => RoomOK(Removed(r, p))
<1> DEFINE s == Removed(r, p)
<1>1. r \in RoomRecord /\ s \in RoomRecord
  BY RemovedType DEF RoomOK
<1>2. /\ s.Slots = Without(r.Slots, p) /\ s.Observers = Without(r.Observers, p)
      /\ s.Admins = Without(r.Admins, p) /\ s.Addr = Without(r.Addr, p)
      /\ s.HostID = r.HostID /\ s.HostSlot = r.HostSlot /\ s.HostWatching = r.HostWatching
      /\ s.Status = r.Status
  BY <1>1 DEF Removed, RoomRecord
<1>3. /\ \A i \in Seats : r.Slots[i] = p => s.Slots[i] = Nobody
      /\ \A i \in Seats : r.Slots[i] # p => s.Slots[i] = r.Slots[i]
      /\ \A i \in GallerySeats : r.Observers[i] = p => s.Observers[i] = Nobody
      /\ \A i \in GallerySeats : r.Observers[i] # p => s.Observers[i] = r.Observers[i]
      /\ \A i \in AdminSeats : r.Admins[i] = p => s.Admins[i] = Nobody
      /\ \A i \in AdminSeats : r.Admins[i] # p => s.Admins[i] = r.Admins[i]
      /\ \A i \in AddrIndexes : r.Addr[i] = p => s.Addr[i] = Nobody
      /\ \A i \in AddrIndexes : r.Addr[i] # p => s.Addr[i] = r.Addr[i]
  BY <1>1, <1>2, RoomParts DEF Without
<1>4. Nobody \notin Players
  BY RoomAssumption
<1>5. ~ IsSeated(s, p)
  BY <1>1, <1>3, <1>4, RoomParts DEF IsSeated, IsMember, Holds
<1>6. ASSUME NEW q \in Players PROVE SitsOnce(s, q)
  BY <1>1, <1>3, <1>4, RoomParts DEF RoomOK, SitsOnce, Holds
<1>7. ASSUME NEW q \in Players PROVE AddressFollowsSeat(s, q)
  BY <1>1, <1>3, <1>4, RoomParts DEF RoomOK, AddressFollowsSeat, IsMember, Holds
<1>8. ASSUME p # r.HostID, ~ IsClosed(s) PROVE HostSits(s)
  BY <1>1, <1>2, <1>3, <1>8, RoomParts DEF RoomOK, HostSits, IsClosed
<1> QED
  BY <1>1, <1>5, <1>6, <1>7, <1>8 DEF RoomOK

\* Leave keeps the seating sound: the host's departure ends the room.
LEMMA LeaveOK ==
    ASSUME NEW r, RoomOK(r), NEW p \in Players, NEW t \in Nat
    PROVE  RoomOK(Leave(r, p, t))
<1> DEFINE out == Removed(r, p)
           s == Close(out, t)
<1>1. out \in RoomRecord /\ \A q \in Players : SitsOnce(out, q) /\ AddressFollowsSeat(out, q)
  BY RemovedOK
<1>2. CASE p = r.HostID
  <2>1. s \in RoomRecord
    BY <1>1, CloseType
  <2>2. s.Slots = out.Slots /\ s.Observers = out.Observers /\ s.Admins = out.Admins /\ s.Addr = out.Addr
    BY <1>1 DEF Close, RoomRecord
  <2>3. IsClosed(s)
    BY <1>1 DEF Close, IsClosed, RoomRecord
  <2>4. RoomOK(s)
    BY <1>1, <2>1, <2>2, <2>3 DEF RoomOK, SitsOnce, AddressFollowsSeat, IsMember, Holds
  <2> QED
    BY <1>2, <2>4 DEF Leave
<1>3. CASE p # r.HostID
  BY <1>3, RemovedOK DEF Leave
<1> QED
  BY <1>2, <1>3

\* A method that touches neither seats, addresses nor the host's place, and does
\* not reopen the room.
LEMMA SameSeatingOK ==
    ASSUME NEW r, RoomOK(r), NEW s \in RoomRecord,
           s.Slots = r.Slots, s.Observers = r.Observers, s.Admins = r.Admins, s.Addr = r.Addr,
           s.HostID = r.HostID, s.HostSlot = r.HostSlot, s.HostWatching = r.HostWatching,
           IsClosed(r) => IsClosed(s)
    PROVE  RoomOK(s)
BY DEF RoomOK, SitsOnce, AddressFollowsSeat, IsMember, Holds, HostSits

\* Join seats somebody from the stands or from outside and keeps one address
\* for each member.
LEMMA JoinOK ==
    ASSUME NEW r, RoomOK(r), NEW p \in Players, ~ IsSeated(r, p),
           NEW seat \in Seats, r.Slots[seat] = Nobody
    PROVE  RoomOK(Join(r, p, seat))
<1> DEFINE s == Join(r, p, seat)
<1>1. r \in RoomRecord /\ s \in RoomRecord
  BY JoinType DEF RoomOK
<1>2. ~ Holds(r.Addr, p)
  BY DEF RoomOK, AddressFollowsSeat, IsSeated
<1>3. HasFree(r.Addr)
  <2>1. seat \in AddrIndexes /\ Place(r, seat) = Nobody
    BY LayoutAssumption DEF Seats, AddrIndexes, MemberSlots, Place
  <2> QED
    BY <2>1, AddressLeftForAPlace
<1>4. PICK a \in AddrIndexes : r.Addr[a] = Nobody /\ TakeAddress(r.Addr, p) = [r.Addr EXCEPT ![a] = p]
  BY <1>1, <1>2, <1>3, RoomParts, TakeAddressGives
<1>5. /\ s.Slots = [r.Slots EXCEPT ![seat] = p] /\ s.Addr = [r.Addr EXCEPT ![a] = p]
      /\ s.Observers = r.Observers /\ s.Admins = r.Admins /\ s.Status = r.Status
      /\ s.HostID = r.HostID /\ s.HostSlot = r.HostSlot /\ s.HostWatching = r.HostWatching
  BY <1>1, <1>4 DEF Join, RoomRecord
<1>6. Nobody \notin Players
  BY RoomAssumption
<1>7. ASSUME NEW q \in Players PROVE SitsOnce(s, q)
  BY <1>1, <1>5, <1>6, RoomParts DEF RoomOK, SitsOnce, IsSeated, IsMember, Holds
<1>8. ASSUME NEW q \in Players PROVE AddressFollowsSeat(s, q)
  BY <1>1, <1>2, <1>4, <1>5, <1>6, RoomParts DEF RoomOK, AddressFollowsSeat, IsMember, Holds
<1>9. ASSUME ~ IsClosed(s) PROVE HostSits(s)
  BY <1>1, <1>5, <1>6, <1>9, RoomParts DEF RoomOK, HostSits, IsClosed
<1> QED
  BY <1>1, <1>7, <1>8, <1>9 DEF RoomOK

\* JoinObserver does the same for a place in the gallery.
LEMMA JoinObserverOK ==
    ASSUME NEW r, RoomOK(r), NEW p \in Players, ~ IsSeated(r, p),
           NEW seat \in GallerySeats, r.Observers[seat] = Nobody
    PROVE  RoomOK(JoinObserver(r, p, seat))
<1> DEFINE s == JoinObserver(r, p, seat)
<1>1. r \in RoomRecord /\ s \in RoomRecord
  BY JoinType DEF RoomOK
<1>2. ~ Holds(r.Addr, p)
  BY DEF RoomOK, AddressFollowsSeat, IsSeated
<1>3. HasFree(r.Addr)
  <2>1. PlayerSlots + seat \in AddrIndexes /\ Place(r, PlayerSlots + seat) = Nobody
    BY LayoutAssumption DEF GallerySeats, AddrIndexes, MemberSlots, Place
  <2> QED
    BY <2>1, AddressLeftForAPlace
<1>4. PICK a \in AddrIndexes : r.Addr[a] = Nobody /\ TakeAddress(r.Addr, p) = [r.Addr EXCEPT ![a] = p]
  BY <1>1, <1>2, <1>3, RoomParts, TakeAddressGives
<1>5. /\ s.Observers = [r.Observers EXCEPT ![seat] = p] /\ s.Addr = [r.Addr EXCEPT ![a] = p]
      /\ s.Slots = r.Slots /\ s.Admins = r.Admins /\ s.Status = r.Status
      /\ s.HostID = r.HostID /\ s.HostSlot = r.HostSlot /\ s.HostWatching = r.HostWatching
  BY <1>1, <1>4 DEF JoinObserver, RoomRecord
<1>6. Nobody \notin Players
  BY RoomAssumption
<1>7. ASSUME NEW q \in Players PROVE SitsOnce(s, q)
  BY <1>1, <1>5, <1>6, RoomParts DEF RoomOK, SitsOnce, IsSeated, IsMember, Holds
<1>8. ASSUME NEW q \in Players PROVE AddressFollowsSeat(s, q)
  BY <1>1, <1>2, <1>4, <1>5, <1>6, RoomParts DEF RoomOK, AddressFollowsSeat, IsMember, Holds
<1>9. ASSUME ~ IsClosed(s) PROVE HostSits(s)
  BY <1>1, <1>5, <1>6, <1>9, RoomParts DEF RoomOK, HostSits, IsClosed
<1> QED
  BY <1>1, <1>7, <1>8, <1>9 DEF RoomOK

\* JoinAdmin gives a moderator a seat apart, which takes no address of the
\* pool.
LEMMA JoinAdminOK ==
    ASSUME NEW r, RoomOK(r), NEW p \in Players, ~ IsSeated(r, p),
           NEW seat \in AdminSeats, r.Admins[seat] = Nobody
    PROVE  RoomOK(JoinAdmin(r, p, seat))
<1> DEFINE s == JoinAdmin(r, p, seat)
<1>1. r \in RoomRecord /\ s \in RoomRecord
  BY JoinType DEF RoomOK
<1>2. /\ s.Admins = [r.Admins EXCEPT ![seat] = p]
      /\ s.Slots = r.Slots /\ s.Observers = r.Observers /\ s.Addr = r.Addr /\ s.Status = r.Status
      /\ s.HostID = r.HostID /\ s.HostSlot = r.HostSlot /\ s.HostWatching = r.HostWatching
  BY <1>1 DEF JoinAdmin, RoomRecord
<1>3. Nobody \notin Players
  BY RoomAssumption
<1>4. ASSUME NEW q \in Players PROVE SitsOnce(s, q)
  BY <1>1, <1>2, <1>3, RoomParts DEF RoomOK, SitsOnce, IsSeated, IsMember, Holds
<1>5. ASSUME NEW q \in Players PROVE AddressFollowsSeat(s, q)
  BY <1>2 DEF RoomOK, AddressFollowsSeat, IsMember, Holds
<1>6. ASSUME ~ IsClosed(s) PROVE HostSits(s)
  BY <1>2, <1>6 DEF RoomOK, HostSits, IsClosed
<1> QED
  BY <1>1, <1>4, <1>5, <1>6 DEF RoomOK

\* Whoever moves keeps the address they hold, and a host who moves is recorded
\* in the new place (Move).
LEMMA MoveOK ==
    ASSUME NEW r, RoomOK(r), NEW p \in Players, NEW seat, NEW watching \in BOOLEAN,
           MayMove(r, p, seat, watching)
    PROVE  RoomOK(Move(r, p, seat, watching))
<1> DEFINE up == [r EXCEPT !.Slots = Without(r.Slots, p), !.Observers = Without(r.Observers, p)]
           d == Reseated(r, p, seat, watching)
           s == Move(r, p, seat, watching)
<1>1. r \in RoomRecord /\ Nobody \notin Players
  BY RoomAssumption DEF RoomOK
<1>2. /\ up.Slots = Without(r.Slots, p) /\ up.Observers = Without(r.Observers, p)
      /\ up.Admins = r.Admins /\ up.Addr = r.Addr /\ up.Status = r.Status
      /\ up.HostID = r.HostID /\ up.HostSlot = r.HostSlot /\ up.HostWatching = r.HostWatching
      /\ up \in RoomRecord
  BY <1>1, WithoutType DEF RoomRecord
<1>3. d \in RoomRecord
  BY <1>1, <1>2 DEF Reseated, RoomRecord, Persons
<1>4. /\ d.Admins = r.Admins /\ d.Addr = r.Addr /\ d.Status = r.Status
      /\ d.HostID = r.HostID /\ d.HostSlot = r.HostSlot /\ d.HostWatching = r.HostWatching
      /\ watching => seat \in GallerySeats /\ r.Observers[seat] = Nobody
                     /\ d.Slots = Without(r.Slots, p)
                     /\ d.Observers = [Without(r.Observers, p) EXCEPT ![seat] = p]
      /\ ~ watching => seat \in Seats /\ r.Slots[seat] = Nobody
                       /\ d.Slots = [Without(r.Slots, p) EXCEPT ![seat] = p]
                       /\ d.Observers = Without(r.Observers, p)
  BY <1>1, <1>2 DEF Reseated, RoomRecord, MayMove
<1>5. s \in RoomRecord
  <2>1. seat \in Int
    BY <1>4, LayoutAssumption DEF Seats, GallerySeats
  <2> QED
    BY <1>3, <2>1 DEF Move, RoomRecord
<1>6. /\ s.Slots = d.Slots /\ s.Observers = d.Observers /\ s.Admins = d.Admins /\ s.Addr = d.Addr
      /\ s.HostID = d.HostID /\ s.Status = d.Status
      /\ p = r.HostID => s.HostSlot = seat /\ s.HostWatching = watching
      /\ p # r.HostID => s.HostSlot = r.HostSlot /\ s.HostWatching = r.HostWatching
  BY <1>3, <1>4 DEF Move, RoomRecord
<1>7. /\ DOMAIN s.Slots = Seats /\ DOMAIN s.Observers = GallerySeats
      /\ DOMAIN s.Admins = AdminSeats /\ s.Admins = r.Admins
      /\ \A i \in Seats : r.Slots[i] # p => s.Slots[i] \in {r.Slots[i], p}
      /\ \A i \in Seats : r.Slots[i] = p => s.Slots[i] = Nobody
      /\ \A i \in GallerySeats : r.Observers[i] # p => s.Observers[i] \in {r.Observers[i], p}
      /\ \A i \in GallerySeats : r.Observers[i] = p => s.Observers[i] = Nobody
      /\ watching => /\ s.Observers[seat] = p /\ r.Observers[seat] = Nobody /\ seat \in GallerySeats
                     /\ \A i \in Seats : s.Slots[i] # p
                     /\ \A i \in GallerySeats : s.Observers[i] = p => i = seat
      /\ ~ watching => /\ s.Slots[seat] = p /\ r.Slots[seat] = Nobody /\ seat \in Seats
                       /\ \A i \in Seats : s.Slots[i] = p => i = seat
                       /\ \A i \in GallerySeats : s.Observers[i] # p
  <2>1. p # Nobody
    BY <1>1
  <2>2. CASE watching
    <3>1. /\ seat \in GallerySeats /\ r.Observers[seat] = Nobody
          /\ s.Slots = Without(r.Slots, p) /\ s.Observers = [Without(r.Observers, p) EXCEPT ![seat] = p]
          /\ s.Admins = r.Admins
      BY <1>4, <1>6, <2>2
    <3>2. /\ DOMAIN s.Slots = Seats /\ DOMAIN s.Observers = GallerySeats
          /\ DOMAIN s.Admins = AdminSeats
      BY <1>1, <3>1, RoomParts DEF Without
    <3>3. \A i \in Seats : s.Slots[i] = IF r.Slots[i] = p THEN Nobody ELSE r.Slots[i]
      BY <1>1, <3>1, RoomParts DEF Without
    <3>4. \A i \in GallerySeats :
             s.Observers[i] = IF i = seat THEN p ELSE IF r.Observers[i] = p THEN Nobody ELSE r.Observers[i]
      BY <1>1, <3>1, RoomParts DEF Without
    <3>5. /\ \A i \in Seats : r.Slots[i] # p => s.Slots[i] \in {r.Slots[i], p}
          /\ \A i \in Seats : r.Slots[i] = p => s.Slots[i] = Nobody
          /\ \A i \in Seats : s.Slots[i] # p
      BY <2>1, <3>3
    <3>6. /\ \A i \in GallerySeats : r.Observers[i] # p => s.Observers[i] \in {r.Observers[i], p}
          /\ \A i \in GallerySeats : r.Observers[i] = p => s.Observers[i] = Nobody
          /\ \A i \in GallerySeats : s.Observers[i] = p => i = seat
          /\ s.Observers[seat] = p
      BY <2>1, <3>1, <3>4
    <3> QED
      BY <2>2, <3>1, <3>2, <3>5, <3>6
  <2>3. CASE ~ watching
    BY <1>1, <1>4, <1>5, <1>6, <2>1, <2>3, RoomParts DEF Without
  <2> QED
    BY <2>2, <2>3
<1>8. ASSUME NEW q \in Players
      PROVE  SitsOnce(s, q) /\ (IsMember(s, q) <=> IsMember(r, q))
  <2>1. SitsOnce(r, q) /\ ~ Holds(r.Admins, p) /\ IsMember(r, p)
    BY DEF RoomOK, SitsOnce, MayMove, IsMember
  <2>2. CASE q = p
    BY <1>1, <1>7, <2>1, <2>2, RoomParts DEF SitsOnce, IsMember, Holds
  <2>3. CASE q # p
    <3>1. /\ \A i \in Seats : s.Slots[i] = q <=> r.Slots[i] = q
          /\ \A i \in GallerySeats : s.Observers[i] = q <=> r.Observers[i] = q
      <4>1. q # Nobody
        BY <1>1
      <4>2. CASE watching
        <5>1. /\ seat \in GallerySeats /\ r.Observers[seat] = Nobody
              /\ s.Slots = Without(r.Slots, p) /\ s.Observers = [Without(r.Observers, p) EXCEPT ![seat] = p]
          BY <1>4, <1>6, <4>2
        <5> QED
          BY <1>1, <2>3, <4>1, <5>1, RoomParts DEF Without
      <4>3. CASE ~ watching
        BY <1>1, <1>4, <1>6, <2>3, <4>1, <4>3, RoomParts DEF Without
      <4> QED
        BY <4>2, <4>3
    <3> QED
      BY <1>1, <1>7, <2>1, <3>1, RoomParts DEF SitsOnce, IsMember, Holds
  <2> QED
    BY <2>2, <2>3
<1>9. ASSUME NEW q \in Players PROVE AddressFollowsSeat(s, q)
  BY <1>4, <1>6, <1>8 DEF RoomOK, AddressFollowsSeat
<1>10. HostSits(s)
  <2>1. HostSits(r)
    BY DEF RoomOK, MayMove
  <2>2. CASE p = r.HostID
    BY <1>1, <1>4, <1>6, <2>2, RoomParts DEF HostSits, Without
  <2>3. CASE p # r.HostID
    BY <1>1, <1>4, <1>6, <2>1, <2>3, RoomParts DEF HostSits, Without
  <2> QED
    BY <2>2, <2>3
<1> QED
  BY <1>5, <1>8, <1>9, <1>10 DEF RoomOK

\* Kick keeps the seating sound: the host is never the one removed.
LEMMA KickOK ==
    ASSUME NEW r, RoomOK(r), NEW p \in Players, NEW t \in Nat
    PROVE  RoomOK(Kick(r, p, t))
<1> DEFINE out == Leave(r, p, t)
           s == Kick(r, p, t)
<1>1. RoomOK(out) /\ out \in RoomRecord /\ r \in RoomRecord
  BY LeaveOK DEF RoomOK
<1>2. r.KickCount[p] + 1 \in Nat /\ t + KickBlockFor(r.KickCount[p] + 1) \in Nat
  BY <1>1, RoomAssumption DEF RoomRecord, KickBlockFor
<1>3. s \in RoomRecord
  BY <1>1, <1>2 DEF Kick, RoomRecord
<1>4. /\ s.Slots = out.Slots /\ s.Observers = out.Observers /\ s.Admins = out.Admins
      /\ s.Addr = out.Addr /\ s.HostID = out.HostID /\ s.HostSlot = out.HostSlot
      /\ s.HostWatching = out.HostWatching /\ s.Status = out.Status
  BY <1>1 DEF Kick, RoomRecord
<1> QED
  BY <1>1, <1>3, <1>4, SameSeatingOK DEF IsClosed

\* SetHost points HostSlot and HostWatching at a place the new host has.
LEMMA SetHostOK ==
    ASSUME NEW r, RoomOK(r), NEW p \in Players, MaySetHost(r, p)
    PROVE  RoomOK(SetHost(r, p))
<1> DEFINE s == SetHost(r, p)
<1>1. r \in RoomRecord /\ s \in RoomRecord
  BY SetHostType DEF RoomOK
<1>2. /\ s.Slots = r.Slots /\ s.Observers = r.Observers /\ s.Admins = r.Admins /\ s.Addr = r.Addr
      /\ s.HostID = p /\ s.HostWatching = FALSE
      /\ s.HostSlot = CHOOSE i \in Seats : r.Slots[i] = p
  BY <1>1 DEF SetHost, RoomRecord
<1>3. \E i \in Seats : r.Slots[i] = p
  BY <1>1, RoomParts DEF MaySetHost, IsPlaying, Holds
<1>4. HostSits(s)
  BY <1>2, <1>3 DEF HostSits
<1> QED
  BY <1>1, <1>2, <1>4 DEF RoomOK, SitsOnce, AddressFollowsSeat, IsMember, Holds

\* SeeHost only notes the time or closes the room.
LEMMA SeeHostOK ==
    ASSUME NEW r, RoomOK(r), NEW online \in BOOLEAN, NEW inGame \in BOOLEAN, NEW t \in Nat
    PROVE  RoomOK(SeeHost(r, online, inGame, t))
<1> DEFINE seen == [r EXCEPT !.HostInGame = inGame]
<1>1. r \in RoomRecord
  BY DEF RoomOK
<1>2. /\ seen.Slots = r.Slots /\ seen.Observers = r.Observers /\ seen.Admins = r.Admins
      /\ seen.Addr = r.Addr /\ seen.HostID = r.HostID /\ seen.HostSlot = r.HostSlot
      /\ seen.HostWatching = r.HostWatching /\ seen.Status = r.Status
      /\ seen \in RoomRecord
  BY <1>1 DEF RoomRecord
<1>3. RoomOK(seen)
  BY <1>2, SameSeatingOK DEF IsClosed
<1> QED
  BY <1>3, CloseOK DEF SeeHost

\* The settings of a room touch neither seats nor addresses.
LEMMA SettingsOK ==
    ASSUME NEW r, RoomOK(r)
    PROVE  /\ \A status \in Statuses : ~ IsClosed(r) => RoomOK(SetStatus(r, status))
           /\ \A mode \in GameModes : RoomOK(SetGameMode(r, mode))
           /\ \A target \in Players : RoomOK(Invite(r, target)) /\ RoomOK(Uninvite(r, target))
           /\ \A kind \in PrivacyKinds, password \in Passwords \union {NoPassword}, floor \in MMRFloors :
                 RoomOK(SetPrivacy(r, kind, password, floor))
<1>1. r \in RoomRecord
  BY DEF RoomOK
<1>2. ASSUME NEW status \in Statuses, ~ IsClosed(r) PROVE RoomOK(SetStatus(r, status))
  <2> DEFINE s == SetStatus(r, status)
  <2>1. /\ s \in RoomRecord
        /\ s.Slots = r.Slots /\ s.Observers = r.Observers /\ s.Admins = r.Admins /\ s.Addr = r.Addr
        /\ s.HostID = r.HostID /\ s.HostSlot = r.HostSlot /\ s.HostWatching = r.HostWatching
    BY <1>1 DEF SetStatus, RoomRecord
  <2> QED
    BY <1>2, <2>1, SameSeatingOK
<1>3. ASSUME NEW mode \in GameModes PROVE RoomOK(SetGameMode(r, mode))
  <2> DEFINE s == SetGameMode(r, mode)
  <2>1. /\ s \in RoomRecord /\ s.Status = r.Status
        /\ s.Slots = r.Slots /\ s.Observers = r.Observers /\ s.Admins = r.Admins /\ s.Addr = r.Addr
        /\ s.HostID = r.HostID /\ s.HostSlot = r.HostSlot /\ s.HostWatching = r.HostWatching
    BY <1>1 DEF SetGameMode, RoomRecord
  <2> QED
    BY <2>1, SameSeatingOK DEF IsClosed
<1>4. ASSUME NEW target \in Players PROVE RoomOK(Invite(r, target)) /\ RoomOK(Uninvite(r, target))
  <2> DEFINE s == Invite(r, target)
             u == Uninvite(r, target)
  <2>1. /\ s \in RoomRecord /\ s.Status = r.Status
        /\ s.Slots = r.Slots /\ s.Observers = r.Observers /\ s.Admins = r.Admins /\ s.Addr = r.Addr
        /\ s.HostID = r.HostID /\ s.HostSlot = r.HostSlot /\ s.HostWatching = r.HostWatching
    BY <1>1 DEF Invite, RoomRecord
  <2>2. /\ u \in RoomRecord /\ u.Status = r.Status
        /\ u.Slots = r.Slots /\ u.Observers = r.Observers /\ u.Admins = r.Admins /\ u.Addr = r.Addr
        /\ u.HostID = r.HostID /\ u.HostSlot = r.HostSlot /\ u.HostWatching = r.HostWatching
    BY <1>1 DEF Uninvite, RoomRecord
  <2> QED
    BY <2>1, <2>2, SameSeatingOK DEF IsClosed
<1>5. ASSUME NEW kind \in PrivacyKinds, NEW password \in Passwords \union {NoPassword},
             NEW floor \in MMRFloors
      PROVE  RoomOK(SetPrivacy(r, kind, password, floor))
  <2> DEFINE s == SetPrivacy(r, kind, password, floor)
             hash == CASE kind # "password" -> NoPassword
                       [] kind = "password" /\ password # NoPassword -> password
                       [] OTHER -> r.PasswordHash
  <2>1. hash \in Passwords \union {NoPassword}
    BY <1>1 DEF RoomRecord
  <2>2. s = [r EXCEPT !.Privacy = kind, !.MinMMR = floor, !.PasswordHash = hash]
    BY <1>1 DEF SetPrivacy, RoomRecord
  <2>3. /\ s \in RoomRecord /\ s.Status = r.Status
        /\ s.Slots = r.Slots /\ s.Observers = r.Observers /\ s.Admins = r.Admins /\ s.Addr = r.Addr
        /\ s.HostID = r.HostID /\ s.HostSlot = r.HostSlot /\ s.HostWatching = r.HostWatching
    BY <1>1, <2>1, <2>2 DEF RoomRecord
  <2> QED
    BY <2>3, SameSeatingOK DEF IsClosed
<1> QED
  BY <1>2, <1>3, <1>4, <1>5
=================================================================================
