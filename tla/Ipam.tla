---------------------------------- MODULE Ipam ----------------------------------
(* The room address plan of coordinator/internal/ipam: every room owns one     *)
(* block of 10.87.0.0/16, and everybody in the room has one address of it.      *)
(* An address is the tuple of its four octets.  The operators are total; an     *)
(* index outside its range, which the Go functions answer with an error, is     *)
(* excluded by the *Range operators.                                            *)
EXTENDS Integers

CONSTANTS
    MaxRooms,        \* room blocks in the overlay (2048)
    PlayerSlots,     \* playing seats of a room (10)
    ObserverSlots,   \* gallery seats of a room (4)
    AdminSlots       \* moderator seats of a room (3)

MemberSlots        == PlayerSlots + ObserverSlots
AddressesPerRoom   == 32
PlayerBaseOffset   == 2
AdminBaseOffset    == 17

\* The layout the constants of allocator.go satisfy: the members' pool ends
\* before the moderators' addresses, those end inside the block, and the
\* blocks fit the /16.
ASSUME LayoutAssumption ==
    /\ MaxRooms \in Nat /\ PlayerSlots \in Nat /\ ObserverSlots \in Nat /\ AdminSlots \in Nat
    /\ MaxRooms > 0 /\ PlayerSlots > 0
    /\ PlayerBaseOffset + MemberSlots <= AdminBaseOffset
    /\ AdminBaseOffset + AdminSlots <= AddressesPerRoom
    /\ MaxRooms * AddressesPerRoom <= 65536

RoomIndexes  == 0..(MaxRooms - 1)
Seats        == 0..(PlayerSlots - 1)
GallerySeats == 0..(ObserverSlots - 1)
AdminSeats   == 0..(AdminSlots - 1)
AddrIndexes  == 0..(MemberSlots - 1)

\* The base of the block: the high and the low byte of the room's offset.
SubnetBase(index) ==
    LET offset == index * AddressesPerRoom
    IN  <<10, 87, (offset \div 256) % 256, offset % 256>>

\* b[3] += byte(offset): the last octet alone is added to, modulo 256, and a
\* carry would be lost.
OffsetFrom(index, offset) ==
    LET base == SubnetBase(index)
    IN  <<base[1], base[2], base[3], (base[4] + offset) % 256>>

SlotIP(index, slot)     == OffsetFrom(index, PlayerBaseOffset + slot)
MemberIP(index, member) == OffsetFrom(index, PlayerBaseOffset + member)
AdminIP(index, seat)    == OffsetFrom(index, AdminBaseOffset + seat)

\* The slot range SlotIP accepts, and the range MemberIP accepts.
SlotIPRange   == Seats
MemberIPRange == AddrIndexes

\* The /27 prefix of an address, as the room index it belongs to.
BlockOf(ip) == (ip[3] * 256 + ip[4]) \div AddressesPerRoom
=================================================================================
