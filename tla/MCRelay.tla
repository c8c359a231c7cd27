-------------------------------- MODULE MCRelay --------------------------------
(* Small instances of Relay for TLC.                                            *)
EXTENDS Relay, TLC

Claims(token, room, index, member) ==
    [Token |-> token, RoomID |-> room, VirtualIP |-> MemberIP(index, member)]

\* One member each of two rooms.
TwoRooms == {Claims(1, "a", 0, 0), Claims(1, "b", 1, 0)}

\* One member of one room, who comes back.
OneMember == {Claims(1, "a", 0, 0)}

\* The first and the last member of one full room.
FullRoom == {Claims(1, "a", 0, 0), Claims(1, "a", 0, MemberSlots - 1)}

LastOfTheBlock == {<<10, 87, 0, 31>>}

Symmetry == Permutations(Readers) \union Permutations(Sessions)
=================================================================================
