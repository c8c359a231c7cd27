------------------------------ MODULE MCRoomStore ------------------------------
(* Small instances of RoomStore for TLC, and its refinement of Occupancy.       *)
EXTENDS RoomStore, TLC

CONSTANTS Nowhere, Unborn, Ended   \* what Occupancy says of nobody's room and of no host

ASSUME OccupancyAssumption ==
    Nowhere \notin RoomIds /\ Unborn \notin Players /\ Ended \notin Players /\ Unborn # Ended

\* Where the store has somebody: the open room they are seated in.
whereabouts ==
    [p \in Players |-> IF RoomsOf(p) = {} THEN Nowhere ELSE CHOOSE id \in RoomsOf(p) : TRUE]

hosts ==
    [id \in RoomIds |-> IF id \in unused THEN Unborn
                        ELSE IF IsOpen(id) THEN rooms[id].HostID ELSE Ended]

Promise == INSTANCE Occupancy WITH at <- whereabouts, host <- hosts

\* The store implements Occupancy: a person in at most one living room, a room
\* living exactly as long as its host is in it, no room starting twice.
ImplementsOccupancy == Promise!Spec

Symmetry == Permutations(Players) \union Permutations(RoomIds)
=================================================================================
