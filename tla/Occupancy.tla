------------------------------- MODULE Occupancy -------------------------------
(* What the room store promises about people, without seats, doors or clocks:   *)
(* a person is in one room or in none; a room lives exactly as long as its host *)
(* is in it; a room that ended never starts again.                              *)
CONSTANTS Players, RoomIds, Nowhere, Unborn, Ended

VARIABLES
    at,      \* person -> the room they are in, or Nowhere
    host     \* room -> its host, Unborn before its life and Ended after it

occupancyVars == <<at, host>>

Alive(id) == host[id] \in Players

Init ==
    /\ at = [p \in Players |-> Nowhere]
    /\ host = [id \in RoomIds |-> Unborn]

Open(id, p) ==
    /\ at[p] = Nowhere /\ host[id] = Unborn
    /\ at' = [at EXCEPT ![p] = id]
    /\ host' = [host EXCEPT ![id] = p]

Enter(id, p) ==
    /\ at[p] = Nowhere /\ Alive(id)
    /\ at' = [at EXCEPT ![p] = id]
    /\ UNCHANGED host

Exit(p) ==
    /\ at[p] # Nowhere /\ host[at[p]] # p
    /\ at' = [at EXCEPT ![p] = Nowhere]
    /\ UNCHANGED host

Handover(id, p) ==
    /\ Alive(id) /\ at[p] = id
    /\ host' = [host EXCEPT ![id] = p]
    /\ UNCHANGED at

\* Some rooms end together, and everybody in them is out at once.
End(ids) ==
    /\ \A id \in ids : Alive(id)
    /\ at' = [p \in Players |-> IF at[p] \in ids THEN Nowhere ELSE at[p]]
    /\ host' = [id \in RoomIds |-> IF id \in ids THEN Ended ELSE host[id]]

Next ==
    \/ \E id \in RoomIds, p \in Players : Open(id, p) \/ Enter(id, p) \/ Handover(id, p)
    \/ \E p \in Players : Exit(p)
    \/ \E ids \in SUBSET RoomIds : End(ids)

Spec == Init /\ [][Next]_occupancyVars
=================================================================================
