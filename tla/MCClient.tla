-------------------------------- MODULE MCClient -------------------------------
(* Instances of Netservice and of App for TLC: the service with a coordinator    *)
(* that gives and takes tickets, and the app over the service's promise.  A     *)
(* behaviour is one of the service or one of the app; the other keeps still.    *)
EXTENDS Netservice, App

CONSTANTS
    Parts,       \* what there are behaviours of
    MaxTurns     \* bound: tickets given and taken, connects and hang-ups

VARIABLES
    part,
    given,       \* tickets given so far
    turns

vars == <<serviceVars, appVars, part, given, turns>>

Init ==
    /\ part \in Parts /\ given = 0 /\ turns = 0
    /\ ServiceInit /\ AppInit

Turn == turns < MaxTurns /\ turns' = turns + 1

\* The player gets a seat, in place of the one there was,
Give ==
    /\ Turn
    /\ given + 1 \in Tickets
    /\ given' = given + 1 /\ valid' = {given + 1} /\ over' = [over EXCEPT ![given + 1] = 0]
    /\ UNCHANGED <<conns, held, teardown, calls, trusted>>

\* or loses it.
Take ==
    /\ Turn
    /\ valid # {} /\ valid' = {}
    /\ UNCHANGED <<conns, held, teardown, calls, over, trusted, given>>

Call ==
    /\ Turn
    /\ \E q \in Callers : Hangup(q) \/ \E t \in 1 .. given : Connect(q, t)
    /\ UNCHANGED given

Next ==
    \/ part = "service" /\ (Give \/ Take \/ Call) /\ UNCHANGED <<appVars, part>>
    \/ part = "service" /\ ServiceNext /\ UNCHANGED <<appVars, part, given, turns>>
    \/ part = "app" /\ AppNext /\ UNCHANGED <<serviceVars, part, given, turns>>

Spec == Init /\ [][Next]_vars /\ AppFairness
=================================================================================
