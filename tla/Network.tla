-------------------------------- MODULE Network --------------------------------
(* What the Windows service promises the app: this PC is on one room's network  *)
(* or on none, and a network that was taken away has left its reason.           *)
EXTENDS Integers

CONSTANT Stays          \* the stays in rooms there are tickets for

VARIABLES
    net,       \* stay -> the connections that are up with its ticket
    down       \* why the last network went, as Status reports it

Off   == [t \in Stays |-> 0]
On(t) == [Off EXCEPT ![t] = 1]

Reasons == {"authorisation revoked", "lease expired locally"}

NetworkInit == net = Off /\ down = ""

\* OpConnect ends what was before it starts the new one.
GoOn(t) == net = Off /\ net' = On(t) /\ down' = ""

GoOff == net' = Off /\ UNCHANGED down

\* The watchdog's teardown.
Lose(reason) == net' = Off /\ down' = reason

NetworkNext ==
    \/ \E t \in Stays : GoOn(t)
    \/ GoOff
    \/ \E reason \in Reasons : Lose(reason)

NetworkSpec == NetworkInit /\ [][NetworkNext]_<<net, down>>
=================================================================================
