---------------------------------- MODULE App ----------------------------------
(* The desktop app of one player, over the service's network and the            *)
(* coordinator's seats.                                                         *)
(*                                                                              *)
(* The app keeps the room it is showing in its configuration, the coordinator   *)
(* keeps the seat, and the service keeps the tunnel; handlers, the poll of the  *)
(* page and background connects run side by side and take turns on the          *)
(* configuration.  A turn on it, a request the coordinator serves, and a call   *)
(* of the pipe are a step each; pipe calls are served one at a time.            *)
EXTENDS Network, FiniteSets

CONSTANTS
    Rooms,        \* rooms somebody else hosts
    Jobs,         \* bound: handlers and background connects at work at once
    MaxMoves      \* bound: what the player, the host and the net do

Nowhere == "nowhere"

VARIABLES
    phase,        \* room -> "open", "ended" and still listed, or "gone"
    seats,        \* room -> the player's stay there, or 0
    stays,        \* stays so far
    good,         \* the stays whose tickets the coordinator calls valid
    app,          \* session.Config: RoomID and Ticket
    signedIn,     \* session.Config: Session
    job,          \* handler or background connect -> where it is
    poll,         \* the page's poll: where it is and what it has been told
    moves

appVars == <<net, down, phase, seats, stays, good, app, signedIn, job, poll, moves>>

Idle    == [do |-> "idle", room |-> Nowhere, ticket |-> 0]
Asleep  == [do |-> "idle", asked |-> Nowhere, named |-> Nowhere, clear |-> FALSE,
            ticket |-> 0, lost |-> FALSE]
NoRoom  == [room |-> Nowhere, ticket |-> 0]

AppInit ==
    /\ NetworkInit
    /\ phase = [r \in Rooms |-> "open"] /\ seats = [r \in Rooms |-> 0]
    /\ stays = 0 /\ good = {}
    /\ app = NoRoom /\ signedIn = TRUE
    /\ job = [j \in Jobs |-> Idle] /\ poll = Asleep
    /\ moves = 0

Moved == moves < MaxMoves /\ moves' = moves + 1

network == <<net, down>>
server  == <<phase, seats, stays, good>>
config  == <<app, signedIn>>

\* Store.RoomOf: the room that has the player, ended ones aside.
RoomOf ==
    LET at == {r \in Rooms : seats[r] # 0 /\ phase[r] = "open"} IN
    IF at = {} THEN Nowhere ELSE CHOOSE r \in at : TRUE
--------------------------------------------------------------------------------
(* The coordinator, as it serves this player *)

\* Join, or JoinObserver, and the ticket with it.
Seat(r) ==
    /\ signedIn /\ phase[r] = "open" /\ RoomOf = Nowhere /\ stays + 1 \in Stays
    /\ stays' = stays + 1
    /\ seats' = [seats EXCEPT ![r] = stays + 1]
    /\ good' = good \union {stays + 1}
    /\ UNCHANGED phase

\* connectRoom: whoever has a seat gets a ticket, in an ended room too.
Issue(r) ==
    /\ signedIn /\ phase[r] # "gone" /\ seats[r] # 0
    /\ good' = good \union {seats[r]}
    /\ UNCHANGED <<phase, seats, stays>>

Unseat(r) ==
    /\ phase[r] # "gone" /\ seats[r] # 0
    /\ seats' = [seats EXCEPT ![r] = 0] /\ good' = good \ {seats[r]}
    /\ UNCHANGED <<phase, stays>>

\* A kick, or the player's app on another PC leaving.
LoseSeat ==
    /\ Moved
    /\ \E r \in Rooms : Unseat(r)
    /\ UNCHANGED <<network, config, job, poll>>

\* The host leaves: the room ends, and its tickets with it.
EndRoom ==
    /\ Moved
    /\ \E r \in Rooms :
          /\ phase[r] = "open"
          /\ phase' = [phase EXCEPT ![r] = "ended"]
          /\ good' = good \ {seats[r]}
    /\ UNCHANGED <<network, seats, stays, config, job, poll>>

\* The tick that forgets it.
SweepRooms ==
    /\ \E r \in Rooms :
          /\ phase[r] = "ended"
          /\ phase' = [phase EXCEPT ![r] = "gone"]
          /\ seats' = [seats EXCEPT ![r] = 0]
    /\ UNCHANGED <<network, stays, good, config, job, poll, moves>>
--------------------------------------------------------------------------------
(* Handlers: joinRoom, spectateRoom, leaveRoom, connect, disconnect, playNow.   *)
(* A job that joined, or that the poll started, goes on as autoConnect.         *)

Start(j, do, room) ==
    /\ job[j] = Idle
    /\ job' = [job EXCEPT ![j] = [do |-> do, room |-> room, ticket |-> 0]]

Goes(j, from, to) ==
    /\ job[j].do = from
    /\ job' = [job EXCEPT ![j] = IF to = "idle" THEN Idle ELSE [@ EXCEPT !.do = to]]

PipeIsFree == \A j \in Jobs : job[j].do # "opening"

joinRoom(j) ==
    /\ Moved
    /\ \E r \in Rooms : Start(j, "joining", r)
    /\ UNCHANGED <<network, server, config, poll>>

\* The coordinator seats the player; the answer may be lost.
Enter(j) ==
    /\ job[j].do = "joining"
    /\ Seat(job[j].room)
    /\ \E do \in {"entered", "idle"} :
          job' = [job EXCEPT ![j] = IF do = "idle" THEN Idle
                                    ELSE [@ EXCEPT !.do = do, !.ticket = stays + 1]]
    /\ UNCHANGED <<network, config, poll, moves>>

NotEntered(j) ==
    /\ Goes(j, "joining", "idle")
    /\ UNCHANGED <<network, server, config, poll, moves>>

storeRoom(j, from, to) ==
    /\ job[j].do = from
    /\ app' = [room |-> job[j].room, ticket |-> job[j].ticket]
    /\ job' = [job EXCEPT ![j] = [Idle EXCEPT !.do = to]]
    /\ UNCHANGED signedIn

Entered(j) == storeRoom(j, "entered", "bringing up") /\ UNCHANGED <<network, server, poll, moves>>

\* connect, and playNow on a PC that is on no network.
connect(j) ==
    /\ Moved
    /\ Start(j, "bringing up", Nowhere)
    /\ UNCHANGED <<network, server, config, poll>>

\* bringUpTunnel takes the room that is current now,
bringUpTunnel(j) ==
    /\ IF app.room = Nowhere
       THEN Goes(j, "bringing up", "idle")
       ELSE /\ job[j].do = "bringing up"
            /\ job' = [job EXCEPT ![j] = [do |-> "asking", room |-> app.room, ticket |-> 0]]
    /\ UNCHANGED <<network, server, config, poll, moves>>

\* asks for a ticket,
Refresh(j) ==
    /\ job[j].do = "asking"
    /\ Issue(job[j].room)
    /\ job' = [job EXCEPT ![j] = [@ EXCEPT !.do = "asked", !.ticket = seats[job[j].room]]]
    /\ UNCHANGED <<network, config, poll, moves>>

NotRefreshed(j) ==
    /\ Goes(j, "asking", "idle")
    /\ UNCHANGED <<network, server, config, poll, moves>>

\* stores the room of the answer,
Refreshed(j) == storeRoom(j, "asked", "calling") /\ UNCHANGED <<network, server, poll, moves>>

\* and calls the service with what the configuration holds by then.
Dial(j) ==
    /\ PipeIsFree /\ job[j].do = "calling"
    /\ IF app.ticket = 0
       THEN job' = [job EXCEPT ![j] = Idle] /\ UNCHANGED network
       ELSE /\ job' = [job EXCEPT ![j] = [Idle EXCEPT !.do = "opening", !.ticket = app.ticket]]
            /\ GoOff
    /\ UNCHANGED <<server, config, poll, moves>>

Opened(j) ==
    /\ Goes(j, "opening", "idle")
    /\ GoOn(job[j].ticket)
    /\ UNCHANGED <<server, config, poll, moves>>

NotOpened(j) ==
    /\ Goes(j, "opening", "idle")
    /\ UNCHANGED <<network, server, config, poll, moves>>

leaveRoom(j) ==
    /\ Moved /\ app.room # Nowhere
    /\ Start(j, "leaving", app.room)
    /\ UNCHANGED <<network, server, config, poll>>

\* The coordinator lets the player go; the answer may be lost.
Left(j) ==
    /\ job[j].do = "leaving" /\ signedIn
    /\ Unseat(job[j].room)
    /\ \E to \in {"hanging up", "idle"} : Goes(j, "leaving", to)
    /\ UNCHANGED <<network, config, poll, moves>>

NotLeft(j) ==
    /\ Goes(j, "leaving", "idle")
    /\ UNCHANGED <<network, server, config, poll, moves>>

HungUp(j) ==
    /\ PipeIsFree
    /\ Goes(j, "hanging up", "forgetting")
    /\ GoOff
    /\ UNCHANGED <<server, config, poll, moves>>

ClearRoom(j) ==
    /\ Goes(j, "forgetting", "idle")
    /\ app' = NoRoom
    /\ UNCHANGED <<network, server, signedIn, poll, moves>>

disconnect ==
    /\ Moved /\ PipeIsFree
    /\ GoOff
    /\ UNCHANGED <<server, config, job, poll>>

\* signOut clears the room; the seat and the tunnel stay.
signOut ==
    /\ Moved /\ signedIn
    /\ signedIn' = FALSE /\ app' = NoRoom
    /\ UNCHANGED <<network, server, job, poll>>

adopt == signedIn' = TRUE /\ UNCHANGED app

signIn ==
    /\ ~ signedIn
    /\ adopt
    /\ UNCHANGED <<network, server, job, poll, moves>>
--------------------------------------------------------------------------------
(* state: the page's poll.  pull asks about the room that is current, and acts  *)
(* on the answer; recoverTunnel comes last.                                     *)

Poll(from, new) == poll.do = from /\ poll' = new

state ==
    /\ Poll("idle", [Asleep EXCEPT !.do = "asking", !.asked = app.room,
                                   !.lost = net = Off /\ down = "lease expired locally"])
    /\ UNCHANGED <<network, server, config, job, moves>>

\* Mutant of Unwelcome: being removed is not looked at.
UnwelcomeIfGone(r) == r # Nowhere /\ phase[r] = "gone"

\* The room is gone, or this player is no longer seated in it.
Unwelcome(r) == r # Nowhere /\ ~ (phase[r] # "gone" /\ seats[r] # 0)

\* sync, or browse for somebody who is not signed in.  A network lost to an
\* expired lease matters while the room it was for is on screen.
Sync ==
    /\ signedIn
    /\ Poll("asking", [poll EXCEPT !.do = "told", !.named = RoomOf,
                         !.clear = Unwelcome(poll.asked),
                         !.lost = @ /\ poll.asked # Nowhere /\ ~ Unwelcome(poll.asked)])
    /\ UNCHANGED <<network, server, config, job, moves>>

Browse ==
    /\ ~ signedIn
    /\ Poll("asking", [poll EXCEPT !.do = "told", !.lost = FALSE])
    /\ UNCHANGED <<network, server, config, job, moves>>

NotSynced ==
    /\ Poll("asking", Asleep)
    /\ UNCHANGED <<network, server, config, job, moves>>

\* The coordinator's room is adopted if the app still believes what it asked,
Adopts == poll.named \notin {Nowhere, poll.asked} /\ app.room = poll.asked

AnsweredFor(p) == [p EXCEPT !.do = "clearing", !.asked = Nowhere, !.named = Nowhere, !.ticket = 0]

pull ==
    /\ Poll("told", IF Adopts THEN [poll EXCEPT !.do = "adopting"] ELSE AnsweredFor(poll))
    /\ UNCHANGED <<network, server, config, job, moves>>

\* with a fresh ticket,
Reissue ==
    /\ poll.do = "adopting"
    /\ Issue(poll.named)
    /\ Poll("adopting", [poll EXCEPT !.do = "adopted", !.ticket = seats[poll.named]])
    /\ UNCHANGED <<network, config, job, moves>>

NotReissued ==
    /\ Poll("adopting", AnsweredFor(poll))
    /\ UNCHANGED <<network, server, config, job, moves>>

Adopt ==
    /\ Poll("adopted", AnsweredFor(poll))
    /\ app' = [room |-> poll.named, ticket |-> poll.ticket]
    /\ UNCHANGED <<network, server, signedIn, job, moves>>

\* What the answer says of the room it was about clears whichever is current now.
Clear ==
    /\ Poll("clearing", [poll EXCEPT !.do = "recovering", !.clear = FALSE])
    /\ app' = IF poll.clear THEN NoRoom ELSE app
    /\ UNCHANGED <<network, server, signedIn, job, moves>>

\* shouldRecover leaves it to another poll when one is at it or was just now.
recoverTunnel ==
    /\ Poll("recovering", Asleep)
    /\ \/ poll.lost /\ \E j \in Jobs : Start(j, "bringing up", Nowhere)
       \/ UNCHANGED job
    /\ UNCHANGED <<network, server, config, moves>>
--------------------------------------------------------------------------------
\* The service's watchdog: refused, or unanswered for too long.
AccessRevoked ==
    /\ \E t \in Stays \ good : net[t] # 0
    /\ Lose("authorisation revoked")
    /\ UNCHANGED <<server, config, job, poll, moves>>

LeaseExpired ==
    /\ Moved /\ net # Off
    /\ Lose("lease expired locally")
    /\ UNCHANGED <<server, config, job, poll>>

Works(j) ==
    \/ Enter(j) \/ NotEntered(j) \/ Entered(j)
    \/ bringUpTunnel(j) \/ Refresh(j) \/ NotRefreshed(j) \/ Refreshed(j)
    \/ Dial(j) \/ Opened(j) \/ NotOpened(j)
    \/ Left(j) \/ NotLeft(j) \/ HungUp(j) \/ ClearRoom(j)

Polls ==
    \/ state \/ Sync \/ Browse \/ NotSynced \/ pull
    \/ Reissue \/ NotReissued \/ Adopt \/ Clear \/ recoverTunnel

AppNext ==
    \/ \E j \in Jobs : joinRoom(j) \/ connect(j) \/ leaveRoom(j) \/ Works(j)
    \/ disconnect \/ signOut \/ signIn
    \/ LoseSeat \/ EndRoom \/ SweepRooms
    \/ Polls
    \/ AccessRevoked \/ LeaseExpired

\* Requests and calls of the pipe have timeouts, goroutines are scheduled, the
\* page polls as long as it is open, and polls get through now and again.
AppFairness ==
    /\ \A j \in Jobs : WF_appVars(Works(j))
    /\ WF_appVars(Polls) /\ SF_appVars(Sync) /\ SF_appVars(Reissue)
    /\ WF_appVars(SweepRooms) /\ WF_appVars(AccessRevoked)
--------------------------------------------------------------------------------
\* Once the player, the host and the net leave things alone, the app shows the
\* room the coordinator has the player in, and no other, and stays on no network
\* whose ticket is revoked, whatever answers were lost or crossed (server.go,
\* pull: one person, one room, and the coordinator is the thing that knows which).
Settles ==
    <>[](/\ signedIn => app.room = RoomOf
         /\ \A t \in Stays : net[t] # 0 => t \in good)
=================================================================================
