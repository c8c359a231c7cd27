------------------------------- MODULE Netservice ------------------------------
(* One player's PC on a room's network: the agent, the tunnel client and the    *)
(* lease watchdog of the Windows service, with the relay's and the              *)
(* coordinator's answers about a ticket.                                        *)
(*                                                                              *)
(* Every connect makes a connection: an adapter, a context, a tunnel goroutine  *)
(* and a watchdog goroutine.  The agent holds one of them; goroutines of others *)
(* may still be at work.  Each turn under the agent's mutex is a step.  Tickets *)
(* are numbered, and all tickets of one stay in a room are one number; time is  *)
(* counted in ticks, and a step that has a deadline happens before it passes.   *)
EXTENDS Integers, FiniteSets

CONSTANTS
    Tickets,       \* the stays in rooms a ticket may be for
    Conns,         \* bound: connections with something of theirs still around
    Callers,       \* callers of the pipe
    Interval,      \* ticks between two questions of a watchdog
    LocalExpiry,   \* localExpiry, in ticks
    Timeout,       \* the longest a question about a ticket takes
    TicketTTL      \* ticketTTL: how long the relay trusts an answer

None == 0     \* no ticket, no connection

ASSUME NetserviceAssumption ==
    /\ Tickets \subseteq Nat /\ None \notin Tickets \union Conns
    /\ Interval \in Nat \ {0} /\ LocalExpiry \in Nat \ {0}
    /\ Timeout \in 1 .. Interval /\ TicketTTL \in Nat \ {0}

VARIABLES
    conns,      \* connection -> what there is of it, or Unused
    held,       \* Agent.adapter, client and cancel: the connection held, or None
    teardown,   \* Agent.teardown, by its kind
    calls,      \* caller -> the ticket it is about to connect with, or None
    valid,      \* the tickets the coordinator calls valid
    over,       \* ticket -> ticks since it was revoked
    trusted     \* ticket -> ticks the relay will still take it unasked

serviceVars == <<conns, held, teardown, calls, valid, over, trusted>>

Unused == [adapter |-> FALSE, live |-> FALSE, ticket |-> None, tunnel |-> "ended",
           watch |-> "ended", quiet |-> 0, due |-> 0, asked |-> 0, granted |-> 0, barred |-> 0]

\* How long a connection may outlive its ticket: a yes that was on its way, the
\* local expiry, the wait for the next question, and that question.
Grace == Timeout + LocalExpiry + Interval + Timeout

\* A tick older, and no age is counted further than anybody reads it.
Older(age, read) == IF age > read THEN age ELSE age + 1

ServiceInit ==
    /\ conns = [c \in Conns |-> Unused] /\ held = None /\ teardown = ""
    /\ calls = [q \in Callers |-> None]
    /\ valid = {} /\ over = [t \in Tickets |-> 0] /\ trusted = [t \in Tickets |-> 0]

\* A connection nothing is left of may be another.
Settled(c) == IF c.adapter \/ c.live \/ c.tunnel # "ended" \/ c.watch # "ended" THEN c ELSE Unused
Changed(c, new) == conns' = [conns EXCEPT ![c] = Settled(new)]
--------------------------------------------------------------------------------
(* The agent *)

Own == {"", "client asked", "joining another room"}

\* Disconnect, of whichever connection is held.
Disconnect(reason) ==
    /\ held' = None
    /\ conns' = IF held = None THEN conns
                ELSE [conns EXCEPT ![held] = Settled([@ EXCEPT !.live = FALSE, !.adapter = FALSE])]
    /\ teardown' = IF reason \in Own THEN teardown ELSE reason

Hangup(q) ==
    /\ calls[q] = None
    /\ Disconnect("client asked")
    /\ UNCHANGED <<calls, valid, over, trusted>>

\* Mutant of Connect: the old room is left to its watchdog.
ConnectOver(q, t) ==
    /\ calls[q] = None /\ calls' = [calls EXCEPT ![q] = t]
    /\ UNCHANGED <<conns, held, teardown, valid, over, trusted>>

\* connect tears down what there was,
Connect(q, t) ==
    /\ calls[q] = None /\ calls' = [calls EXCEPT ![q] = t]
    /\ Disconnect("joining another room")
    /\ UNCHANGED <<valid, over, trusted>>

\* and with another turn of the mutex opens the adapter and starts the goroutines,
Open(q) ==
    LET free == {c \in Conns : conns[c] = Unused}
        new  == CHOOSE c \in free : TRUE IN
    /\ calls[q] # None /\ calls' = [calls EXCEPT ![q] = None]
    /\ free # {}
    /\ conns' = [conns EXCEPT ![new] =
         [Unused EXCEPT !.adapter = TRUE, !.live = TRUE, !.ticket = calls[q],
                        !.tunnel = "connecting", !.watch = "wait", !.due = Interval]]
    /\ held' = new
    /\ teardown' = ""
    /\ UNCHANGED <<valid, over, trusted>>

\* or cannot.
OpenFails(q) ==
    /\ calls[q] # None /\ calls' = [calls EXCEPT ![q] = None]
    /\ UNCHANGED <<conns, held, teardown, valid, over, trusted>>
--------------------------------------------------------------------------------
(* The tunnel: Run, connectOnce, and the relay's validator *)

Step(c, from, new) ==
    /\ conns[c].tunnel = from
    /\ Changed(c, new)
    /\ UNCHANGED <<held, teardown, calls, valid, over>>

\* Mutant of RelayKnows: every use of an answer prolongs it.
RelayKnowsForLonger(c) ==
    /\ conns[c].live /\ trusted[conns[c].ticket] > 0
    /\ Step(c, "connecting", [conns[c] EXCEPT !.tunnel = "connected"])
    /\ trusted' = [trusted EXCEPT ![conns[c].ticket] = TicketTTL]

\* A handshake with a ticket the relay has an answer for.
RelayKnows(c) ==
    /\ conns[c].live /\ trusted[conns[c].ticket] > 0
    /\ Step(c, "connecting", [conns[c] EXCEPT !.tunnel = "connected"])
    /\ UNCHANGED trusted

\* Otherwise it asks, and the coordinator says yes,
RelayAsks(c) ==
    /\ conns[c].live /\ trusted[conns[c].ticket] = 0 /\ conns[c].ticket \in valid
    /\ Step(c, "connecting", [conns[c] EXCEPT !.tunnel = "granted", !.granted = 0])
    /\ UNCHANGED trusted

\* which counts from the moment the relay has heard it.
RelayHears(c) ==
    /\ Step(c, "granted", [conns[c] EXCEPT !.tunnel = IF conns[c].live THEN "connected" ELSE "ended"])
    /\ trusted' = [trusted EXCEPT ![conns[c].ticket] = TicketTTL]

\* A handshake without a reply, or silence on a session: another attempt.
NoReply(c) ==
    /\ conns[c].live
    /\ Step(c, "granted", [conns[c] EXCEPT !.tunnel = "connecting"])
    /\ UNCHANGED trusted

SessionFails(c) ==
    /\ conns[c].live
    /\ Step(c, "connected", [conns[c] EXCEPT !.tunnel = "connecting"])
    /\ UNCHANGED trusted

\* Run ends with its context, and only then.
TunnelEnds(c) ==
    /\ ~ conns[c].live
    /\ \E from \in {"connecting", "connected"} : Step(c, from, [conns[c] EXCEPT !.tunnel = "ended"])
    /\ UNCHANGED trusted
--------------------------------------------------------------------------------
(* The watchdog *)

Watching(c, in, new) ==
    /\ conns[c].watch = in
    /\ Changed(c, new)
    /\ UNCHANGED <<held, teardown, calls, valid, over, trusted>>

\* The ticker, which keeps one tick for a watchdog that is late.
Ask(c) ==
    /\ conns[c].due = 0
    /\ Watching(c, "wait", [conns[c] EXCEPT !.watch = "ask", !.asked = 0, !.due = Interval])

\* The context may win, also against the ticker.
WatchEnds(c) == ~ conns[c].live /\ Watching(c, "wait", [conns[c] EXCEPT !.watch = "ended"])

\* renewLease makes up its mind,
RenewLease(c) ==
    Watching(c, "ask", [conns[c] EXCEPT !.watch = IF conns[c].ticket \in valid THEN "yes" ELSE "no"])

\* and a yes counts from its arrival.
Renewed(c) == Watching(c, "yes", [conns[c] EXCEPT !.watch = "wait", !.quiet = 0])

\* A no ends the watch with a teardown.
Refused(c) == Watching(c, "no", [conns[c] EXCEPT !.watch = "authorisation revoked"])

\* Mutant of Unanswered: who cannot ask is still allowed.
UnansweredIsYes(c) ==
    \E in \in {"ask", "yes", "no"} : Watching(c, in, [conns[c] EXCEPT !.watch = "wait", !.quiet = 0])

\* No answer in time, or none because the context ended: the lease runs on.
Unanswered(c) ==
    \E in \in {"ask", "yes", "no"} : Watching(c, in,
        [conns[c] EXCEPT !.watch = IF conns[c].quiet > LocalExpiry THEN "lease expired locally"
                                   ELSE "wait"])

\* onTeardown is Disconnect, and knows no connection.
TearDown(c) ==
    \E reason \in {"authorisation revoked", "lease expired locally"} :
        /\ conns[c].watch = reason
        /\ LET ended == [conns EXCEPT ![c] = Settled([@ EXCEPT !.watch = "ended"])] IN
           conns' = IF held = None THEN ended
                    ELSE [ended EXCEPT ![held] = Settled([@ EXCEPT !.live = FALSE, !.adapter = FALSE])]
        /\ held' = None /\ teardown' = reason
        /\ UNCHANGED <<calls, valid, over, trusted>>
--------------------------------------------------------------------------------
\* Time passes unless something is to happen first: a watchdog that is due, a
\* question at its limit, a teardown, a goroutine whose context ended.
Waits(c) ==
    /\ c.watch \in {"wait", "ask", "yes", "no", "ended"}
    /\ c.watch = "wait" => c.live /\ c.due > 0
    /\ c.watch \in {"ask", "yes", "no"} => c.asked < Timeout
    /\ c.tunnel = "granted" => c.granted < Timeout
    /\ c.tunnel # "ended" => c.live

\* Ages are kept while somebody reads them.
Aged(c) ==
    [c EXCEPT !.quiet   = IF c.watch = "ended" THEN 0 ELSE Older(@, LocalExpiry),
              !.barred  = IF c.live /\ c.ticket \notin valid THEN Older(@, Grace) ELSE 0,
              !.due     = IF c.watch = "ended" THEN 0 ELSE @ - 1,
              !.asked   = IF c.watch \in {"ask", "yes", "no"} THEN @ + 1 ELSE 0,
              !.granted = IF c.tunnel = "granted" THEN @ + 1 ELSE 0]

Tick ==
    /\ \A c \in Conns : Waits(conns[c])
    /\ conns' = [c \in Conns |-> Aged(conns[c])]
    /\ over' = [t \in Tickets |-> IF t \in valid THEN 0 ELSE Older(over[t], Timeout + TicketTTL)]
    /\ trusted' = [t \in Tickets |-> IF trusted[t] > 0 THEN trusted[t] - 1 ELSE 0]
    /\ UNCHANGED <<held, teardown, calls, valid>>

Goroutines(c) ==
    \/ RelayKnows(c) \/ RelayAsks(c) \/ RelayHears(c) \/ NoReply(c)
    \/ SessionFails(c) \/ TunnelEnds(c)
    \/ Ask(c) \/ WatchEnds(c) \/ RenewLease(c) \/ Renewed(c) \/ Refused(c) \/ Unanswered(c)
    \/ TearDown(c)

ServiceNext ==
    \/ \E q \in Callers : Open(q) \/ OpenFails(q)
    \/ \E c \in Conns : Goroutines(c)
    \/ Tick
--------------------------------------------------------------------------------
\* What is up of a connection: an adapter, or a tunnel with a context.
Up(t) == {c \in Conns : (conns[c].adapter \/ conns[c].live) /\ conns[c].ticket = t}

Promise == INSTANCE Network WITH Stays <- Tickets,
                                 net   <- [t \in Tickets |-> Cardinality(Up(t))],
                                 down  <- teardown

\* The agent keeps what Network promises: one room's network at a time, whatever
\* goroutines of earlier connections still do, and the reason of a teardown until
\* the next connect (agent_windows.go, connect: a player can never hold two rooms'
\* addresses at once).
ImplementsNetwork == Promise!NetworkSpec

\* A connection outlives the revocation of its ticket by no more than a question
\* that was answered just before, the local expiry and one more round of asking,
\* whatever answers are lost (lease.go, Run: it fails closed).
RevocationBites == \A c \in Conns : conns[c].barred <= Grace

\* A tunnel comes up with a revoked ticket only while the relay still trusts an
\* answer that was given before (validator.go: long enough that a restart does not
\* stall every handshake, short enough that a revoked ticket stops working).
NoLateHandshake ==
    [][ \A c \in Conns :
          conns[c].tunnel # "connected" /\ conns'[c].tunnel = "connected" =>
              \/ conns[c].ticket \in valid
              \/ over[conns[c].ticket] <= Timeout + TicketTTL ]_conns
=================================================================================
