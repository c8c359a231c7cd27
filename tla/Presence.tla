-------------------------------- MODULE Presence -------------------------------
(* Who is here, and when they last were: player/registry.go, account/presence.go*)
(* and the goroutines of cmd/coordinator/main.go that sweep and copy it.        *)
(*                                                                              *)
(* The registry lives in the process; accounts.last_seen_at outlives it.  Every *)
(* call into the registry, the room store or the database is a step.            *)
EXTENDS People, Functions, FiniteSetsExt

CONSTANTS
    IdleWindow,     \* PlayerIdleWindow
    MaxTime,        \* bound: the clock
    MaxStarts       \* bound: starts of the process

ASSUME PresenceAssumption ==
    /\ IdleWindow \in Nat \ {0} /\ MaxTime \in Nat /\ MaxStarts \in Nat

VARIABLES
    players,     \* Registry.players: person -> LastSeen
    seated,      \* who sits in an open room
    entering,    \* who was recorded by a handler that is about to seat them
    sweep,       \* what runTimers has yet to do
    recorded,    \* accounts.last_seen_at: person -> time
    flush,       \* what flushPresence does, since when it asks, whom it was told
    gaps,        \* times between a flush's question and the move of its mark
    starts,      \* how often the process has started
    time

presenceVars == <<players, seated, entering, sweep, recorded, flush, gaps, starts, time>>

Waiting(since) == [do |-> "wait", since |-> since]

PresenceInit ==
    /\ players = <<>> /\ seated = {} /\ entering = {} /\ sweep = Idle
    /\ recorded = <<>> /\ flush = Waiting(0) /\ gaps = {}
    /\ starts = 1 /\ time = 0

\* Registry.Seen, SetInGame: the caller is here now.
Seen(p) == players' = Put(players, p, time)

\* sync and postChat.
Heartbeat(p) ==
    /\ Seen(p)
    /\ UNCHANGED <<seated, entering, sweep, recorded, flush, gaps, starts, time>>

\* createRoom, joinRoom and spectateRoom record the caller, then seat them.
Enter(p) ==
    /\ p \notin entering \union seated
    /\ entering' = entering \union {p} /\ Seen(p)
    /\ UNCHANGED <<seated, sweep, recorded, flush, gaps, starts, time>>

Sit(p) ==
    /\ p \in entering /\ entering' = entering \ {p}
    /\ seated' = seated \union {p}
    /\ UNCHANGED <<players, sweep, recorded, flush, gaps, starts, time>>

\* A departure, a kick, a refusal, or the end of the room.
Rise(p) ==
    /\ p \in seated \union entering
    /\ seated' = seated \ {p} /\ entering' = entering \ {p}
    /\ UNCHANGED <<players, sweep, recorded, flush, gaps, starts, time>>

\* runTimers reads the clock, then asks the room store who is seated,
AskSeated ==
    /\ sweep = Idle
    /\ sweep' = [do |-> "sweep", keep |-> seated, before |-> time - IdleWindow]
    /\ UNCHANGED <<players, seated, entering, recorded, flush, gaps, starts, time>>

\* Mutant of Sweep: nobody is kept.
SweepSeated ==
    /\ sweep # Idle /\ sweep' = Idle
    /\ players' = Restrict(players, {p \in DOMAIN players : players[p] >= sweep.before})
    /\ UNCHANGED <<seated, entering, recorded, flush, gaps, starts, time>>

\* then forgets everybody else it has not heard from in a while.
Sweep ==
    /\ sweep # Idle /\ sweep' = Idle
    /\ players' = Restrict(players, {p \in DOMAIN players :
                                       p \in sweep.keep \/ players[p] >= sweep.before})
    /\ UNCHANGED <<seated, entering, recorded, flush, gaps, starts, time>>

\* What a rail shows of somebody who is away: the later of what the registry and
\* the database say.
LastSeen(p) ==
    Max({f[p] : f \in {g \in {players, recorded} : p \in DOMAIN g}})

SeenSince(t) == Restrict(players, {p \in DOMAIN players : players[p] >= t})

\* Mutant of AskPresence: who was seen at the moment of the mark is left out.
AskPresenceAfter ==
    /\ flush.do = "wait"
    /\ flush' = [do |-> "mark", seen |-> SeenSince(flush.since + 1), asked |-> time]
    /\ UNCHANGED <<players, seated, entering, sweep, recorded, gaps, starts, time>>

\* flushPresence asks who was seen since its mark,
AskPresence ==
    /\ flush.do = "wait"
    /\ flush' = [do |-> "mark", seen |-> SeenSince(flush.since), asked |-> time]
    /\ UNCHANGED <<players, seated, entering, sweep, recorded, gaps, starts, time>>

\* moves the mark,
MarkPresence ==
    /\ flush.do = "mark"
    /\ flush' = [do |-> "record", seen |-> flush.seen, since |-> time]
    /\ gaps' = gaps \union (flush.asked .. time - 1)
    /\ UNCHANGED <<players, seated, entering, sweep, recorded, starts, time>>

\* and writes down what it was told.
RecordSeen ==
    /\ flush.do = "record"
    /\ recorded' = Over(flush.seen, recorded)
    /\ flush' = Waiting(flush.since)
    /\ UNCHANGED <<players, seated, entering, sweep, gaps, starts, time>>

\* A handler takes less time than it takes to be idle.
PassTime ==
    /\ time < MaxTime /\ time' = time + 1
    /\ \A p \in entering : time < players[p] + IdleWindow
    /\ UNCHANGED <<players, seated, entering, sweep, recorded, flush, gaps, starts>>

\* The process goes and starts again.
StartAgain ==
    /\ starts < MaxStarts /\ starts' = starts + 1
    /\ players' = <<>> /\ seated' = {} /\ entering' = {} /\ sweep' = Idle
    /\ flush' = Waiting(time)
    /\ UNCHANGED <<recorded, gaps, time>>

sweepPlayers == AskSeated \/ Sweep

flushPresence == AskPresence \/ MarkPresence \/ RecordSeen

PresenceNext ==
    \/ \E p \in Visitors : Heartbeat(p) \/ Enter(p) \/ Sit(p) \/ Rise(p)
    \/ sweepPlayers \/ flushPresence
    \/ PassTime \/ StartAgain

PresenceSpec == PresenceInit /\ [][PresenceNext]_presenceVars
--------------------------------------------------------------------------------
\* Times are times that were, and the database is never ahead of the registry
\* (api/social.go, withLastSeen: the database is always the coarser of the two).
PresenceTypeOK ==
    /\ DOMAIN players \subseteq Visitors /\ \A p \in DOMAIN players : players[p] \in 0 .. time
    /\ DOMAIN recorded \subseteq Visitors
    /\ \A p \in DOMAIN players : LastSeen(p) = players[p]

\* Who sits in an open room is in the registry, however long they have been
\* silent: forgetting them would blank their name on the others' screens
\* (registry.go, Sweep; main.go, runTimers).
SeatedAreKnown == seated \subseteq DOMAIN players

\* Between flushes, the database knows when each person in the registry was last
\* seen before the mark, unless that was while a flush had asked and had not yet
\* moved its mark (main.go, flushPresence).
FlushMissesOnlyTheGap ==
    flush.do = "wait" => \A p \in DOMAIN players :
        players[p] < flush.since =>
            \/ p \in DOMAIN recorded /\ recorded[p] = players[p]
            \/ players[p] \in gaps
=================================================================================
