------------------------------ MODULE PacketPath -------------------------------
(* The way of a packet from the relay's readers to a player: the peer's queue   *)
(* (relay/internal/sendq), its one writer goroutine (server.go, writeLoop), the *)
(* network, and the receiving session's window (protocol/crypto).               *)
(*                                                                              *)
(* Packets are numbered as they are pushed.  What happens under the queue's     *)
(* mutex is one step; the wake-up sent after the unlock is another.  A datagram *)
(* may be lost, overtaken or delivered again.                                   *)
EXTENDS ReplayWindow, Sequences, Functions

CONSTANTS
    Pushers,       \* the goroutines that push
    Capacity,      \* New(capacity)
    MaxPackets     \* bound: packets pushed at most

ASSUME PathAssumption == Capacity \in Nat \ {0} /\ MaxPackets \in Nat

VARIABLES
    items,         \* Queue.items
    closed,        \* Queue.closed
    notify,        \* Queue.notify: whether its one place is taken
    waking,        \* who has unlocked the mutex and not yet sent the wake-up
    pushed,        \* packets pushed so far
    writer,        \* where writeLoop is: "pop", "wait", "write", "ended"
    inHand,        \* the packet Pop answered
    ctxDone,       \* the server's context is cancelled
    sent,          \* sent[n]: the packet sealed under sequence number n
    wire,          \* sequence numbers of datagrams on their way
    window,        \* the receiver's window
    received       \* sequence numbers the receiver accepted, in order

queueVars == <<items, closed, notify, waking, pushed>>
writeVars == <<writer, inHand, sent>>
vars == <<queueVars, writeVars, ctxDone, wire, window, received>>

Closer == "closer"

Init ==
    /\ items = <<>> /\ closed = FALSE /\ notify = FALSE /\ waking = {}
    /\ pushed = 0 /\ ctxDone = FALSE
    /\ writer = "pop" /\ inHand = 0 /\ sent = <<>>
    /\ wire = {} /\ window = Unused /\ received = <<>>
--------------------------------------------------------------------------------
(* The queue *)

\* Mutants of Queued: the newcomer takes the oldest one's place; nothing is given up.
QueuedAtTheFront(q, p) == IF Len(q) = Capacity THEN <<p>> \o Tail(q) ELSE Append(q, p)
QueuedUnbounded(q, p)  == Append(q, p)

Queued(q, p) == Append(IF Len(q) = Capacity THEN Tail(q) ELSE q, p)

\* A closed queue takes nothing.
Push(g) ==
    /\ g \notin waking /\ ~ closed
    /\ pushed < MaxPackets
    /\ pushed' = pushed + 1
    /\ items' = Queued(items, pushed + 1)
    /\ waking' = waking \union {g}
    /\ UNCHANGED <<closed, notify, writeVars, ctxDone, wire, window, received>>

\* Close, called once, by the dropSession that removed the peer.
Close ==
    /\ ~ closed
    /\ closed' = TRUE /\ items' = <<>>
    /\ waking' = waking \union {Closer}
    /\ UNCHANGED <<notify, pushed, writeVars, ctxDone, wire, window, received>>

\* Mutant of Wake: the wake-up never comes.
WakeNobody(g) ==
    /\ g \in waking
    /\ waking' = waking \ {g}
    /\ UNCHANGED <<items, closed, notify, pushed, writeVars, ctxDone, wire, window, received>>

\* A wake-up that is pending already stands for this one too.
Wake(g) ==
    /\ g \in waking
    /\ waking' = waking \ {g}
    /\ notify' = TRUE
    /\ UNCHANGED <<items, closed, pushed, writeVars, ctxDone, wire, window, received>>
--------------------------------------------------------------------------------
(* The writer: Pop, then Seal and the write to the socket *)

Pop ==
    /\ writer = "pop" /\ ~ closed /\ items # <<>>
    /\ inHand' = Head(items)
    /\ items' = Tail(items)
    /\ writer' = "write"
    /\ UNCHANGED <<closed, notify, waking, pushed, sent, ctxDone, wire, window, received>>

PopClosed ==
    /\ writer = "pop" /\ closed
    /\ writer' = "ended"
    /\ UNCHANGED <<queueVars, inHand, sent, ctxDone, wire, window, received>>

\* The mutex is free again before the writer waits.
PopNothing ==
    /\ writer = "pop" /\ ~ closed /\ items = <<>>
    /\ writer' = "wait"
    /\ UNCHANGED <<queueVars, inHand, sent, ctxDone, wire, window, received>>

Woken ==
    /\ writer = "wait" /\ notify
    /\ notify' = FALSE
    /\ writer' = "pop"
    /\ UNCHANGED <<items, closed, waking, pushed, inHand, sent, ctxDone, wire, window, received>>

Stopped ==
    /\ writer = "wait" /\ ctxDone
    /\ writer' = "ended"
    /\ UNCHANGED <<queueVars, inHand, sent, ctxDone, wire, window, received>>

\* A write that fails is a datagram lost.
Write ==
    /\ writer = "write"
    /\ sent' = Append(sent, inHand)
    /\ wire' = wire \union {Len(sent) + 1}
    /\ writer' = "pop"
    /\ UNCHANGED <<queueVars, inHand, ctxDone, window, received>>

Shutdown ==
    /\ ~ ctxDone
    /\ ctxDone' = TRUE
    /\ UNCHANGED <<queueVars, writeVars, wire, window, received>>
--------------------------------------------------------------------------------
(* The network, and Session.Open at the other end *)

Lose(n) ==
    /\ n \in wire
    /\ wire' = wire \ {n}
    /\ UNCHANGED <<queueVars, writeVars, ctxDone, window, received>>

\* The datagram arrives; a copy of it may still be on its way.
Open(n) ==
    /\ n \in wire
    /\ wire' \in {wire, wire \ {n}}
    /\ IF Accepts(window, n)
       THEN window' = Accepted(window, n) /\ received' = Append(received, n)
       ELSE UNCHANGED <<window, received>>
    /\ UNCHANGED <<queueVars, writeVars, ctxDone>>
--------------------------------------------------------------------------------
Writing == Pop \/ PopClosed \/ PopNothing \/ Woken \/ Stopped \/ Write

Next ==
    \/ \E g \in Pushers : Push(g)
    \/ \E g \in Pushers \union {Closer} : Wake(g)
    \/ Close \/ Shutdown
    \/ Pop \/ PopClosed \/ PopNothing \/ Woken \/ Stopped \/ Write
    \/ \E n \in wire : Lose(n) \/ Open(n)

PathSpec == Init /\ [][Next]_vars

\* Goroutines that can run do.
FairPathSpec ==
    /\ PathSpec
    /\ WF_vars(Writing)
    /\ \A g \in Pushers \union {Closer} : WF_vars(Wake(g))
--------------------------------------------------------------------------------
\* The state has its type.
PathTypeOK ==
    /\ items \in Seq(1 .. pushed) /\ Len(items) <= Capacity
    /\ closed \in BOOLEAN /\ notify \in BOOLEAN /\ ctxDone \in BOOLEAN
    /\ waking \subseteq Pushers \union {Closer}
    /\ pushed \in Nat /\ inHand \in 0 .. pushed
    /\ writer \in {"pop", "wait", "write", "ended"}
    /\ sent \in Seq(Nat)
    /\ wire \subseteq 1 .. Len(sent)
    /\ window \in Windows
    /\ received \in Seq(1 .. Len(sent))

\* A writer asleep beside a packet, or beside a closed queue, is about to be
\* woken: no wake-up is lost between the unlock and the wait (queue.go, Push, Pop).
NoLostWakeUp ==
    writer = "wait" /\ (items # <<>> \/ closed) => notify \/ waking # {}

\* What is queued are the last packets pushed, in the order of their pushes: only
\* the oldest is ever given up (queue.go: drop-oldest FIFO).
LatestInOrder ==
    \A i \in 1 .. Len(items) : items[i] = pushed - Len(items) + i

\* Packets leave in the order they were pushed, whatever was dropped between them
\* (queue.go: packet ordering per peer is preserved).
SentInOrder ==
    /\ \A i, j \in 1 .. Len(sent) : i < j => sent[i] < sent[j]
    /\ writer = "write" => \A i \in 1 .. Len(sent) : sent[i] < inHand

\* No datagram is taken twice, however often and late the network delivers it
\* (session.go, checkReplay).
ReceivedOnce == \A i, j \in 1 .. Len(received) : received[i] = received[j] => i = j

\* The window accepts exactly what it should: a number that was not accepted yet
\* and lies less than Window behind the highest one that was (session.go).
AcceptsExactly ==
    \A n \in 1 .. Len(sent) : Accepts(window, n) <=>
        /\ n \notin Range(received)
        /\ \A m \in Range(received) : m - n < Window

\* A queued packet is sent, given up or thrown away with its queue: it does not
\* stay behind while the server runs (queue.go).
QueuedMovesOn ==
    \A p \in 1 .. MaxPackets : (p \in Range(items)) ~> (p \notin Range(items) \/ ctxDone)
=================================================================================
