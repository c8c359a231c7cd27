--------------------------------- MODULE Relay ---------------------------------
(* The relay's sessions (relay/internal/server/server.go) and its routing table  *)
(* (relay/internal/route).                                                      *)
(*                                                                              *)
(* Several reader goroutines take datagrams from one socket and handle each to  *)
(* the end; one more goroutine reaps silent peers.  A call of the table is      *)
(* atomic, so is one of the session map or of a queue; a handler is not:        *)
(* doing[q] is what q has yet to do.                                            *)
(*                                                                              *)
(* A ticket is its claims under a token.  A handshake here is one the Noise     *)
(* exchange and the validator accept; Open yields the packet or drops it.  What *)
(* the queues carry is left out: a push changes no session.                     *)
EXTENDS Ipam, FiniteSets

CONSTANTS
    Sessions,          \* session identifiers, each drawn at most once
    NoSession,
    NoPeer,
    Tickets,           \* records [Token, RoomID, VirtualIP]
    Strangers,         \* addresses packets may name beside those of tickets
    Readers, Reaper,
    AllowMulticast,    \* Config.AllowMulticast
    IdleTimeout,       \* Config.IdleTimeout
    MaxTime            \* bound: the clock stops there

Rooms     == {k.RoomID : k \in Tickets}
Addresses == {k.VirtualIP : k \in Tickets}
Actors    == Readers \union {Reaper}
Peers     == [VirtualIP : Addresses, RoomID : Rooms, lastSeen : Nat, open : BOOLEAN]

ASSUME RelayAssumption ==
    /\ NoSession \notin Sessions /\ NoPeer \notin Peers
    /\ Tickets \subseteq [Token : {k.Token : k \in Tickets}, RoomID : Rooms, VirtualIP : Addresses]
    /\ Reaper \notin Readers
    /\ AllowMulticast \in BOOLEAN
    /\ IdleTimeout \in Nat /\ MaxTime \in Nat

VARIABLES
    peers,      \* every Peer made so far, by its session; the table holds some
    bySess,     \* Table.bySess: the sessions in the table
    byIP,       \* Table.byIP: address -> session, or NoSession
    byRoom,     \* Table.byRoom: room -> sessions
    keys,       \* Server.sessions: the sessions with a crypto state
    writers,    \* the peers whose writer goroutine runs
    known,      \* the sessions a client was told of
    doing,      \* reader or reaper -> what it has yet to do
    now

tableVars == <<peers, bySess, byIP, byRoom>>
vars == <<tableVars, keys, writers, known, doing, now>>

Idle == [do |-> "nothing"]

Init ==
    /\ peers = [s \in Sessions |-> NoPeer]
    /\ bySess = {} /\ keys = {} /\ writers = {} /\ known = {}
    /\ byIP = [ip \in Addresses |-> NoSession]
    /\ byRoom = [r \in Rooms |-> {}]
    /\ doing = [q \in Actors |-> Idle]
    /\ now = 0

Begin(q, job)    == doing[q] = Idle /\ doing' = [doing EXCEPT ![q] = job]
Continue(q, job) == doing' = [doing EXCEPT ![q] = job]
Finish(q)        == Continue(q, Idle)
--------------------------------------------------------------------------------
(* The table *)

\* Mutant of TableAdd: the peer is made without its room.
TableAddRoomless(s, k) ==
    /\ peers' = [peers EXCEPT ![s] = [VirtualIP |-> k.VirtualIP, RoomID |-> "",
                                      lastSeen |-> now, open |-> TRUE]]
    /\ bySess' = bySess \union {s}
    /\ byIP' = [byIP EXCEPT ![k.VirtualIP] = s]
    /\ UNCHANGED byRoom

TableAdd(s, k) ==
    /\ peers' = [peers EXCEPT ![s] = [VirtualIP |-> k.VirtualIP, RoomID |-> k.RoomID,
                                      lastSeen |-> now, open |-> TRUE]]
    /\ bySess' = bySess \union {s}
    /\ byIP' = [byIP EXCEPT ![k.VirtualIP] = s]
    /\ byRoom' = [byRoom EXCEPT ![k.RoomID] = @ \union {s}]

\* Mutants of RemoveFromTable: the room keeps the session; the queue stays open.
RemoveKeepingRoom(s) ==
    /\ bySess' = bySess \ {s}
    /\ byIP' = [byIP EXCEPT ![peers[s].VirtualIP] = NoSession]
    /\ peers' = [peers EXCEPT ![s].open = FALSE]
    /\ UNCHANGED byRoom
RemoveLeavingQueue(s) ==
    /\ bySess' = bySess \ {s}
    /\ byIP' = [byIP EXCEPT ![peers[s].VirtualIP] = NoSession]
    /\ byRoom' = [byRoom EXCEPT ![peers[s].RoomID] = @ \ {s}]
    /\ UNCHANGED peers

\* RemoveBySession: the address goes whichever session it leads to.
RemoveFromTable(s) ==
    /\ bySess' = bySess \ {s}
    /\ byIP' = [byIP EXCEPT ![peers[s].VirtualIP] = NoSession]
    /\ byRoom' = [byRoom EXCEPT ![peers[s].RoomID] = @ \ {s}]
    /\ peers' = [peers EXCEPT ![s].open = FALSE]

Touch(s) == peers' = [peers EXCEPT ![s].lastSeen = now]

\* Mutant of Target: a lookup by address alone.
TargetAnywhere(dst, room) ==
    IF dst \in Addresses THEN byIP[dst] ELSE NoSession

\* ForwardTarget: the session behind an address, in the sender's room only.
Target(dst, room) ==
    IF dst \in Addresses /\ byIP[dst] # NoSession /\ peers[byIP[dst]].RoomID = room
    THEN byIP[dst] ELSE NoSession
--------------------------------------------------------------------------------
(* The routing decision *)

IsMulticastOrBroadcast(dst) ==
    dst[1] >= 224 \/ dst = <<255, 255, 255, 255>> \/ dst[4] % 16 = 15

Decide(sender, src, dst) ==
    IF src # sender.VirtualIP THEN "drop"
    ELSE IF IsMulticastOrBroadcast(dst)
    THEN IF AllowMulticast THEN "fanout" ELSE "drop"
    ELSE "forward"
--------------------------------------------------------------------------------
(* dropSession: RemoveBySession and the removed peer's Queue.Close are one step  *)
(* (only a writer sees the close, and it ends by it), Delete is another; then is *)
(* what its caller goes on with.                                                 *)

Dropping(s, then)   == [do |-> "remove", id |-> s, then |-> then]
Forgetting(s, then) == [do |-> "forget", id |-> s, then |-> then]

RemoveBySession(q) ==
    LET c == doing[q] IN
    /\ c.do = "remove"
    /\ IF c.id \in bySess THEN RemoveFromTable(c.id) ELSE UNCHANGED tableVars
    /\ Continue(q, Forgetting(c.id, c.then))
    /\ UNCHANGED <<keys, writers, known, now>>

ForgetKey(q) ==
    /\ doing[q].do = "forget"
    /\ keys' = keys \ {doing[q].id}
    /\ Continue(q, doing[q].then)
    /\ UNCHANGED <<tableVars, writers, known, now>>
--------------------------------------------------------------------------------
(* handleHandshake *)

\* Bound: a handshake starts only while there is a session left for it.
Handshaking ==
    {q \in Readers : \/ doing[q].do \in {"greet", "add"}
                     \/ doing[q].do \in {"remove", "forget"} /\ doing[q].then # Idle}
SessionLeft == Cardinality(Handshaking) < Cardinality({s \in Sessions : peers[s] = NoPeer})

HandshakeInit(q, k) ==
    /\ SessionLeft
    /\ Begin(q, [do |-> "greet", ticket |-> k])
    /\ UNCHANGED <<tableVars, keys, writers, known, now>>

\* Whoever holds the address so far is dropped first.
Greet(q) ==
    LET k == doing[q].ticket  old == byIP[k.VirtualIP]  adding == [do |-> "add", ticket |-> k]
    IN  /\ doing[q].do = "greet"
        /\ Continue(q, IF old = NoSession THEN adding ELSE Dropping(old, adding))
        /\ UNCHANGED <<tableVars, keys, writers, known, now>>

AddPeer(q) ==
    /\ doing[q].do = "add"
    /\ \E s \in Sessions :
          /\ peers[s] = NoPeer
          /\ TableAdd(s, doing[q].ticket)
          /\ Continue(q, [do |-> "store", id |-> s])
    /\ UNCHANGED <<keys, writers, known, now>>

StoreKey(q) ==
    /\ doing[q].do = "store"
    /\ keys' = keys \union {doing[q].id}
    /\ Continue(q, [do |-> "reply", id |-> doing[q].id])
    /\ UNCHANGED <<tableVars, writers, known, now>>

Reply(q) ==
    LET s == doing[q].id IN
    /\ doing[q].do = "reply"
    /\ known' = known \union {s}
    /\ writers' = writers \union {s}
    /\ Finish(q)
    /\ UNCHANGED <<tableVars, keys, now>>

ReplyFails(q) ==
    /\ doing[q].do = "reply"
    /\ Continue(q, Dropping(doing[q].id, Idle))
    /\ UNCHANGED <<tableVars, keys, writers, known, now>>

\* Pop answers ErrClosed to the peer's one writer.
WriterEnds(s) ==
    /\ s \in writers /\ ~ peers[s].open
    /\ writers' = writers \ {s}
    /\ UNCHANGED <<tableVars, keys, known, doing, now>>
--------------------------------------------------------------------------------
(* Packets of a session *)

\* Bound: one data packet is handled at a time; the handler only reads the table,
\* so two of them have nothing to disturb in each other.
PacketInHand == \E q \in Readers : doing[q].do \in {"open", "forward", "fanout", "push"}

\* handleData: SenderFor, then the session, then what the packet says.
DataIn(q, s) ==
    /\ ~ PacketInHand
    /\ s \in known \intersect bySess
    /\ Begin(q, [do |-> "open", from |-> s])
    /\ UNCHANGED <<tableVars, keys, writers, known, now>>

DropData(q) ==
    /\ doing[q].do = "open"
    /\ Finish(q)
    /\ UNCHANGED <<tableVars, keys, writers, known, now>>

OpenData(q, src, dst) ==
    LET s == doing[q].from  verdict == Decide(peers[s], src, dst) IN
    /\ doing[q].do = "open" /\ s \in keys
    /\ Touch(s)
    /\ Continue(q, CASE verdict = "drop"    -> Idle
                     [] verdict = "forward" -> [do |-> "forward", from |-> s, dst |-> dst]
                     [] verdict = "fanout"  -> [do |-> "fanout", from |-> s])
    /\ UNCHANGED <<bySess, byIP, byRoom, keys, writers, known, now>>

Pushing(from, to) == [do |-> "push", from |-> from, to |-> to]

Forward(q) ==
    LET c == doing[q]  t == Target(c.dst, peers[c.from].RoomID) IN
    /\ c.do = "forward"
    /\ Continue(q, IF t = NoSession THEN Idle ELSE Pushing(c.from, {t}))
    /\ UNCHANGED <<tableVars, keys, writers, known, now>>

Fanout(q) ==
    LET c == doing[q] IN
    /\ c.do = "fanout"
    /\ Continue(q, Pushing(c.from, byRoom[peers[c.from].RoomID] \ {c.from}))
    /\ UNCHANGED <<tableVars, keys, writers, known, now>>

Push(q) ==
    /\ doing[q].do = "push"
    /\ Finish(q)
    /\ UNCHANGED <<tableVars, keys, writers, known, now>>

Keepalive(q, s) ==
    /\ doing[q] = Idle
    /\ s \in known \intersect bySess
    /\ Touch(s)
    /\ UNCHANGED <<bySess, byIP, byRoom, keys, writers, known, doing, now>>

Disconnect(q, s) ==
    /\ s \in known
    /\ Begin(q, Dropping(s, Idle))
    /\ UNCHANGED <<tableVars, keys, writers, known, now>>
--------------------------------------------------------------------------------
(* The reaper and the clock *)

IdleSince(cutoff) == {s \in bySess : peers[s].lastSeen < cutoff}

\* Mutant of Reap: the pass ends without its drops.
ReapNobody ==
    /\ IdleSince(now - IdleTimeout) # {}
    /\ Begin(Reaper, [do |-> "reap", left |-> {}])
    /\ UNCHANGED <<tableVars, keys, writers, known, now>>

Reap ==
    /\ IdleSince(now - IdleTimeout) # {}
    /\ Begin(Reaper, [do |-> "reap", left |-> IdleSince(now - IdleTimeout)])
    /\ UNCHANGED <<tableVars, keys, writers, known, now>>

ReapNext ==
    LET left == doing[Reaper].left IN
    /\ doing[Reaper].do = "reap"
    /\ IF left = {} THEN Finish(Reaper)
       ELSE \E s \in left : Continue(Reaper, Dropping(s, [do |-> "reap", left |-> left \ {s}]))
    /\ UNCHANGED <<tableVars, keys, writers, known, now>>

\* Work in memory takes no time to speak of.
PassTime ==
    /\ now < MaxTime
    /\ \A q \in Actors : doing[q] = Idle
    /\ now' = now + 1
    /\ UNCHANGED <<tableVars, keys, writers, known, doing>>
--------------------------------------------------------------------------------
Resume(q) ==
    \/ RemoveBySession(q) \/ ForgetKey(q)
    \/ Greet(q) \/ AddPeer(q) \/ StoreKey(q) \/ Reply(q) \/ ReplyFails(q)
    \/ DropData(q) \/ Forward(q) \/ Fanout(q) \/ Push(q)
    \/ \E src \in Addresses, dst \in Addresses \union Strangers : OpenData(q, src, dst)

Next ==
    \/ \E q \in Readers :
          \/ \E k \in Tickets : HandshakeInit(q, k)
          \/ \E s \in Sessions : DataIn(q, s) \/ Keepalive(q, s) \/ Disconnect(q, s)
          \/ Resume(q)
    \/ Reap \/ ReapNext \/ RemoveBySession(Reaper) \/ ForgetKey(Reaper)
    \/ \E s \in Sessions : WriterEnds(s)
    \/ PassTime

Spec == Init /\ [][Next]_vars

\* Goroutines that can run do: readers, writers, and the reaper with its ticker.
FairSpec ==
    /\ Spec
    /\ \A q \in Readers : WF_vars(Resume(q))
    /\ \A s \in Sessions : WF_vars(WriterEnds(s))
    /\ WF_vars(Reap \/ ReapNext \/ RemoveBySession(Reaper) \/ ForgetKey(Reaper))
    /\ WF_vars(PassTime)
--------------------------------------------------------------------------------
\* The state has its type.
RelayTypeOK ==
    /\ peers \in [Sessions -> Peers \union {NoPeer}]
    /\ bySess \subseteq Sessions /\ keys \subseteq Sessions
    /\ writers \subseteq Sessions /\ known \subseteq Sessions
    /\ byIP \in [Addresses -> Sessions \union {NoSession}]
    /\ byRoom \in [Rooms -> SUBSET Sessions]
    /\ DOMAIN doing = Actors /\ now \in Nat

\* The three maps of the table agree, however handshakes, the reaper and
\* disconnects interleave: an address leads to a peer in the table that holds it,
\* and a room lists exactly its peers in the table (table.go).
TableAgrees ==
    /\ \A s \in bySess : peers[s] # NoPeer
    /\ \A ip \in Addresses : byIP[ip] # NoSession =>
          byIP[ip] \in bySess /\ peers[byIP[ip]].VirtualIP = ip
    /\ \A r \in Rooms : byRoom[r] = {s \in bySess : peers[s].RoomID = r}

\* A packet is queued only for peers of the sender's room, even when sender or
\* address were replaced since they were looked up (handleData, ForwardTarget).
RoomsAreIsolated ==
    \A q \in Readers : doing[q].do = "push" =>
        \A t \in doing[q].to : peers[t].RoomID = peers[doing[q].from].RoomID

\* A peer that left the table, replaced, reaped or gone, does not keep its writer
\* goroutine (server.go: goroutines scale with players).
WritersEnd == \A s \in Sessions : (s \in writers /\ s \notin bySess) ~> s \notin writers

\* A peer silent for longer than IdleTimeout is dropped, or heard again (reapIdle).
SilentPeersGo ==
    \A s \in Sessions : (s \in bySess /\ peers[s].lastSeen + IdleTimeout < now)
        ~> (s \notin bySess \/ peers[s].lastSeen + IdleTimeout >= now)
--------------------------------------------------------------------------------
(* What the comments say and the code does not do *)

\* server.go, handleHandshake: "Replace any previous session holding this virtual
\* IP": with nobody at work, a peer in the table can be reached at its address.
ReachableByAddress ==
    (\A q \in Actors : doing[q] = Idle) =>
        \A s \in bySess : byIP[peers[s].VirtualIP] # NoSession

\* decision.go: Decide forwards what one member of a room sends another; only
\* the last address of the block is the broadcast.
RoomMatesAreHeard ==
    \A s, t \in bySess : s # t /\ peers[s].RoomID = peers[t].RoomID =>
        Decide(peers[s], peers[s].VirtualIP, peers[t].VirtualIP) = "forward"
=================================================================================
