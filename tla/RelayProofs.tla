------------------------------ MODULE RelayProofs ------------------------------
(* The relay's table agrees with itself and rooms stay apart, for any number of *)
(* readers, sessions, tickets and rooms.                                        *)
EXTENDS Relay, TLAPS

\* Made: a session some handshake made a peer for, in the table or gone from it.
Made(p, s) == s \in Sessions /\ p[s] \in Peers

\* What dropSession's caller may go on with.
GoesOn(j) ==
    /\ j.do \in {"nothing", "add", "reap"}
    /\ j.do = "add"  => j.ticket \in Tickets
    /\ j.do = "reap" => j.left \subseteq Sessions

\* What a handler in progress, or the reaper, holds of the peers p.
JobOK(j, p) ==
    /\ j.do \in {"greet", "add"} => j.ticket \in Tickets
    /\ j.do \in {"remove", "forget"} => j.id \in Sessions /\ GoesOn(j.then)
    /\ j.do \in {"store", "reply"} => j.id \in Sessions
    /\ j.do = "reap" => j.left \subseteq Sessions
    /\ j.do \in {"open", "forward", "fanout", "push"} => Made(p, j.from)
    /\ j.do = "push" => \A t \in j.to : Made(p, t) /\ p[t].RoomID = p[j.from].RoomID

\* The table and the handlers in progress: with this, a step keeps TableAgrees.
RelayInv ==
    /\ RelayTypeOK
    /\ TableAgrees
    /\ \A q \in Actors : JobOK(doing[q], peers)

\* Peers that were made stay made, in their room.
StillMade(p, pp) ==
    \A s \in Sessions : p[s] \in Peers => pp[s] \in Peers /\ pp[s].RoomID = p[s].RoomID
--------------------------------------------------------------------------------
\* What a handler holds stays good while others make, touch or close peers.
LEMMA JobKept ==
    ASSUME NEW j, NEW p, NEW pp, JobOK(j, p), StillMade(p, pp)
    PROVE  JobOK(j, pp)
  BY DEF JobOK, Made, StillMade

\* A ticket names a room and an address of the relay's.
LEMMA TicketTyped ==
    ASSUME NEW k \in Tickets
    PROVE  k.RoomID \in Rooms /\ k.VirtualIP \in Addresses
  BY DEF Rooms, Addresses

\* One actor's next job is good and the peers are kept: so are all jobs.
LEMMA JobsStep ==
    ASSUME RelayInv, NEW q \in Actors, NEW job, Continue(q, job),
           StillMade(peers, peers'), JobOK(job, peers')
    PROVE  \A r \in Actors : JobOK(doing'[r], peers')
<1> TAKE r \in Actors
<1>1. DOMAIN doing = Actors BY DEF RelayInv, RelayTypeOK
<1>2. CASE r = q
  <2>1. doing'[r] = job BY <1>1, <1>2 DEF Continue
  <2> QED BY <2>1
<1>3. CASE r # q
  <2>1. doing'[r] = doing[r] BY <1>1, <1>3 DEF Continue
  <2>2. JobOK(doing[r], peers) BY DEF RelayInv
  <2> QED BY <2>1, <2>2, JobKept
<1> QED BY <1>2, <1>3

\* The relay starts with an empty table and nobody at work.
LEMMA RelayInit == ASSUME RelayAssumption, Init PROVE RelayInv
<1>1. RelayTypeOK
  BY DEF Init, RelayTypeOK
<1>2. TableAgrees
  BY DEF Init, TableAgrees
<1>3. \A q \in Actors : JobOK(doing[q], peers)
  BY DEF Init, Idle, JobOK
<1> QED BY <1>1, <1>2, <1>3 DEF RelayInv

\* A step that leaves the table alone and gives one actor a good next job.
LEMMA OnlyJob ==
    ASSUME RelayInv, NEW q \in Actors, NEW job, Continue(q, job), JobOK(job, peers),
           UNCHANGED <<tableVars, now>>,
           keys' \subseteq Sessions, writers' \subseteq Sessions, known' \subseteq Sessions
    PROVE  RelayInv'
<1>1. RelayTypeOK'
  BY DEF RelayInv, RelayTypeOK, Continue, tableVars
<1>2. TableAgrees'
  BY DEF RelayInv, TableAgrees, tableVars
<1>3. \A r \in Actors : JobOK(doing'[r], peers')
  <2>1. StillMade(peers, peers') BY DEF StillMade, tableVars
  <2>2. JobOK(job, peers') BY DEF tableVars
  <2> QED BY <2>1, <2>2, JobsStep
<1> QED BY <1>1, <1>2, <1>3 DEF RelayInv

\* Adding a peer under a session nobody drew yet keeps the three maps in agreement.
LEMMA AddAgrees ==
    ASSUME RelayAssumption, RelayTypeOK, TableAgrees, NEW k \in Tickets,
           NEW s \in Sessions, peers[s] = NoPeer, TableAdd(s, k)
    PROVE  /\ TableAgrees' /\ StillMade(peers, peers')
           /\ peers' \in [Sessions -> Peers \union {NoPeer}]
           /\ bySess' \subseteq Sessions
           /\ byIP' \in [Addresses -> Sessions \union {NoSession}]
           /\ byRoom' \in [Rooms -> SUBSET Sessions]
<1> DEFINE new == [VirtualIP |-> k.VirtualIP, RoomID |-> k.RoomID,
                   lastSeen |-> now, open |-> TRUE]
<1>1. k.RoomID \in Rooms /\ k.VirtualIP \in Addresses BY TicketTyped
<1>2. new \in Peers BY <1>1 DEF Peers, RelayTypeOK
<1>3. peers' = [peers EXCEPT ![s] = new] /\ bySess' = bySess \union {s}
      /\ byIP' = [byIP EXCEPT ![k.VirtualIP] = s]
      /\ byRoom' = [byRoom EXCEPT ![k.RoomID] = @ \union {s}]
  BY DEF TableAdd
<1>4. s \notin bySess BY DEF TableAgrees
<1>5. /\ peers' \in [Sessions -> Peers \union {NoPeer}]
      /\ bySess' \subseteq Sessions
      /\ byIP' \in [Addresses -> Sessions \union {NoSession}]
      /\ byRoom' \in [Rooms -> SUBSET Sessions]
  BY <1>1, <1>2, <1>3 DEF RelayTypeOK
<1>6. peers'[s] = new /\ \A t \in Sessions : t # s => peers'[t] = peers[t]
  BY <1>3 DEF RelayTypeOK
<1>7. StillMade(peers, peers')
  BY <1>6 DEF StillMade, RelayAssumption
<1>8. ASSUME NEW t \in bySess' PROVE peers'[t] # NoPeer
  BY <1>2, <1>3, <1>6 DEF RelayAssumption, TableAgrees, RelayTypeOK
<1>9. ASSUME NEW ip \in Addresses, byIP'[ip] # NoSession
      PROVE  byIP'[ip] \in bySess' /\ peers'[byIP'[ip]].VirtualIP = ip
  <2>1. CASE ip = k.VirtualIP
    <3>1. byIP'[ip] = s BY <1>3, <2>1 DEF RelayTypeOK
    <3>2. new.VirtualIP = ip BY <2>1
    <3> QED BY <3>1, <3>2, <1>3, <1>6
  <2>2. CASE ip # k.VirtualIP
    <3>1. byIP'[ip] = byIP[ip] BY <1>3, <2>2 DEF RelayTypeOK
    <3>2. byIP[ip] \in bySess /\ peers[byIP[ip]].VirtualIP = ip
      BY <1>9, <3>1 DEF TableAgrees
    <3> QED BY <3>1, <3>2, <1>3, <1>4, <1>6 DEF RelayTypeOK
  <2> QED BY <2>1, <2>2
<1>10. ASSUME NEW r \in Rooms
       PROVE  byRoom'[r] = {t \in bySess' : peers'[t].RoomID = r}
  <2>1. byRoom[r] = {t \in bySess : peers[t].RoomID = r} BY DEF TableAgrees
  <2>2. \A t \in bySess : peers'[t] = peers[t] BY <1>4, <1>6 DEF RelayTypeOK
  <2>3. peers'[s].RoomID = k.RoomID BY <1>6
  <2>4. byRoom'[r] = IF r = k.RoomID THEN byRoom[r] \union {s} ELSE byRoom[r]
    BY <1>3 DEF RelayTypeOK
  <2> QED BY <1>3, <2>1, <2>2, <2>3, <2>4
<1> QED BY <1>5, <1>7, <1>8, <1>9, <1>10 DEF TableAgrees

\* Removing a session in the table keeps the three maps in agreement.
LEMMA RemoveAgrees ==
    ASSUME RelayAssumption, RelayTypeOK, TableAgrees,
           NEW s \in bySess, RemoveFromTable(s)
    PROVE  /\ TableAgrees' /\ StillMade(peers, peers')
           /\ peers' \in [Sessions -> Peers \union {NoPeer}]
           /\ bySess' \subseteq Sessions
           /\ byIP' \in [Addresses -> Sessions \union {NoSession}]
           /\ byRoom' \in [Rooms -> SUBSET Sessions]
<1>1. s \in Sessions /\ peers[s] \in Peers
  BY DEF RelayTypeOK, TableAgrees
<1>2. bySess' = bySess \ {s}
      /\ byIP' = [byIP EXCEPT ![peers[s].VirtualIP] = NoSession]
      /\ byRoom' = [byRoom EXCEPT ![peers[s].RoomID] = @ \ {s}]
      /\ peers' = [peers EXCEPT ![s].open = FALSE]
  BY DEF RemoveFromTable
<1>3. peers'[s] = [peers[s] EXCEPT !.open = FALSE]
      /\ \A t \in Sessions : t # s => peers'[t] = peers[t]
  BY <1>1, <1>2 DEF RelayTypeOK
<1>4. peers'[s] \in Peers /\ peers'[s].RoomID = peers[s].RoomID
  BY <1>1, <1>3 DEF Peers
<1>5. StillMade(peers, peers')
  BY <1>3, <1>4 DEF StillMade
<1>6. /\ peers' \in [Sessions -> Peers \union {NoPeer}]
      /\ bySess' \subseteq Sessions
      /\ byIP' \in [Addresses -> Sessions \union {NoSession}]
  <2>1. DOMAIN peers' = Sessions /\ peers' = [t \in Sessions |-> peers'[t]]
    BY <1>2 DEF RelayTypeOK
  <2>2. peers' \in [Sessions -> Peers \union {NoPeer}]
    BY <1>3, <1>4, <2>1 DEF RelayTypeOK
  <2> QED BY <1>2, <2>2 DEF RelayTypeOK
<1>7. byRoom' \in [Rooms -> SUBSET Sessions]
  BY <1>2 DEF RelayTypeOK
<1>8. ASSUME NEW t \in bySess' PROVE peers'[t] # NoPeer
  BY <1>2, <1>3 DEF TableAgrees, RelayTypeOK
<1>9. ASSUME NEW ip \in Addresses, byIP'[ip] # NoSession
      PROVE  byIP'[ip] \in bySess' /\ peers'[byIP'[ip]].VirtualIP = ip
  <2>1. ip # peers[s].VirtualIP /\ byIP'[ip] = byIP[ip]
    BY <1>2, <1>9 DEF RelayTypeOK
  <2>2. byIP[ip] \in bySess /\ peers[byIP[ip]].VirtualIP = ip
    BY <1>9, <2>1 DEF TableAgrees
  <2>3. byIP[ip] # s BY <2>1, <2>2
  <2> QED BY <1>2, <1>3, <2>1, <2>2, <2>3 DEF RelayTypeOK
<1>10. ASSUME NEW r \in Rooms
       PROVE  byRoom'[r] = {t \in bySess' : peers'[t].RoomID = r}
  <2>1. byRoom[r] = {t \in bySess : peers[t].RoomID = r} BY DEF TableAgrees
  <2>2. \A t \in bySess' : t # s /\ peers'[t] = peers[t] BY <1>2, <1>3 DEF RelayTypeOK
  <2>3. byRoom'[r] = IF r = peers[s].RoomID THEN byRoom[r] \ {s} ELSE byRoom[r]
    BY <1>2 DEF RelayTypeOK
  <2> QED BY <1>2, <2>1, <2>2, <2>3
<1> QED BY <1>5, <1>6, <1>7, <1>8, <1>9, <1>10 DEF TableAgrees

\* Hearing from a peer keeps who and where it is.
LEMMA TouchAgrees ==
    ASSUME RelayAssumption, RelayTypeOK, TableAgrees,
           NEW s \in Sessions, peers[s] \in Peers, Touch(s),
           UNCHANGED <<bySess, byIP, byRoom>>
    PROVE  /\ TableAgrees' /\ StillMade(peers, peers')
           /\ peers' \in [Sessions -> Peers \union {NoPeer}]
<1>1. peers'[s] = [peers[s] EXCEPT !.lastSeen = now]
      /\ \A t \in Sessions : t # s => peers'[t] = peers[t]
  BY DEF Touch, RelayTypeOK
<1>2. peers'[s] \in Peers /\ peers'[s].RoomID = peers[s].RoomID
      /\ peers'[s].VirtualIP = peers[s].VirtualIP
  BY <1>1 DEF Peers, RelayTypeOK
<1>3. peers' \in [Sessions -> Peers \union {NoPeer}]
  <2>1. DOMAIN peers' = Sessions /\ peers' = [t \in Sessions |-> peers'[t]]
    BY DEF Touch, RelayTypeOK
  <2> QED BY <1>1, <1>2, <2>1 DEF RelayTypeOK
<1>4. StillMade(peers, peers')
  BY <1>1, <1>2 DEF StillMade
<1>5. \A t \in bySess : /\ peers'[t].RoomID = peers[t].RoomID
                         /\ peers'[t].VirtualIP = peers[t].VirtualIP
                         /\ peers'[t] # NoPeer
  BY <1>1, <1>2 DEF RelayTypeOK, TableAgrees, RelayAssumption
<1>6. \A r \in Rooms : {t \in bySess : peers[t].RoomID = r}
                     = {t \in bySess : peers'[t].RoomID = r}
  BY <1>5
<1>7. TableAgrees'
  BY <1>5, <1>6 DEF TableAgrees
<1> QED BY <1>3, <1>4, <1>7
--------------------------------------------------------------------------------
\* Every step of the relay keeps the invariant.
LEMMA RelayNext == ASSUME RelayAssumption, RelayInv, [Next]_vars PROVE RelayInv'
<1> USE DEF Actors
<1>a. RelayTypeOK /\ TableAgrees /\ \A q \in Actors : JobOK(doing[q], peers)
  BY DEF RelayInv
<1>1. ASSUME NEW q \in Readers, NEW k \in Tickets, HandshakeInit(q, k) PROVE RelayInv'
  <2>1. JobOK([do |-> "greet", ticket |-> k], peers) BY DEF JobOK
  <2> QED BY <1>1, <1>a, <2>1, OnlyJob DEF HandshakeInit, Begin, Continue, RelayTypeOK
<1>2. ASSUME NEW q \in Readers, Greet(q) PROVE RelayInv'
  <2> DEFINE k == doing[q].ticket
             old == byIP[k.VirtualIP]
             adding == [do |-> "add", ticket |-> k]
  <2>1. k \in Tickets BY <1>2, <1>a DEF Greet, JobOK
  <2>2. JobOK(adding, peers) /\ GoesOn(adding) BY <2>1 DEF JobOK, GoesOn
  <2>3. old \in Sessions \union {NoSession} BY <1>a, <2>1, TicketTyped DEF RelayTypeOK
  <2>4. old # NoSession => JobOK(Dropping(old, adding), peers)
    BY <2>2, <2>3 DEF JobOK, Dropping
  <2>5. JobOK(IF old = NoSession THEN adding ELSE Dropping(old, adding), peers)
    BY <2>2, <2>4
  <2>6. Continue(q, IF old = NoSession THEN adding ELSE Dropping(old, adding))
    BY <1>2 DEF Greet
  <2> HIDE DEF adding, old, k
  <2> QED BY <1>2, <1>a, <2>5, <2>6, OnlyJob DEF Greet, RelayTypeOK
<1>3. ASSUME NEW q \in Readers, AddPeer(q) PROVE RelayInv'
  <2>1. PICK s \in Sessions : /\ peers[s] = NoPeer
                             /\ TableAdd(s, doing[q].ticket)
                             /\ Continue(q, [do |-> "store", id |-> s])
    BY <1>3 DEF AddPeer
  <2>2. doing[q].ticket \in Tickets BY <1>3, <1>a DEF AddPeer, JobOK
  <2>3. JobOK([do |-> "store", id |-> s], peers') BY DEF JobOK
  <2>4. TableAgrees' /\ StillMade(peers, peers') BY <1>a, <2>1, <2>2, AddAgrees
  <2>5. \A r \in Actors : JobOK(doing'[r], peers') BY <2>1, <2>3, <2>4, JobsStep
  <2>6. RelayTypeOK'
    BY <1>3, <1>a, <2>1, <2>2, AddAgrees DEF RelayTypeOK, AddPeer, Continue
  <2> QED BY <2>4, <2>5, <2>6 DEF RelayInv
<1>4. ASSUME NEW q \in Actors, RemoveBySession(q) PROVE RelayInv'
  <2> DEFINE c == doing[q]
  <2>1. c.do = "remove" /\ c.id \in Sessions /\ GoesOn(c.then)
    BY <1>4, <1>a DEF RemoveBySession, JobOK
  <2>2. \A p : JobOK(Forgetting(c.id, c.then), p) BY <2>1 DEF JobOK, Forgetting
  <2>3. Continue(q, Forgetting(c.id, c.then)) /\ UNCHANGED <<keys, writers, known, now>>
    BY <1>4 DEF RemoveBySession
  <2>4. CASE c.id \in bySess
    <3>1. RemoveFromTable(c.id) BY <1>4, <2>4 DEF RemoveBySession
    <3>2. TableAgrees' /\ StillMade(peers, peers') BY <1>a, <2>4, <3>1, RemoveAgrees
    <3>3. \A r \in Actors : JobOK(doing'[r], peers') BY <2>2, <2>3, <3>2, JobsStep
    <3>4. RelayTypeOK'
      BY <1>a, <2>3, <2>4, <3>1, RemoveAgrees DEF RelayTypeOK, Continue
    <3> QED BY <3>2, <3>3, <3>4 DEF RelayInv
  <2>5. CASE c.id \notin bySess
    <3>1. UNCHANGED tableVars BY <1>4, <2>5 DEF RemoveBySession
    <3> QED BY <1>a, <2>2, <2>3, <3>1, OnlyJob DEF RelayTypeOK
  <2> QED BY <2>4, <2>5
<1>5. ASSUME NEW q \in Actors, ForgetKey(q) PROVE RelayInv'
  <2>1. GoesOn(doing[q].then) BY <1>5, <1>a DEF ForgetKey, JobOK
  <2>2. JobOK(doing[q].then, peers) BY <2>1 DEF GoesOn, JobOK
  <2> QED BY <1>5, <1>a, <2>2, OnlyJob DEF ForgetKey, RelayTypeOK
<1>6. ASSUME NEW q \in Readers, StoreKey(q) PROVE RelayInv'
  <2>1. doing[q].id \in Sessions BY <1>6, <1>a DEF StoreKey, JobOK
  <2>2. JobOK([do |-> "reply", id |-> doing[q].id], peers) BY <2>1 DEF JobOK
  <2> QED BY <1>6, <1>a, <2>1, <2>2, OnlyJob DEF StoreKey, RelayTypeOK
<1>7. ASSUME NEW q \in Readers, Reply(q) PROVE RelayInv'
  <2>1. doing[q].id \in Sessions BY <1>7, <1>a DEF Reply, JobOK
  <2>2. JobOK(Idle, peers) BY DEF JobOK, Idle
  <2> QED BY <1>7, <1>a, <2>1, <2>2, OnlyJob DEF Reply, Finish, RelayTypeOK
<1>8. ASSUME NEW q \in Readers, ReplyFails(q) PROVE RelayInv'
  <2>1. doing[q].id \in Sessions BY <1>8, <1>a DEF ReplyFails, JobOK
  <2>2. JobOK(Dropping(doing[q].id, Idle), peers) BY <2>1 DEF JobOK, Dropping, GoesOn, Idle
  <2> QED BY <1>8, <1>a, <2>2, OnlyJob DEF ReplyFails, RelayTypeOK
<1>9. ASSUME NEW s \in Sessions, WriterEnds(s) PROVE RelayInv'
  <2>1. UNCHANGED <<tableVars, keys, known, doing, now>> /\ writers' \subseteq Sessions
    BY <1>9, <1>a DEF WriterEnds, RelayTypeOK
  <2>2. RelayTypeOK' /\ TableAgrees' BY <1>a, <2>1 DEF RelayTypeOK, TableAgrees, tableVars
  <2> QED BY <1>a, <2>1, <2>2 DEF RelayInv, tableVars
<1>10. ASSUME NEW q \in Readers, NEW s \in Sessions, DataIn(q, s) PROVE RelayInv'
  <2>1. Made(peers, s) BY <1>10, <1>a DEF DataIn, Made, RelayTypeOK, TableAgrees
  <2>2. JobOK([do |-> "open", from |-> s], peers) BY <2>1 DEF JobOK
  <2> QED BY <1>10, <1>a, <2>2, OnlyJob DEF DataIn, Begin, Continue, RelayTypeOK
<1>11. ASSUME NEW q \in Readers, DropData(q) PROVE RelayInv'
  <2>1. JobOK(Idle, peers) BY DEF JobOK, Idle
  <2> QED BY <1>11, <1>a, <2>1, OnlyJob DEF DropData, Finish, RelayTypeOK
<1>12. ASSUME NEW q \in Readers, NEW src, NEW dst, OpenData(q, src, dst) PROVE RelayInv'
  <2> DEFINE s == doing[q].from
             verdict == Decide(peers[s], src, dst)
             next == CASE verdict = "drop"    -> Idle
                       [] verdict = "forward" -> [do |-> "forward", from |-> s, dst |-> dst]
                       [] verdict = "fanout"  -> [do |-> "fanout", from |-> s]
  <2>1. Made(peers, s) BY <1>12, <1>a DEF OpenData, JobOK
  <2>2. Touch(s) /\ Continue(q, next)
        /\ UNCHANGED <<bySess, byIP, byRoom, keys, writers, known, now>>
    BY <1>12 DEF OpenData
  <2>3. TableAgrees' /\ StillMade(peers, peers')
        /\ peers' \in [Sessions -> Peers \union {NoPeer}]
    BY <1>a, <2>1, <2>2, TouchAgrees DEF Made
  <2>4. Made(peers', s) BY <2>1, <2>3 DEF Made, StillMade
  <2>5. verdict \in {"drop", "forward", "fanout"} BY DEF Decide
  <2>6. JobOK(next, peers')
    <3>1. JobOK(Idle, peers') BY DEF JobOK, Idle
    <3>2. JobOK([do |-> "forward", from |-> s, dst |-> dst], peers') BY <2>4 DEF JobOK
    <3>3. JobOK([do |-> "fanout", from |-> s], peers') BY <2>4 DEF JobOK
    <3> HIDE DEF verdict, s
    <3> QED BY <2>5, <3>1, <3>2, <3>3
  <2> HIDE DEF next, s
  <2>7. \A r \in Actors : JobOK(doing'[r], peers') BY <2>2, <2>3, <2>6, JobsStep
  <2>8. RelayTypeOK' BY <1>a, <2>2, <2>3 DEF RelayTypeOK, Continue
  <2> QED BY <2>3, <2>7, <2>8 DEF RelayInv
<1>13. ASSUME NEW q \in Readers, Forward(q) PROVE RelayInv'
  <2> DEFINE c == doing[q]
             t == Target(c.dst, peers[c.from].RoomID)
  <2>1. Made(peers, c.from) BY <1>13, <1>a DEF Forward, JobOK
  <2>2. JobOK(Idle, peers) BY DEF JobOK, Idle
  <2>3. ASSUME t # NoSession PROVE JobOK(Pushing(c.from, {t}), peers)
    <3>1. c.dst \in Addresses /\ byIP[c.dst] # NoSession /\ t = byIP[c.dst]
          /\ peers[t].RoomID = peers[c.from].RoomID
      BY <2>3 DEF Target
    <3>2. Made(peers, t) BY <1>a, <3>1 DEF Made, RelayTypeOK, TableAgrees
    <3> HIDE DEF t
    <3> QED BY <2>1, <3>1, <3>2 DEF JobOK, Pushing
  <2>4. JobOK(IF t = NoSession THEN Idle ELSE Pushing(c.from, {t}), peers)
    BY <2>2, <2>3
  <2>5. Continue(q, IF t = NoSession THEN Idle ELSE Pushing(c.from, {t}))
    BY <1>13 DEF Forward
  <2> HIDE DEF t, c
  <2> QED BY <1>13, <1>a, <2>4, <2>5, OnlyJob DEF Forward, RelayTypeOK
<1>14. ASSUME NEW q \in Readers, Fanout(q) PROVE RelayInv'
  <2> DEFINE c == doing[q]
             others == byRoom[peers[c.from].RoomID] \ {c.from}
  <2>1. Made(peers, c.from) BY <1>14, <1>a DEF Fanout, JobOK
  <2>2. peers[c.from].RoomID \in Rooms BY <2>1 DEF Made, Peers
  <2>3. \A t \in others : Made(peers, t) /\ peers[t].RoomID = peers[c.from].RoomID
    BY <1>a, <2>2 DEF Made, RelayTypeOK, TableAgrees
  <2> HIDE DEF others
  <2>4. JobOK(Pushing(c.from, others), peers) BY <2>1, <2>3 DEF JobOK, Pushing
  <2>5. Continue(q, Pushing(c.from, others)) BY <1>14 DEF Fanout, others
  <2> HIDE DEF c
  <2> QED BY <1>14, <1>a, <2>4, <2>5, OnlyJob DEF Fanout, RelayTypeOK
<1>15. ASSUME NEW q \in Readers, Push(q) PROVE RelayInv'
  <2>1. JobOK(Idle, peers) BY DEF JobOK, Idle
  <2> QED BY <1>15, <1>a, <2>1, OnlyJob DEF Push, Finish, RelayTypeOK
<1>16. ASSUME NEW q \in Readers, NEW s \in Sessions, Keepalive(q, s) PROVE RelayInv'
  <2>1. peers[s] \in Peers BY <1>16, <1>a DEF Keepalive, RelayTypeOK, TableAgrees
  <2>2. TableAgrees' /\ StillMade(peers, peers')
        /\ peers' \in [Sessions -> Peers \union {NoPeer}]
    BY <1>16, <1>a, <2>1, TouchAgrees DEF Keepalive
  <2>3. \A r \in Actors : JobOK(doing'[r], peers')
    BY <1>16, <1>a, <2>2, JobKept DEF Keepalive
  <2>4. RelayTypeOK' BY <1>16, <1>a, <2>2 DEF RelayTypeOK, Keepalive
  <2> QED BY <2>2, <2>3, <2>4 DEF RelayInv
<1>17. ASSUME NEW q \in Readers, NEW s \in Sessions, Disconnect(q, s) PROVE RelayInv'
  <2>1. JobOK(Dropping(s, Idle), peers) BY DEF JobOK, Dropping, GoesOn, Idle
  <2> QED BY <1>17, <1>a, <2>1, OnlyJob DEF Disconnect, Begin, Continue, RelayTypeOK
<1>18. ASSUME Reap PROVE RelayInv'
  <2> DEFINE silent == IdleSince(now - IdleTimeout)
  <2>1. silent \subseteq Sessions BY <1>a DEF IdleSince, RelayTypeOK
  <2> HIDE DEF silent
  <2>2. JobOK([do |-> "reap", left |-> silent], peers) BY <2>1 DEF JobOK
  <2>3. Continue(Reaper, [do |-> "reap", left |-> silent])
    BY <1>18 DEF Reap, Begin, Continue, silent
  <2> QED BY <1>18, <1>a, <2>2, <2>3, OnlyJob DEF Reap, RelayTypeOK
<1>19. ASSUME ReapNext PROVE RelayInv'
  <2> DEFINE left == doing[Reaper].left
  <2>1. left \subseteq Sessions BY <1>19, <1>a DEF ReapNext, JobOK
  <2>2. CASE left = {}
    <3>1. JobOK(Idle, peers) BY DEF JobOK, Idle
    <3> QED BY <1>19, <1>a, <2>2, <3>1, OnlyJob DEF ReapNext, Finish, RelayTypeOK
  <2>3. CASE left # {}
    <3>1. PICK s \in left :
             Continue(Reaper, Dropping(s, [do |-> "reap", left |-> left \ {s}]))
      BY <1>19, <2>3 DEF ReapNext
    <3>2. JobOK(Dropping(s, [do |-> "reap", left |-> left \ {s}]), peers)
      BY <2>1 DEF JobOK, Dropping, GoesOn
    <3> QED BY <1>19, <1>a, <3>1, <3>2, OnlyJob DEF ReapNext, RelayTypeOK
  <2> QED BY <2>2, <2>3
<1>20. ASSUME PassTime PROVE RelayInv'
  <2>1. UNCHANGED <<tableVars, keys, writers, known, doing>> /\ now' = now + 1
    BY <1>20 DEF PassTime
  <2>2. RelayTypeOK' /\ TableAgrees' BY <1>a, <2>1 DEF RelayTypeOK, TableAgrees, tableVars
  <2> QED BY <1>a, <2>1, <2>2 DEF RelayInv, tableVars
<1>21. CASE UNCHANGED vars
  <2>1. UNCHANGED <<tableVars, keys, writers, known, doing, now>> BY <1>21 DEF vars
  <2>2. RelayTypeOK' /\ TableAgrees' BY <1>a, <2>1 DEF RelayTypeOK, TableAgrees, tableVars
  <2> QED BY <1>a, <2>1, <2>2 DEF RelayInv, tableVars
<1>22. ASSUME NEW q \in Readers, Resume(q) PROVE RelayInv'
  BY <1>22, <1>2, <1>3, <1>4, <1>5, <1>6, <1>7, <1>8, <1>11, <1>12, <1>13, <1>14, <1>15
  DEF Resume
<1> QED
  BY <1>1, <1>4, <1>5, <1>9, <1>10, <1>16, <1>17, <1>18, <1>19, <1>20, <1>21, <1>22 DEF Next
--------------------------------------------------------------------------------
\* The invariant holds throughout (server.go, table.go), for any number of readers,
\* sessions and rooms.
THEOREM RelayInvariant == Spec => []RelayInv
<1>1. Init => RelayInv BY RelayInit, RelayAssumption
<1>2. RelayInv /\ [Next]_vars => RelayInv' BY RelayNext, RelayAssumption
<1> QED BY <1>1, <1>2, PTL DEF Spec

\* The relay's state has its type (server.go: Server; table.go: Table).
THEOREM RelayTypeCorrect == Spec => []RelayTypeOK
<1>1. RelayInv => RelayTypeOK BY DEF RelayInv
<1> QED BY <1>1, RelayInvariant, PTL

\* The table's three maps agree, whoever adds and removes at once (table.go).
THEOREM TableAlwaysAgrees == Spec => []TableAgrees
<1>1. RelayInv => TableAgrees BY DEF RelayInv
<1> QED BY <1>1, RelayInvariant, PTL

\* No packet leaves its sender's room (ForwardTarget, RoomMembers).
THEOREM RoomsAlwaysIsolated == Spec => []RoomsAreIsolated
<1>1. RelayInv => RoomsAreIsolated
  BY DEF RelayInv, RoomsAreIsolated, JobOK, Actors
<1> QED BY <1>1, RelayInvariant, PTL
================================================================================
