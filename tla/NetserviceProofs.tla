---------------------------- MODULE NetserviceProofs ---------------------------
(* Proofs about the Windows service, for any number of tickets, connections and *)
(* callers and whatever the timeouts.  What concerns the relay's answers holds  *)
(* of any number of callers; what concerns the watchdog and the one network at  *)
(* a time is proved of one caller of the pipe: with two, overlapping connects   *)
(* leave a connection behind that the agent no longer holds.                    *)
EXTENDS MCClient, FiniteSetTheorems, TLAPS

OneCaller == \A q1, q2 \in Callers : q1 = q2

Asking == {"ask", "yes", "no"}

Conn ==
    [adapter : BOOLEAN, live : BOOLEAN, ticket : 0 .. given,
     tunnel : {"connecting", "granted", "connected", "ended"},
     watch : Asking \union Reasons \union {"wait", "ended"},
     quiet : Nat, due : 0 .. Interval, asked : 0 .. Timeout, granted : 0 .. Timeout,
     barred : Nat]

\* A connection with something at work is for a ticket, the ticker's next tick
\* is one interval after the question that is out, and a ticket on its way as
\* valid to the relay was revoked no longer ago than it has been on its way.
ConnOK(r) ==
    /\ r \in Conn
    /\ r.live \/ r.tunnel # "ended" => r.ticket # None
    /\ r.watch \in Asking => r.due + r.asked = Interval
    /\ r.tunnel = "granted" => over[r.ticket] <= r.granted

\* The relay trusts no answer beyond its time.
TrustOK(t) ==
    /\ over[t] \in Nat /\ trusted[t] \in Nat
    /\ t \in valid => over[t] = 0
    /\ trusted[t] > 0 => over[t] + trusted[t] <= Timeout + TicketTTL

ServiceInv ==
    /\ given \in Nat /\ 1 .. given \subseteq Tickets /\ valid \subseteq 1 .. given
    /\ conns \in [Conns -> Conn] /\ calls \in [Callers -> 0 .. given]
    /\ over \in [Tickets -> Nat] /\ trusted \in [Tickets -> Nat]
    /\ held \in Conns \union {None}
    /\ \A c \in Conns : ConnOK(conns[c])
    /\ \A t \in Tickets : TrustOK(t)

\* What is left until a watchdog whose lease has expired gives up: the ticks to
\* its next question, and that question.
Until(r) == IF r.watch = "wait"        THEN r.due + Timeout
            ELSE IF r.watch \in Asking THEN Timeout - r.asked
            ELSE 0

\* A connection counts as barred only while its ticket is revoked, for no longer
\* than Grace, and a yes that is on its way is at least as old as the revocation.
BarredOK(r) ==
    /\ r.barred <= Grace
    /\ r.barred > 0 => r.ticket \notin valid
    /\ r.watch = "yes" => r.barred <= r.asked

\* A lease that runs was renewed with a yes that was true at most a question ago;
\* one that has run out goes on for the rest of the round of asking.
LeaseOK(r) ==
    /\ r.watch # "ended"
    /\ r.quiet <= LocalExpiry => r.barred <= Timeout + r.quiet
    /\ r.quiet > LocalExpiry => r.barred + Until(r) <= Grace

WatchOK(r) == BarredOK(r) /\ (r.live => LeaseOK(r))

\* The agent holds the one connection there is something of, and none while it
\* connects.
HeldOK ==
    /\ \A c \in Conns : (conns[c].live <=> held = c) /\ (conns[c].adapter <=> held = c)
    /\ \A q \in Callers : calls[q] # None => held = None

WatchInv ==
    /\ HeldOK
    /\ \A c \in Conns : WatchOK(conns[c])
--------------------------------------------------------------------------------
(* Steps of one connection *)

LEMMA UnusedIsOK ==
    ASSUME ServiceInv
    PROVE  ConnOK(Unused) /\ WatchOK(Unused)
<1>1. Interval \in Nat /\ LocalExpiry \in Nat /\ Timeout \in Nat
  BY NetserviceAssumption
<1>2. given \in Nat
  BY DEF ServiceInv
<1> QED
  BY <1>1, <1>2 DEF ConnOK, WatchOK, BarredOK, LeaseOK, Conn, Unused, Asking, Grace, Reasons, None

\* A step of one connection keeps the invariant if it leaves that connection sound.
LEMMA ConnStep ==
    ASSUME ServiceInv, UNCHANGED <<held, calls, valid, over, given>>,
           trusted' \in [Tickets -> Nat], \A t \in Tickets : TrustOK(t)',
           NEW c \in Conns, NEW new, ConnOK(new), Changed(c, new)
    PROVE  ServiceInv'
<1>1. ConnOK(Settled(new))
  BY UnusedIsOK DEF Settled
<1>2. conns' = [conns EXCEPT ![c] = Settled(new)]
  BY DEF Changed
<1> DEFINE s == Settled(new)
<1>3. ConnOK(s) /\ s \in Conn
  BY <1>1 DEF ConnOK
<1> HIDE DEF s
<1>4. Conn' = Conn
  BY DEF Conn
<1>5. conns' \in [Conns -> Conn] /\ conns'[c] = s /\ \A k \in Conns \ {c} : conns'[k] = conns[k]
  BY <1>2, <1>3 DEF ServiceInv, s
<1>6. \A k \in Conns : ConnOK(conns'[k])
  BY <1>3, <1>5 DEF ServiceInv
<1>7. \A k \in Conns : ConnOK(conns[k])'
  BY <1>4, <1>6 DEF ConnOK
<1> QED
  BY <1>4, <1>5, <1>7 DEF ServiceInv

\* And so for the watchdogs, if the connection stays as much up as it was.
LEMMA WatchStep ==
    ASSUME ServiceInv, WatchInv, UNCHANGED <<held, calls, valid, given>>,
           NEW c \in Conns, NEW new, WatchOK(new), Changed(c, new),
           new.live = conns[c].live, new.adapter = conns[c].adapter
    PROVE  WatchInv'
<1> DEFINE s == Settled(new)
<1>1. WatchOK(s)
  BY UnusedIsOK DEF Settled
<1>2. s.live = new.live /\ s.adapter = new.adapter
  <2>1. CASE new.live \/ new.adapter \/ new.tunnel # "ended" \/ new.watch # "ended"
    BY <2>1 DEF Settled
  <2>2. CASE ~ (new.live \/ new.adapter \/ new.tunnel # "ended" \/ new.watch # "ended")
    <3>1. new.live \in BOOLEAN /\ new.adapter \in BOOLEAN
      <4>1. conns[c] \in Conn
        BY DEF ServiceInv
      <4> QED
        BY <4>1 DEF Conn
    <3> QED
      BY <2>2, <3>1 DEF Settled, Unused
  <2> QED
    BY <2>1, <2>2
<1>3. conns' = [conns EXCEPT ![c] = s]
  BY DEF Changed
<1> HIDE DEF s
<1>4. conns'[c] = s /\ \A k \in Conns \ {c} : conns'[k] = conns[k]
  BY <1>3 DEF ServiceInv
<1>5. \A k \in Conns : WatchOK(conns'[k])
  BY <1>1, <1>4 DEF WatchInv
<1>6. \A k \in Conns : WatchOK(conns[k])'
  BY <1>5 DEF WatchOK, BarredOK, LeaseOK
<1>7. HeldOK'
  <2>1. \A k \in Conns : conns'[k].live = conns[k].live /\ conns'[k].adapter = conns[k].adapter
    BY <1>2, <1>4
  <2> QED
    BY <2>1 DEF WatchInv, HeldOK
<1> QED
  BY <1>6, <1>7 DEF WatchInv
--------------------------------------------------------------------------------
(* The steps, as far as the relay's answers are concerned *)

LEMMA TunnelKeeps ==
    ASSUME ServiceInv, UNCHANGED given, NEW c \in Conns,
           RelayKnows(c) \/ RelayAsks(c) \/ RelayHears(c) \/ NoReply(c)
             \/ SessionFails(c) \/ TunnelEnds(c)
    PROVE  ServiceInv'
<1> DEFINE r == conns[c]
<1>0. r \in Conn /\ ConnOK(r)
  BY DEF ServiceInv
<1>1. Timeout \in Nat /\ TicketTTL \in Nat
  BY NetserviceAssumption
<1>2. CASE UNCHANGED trusted
  <2>1. PICK new : Changed(c, new) /\ new \in Conn /\ ConnOK(new)
    <3>1. CASE RelayKnows(c)
      BY <1>0, <3>1 DEF RelayKnows, Step, ConnOK, Conn
    <3>2. CASE RelayAsks(c)
      <4>1. over[r.ticket] = 0
        BY <3>2 DEF RelayAsks, ServiceInv, TrustOK
      <4>2. Step(c, "connecting", [r EXCEPT !.tunnel = "granted", !.granted = 0])
        BY <3>2 DEF RelayAsks
      <4> DEFINE new == [r EXCEPT !.tunnel = "granted", !.granted = 0]
      <4>3. new \in Conn
        <5>1. 0 \in 0 .. Timeout
          BY <1>1
        <5>2. \A b \in 0 .. Timeout : [r EXCEPT !.tunnel = "granted", !.granted = b] \in Conn
          BY <1>0 DEF Conn
        <5> QED
          BY <5>1, <5>2
      <4>4. ConnOK(new)
        BY <1>0, <4>1, <4>2, <4>3 DEF Step, ConnOK, Conn
      <4> QED
        BY <4>2, <4>3, <4>4 DEF Step
    <3>3. CASE RelayHears(c)
      BY <1>0, <3>3 DEF RelayHears, Step, ConnOK, Conn
    <3>4. CASE NoReply(c)
      BY <1>0, <3>4 DEF NoReply, Step, ConnOK, Conn
    <3>5. CASE SessionFails(c)
      BY <1>0, <3>5 DEF SessionFails, Step, ConnOK, Conn
    <3>6. CASE TunnelEnds(c)
      BY <1>0, <3>6 DEF TunnelEnds, Step, ConnOK, Conn
    <3> QED
      BY <3>1, <3>2, <3>3, <3>4, <3>5, <3>6
  <2>2. UNCHANGED <<held, calls, valid, over, given>>
    BY DEF RelayKnows, RelayAsks, RelayHears, NoReply, SessionFails, TunnelEnds, Step
  <2>3. trusted' \in [Tickets -> Nat] /\ \A t \in Tickets : TrustOK(t)'
    BY <1>2, <2>2 DEF ServiceInv, TrustOK
  <2> QED
    BY <2>1, <2>2, <2>3, ConnStep
<1>3. CASE RelayHears(c)
  <2>1. r.ticket \in Tickets /\ over[r.ticket] <= Timeout
    BY <1>0, <1>1, <1>3 DEF RelayHears, Step, ConnOK, Conn, ServiceInv, None
  <2>2. trusted' = [trusted EXCEPT ![r.ticket] = TicketTTL]
    BY <1>3 DEF RelayHears
  <2>3. UNCHANGED <<held, calls, valid, over, given>>
    BY <1>3 DEF RelayHears, Step
  <2>4. trusted' \in [Tickets -> Nat]
    BY <1>1, <2>2 DEF ServiceInv
  <2>5. \A t \in Tickets : TrustOK(t)'
    BY <1>1, <2>1, <2>2, <2>3 DEF ServiceInv, TrustOK
  <2>6. PICK new : Changed(c, new) /\ ConnOK(new)
    BY <1>0, <1>3 DEF RelayHears, Step, ConnOK, Conn
  <2> QED
    BY <2>3, <2>4, <2>5, <2>6, ConnStep
<1> QED
  BY <1>2, <1>3 DEF RelayKnows, RelayAsks, NoReply, SessionFails, TunnelEnds

LEMMA WatchKeeps ==
    ASSUME ServiceInv, UNCHANGED given, NEW c \in Conns,
           Ask(c) \/ WatchEnds(c) \/ RenewLease(c) \/ Renewed(c) \/ Refused(c) \/ Unanswered(c)
    PROVE  ServiceInv'
<1> DEFINE r == conns[c]
<1>0. r \in Conn /\ ConnOK(r)
  BY DEF ServiceInv
<1>1. Timeout \in Nat /\ Interval \in Nat
  BY NetserviceAssumption
<1>2. PICK new : Changed(c, new) /\ new \in Conn /\ ConnOK(new)
  <2>1. CASE Ask(c)
    <3>1. 0 \in 0 .. Timeout /\ Interval \in 0 .. Interval /\ Interval + 0 = Interval
      BY <1>1
    <3>2. \A a \in 0 .. Timeout, d \in 0 .. Interval :
             LET n == [r EXCEPT !.watch = "ask", !.asked = a, !.due = d] IN
             n \in Conn /\ (d + a = Interval => ConnOK(n))
      BY <1>0 DEF Conn, ConnOK, Asking
    <3> QED
      BY <2>1, <3>1, <3>2 DEF Ask, Watching
  <2>2. CASE WatchEnds(c)
    BY <1>0, <2>2 DEF WatchEnds, Watching, ConnOK, Conn, Asking
  <2>3. CASE RenewLease(c)
    BY <1>0, <2>3 DEF RenewLease, Watching, ConnOK, Conn, Asking
  <2>4. CASE Renewed(c)
    <3>1. 0 \in Nat
      OBVIOUS
    <3>2. \A a \in Nat : LET n == [r EXCEPT !.watch = "wait", !.quiet = a] IN
                         n \in Conn /\ ConnOK(n)
      BY <1>0 DEF Conn, ConnOK, Asking
    <3> QED
      BY <2>4, <3>1, <3>2 DEF Renewed, Watching
  <2>5. \A w \in Reasons \union {"wait"} :
           LET n == [r EXCEPT !.watch = w] IN n \in Conn /\ ConnOK(n)
    BY <1>0 DEF Conn, ConnOK, Asking, Reasons
  <2>6. CASE Refused(c)
    BY <2>5, <2>6 DEF Refused, Watching, Reasons
  <2>7. CASE Unanswered(c)
    <3>1. \E w \in Reasons \union {"wait"} : Changed(c, [r EXCEPT !.watch = w])
      BY <2>7 DEF Unanswered, Watching, Reasons
    <3> QED
      BY <2>5, <3>1
  <2> QED
    BY <2>1, <2>2, <2>3, <2>4, <2>6, <2>7
<1>3. UNCHANGED <<held, calls, valid, over, trusted, given>>
  BY DEF Ask, WatchEnds, RenewLease, Renewed, Refused, Unanswered, Watching
<1>4. trusted' \in [Tickets -> Nat] /\ \A t \in Tickets : TrustOK(t)'
  BY <1>3 DEF ServiceInv, TrustOK
<1> QED
  BY <1>2, <1>3, <1>4, ConnStep

\* What is left of a connection the agent lets go.
Down(r) == Settled([r EXCEPT !.live = FALSE, !.adapter = FALSE])

LEMMA DownIsOK ==
    ASSUME ServiceInv, NEW r \in Conn
    PROVE  /\ ConnOK(r) => ConnOK(Down(r)) /\ Down(r) \in Conn
           /\ BarredOK(r) => WatchOK(Down(r))
           /\ ~ Down(r).live /\ ~ Down(r).adapter
           /\ Down(r).tunnel \in {r.tunnel, "ended"}
<1> DEFINE n == [r EXCEPT !.live = FALSE, !.adapter = FALSE]
<1>1. n \in Conn /\ ~ n.live /\ ~ n.adapter /\ n.tunnel = r.tunnel
  BY DEF Conn
<1>2. ConnOK(r) => ConnOK(n)
  BY <1>1 DEF ConnOK, Conn
<1>3. BarredOK(r) => WatchOK(n)
  BY <1>1 DEF WatchOK, BarredOK, LeaseOK, Conn
<1>4. ConnOK(Unused) /\ WatchOK(Unused) /\ BarredOK(Unused) /\ Unused \in Conn
  BY UnusedIsOK DEF ConnOK, WatchOK
<1>5. ~ Unused.live /\ ~ Unused.adapter /\ Unused.tunnel = "ended"
  BY DEF Unused
<1>6. Down(r) = n \/ Down(r) = Unused
  BY DEF Down, Settled
<1> HIDE DEF n
<1>7. CASE Down(r) = n
  BY <1>1, <1>2, <1>3, <1>7 DEF ConnOK
<1>8. CASE Down(r) = Unused
  BY <1>4, <1>5, <1>8
<1> QED
  BY <1>6, <1>7, <1>8

LEMMA EndedIsOK ==
    ASSUME ServiceInv, NEW r \in Conn, ConnOK(r)
    PROVE  LET n == Settled([r EXCEPT !.watch = "ended"]) IN
           /\ ConnOK(n) /\ n \in Conn
           /\ n.live = r.live /\ n.adapter = r.adapter /\ n.tunnel = r.tunnel
           /\ WatchOK(r) => BarredOK(n) /\ (~ r.live => WatchOK(n))
<1> DEFINE m == [r EXCEPT !.watch = "ended"]
<1>1. m \in Conn /\ m.live = r.live /\ m.adapter = r.adapter /\ m.tunnel = r.tunnel /\ m.watch = "ended"
  BY DEF Conn
<1>2. ConnOK(m)
  BY <1>1 DEF ConnOK, Conn, Asking
<1>3. WatchOK(r) => BarredOK(m) /\ (~ r.live => WatchOK(m))
  BY <1>1 DEF WatchOK, BarredOK, LeaseOK, Conn
<1>4. ConnOK(Unused) /\ WatchOK(Unused) /\ BarredOK(Unused) /\ Unused \in Conn
  BY UnusedIsOK DEF ConnOK, WatchOK
<1>5. r.live \in BOOLEAN /\ r.adapter \in BOOLEAN
  BY DEF Conn
<1>6. CASE Settled(m) = m
  BY <1>1, <1>2, <1>3, <1>6
<1>7. CASE Settled(m) # m
  <2>1. Settled(m) = Unused /\ ~ m.adapter /\ ~ m.live /\ m.tunnel = "ended"
    BY <1>7 DEF Settled
  <2>2. r.live = FALSE /\ r.adapter = FALSE /\ r.tunnel = "ended"
    BY <1>1, <1>5, <2>1
  <2>3. Unused.live = FALSE /\ Unused.adapter = FALSE /\ Unused.tunnel = "ended"
    BY DEF Unused
  <2> QED
    BY <1>4, <2>1, <2>2, <2>3
<1> QED
  BY <1>6, <1>7

LEMMA DisconnectKeeps ==
    ASSUME ServiceInv, NEW reason, Disconnect(reason), UNCHANGED <<valid, over, trusted, given>>,
           calls' \in [Callers -> 0 .. given]
    PROVE  ServiceInv'
<1>1. held' = None
  BY DEF Disconnect
<1>2. Conn' = Conn
  BY DEF Conn
<1>3. conns' \in [Conns -> Conn] /\ \A k \in Conns : ConnOK(conns'[k])
  <2>1. CASE held = None
    BY <2>1 DEF Disconnect, ServiceInv
  <2>2. CASE held # None
    <3>1. held \in Conns
      BY <2>2 DEF ServiceInv
    <3>2. conns' = [conns EXCEPT ![held] = Down(conns[held])]
      BY <2>2 DEF Disconnect, Down
    <3>3. ConnOK(Down(conns[held])) /\ Down(conns[held]) \in Conn
      BY <3>1, DownIsOK DEF ServiceInv
    <3> QED
      BY <3>1, <3>2, <3>3 DEF ServiceInv
  <2> QED
    BY <2>1, <2>2
<1>4. \A k \in Conns : ConnOK(conns[k])'
  BY <1>2, <1>3 DEF ConnOK
<1>5. \A t \in Tickets : TrustOK(t)'
  BY DEF ServiceInv, TrustOK
<1> QED
  BY <1>1, <1>2, <1>3, <1>4, <1>5 DEF ServiceInv

LEMMA TearDownKeeps ==
    ASSUME ServiceInv, UNCHANGED given, NEW c \in Conns, TearDown(c)
    PROVE  ServiceInv'
<1> DEFINE ended == [conns EXCEPT ![c] = Settled([@ EXCEPT !.watch = "ended"])]
<1>1. /\ held' = None /\ UNCHANGED <<calls, valid, over, trusted>>
      /\ conns' = IF held = None THEN ended ELSE [ended EXCEPT ![held] = Down(@)]
  BY DEF TearDown, Down
<1>2. ended \in [Conns -> Conn] /\ \A k \in Conns : ConnOK(ended[k])
  <2> DEFINE n == Settled([conns[c] EXCEPT !.watch = "ended"])
  <2>1. ConnOK(n) /\ n \in Conn
    BY EndedIsOK DEF ServiceInv
  <2> HIDE DEF n
  <2>2. ended = [conns EXCEPT ![c] = n]
    BY DEF n
  <2> QED
    BY <2>1, <2>2 DEF ServiceInv
<1> HIDE DEF ended
<1>3. conns' \in [Conns -> Conn] /\ \A k \in Conns : ConnOK(conns'[k])
  <2>1. CASE held = None
    BY <1>1, <1>2, <2>1
  <2>2. CASE held # None
    <3>1. held \in Conns
      BY <2>2 DEF ServiceInv
    <3>2. conns' = [ended EXCEPT ![held] = Down(ended[held])]
      BY <1>1, <2>2
    <3>3. ConnOK(Down(ended[held])) /\ Down(ended[held]) \in Conn
      BY <1>2, <3>1, DownIsOK
    <3> QED
      BY <1>2, <3>1, <3>2, <3>3
  <2> QED
    BY <2>1, <2>2
<1>4. Conn' = Conn
  BY DEF Conn
<1>5. \A k \in Conns : ConnOK(conns[k])'
  BY <1>1, <1>3, <1>4 DEF ConnOK
<1>6. \A t \in Tickets : TrustOK(t)'
  BY <1>1 DEF ServiceInv, TrustOK
<1> QED
  BY <1>1, <1>3, <1>4, <1>5, <1>6 DEF ServiceInv
LEMMA GraceIs ==
    /\ Timeout \in Nat /\ Interval \in Nat /\ LocalExpiry \in Nat /\ TicketTTL \in Nat
    /\ 1 <= Timeout /\ Timeout <= Interval /\ 1 <= LocalExpiry
    /\ Grace = Timeout + LocalExpiry + Interval + Timeout /\ Grace \in Nat
BY NetserviceAssumption DEF Grace

LEMMA OlderIs ==
    ASSUME NEW age \in Nat, NEW read \in Nat
    PROVE  /\ Older(age, read) \in Nat
           /\ age <= Older(age, read) /\ Older(age, read) <= age + 1
           /\ age <= read => Older(age, read) = age + 1
BY DEF Older

LEMMA AgedIs ==
    ASSUME ServiceInv, NEW c \in Conns, Waits(conns[c])
    PROVE  LET r == conns[c]  n == Aged(r) IN
           /\ n \in Conn
           /\ n.adapter = r.adapter /\ n.live = r.live /\ n.ticket = r.ticket
           /\ n.tunnel = r.tunnel /\ n.watch = r.watch
           /\ n.quiet = (IF r.watch = "ended" THEN 0 ELSE Older(r.quiet, LocalExpiry))
           /\ n.barred = (IF r.live /\ r.ticket \notin valid THEN Older(r.barred, Grace) ELSE 0)
           /\ n.due = (IF r.watch = "ended" THEN 0 ELSE r.due - 1)
           /\ n.asked = (IF r.watch \in Asking THEN r.asked + 1 ELSE 0)
           /\ n.granted = (IF r.tunnel = "granted" THEN r.granted + 1 ELSE 0)
<1> DEFINE r == conns[c]
           quiet == IF r.watch = "ended" THEN 0 ELSE Older(r.quiet, LocalExpiry)
           barred == IF r.live /\ r.ticket \notin valid THEN Older(r.barred, Grace) ELSE 0
           due == IF r.watch = "ended" THEN 0 ELSE r.due - 1
           asked == IF r.watch \in Asking THEN r.asked + 1 ELSE 0
           granted == IF r.tunnel = "granted" THEN r.granted + 1 ELSE 0
<1>0. r \in Conn /\ ConnOK(r)
  BY DEF ServiceInv
<1>1. /\ r.quiet \in Nat /\ r.due \in 0 .. Interval /\ r.asked \in 0 .. Timeout
      /\ r.granted \in 0 .. Timeout /\ r.barred \in Nat
  BY <1>0 DEF Conn
<1>2. quiet \in Nat
  BY <1>1, GraceIs, OlderIs
<1>3. barred \in Nat
  BY <1>1, GraceIs, OlderIs
<1>4. r.watch \in Asking => r.asked < Timeout /\ r.due + r.asked = Interval
  BY <1>0 DEF Waits, ConnOK, Asking
<1>5. due \in 0 .. Interval
  <2>1. CASE r.watch = "ended"
    BY <2>1, GraceIs
  <2>2. CASE r.watch = "wait"
    BY <1>1, <2>2, GraceIs DEF Waits
  <2>3. CASE r.watch \in Asking
    BY <1>1, <1>4, <2>3, GraceIs
  <2> QED
    BY <2>1, <2>2, <2>3 DEF Waits, Asking
<1>6. asked \in 0 .. Timeout
  BY <1>1, <1>4, GraceIs
<1>7. granted \in 0 .. Timeout
  BY <1>1, GraceIs DEF Waits
<1>8. Aged(r) = [r EXCEPT !.quiet = quiet, !.barred = barred, !.due = due,
                         !.asked = asked, !.granted = granted]
  BY DEF Aged, Asking
<1> HIDE DEF r, quiet, barred, due, asked, granted
<1>9. Aged(r) \in Conn
  BY <1>0, <1>2, <1>3, <1>5, <1>6, <1>7, <1>8 DEF Conn
<1>10. /\ Aged(r).adapter = r.adapter /\ Aged(r).live = r.live /\ Aged(r).ticket = r.ticket
       /\ Aged(r).tunnel = r.tunnel /\ Aged(r).watch = r.watch
       /\ Aged(r).quiet = quiet /\ Aged(r).barred = barred /\ Aged(r).due = due
       /\ Aged(r).asked = asked /\ Aged(r).granted = granted
  BY <1>0, <1>8 DEF Conn
<1> QED
  BY <1>9, <1>10 DEF r, quiet, barred, due, asked, granted

LEMMA TickKeeps ==
    ASSUME ServiceInv, UNCHANGED given, Tick
    PROVE  ServiceInv'
<1>1. /\ \A c \in Conns : Waits(conns[c])
      /\ conns' = [c \in Conns |-> Aged(conns[c])]
      /\ over' = [t \in Tickets |-> IF t \in valid THEN 0 ELSE Older(over[t], Timeout + TicketTTL)]
      /\ trusted' = [t \in Tickets |-> IF trusted[t] > 0 THEN trusted[t] - 1 ELSE 0]
      /\ UNCHANGED <<held, teardown, calls, valid>>
  BY DEF Tick
<1>2. \A t \in Tickets : /\ over'[t] \in Nat
                         /\ over'[t] <= over[t] + 1
                         /\ t \in valid => over'[t] = 0
  <2> SUFFICES ASSUME NEW t \in Tickets
               PROVE  over'[t] \in Nat /\ over'[t] <= over[t] + 1 /\ (t \in valid => over'[t] = 0)
    OBVIOUS
  <2>1. over[t] \in Nat /\ Timeout + TicketTTL \in Nat
    BY GraceIs DEF ServiceInv
  <2>2. over'[t] = IF t \in valid THEN 0 ELSE Older(over[t], Timeout + TicketTTL)
    BY <1>1
  <2>3. Older(over[t], Timeout + TicketTTL) \in Nat /\ Older(over[t], Timeout + TicketTTL) <= over[t] + 1
    BY <2>1, OlderIs
  <2> QED
    BY <2>1, <2>2, <2>3
<1>3. over' \in [Tickets -> Nat]
  <2>1. over' = [t \in Tickets |-> over'[t]]
    BY <1>1
  <2> QED
    BY <1>2, <2>1
<1>4. trusted' \in [Tickets -> Nat]
  BY <1>1 DEF ServiceInv
<1>5. \A t \in Tickets : TrustOK(t)'
  <2> SUFFICES ASSUME NEW t \in Tickets
               PROVE  TrustOK(t)'
    OBVIOUS
  <2>1. over[t] \in Nat /\ trusted[t] \in Nat /\ TrustOK(t)
    BY DEF ServiceInv
  <2>2. trusted'[t] = IF trusted[t] > 0 THEN trusted[t] - 1 ELSE 0
    BY <1>1
  <2>3. trusted'[t] > 0 => over'[t] + trusted'[t] <= Timeout + TicketTTL
    BY <1>2, <2>1, <2>2, GraceIs DEF TrustOK
  <2> QED
    BY <1>1, <1>2, <1>4, <2>3 DEF TrustOK
<1>6. Conn' = Conn
  BY DEF Conn
<1>7. conns' \in [Conns -> Conn]
  BY <1>1, AgedIs
<1>8. \A c \in Conns : ConnOK(conns[c])'
  <2> SUFFICES ASSUME NEW c \in Conns
               PROVE  ConnOK(conns[c])'
    OBVIOUS
  <2> DEFINE r == conns[c]
             n == Aged(r)
  <2>1. r \in Conn /\ ConnOK(r) /\ Waits(r)
    BY <1>1 DEF ServiceInv
  <2>2. /\ n \in Conn
        /\ n.adapter = r.adapter /\ n.live = r.live /\ n.ticket = r.ticket
        /\ n.tunnel = r.tunnel /\ n.watch = r.watch
        /\ n.due = (IF r.watch = "ended" THEN 0 ELSE r.due - 1)
        /\ n.asked = (IF r.watch \in Asking THEN r.asked + 1 ELSE 0)
        /\ n.granted = (IF r.tunnel = "granted" THEN r.granted + 1 ELSE 0)
    BY <2>1, AgedIs
  <2>3. conns'[c] = n
    BY <1>1
  <2>4. /\ r.due \in Nat /\ r.asked \in Nat /\ r.granted \in Nat
        /\ r.ticket \in 0 .. given /\ given \in Nat
    BY <2>1, GraceIs DEF Conn, ServiceInv
  <2> HIDE DEF n, r
  <2>5. n.live \/ n.tunnel # "ended" => n.ticket # None
    BY <2>1, <2>2 DEF ConnOK
  <2>6. n.watch \in Asking => n.due + n.asked = Interval
    <3>1. r.watch \in Asking => r.due + r.asked = Interval /\ r.watch # "ended"
      BY <2>1 DEF ConnOK, Asking
    <3> QED
      BY <2>2, <2>4, <3>1, GraceIs
  <2>7. n.tunnel = "granted" => over'[n.ticket] <= n.granted
    <3> SUFFICES ASSUME n.tunnel = "granted"
                 PROVE  over'[n.ticket] <= n.granted
      OBVIOUS
    <3>1. over[r.ticket] <= r.granted /\ r.ticket # None
      BY <2>1, <2>2 DEF ConnOK
    <3>2. r.ticket \in Tickets
      BY <2>4, <3>1 DEF ServiceInv, None
    <3>3. over[r.ticket] \in Nat /\ over'[r.ticket] \in Nat /\ over'[r.ticket] <= over[r.ticket] + 1
      BY <1>2, <3>2 DEF ServiceInv
    <3> QED
      BY <2>2, <2>4, <3>1, <3>3
  <2> QED
    BY <1>6, <2>2, <2>3, <2>5, <2>6, <2>7 DEF ConnOK
<1> QED
  BY <1>1, <1>3, <1>4, <1>5, <1>6, <1>7, <1>8 DEF ServiceInv
LEMMA OpenKeeps ==
    ASSUME ServiceInv, UNCHANGED given, NEW q \in Callers, Open(q)
    PROVE  ServiceInv'
<1>1. PICK new \in Conns :
         /\ conns' = [conns EXCEPT ![new] =
              [Unused EXCEPT !.adapter = TRUE, !.live = TRUE, !.ticket = calls[q],
                             !.tunnel = "connecting", !.watch = "wait", !.due = Interval]]
         /\ held' = new
  BY DEF Open
<1>2. /\ calls[q] # None /\ calls' = [calls EXCEPT ![q] = None]
      /\ UNCHANGED <<valid, over, trusted>>
  BY DEF Open
<1> DEFINE n == [Unused EXCEPT !.adapter = TRUE, !.live = TRUE, !.ticket = calls[q],
                               !.tunnel = "connecting", !.watch = "wait", !.due = Interval]
<1>3. n \in Conn /\ ConnOK(n)
  <2>1. \A t \in 0 .. given, d \in 0 .. Interval : t # None =>
           LET m == [Unused EXCEPT !.adapter = TRUE, !.live = TRUE, !.ticket = t,
                                   !.tunnel = "connecting", !.watch = "wait", !.due = d] IN
           m \in Conn /\ ConnOK(m)
    <3>1. Unused \in Conn
      BY UnusedIsOK DEF ConnOK
    <3> QED
      BY <3>1 DEF Conn, ConnOK, Asking
  <2>2. calls[q] \in 0 .. given /\ Interval \in 0 .. Interval
    BY GraceIs DEF ServiceInv
  <2> QED
    BY <1>2, <2>1, <2>2
<1> HIDE DEF n
<1>4. conns' = [conns EXCEPT ![new] = n]
  BY <1>1 DEF n
<1>5. conns' \in [Conns -> Conn] /\ \A k \in Conns : ConnOK(conns'[k])
  BY <1>3, <1>4 DEF ServiceInv
<1>6. Conn' = Conn
  BY DEF Conn
<1>7. \A k \in Conns : ConnOK(conns[k])'
  BY <1>2, <1>5, <1>6 DEF ConnOK
<1>8. \A t \in Tickets : TrustOK(t)'
  BY <1>2 DEF ServiceInv, TrustOK
<1>9. calls' \in [Callers -> 0 .. given]
  BY <1>2 DEF ServiceInv, None
<1> QED
  BY <1>1, <1>2, <1>5, <1>6, <1>7, <1>8, <1>9 DEF ServiceInv

LEMMA TicketsKeep ==
    ASSUME ServiceInv, Give \/ Take
    PROVE  ServiceInv'
<1>1. given \in Nat /\ 1 .. given \subseteq Tickets /\ valid \subseteq 1 .. given
  BY DEF ServiceInv
<1>2. CASE Give
  <2>1. /\ given + 1 \in Tickets /\ given' = given + 1 /\ valid' = {given + 1}
        /\ over' = [over EXCEPT ![given + 1] = 0]
        /\ UNCHANGED <<conns, held, teardown, calls, trusted>>
    BY <1>2 DEF Give
  <2>2. given' \in Nat /\ 1 .. given' \subseteq Tickets /\ valid' \subseteq 1 .. given'
    BY <1>1, <2>1
  <2>3. 0 .. given \subseteq 0 .. given'
    BY <1>1, <2>1
  <2>4. \A r \in Conn : r \in Conn'
    BY <2>3 DEF Conn
  <2>5. over' \in [Tickets -> Nat]
    BY <2>1 DEF ServiceInv
  <2>6. \A t \in Tickets : TrustOK(t)'
    BY <2>1, <2>5, GraceIs DEF ServiceInv, TrustOK
  <2>7. \A k \in Conns : ConnOK(conns[k])'
    <3> SUFFICES ASSUME NEW k \in Conns
                 PROVE  ConnOK(conns[k])'
      OBVIOUS
    <3>1. conns[k] \in Conn /\ ConnOK(conns[k]) /\ conns'[k] = conns[k]
      BY <2>1 DEF ServiceInv
    <3>2. conns[k].ticket \in 0 .. given
      BY <3>1 DEF Conn
    <3>3. conns[k].tunnel = "granted" => over'[conns[k].ticket] = over[conns[k].ticket]
      BY <1>1, <2>1, <3>2 DEF ServiceInv
    <3> QED
      BY <2>4, <3>1, <3>3 DEF ConnOK
  <2>8. conns' \in [Conns -> Conn'] /\ calls' \in [Callers -> 0 .. given']
    BY <2>1, <2>3, <2>4 DEF ServiceInv
  <2> QED
    BY <2>1, <2>2, <2>5, <2>6, <2>7, <2>8 DEF ServiceInv
<1>3. CASE Take
  <2>1. valid' = {} /\ UNCHANGED <<conns, held, teardown, calls, over, trusted, given>>
    BY <1>3 DEF Take
  <2>2. Conn' = Conn
    BY <2>1 DEF Conn
  <2>3. \A k \in Conns : ConnOK(conns[k])'
    BY <2>1, <2>2 DEF ServiceInv, ConnOK
  <2>4. \A t \in Tickets : TrustOK(t)'
    BY <2>1 DEF ServiceInv, TrustOK
  <2> QED
    BY <2>1, <2>2, <2>3, <2>4 DEF ServiceInv
<1> QED
  BY <1>2, <1>3

LEMMA CallKeeps ==
    ASSUME ServiceInv, Call
    PROVE  ServiceInv'
<1>1. PICK q \in Callers : Hangup(q) \/ \E t \in 1 .. given : Connect(q, t)
  BY DEF Call
<1>2. UNCHANGED given
  BY DEF Call
<1>3. CASE Hangup(q)
  <2>1. calls' \in [Callers -> 0 .. given]
    BY <1>3 DEF Hangup, ServiceInv
  <2> QED
    BY <1>2, <1>3, <2>1, DisconnectKeeps DEF Hangup
<1>4. ASSUME NEW t \in 1 .. given, Connect(q, t)
      PROVE  ServiceInv'
  <2>1. t \in 0 .. given
    BY DEF ServiceInv
  <2>2. calls' \in [Callers -> 0 .. given]
    BY <1>4, <2>1 DEF Connect, ServiceInv
  <2> QED
    BY <1>2, <1>4, <2>2, DisconnectKeeps DEF Connect
<1> QED
  BY <1>1, <1>3, <1>4

\* A step that is not one of the service, or one that changes nothing, is none to it.
LEMMA QuietKeeps ==
    ASSUME ServiceInv, UNCHANGED <<conns, held, calls, valid, over, trusted, given>>
    PROVE  ServiceInv'
<1>1. Conn' = Conn
  BY DEF Conn
<1>2. \A k \in Conns : ConnOK(conns[k])'
  BY <1>1 DEF ServiceInv, ConnOK
<1>3. \A t \in Tickets : TrustOK(t)'
  BY DEF ServiceInv, TrustOK
<1> QED
  BY <1>1, <1>2, <1>3 DEF ServiceInv

LEMMA OpenFailsKeeps ==
    ASSUME ServiceInv, UNCHANGED given, NEW q \in Callers, OpenFails(q)
    PROVE  ServiceInv'
<1>1. UNCHANGED <<conns, held, valid, over, trusted, given>> /\ calls' = [calls EXCEPT ![q] = None]
  BY DEF OpenFails
<1>2. Conn' = Conn
  BY DEF Conn
<1>3. \A k \in Conns : ConnOK(conns[k])'
  BY <1>1, <1>2 DEF ServiceInv, ConnOK
<1>4. \A t \in Tickets : TrustOK(t)'
  BY <1>1 DEF ServiceInv, TrustOK
<1>5. calls' \in [Callers -> 0 .. given]
  BY <1>1 DEF ServiceInv, None
<1> QED
  BY <1>1, <1>2, <1>3, <1>4, <1>5 DEF ServiceInv

LEMMA ServiceStep == ServiceInv /\ [Next]_vars => ServiceInv'
<1> SUFFICES ASSUME ServiceInv, [Next]_vars
             PROVE  ServiceInv'
  OBVIOUS
<1>1. CASE Give \/ Take
  BY <1>1, TicketsKeep
<1>2. CASE Call
  BY <1>2, CallKeeps
<1>3. CASE ServiceNext /\ UNCHANGED <<appVars, part, given, turns>>
  <2>1. UNCHANGED given
    BY <1>3
  <2>2. ASSUME NEW q \in Callers, Open(q) \/ OpenFails(q)
        PROVE  ServiceInv'
    BY <2>1, <2>2, OpenKeeps, OpenFailsKeeps
  <2>3. ASSUME NEW c \in Conns, Goroutines(c)
        PROVE  ServiceInv'
    BY <2>1, <2>3, TunnelKeeps, WatchKeeps, TearDownKeeps DEF Goroutines
  <2> QED
    BY <1>3, <2>1, <2>2, <2>3, TickKeeps DEF ServiceNext
<1>4. CASE UNCHANGED <<serviceVars, given>>
  BY <1>4, QuietKeeps DEF serviceVars
<1>5. UNCHANGED vars => UNCHANGED <<serviceVars, given>>
  BY DEF vars
<1> QED
  BY <1>1, <1>2, <1>3, <1>4, <1>5 DEF Next

LEMMA ServiceStart == Init => ServiceInv
<1> SUFFICES ASSUME Init
             PROVE  ServiceInv
  OBVIOUS
<1>1. /\ conns = [c \in Conns |-> Unused] /\ held = None /\ given = 0
      /\ calls = [q \in Callers |-> None]
      /\ valid = {} /\ over = [t \in Tickets |-> 0] /\ trusted = [t \in Tickets |-> 0]
  BY DEF Init, ServiceInit
<1>2. Unused \in Conn
  BY <1>1, GraceIs DEF Unused, Conn, Asking, None
<1>3. ConnOK(Unused)
  BY <1>2 DEF ConnOK, Unused, Asking
<1>4. \A t \in Tickets : TrustOK(t)
  BY <1>1, GraceIs DEF TrustOK
<1> QED
  BY <1>1, <1>2, <1>3, <1>4 DEF ServiceInv, None

\* Every connection is sound and the relay trusts no answer beyond its time: what
\* the theorems below rest on, for any number of callers, tickets and connections.
THEOREM ServiceSound == Spec => []ServiceInv
<1> QED
  BY ServiceStart, ServiceStep, PTL DEF Spec
--------------------------------------------------------------------------------
(* No late handshake *)

NoneComesUp == \A c \in Conns : conns'[c].tunnel = "connected" => conns[c].tunnel = "connected"

\* The ticket is one the relay may take.
MayComeUp(c) ==
    conns[c].ticket \in valid \/ over[conns[c].ticket] <= Timeout + TicketTTL

LEMMA OneStaysDown ==
    ASSUME ServiceInv, NEW c \in Conns, NEW new, Changed(c, new),
           new.tunnel = conns[c].tunnel \/ new.tunnel # "connected"
    PROVE  NoneComesUp
<1>1. Settled(new).tunnel \in {new.tunnel, "ended"}
  BY DEF Settled, Unused
<1> DEFINE s == Settled(new)
<1>2. conns' = [conns EXCEPT ![c] = s]
  BY DEF Changed
<1> QED
  BY <1>1, <1>2 DEF NoneComesUp, ServiceInv

LEMMA TunnelComesUp ==
    ASSUME ServiceInv, NEW c \in Conns,
           RelayKnows(c) \/ RelayAsks(c) \/ RelayHears(c) \/ NoReply(c)
             \/ SessionFails(c) \/ TunnelEnds(c)
    PROVE  \/ NoneComesUp
           \/ MayComeUp(c) /\ \A k \in Conns \ {c} : conns'[k] = conns[k]
<1> DEFINE r == conns[c]
<1>0. r \in Conn /\ ConnOK(r)
  BY DEF ServiceInv
<1>1. ASSUME NEW new, Changed(c, new)
      PROVE  \A k \in Conns \ {c} : conns'[k] = conns[k]
  <2> DEFINE s == Settled(new)
  <2>1. conns' = [conns EXCEPT ![c] = s]
    BY <1>1 DEF Changed
  <2> QED
    BY <2>1 DEF ServiceInv
<1>2. CASE RelayKnows(c)
  <2>1. r.ticket \in Tickets
    BY <1>0, <1>2 DEF RelayKnows, ConnOK, Conn, ServiceInv, None
  <2>2. over[r.ticket] \in Nat /\ trusted[r.ticket] \in Nat /\ trusted[r.ticket] > 0 /\ TrustOK(r.ticket)
    BY <1>2, <2>1 DEF RelayKnows, ServiceInv
  <2>3. MayComeUp(c)
    BY <2>2, GraceIs DEF MayComeUp, TrustOK
  <2> QED
    BY <1>1, <1>2, <2>3 DEF RelayKnows, Step
<1>3. CASE RelayAsks(c)
  <2> DEFINE n == [r EXCEPT !.tunnel = "granted", !.granted = 0]
  <2>1. Changed(c, n)
    BY <1>3 DEF RelayAsks, Step
  <2>2. n.tunnel = "granted"
    BY <1>0 DEF Conn
  <2> QED
    BY <2>1, <2>2, OneStaysDown
<1>4. CASE RelayHears(c)
  <2>1. r.tunnel = "granted"
    BY <1>4 DEF RelayHears, Step
  <2>2. r.ticket \in Tickets /\ r.granted \in 0 .. Timeout
    BY <1>0, <2>1 DEF ConnOK, Conn, ServiceInv, None
  <2>3. over[r.ticket] \in Nat /\ over[r.ticket] <= r.granted
    BY <1>0, <2>1, <2>2 DEF ConnOK, ServiceInv
  <2>4. MayComeUp(c)
    BY <2>2, <2>3, GraceIs DEF MayComeUp
  <2> QED
    BY <1>1, <1>4, <2>4 DEF RelayHears, Step
<1>5. CASE NoReply(c)
  <2> DEFINE n == [r EXCEPT !.tunnel = "connecting"]
  <2>1. Changed(c, n)
    BY <1>5 DEF NoReply, Step
  <2>2. n.tunnel = "connecting"
    BY <1>0 DEF Conn
  <2> QED
    BY <2>1, <2>2, OneStaysDown
<1>6. CASE SessionFails(c)
  <2> DEFINE n == [r EXCEPT !.tunnel = "connecting"]
  <2>1. Changed(c, n)
    BY <1>6 DEF SessionFails, Step
  <2>2. n.tunnel = "connecting"
    BY <1>0 DEF Conn
  <2> QED
    BY <2>1, <2>2, OneStaysDown
<1>7. CASE TunnelEnds(c)
  <2> DEFINE n == [r EXCEPT !.tunnel = "ended"]
  <2>1. Changed(c, n)
    BY <1>7 DEF TunnelEnds, Step
  <2>2. n.tunnel = "ended"
    BY <1>0 DEF Conn
  <2> QED
    BY <2>1, <2>2, OneStaysDown
<1> QED
  BY <1>2, <1>3, <1>4, <1>5, <1>6, <1>7

LEMMA WatchBringsNoneUp ==
    ASSUME ServiceInv, NEW c \in Conns,
           Ask(c) \/ WatchEnds(c) \/ RenewLease(c) \/ Renewed(c) \/ Refused(c) \/ Unanswered(c)
    PROVE  NoneComesUp
<1>0. conns[c] \in Conn
  BY DEF ServiceInv
<1> DEFINE r == conns[c]
<1>1. CASE Ask(c)
  <2> DEFINE n == [r EXCEPT !.watch = "ask", !.asked = 0, !.due = Interval]
  <2>1. Changed(c, n)
    BY <1>1 DEF Ask, Watching
  <2>2. n.tunnel = r.tunnel
    BY <1>0 DEF Conn
  <2> QED
    BY <2>1, <2>2, OneStaysDown
<1>2. CASE Renewed(c)
  <2> DEFINE n == [r EXCEPT !.watch = "wait", !.quiet = 0]
  <2>1. Changed(c, n)
    BY <1>2 DEF Renewed, Watching
  <2>2. n.tunnel = r.tunnel
    BY <1>0 DEF Conn
  <2> QED
    BY <2>1, <2>2, OneStaysDown
<1>3. ASSUME NEW w, Changed(c, [r EXCEPT !.watch = w])
      PROVE  NoneComesUp
  <2> DEFINE n == [r EXCEPT !.watch = w]
  <2>1. n.tunnel = r.tunnel
    BY <1>0 DEF Conn
  <2> QED
    BY <1>3, <2>1, OneStaysDown
<1>4. CASE WatchEnds(c) \/ RenewLease(c) \/ Refused(c) \/ Unanswered(c)
  <2>1. \E w : Changed(c, [r EXCEPT !.watch = w])
    BY <1>4 DEF WatchEnds, RenewLease, Refused, Unanswered, Watching
  <2> QED
    BY <1>3, <2>1
<1> QED
  BY <1>1, <1>2, <1>4

LEMMA DisconnectBringsNoneUp ==
    ASSUME ServiceInv, NEW reason, Disconnect(reason)
    PROVE  NoneComesUp
<1>1. CASE held = None
  BY <1>1 DEF Disconnect, NoneComesUp
<1>2. CASE held # None
  <2>1. held \in Conns /\ conns[held] \in Conn
    BY <1>2 DEF ServiceInv
  <2>2. Changed(held, [conns[held] EXCEPT !.live = FALSE, !.adapter = FALSE])
    BY <1>2 DEF Disconnect, Changed
  <2>3. [conns[held] EXCEPT !.live = FALSE, !.adapter = FALSE].tunnel = conns[held].tunnel
    BY <2>1 DEF Conn
  <2> QED
    BY <2>1, <2>2, <2>3, OneStaysDown
<1> QED
  BY <1>1, <1>2

LEMMA TearDownBringsNoneUp ==
    ASSUME ServiceInv, NEW c \in Conns, TearDown(c)
    PROVE  NoneComesUp
<1> DEFINE n == Settled([conns[c] EXCEPT !.watch = "ended"])
           ended == [conns EXCEPT ![c] = n]
<1>1. conns' = IF held = None THEN ended ELSE [ended EXCEPT ![held] = Down(@)]
  BY DEF TearDown, Down
<1>2. n \in Conn /\ n.tunnel = conns[c].tunnel
  BY EndedIsOK DEF ServiceInv
<1> HIDE DEF n
<1>3. ended \in [Conns -> Conn] /\ \A k \in Conns : ended[k].tunnel = conns[k].tunnel
  BY <1>2 DEF ServiceInv
<1> HIDE DEF ended
<1>4. CASE held = None
  BY <1>1, <1>3, <1>4 DEF NoneComesUp
<1>5. CASE held # None
  <2>1. held \in Conns
    BY <1>5 DEF ServiceInv
  <2>2. conns' = [ended EXCEPT ![held] = Down(ended[held])]
    BY <1>1, <1>5
  <2>3. Down(ended[held]).tunnel \in {ended[held].tunnel, "ended"}
    BY <1>3, <2>1, DownIsOK
  <2> QED
    BY <1>3, <2>1, <2>2, <2>3 DEF NoneComesUp
<1> QED
  BY <1>4, <1>5

LEMMA ComesUp ==
    ASSUME ServiceInv, [Next]_vars
    PROVE  NoneComesUp \/ \E c \in Conns : MayComeUp(c) /\ \A k \in Conns \ {c} : conns'[k] = conns[k]
<1>1. CASE UNCHANGED conns
  BY <1>1 DEF NoneComesUp
<1>2. CASE Call
  BY <1>2, DisconnectBringsNoneUp DEF Call, Hangup, Connect
<1>3. ASSUME NEW q \in Callers, Open(q)
      PROVE  NoneComesUp
  <2>1. PICK new \in Conns : conns' = [conns EXCEPT ![new] =
              [Unused EXCEPT !.adapter = TRUE, !.live = TRUE, !.ticket = calls[q],
                             !.tunnel = "connecting", !.watch = "wait", !.due = Interval]]
    BY <1>3 DEF Open
  <2> DEFINE n == [Unused EXCEPT !.adapter = TRUE, !.live = TRUE, !.ticket = calls[q],
                                 !.tunnel = "connecting", !.watch = "wait", !.due = Interval]
  <2>2. n.tunnel = "connecting"
    BY DEF Unused
  <2> HIDE DEF n
  <2>3. conns' = [conns EXCEPT ![new] = n]
    BY <2>1 DEF n
  <2> QED
    BY <2>2, <2>3 DEF NoneComesUp, ServiceInv
<1>4. CASE Tick
  <2>1. \A c \in Conns : Waits(conns[c]) /\ conns'[c] = Aged(conns[c])
    BY <1>4 DEF Tick
  <2>2. \A c \in Conns : Aged(conns[c]).tunnel = conns[c].tunnel
    BY <2>1, AgedIs
  <2> QED
    BY <2>1, <2>2 DEF NoneComesUp
<1>5. ASSUME NEW c \in Conns, Goroutines(c)
      PROVE  NoneComesUp \/ \E k \in Conns : MayComeUp(k) /\ \A j \in Conns \ {k} : conns'[j] = conns[j]
  BY <1>5, TunnelComesUp, WatchBringsNoneUp, TearDownBringsNoneUp DEF Goroutines
<1>6. CASE Give \/ Take \/ \E q \in Callers : OpenFails(q)
  BY <1>1, <1>6 DEF Give, Take, OpenFails
<1> QED
  BY <1>1, <1>2, <1>3, <1>4, <1>5, <1>6 DEF Next, ServiceNext, vars, serviceVars

\* No tunnel comes up with a ticket that was revoked longer ago than a question
\* takes and an answer is trusted (validator.go), however many callers, whatever
\* handshakes fail and whenever tickets come and go.
THEOREM NeverALateHandshake == Spec => NoLateHandshake
<1>1. ServiceInv /\ [Next]_vars =>
        [ \A c \in Conns :
            conns[c].tunnel # "connected" /\ conns'[c].tunnel = "connected" =>
                \/ conns[c].ticket \in valid
                \/ over[conns[c].ticket] <= Timeout + TicketTTL ]_conns
  BY ComesUp DEF NoneComesUp, MayComeUp
<1> QED
  BY <1>1, ServiceSound, PTL DEF Spec, NoLateHandshake
--------------------------------------------------------------------------------
(* The watchdog *)

LEMMA TunnelWatches ==
    ASSUME ServiceInv, WatchInv, UNCHANGED given, NEW c \in Conns,
           RelayKnows(c) \/ RelayAsks(c) \/ RelayHears(c) \/ NoReply(c)
             \/ SessionFails(c) \/ TunnelEnds(c)
    PROVE  WatchInv'
<1> DEFINE r == conns[c]
<1>1. r \in Conn /\ WatchOK(r)
  BY DEF ServiceInv, WatchInv
<1>2. UNCHANGED <<held, calls, valid, given>>
  BY DEF RelayKnows, RelayAsks, RelayHears, NoReply, SessionFails, TunnelEnds, Step
<1>3. ASSUME NEW w, Changed(c, [r EXCEPT !.tunnel = w])
      PROVE  WatchInv'
  <2> DEFINE n == [r EXCEPT !.tunnel = w]
  <2>1. /\ n.live = r.live /\ n.adapter = r.adapter /\ n.ticket = r.ticket /\ n.watch = r.watch
        /\ n.quiet = r.quiet /\ n.due = r.due /\ n.asked = r.asked /\ n.barred = r.barred
    BY <1>1 DEF Conn
  <2> HIDE DEF n
  <2>2. WatchOK(n)
    BY <1>1, <2>1 DEF WatchOK, BarredOK, LeaseOK, Until
  <2> QED
    BY <1>2, <1>3, <2>1, <2>2, WatchStep DEF n
<1>4. CASE RelayAsks(c)
  <2> DEFINE n == [r EXCEPT !.tunnel = "granted", !.granted = 0]
  <2>1. /\ n.live = r.live /\ n.adapter = r.adapter /\ n.ticket = r.ticket /\ n.watch = r.watch
        /\ n.quiet = r.quiet /\ n.due = r.due /\ n.asked = r.asked /\ n.barred = r.barred
    BY <1>1 DEF Conn
  <2>2. Changed(c, n)
    BY <1>4 DEF RelayAsks, Step
  <2> HIDE DEF n
  <2>3. WatchOK(n)
    BY <1>1, <2>1 DEF WatchOK, BarredOK, LeaseOK, Until
  <2> QED
    BY <1>2, <2>1, <2>2, <2>3, WatchStep
<1>5. CASE RelayKnows(c) \/ RelayHears(c) \/ NoReply(c) \/ SessionFails(c) \/ TunnelEnds(c)
  <2>1. \E w : Changed(c, [r EXCEPT !.tunnel = w])
    BY <1>5 DEF RelayKnows, RelayHears, NoReply, SessionFails, TunnelEnds, Step
  <2> QED
    BY <1>3, <2>1
<1> QED
  BY <1>4, <1>5

\* A watchdog that goes over from one of its states to another.
LEMMA WatchGoes ==
    ASSUME ServiceInv, WatchInv, NEW c \in Conns, NEW w,
           UNCHANGED <<held, calls, valid, given>>,
           Changed(c, [conns[c] EXCEPT !.watch = w]),
           w = "yes" => conns[c].barred <= conns[c].asked,
           conns[c].live => w # "ended",
           conns[c].live /\ conns[c].quiet > LocalExpiry =>
              w \in Reasons \/ (w \in Asking /\ conns[c].watch \in Asking)
    PROVE  WatchInv'
<1> DEFINE r == conns[c]
           n == [r EXCEPT !.watch = w]
<1>1. r \in Conn /\ WatchOK(r)
  BY DEF ServiceInv, WatchInv
<1>2. /\ n.live = r.live /\ n.adapter = r.adapter /\ n.ticket = r.ticket /\ n.watch = w
      /\ n.quiet = r.quiet /\ n.due = r.due /\ n.asked = r.asked /\ n.barred = r.barred
  BY <1>1 DEF Conn
<1> HIDE DEF n
<1>3. r.barred \in Nat /\ r.asked \in 0 .. Timeout /\ r.barred <= Grace
  BY <1>1 DEF Conn, WatchOK, BarredOK, LeaseOK
<1>4. n.live /\ n.quiet > LocalExpiry => n.barred + Until(n) <= Grace
  <2>1. CASE w \in Reasons
    <3>1. Until(n) = 0
      BY <1>2, <2>1 DEF Until, Reasons, Asking
    <3> QED
      BY <1>2, <1>3, <3>1, GraceIs
  <2>2. CASE w \in Asking /\ r.watch \in Asking
    <3>1. Until(n) = Timeout - n.asked /\ Until(r) = Timeout - r.asked
      BY <1>2, <2>2 DEF Until, Asking
    <3> QED
      BY <1>1, <1>2, <3>1 DEF WatchOK, BarredOK, LeaseOK
  <2> QED
    BY <1>2, <2>1, <2>2
<1>5. WatchOK(n)
  BY <1>1, <1>2, <1>4 DEF WatchOK, BarredOK, LeaseOK
<1> QED
  BY <1>2, <1>5, WatchStep DEF n

LEMMA WatchWatches ==
    ASSUME ServiceInv, WatchInv, UNCHANGED given, NEW c \in Conns,
           Ask(c) \/ WatchEnds(c) \/ RenewLease(c) \/ Renewed(c) \/ Refused(c) \/ Unanswered(c)
    PROVE  WatchInv'
<1> DEFINE r == conns[c]
<1>1. r \in Conn /\ WatchOK(r)
  BY DEF ServiceInv, WatchInv
<1>2. UNCHANGED <<held, calls, valid, given>>
  BY DEF Ask, WatchEnds, RenewLease, Renewed, Refused, Unanswered, Watching
<1>3. /\ r.barred \in Nat /\ r.asked \in 0 .. Timeout /\ r.due \in 0 .. Interval /\ r.quiet \in Nat
      /\ r.barred <= Grace
  BY <1>1 DEF Conn, WatchOK, BarredOK, LeaseOK
<1>4. CASE Ask(c)
  <2> DEFINE n == [r EXCEPT !.watch = "ask", !.asked = 0, !.due = Interval]
  <2>1. /\ n.live = r.live /\ n.adapter = r.adapter /\ n.ticket = r.ticket /\ n.watch = "ask"
        /\ n.quiet = r.quiet /\ n.asked = 0 /\ n.barred = r.barred
    BY <1>1 DEF Conn
  <2>2. Changed(c, n) /\ r.watch = "wait" /\ r.due = 0
    BY <1>4 DEF Ask, Watching
  <2> HIDE DEF n
  <2>3. Until(n) = Timeout - 0 /\ Until(r) = 0 + Timeout
    BY <2>1, <2>2 DEF Until, Asking
  <2>4. WatchOK(n)
    BY <1>1, <1>3, <2>1, <2>3, GraceIs DEF WatchOK, BarredOK, LeaseOK
  <2> QED
    BY <1>2, <2>1, <2>2, <2>4, WatchStep
<1>5. CASE Renewed(c)
  <2> DEFINE n == [r EXCEPT !.watch = "wait", !.quiet = 0]
  <2>1. /\ n.live = r.live /\ n.adapter = r.adapter /\ n.ticket = r.ticket /\ n.watch = "wait"
        /\ n.quiet = 0 /\ n.barred = r.barred
    BY <1>1 DEF Conn
  <2>2. Changed(c, n) /\ r.watch = "yes"
    BY <1>5 DEF Renewed, Watching
  <2> HIDE DEF n
  <2>3. n.barred <= Timeout
    BY <1>1, <1>3, <2>1, <2>2, GraceIs DEF WatchOK, BarredOK, LeaseOK
  <2>4. WatchOK(n)
    BY <1>1, <1>3, <2>1, <2>3, GraceIs DEF WatchOK, BarredOK, LeaseOK
  <2> QED
    BY <1>2, <2>1, <2>2, <2>4, WatchStep
<1>6. CASE WatchEnds(c)
  BY <1>2, <1>6, WatchGoes DEF WatchEnds, Watching
<1>7. CASE RenewLease(c)
  <2>1. r.ticket \in valid => r.barred = 0
    BY <1>1, <1>3 DEF WatchOK, BarredOK, LeaseOK
  <2>2. r.ticket \in valid => r.barred <= r.asked
    BY <1>3, <2>1
  <2> QED
    BY <1>2, <1>7, <2>2, WatchGoes DEF RenewLease, Watching, Asking
<1>8. CASE Refused(c)
  BY <1>2, <1>8, WatchGoes DEF Refused, Watching, Reasons
<1>9. CASE Unanswered(c)
  BY <1>2, <1>9, WatchGoes DEF Unanswered, Watching, Reasons
<1> QED
  BY <1>4, <1>5, <1>6, <1>7, <1>8, <1>9

\* A service that has let everything go.
AllDown == held' = None /\ \A k \in Conns : ~ conns'[k].live /\ ~ conns'[k].adapter /\ WatchOK(conns'[k])

LEMMA AllDownWatches ==
    ASSUME AllDown, valid' = valid
    PROVE  WatchInv'
<1>1. HeldOK'
  BY NetserviceAssumption DEF AllDown, HeldOK
<1>2. \A k \in Conns : WatchOK(conns[k])'
  BY DEF AllDown, WatchOK, BarredOK, LeaseOK
<1> QED
  BY <1>1, <1>2 DEF WatchInv

LEMMA DisconnectLetsGo ==
    ASSUME ServiceInv, WatchInv, NEW reason, Disconnect(reason)
    PROVE  AllDown
<1>1. held' = None
  BY DEF Disconnect
<1>2. CASE held = None
  BY <1>1, <1>2, NetserviceAssumption DEF Disconnect, AllDown, WatchInv, HeldOK
<1>3. CASE held # None
  <2>1. held \in Conns /\ conns[held] \in Conn
    BY <1>3 DEF ServiceInv
  <2>2. conns' = [conns EXCEPT ![held] = Down(conns[held])]
    BY <1>3 DEF Disconnect, Down
  <2>3. /\ ~ Down(conns[held]).live /\ ~ Down(conns[held]).adapter
        /\ WatchOK(Down(conns[held]))
    BY <2>1, DownIsOK DEF WatchInv, WatchOK
  <2> QED
    BY <1>1, <2>1, <2>2, <2>3 DEF AllDown, WatchInv, HeldOK, ServiceInv
<1> QED
  BY <1>2, <1>3

LEMMA TearDownLetsGo ==
    ASSUME ServiceInv, WatchInv, NEW c \in Conns, TearDown(c)
    PROVE  AllDown
<1> DEFINE n == Settled([conns[c] EXCEPT !.watch = "ended"])
           ended == [conns EXCEPT ![c] = n]
<1>1. /\ held' = None
      /\ conns' = IF held = None THEN ended ELSE [ended EXCEPT ![held] = Down(@)]
  BY DEF TearDown, Down
<1>2. n \in Conn /\ n.live = conns[c].live /\ n.adapter = conns[c].adapter
  BY EndedIsOK DEF ServiceInv
<1>3. BarredOK(n) /\ (~ conns[c].live => WatchOK(n))
  BY EndedIsOK DEF ServiceInv, WatchInv
<1> HIDE DEF n
<1>4. /\ ended \in [Conns -> Conn]
      /\ \A k \in Conns : /\ ended[k].live = conns[k].live /\ ended[k].adapter = conns[k].adapter
                          /\ BarredOK(ended[k])
                          /\ k # held => WatchOK(ended[k])
  BY <1>2, <1>3 DEF ServiceInv, WatchInv, HeldOK, WatchOK
<1> HIDE DEF ended
<1>5. CASE held = None
  BY <1>1, <1>4, <1>5, NetserviceAssumption DEF AllDown, WatchInv, HeldOK
<1>6. CASE held # None
  <2>1. held \in Conns
    BY <1>6 DEF ServiceInv
  <2>2. conns' = [ended EXCEPT ![held] = Down(ended[held])]
    BY <1>1, <1>6
  <2>3. ~ Down(ended[held]).live /\ ~ Down(ended[held]).adapter /\ WatchOK(Down(ended[held]))
    BY <1>4, <2>1, DownIsOK
  <2> QED
    BY <1>1, <1>4, <2>1, <2>2, <2>3 DEF AllDown, WatchInv, HeldOK
<1> QED
  BY <1>5, <1>6
LEMMA OpenWatches ==
    ASSUME OneCaller, ServiceInv, WatchInv, NEW q \in Callers, Open(q)
    PROVE  WatchInv'
<1>1. PICK new \in Conns :
         /\ conns' = [conns EXCEPT ![new] =
              [Unused EXCEPT !.adapter = TRUE, !.live = TRUE, !.ticket = calls[q],
                             !.tunnel = "connecting", !.watch = "wait", !.due = Interval]]
         /\ held' = new
  BY DEF Open
<1>2. calls[q] # None /\ calls' = [calls EXCEPT ![q] = None] /\ valid' = valid
  BY DEF Open
<1>3. held = None
  BY <1>2 DEF WatchInv, HeldOK
<1> DEFINE n == [Unused EXCEPT !.adapter = TRUE, !.live = TRUE, !.ticket = calls[q],
                               !.tunnel = "connecting", !.watch = "wait", !.due = Interval]
<1>4. n.live /\ n.adapter /\ n.watch = "wait" /\ n.quiet = 0 /\ n.barred = 0
  BY DEF Unused
<1> HIDE DEF n
<1>5. conns' = [conns EXCEPT ![new] = n]
  BY <1>1 DEF n
<1>6. WatchOK(n)
  BY <1>4, GraceIs DEF WatchOK, BarredOK, LeaseOK
<1>7. \A k \in Conns : WatchOK(conns[k])'
  BY <1>2, <1>5, <1>6 DEF WatchInv, ServiceInv, WatchOK, BarredOK, LeaseOK
<1>8. \A k \in Conns : ~ conns[k].live /\ ~ conns[k].adapter
  BY <1>3, NetserviceAssumption DEF WatchInv, HeldOK
<1>9. \A k \in Conns : (conns'[k].live <=> held' = k) /\ (conns'[k].adapter <=> held' = k)
  BY <1>1, <1>4, <1>5, <1>8 DEF ServiceInv
<1>10. \A q1 \in Callers : calls'[q1] = None
  BY <1>2 DEF OneCaller, ServiceInv
<1> QED
  BY <1>7, <1>9, <1>10 DEF WatchInv, HeldOK

LEMMA TicketsWatch ==
    ASSUME ServiceInv, WatchInv, Give \/ Take
    PROVE  WatchInv'
<1>1. UNCHANGED <<conns, held, calls>>
  BY DEF Give, Take
<1>2. \A k \in Conns : conns[k].ticket \notin valid => conns[k].ticket \notin valid'
  <2>1. \A k \in Conns : conns[k].ticket \in 0 .. given /\ given \in Nat
    BY DEF ServiceInv, Conn
  <2> QED
    BY <2>1 DEF Give, Take
<1>3. \A k \in Conns : WatchOK(conns[k])'
  BY <1>1, <1>2 DEF WatchInv, WatchOK, BarredOK, LeaseOK
<1> QED
  BY <1>1, <1>3 DEF WatchInv, HeldOK

LEMMA CallWatches ==
    ASSUME ServiceInv, WatchInv, Call
    PROVE  WatchInv'
<1>1. PICK reason : Disconnect(reason)
  BY DEF Call, Hangup, Connect
<1>2. valid' = valid
  BY DEF Call, Hangup, Connect
<1> QED
  BY <1>1, <1>2, DisconnectLetsGo, AllDownWatches

LEMMA QuietWatches ==
    ASSUME ServiceInv, WatchInv, UNCHANGED <<conns, held, valid>>,
           UNCHANGED calls \/ \E q \in Callers : calls' = [calls EXCEPT ![q] = None]
    PROVE  WatchInv'
<1>1. \A k \in Conns : WatchOK(conns[k])'
  BY DEF WatchInv, WatchOK, BarredOK, LeaseOK
<1>2. \A q \in Callers : calls'[q] # None => calls[q] # None
  BY DEF ServiceInv
<1> QED
  BY <1>1, <1>2 DEF WatchInv, HeldOK

\* Time passes: a lease that runs out leaves one round of asking.
LEMMA TickWatches ==
    ASSUME ServiceInv, WatchInv, Tick
    PROVE  WatchInv'
<1>1. /\ \A c \in Conns : Waits(conns[c])
      /\ conns' = [c \in Conns |-> Aged(conns[c])]
      /\ UNCHANGED <<held, calls, valid>>
  BY DEF Tick
<1>2. ASSUME NEW c \in Conns
      PROVE  /\ conns'[c].live = conns[c].live /\ conns'[c].adapter = conns[c].adapter
             /\ WatchOK(conns'[c])
  <2> DEFINE r == conns[c]
             n == Aged(r)
  <2>1. r \in Conn /\ ConnOK(r) /\ WatchOK(r) /\ Waits(r)
    BY <1>1 DEF ServiceInv, WatchInv
  <2>2. /\ n \in Conn
        /\ n.adapter = r.adapter /\ n.live = r.live /\ n.ticket = r.ticket /\ n.watch = r.watch
        /\ n.quiet = (IF r.watch = "ended" THEN 0 ELSE Older(r.quiet, LocalExpiry))
        /\ n.barred = (IF r.live /\ r.ticket \notin valid THEN Older(r.barred, Grace) ELSE 0)
        /\ n.due = (IF r.watch = "ended" THEN 0 ELSE r.due - 1)
        /\ n.asked = (IF r.watch \in Asking THEN r.asked + 1 ELSE 0)
    BY <2>1, AgedIs
  <2>3. conns'[c] = n
    BY <1>1
  <2>4. /\ r.due \in 0 .. Interval /\ r.asked \in 0 .. Timeout /\ r.barred \in Nat /\ r.quiet \in Nat
        /\ n.due \in 0 .. Interval /\ n.asked \in 0 .. Timeout
    BY <2>1, <2>2 DEF Conn
  <2>5. /\ Older(r.quiet, LocalExpiry) \in Nat /\ r.quiet <= Older(r.quiet, LocalExpiry)
        /\ Older(r.quiet, LocalExpiry) <= r.quiet + 1
        /\ r.quiet <= LocalExpiry => Older(r.quiet, LocalExpiry) = r.quiet + 1
        /\ Older(r.barred, Grace) \in Nat /\ Older(r.barred, Grace) <= r.barred + 1
    BY <2>4, GraceIs, OlderIs
  <2>6. r.live => r.watch \in Asking \union {"wait"}
    BY <2>1 DEF WatchOK, LeaseOK, Waits, Asking
  <2>7. /\ r.watch = "wait" /\ r.live => r.due > 0
        /\ r.watch \in Asking => r.asked < Timeout /\ r.due + r.asked = Interval
    BY <2>1 DEF Waits, ConnOK, Asking
  <2> HIDE DEF n, r
  <2>8. CASE ~ (r.live /\ r.ticket \notin valid)
    <3>1. n.barred = 0
      BY <2>2, <2>8
    <3>2. r.live => Until(n) <= Interval + Timeout
      <4>1. CASE r.live /\ r.watch = "wait"
        BY <2>2, <2>4, <4>1, GraceIs DEF Until
      <4>2. CASE r.live /\ r.watch \in Asking
        <5>1. Until(n) = Timeout - n.asked
          BY <2>2, <4>2 DEF Until, Asking
        <5> QED
          BY <2>4, <5>1, GraceIs
      <4> QED
        BY <2>6, <4>1, <4>2
    <3>3. Until(n) \in Int
      <4>1. Until(n) \in {n.due + Timeout, Timeout - n.asked, 0}
        BY DEF Until
      <4> QED
        BY <2>4, <4>1, GraceIs
    <3>4. n.quiet \in Nat
      BY <2>2 DEF Conn
    <3>5. BarredOK(n)
      BY <2>4, <3>1, GraceIs DEF BarredOK
    <3>6. r.live => LeaseOK(n)
      BY <2>2, <2>6, <3>1, <3>2, <3>3, <3>4, GraceIs DEF LeaseOK, Asking
    <3> QED
      BY <2>2, <2>3, <3>5, <3>6 DEF WatchOK, r
  <2>9. CASE r.live /\ r.ticket \notin valid
    <3>1. LeaseOK(r) /\ BarredOK(r)
      BY <2>1, <2>9 DEF WatchOK
    <3>2. /\ n.barred = Older(r.barred, Grace) /\ n.quiet = Older(r.quiet, LocalExpiry)
          /\ n.barred \in Nat /\ n.quiet \in Nat
          /\ n.barred <= r.barred + 1
          /\ n.quiet <= r.quiet + 1 /\ (r.quiet <= LocalExpiry => n.quiet = r.quiet + 1)
      BY <2>2, <2>5, <2>6, <2>9 DEF Asking
    <3>3. Until(r) \in Nat /\ Until(n) = Until(r) - 1 /\ Until(n) <= Interval - 1 + Timeout
      <4>1. CASE r.watch = "wait"
        <5>1. Until(r) = r.due + Timeout /\ Until(n) = n.due + Timeout /\ n.due = r.due - 1
          <6>1. n.watch = "wait" /\ n.due = r.due - 1
            BY <2>2, <4>1
          <6> QED
            BY <4>1, <6>1 DEF Until
        <5> QED
          BY <2>4, <5>1, GraceIs
      <4>2. CASE r.watch \in Asking
        <5>1. Until(r) = Timeout - r.asked /\ Until(n) = Timeout - n.asked /\ n.asked = r.asked + 1
          BY <2>2, <4>2 DEF Until, Asking
        <5> QED
          BY <2>4, <2>7, <4>2, <5>1, GraceIs
      <4> QED
        BY <2>6, <2>9, <4>1, <4>2
    <3>4. n.quiet <= LocalExpiry => n.barred <= Timeout + n.quiet
      <4>1. n.quiet <= LocalExpiry => r.quiet <= LocalExpiry /\ n.quiet = r.quiet + 1
        BY <2>4, <2>5, <3>2, GraceIs
      <4> QED
        BY <2>4, <3>1, <3>2, <4>1, GraceIs DEF LeaseOK
    <3>5. n.quiet > LocalExpiry => n.barred + Until(n) <= Grace
      <4>1. CASE r.quiet <= LocalExpiry
        BY <2>4, <3>1, <3>2, <3>3, <4>1, GraceIs DEF LeaseOK
      <4>2. CASE r.quiet > LocalExpiry
        BY <2>4, <3>1, <3>2, <3>3, <4>2, GraceIs DEF LeaseOK
      <4> QED
        BY <2>4, <4>1, <4>2, GraceIs
    <3>6. n.barred <= Grace
      <4>1. CASE n.quiet <= LocalExpiry
        BY <3>2, <3>4, <4>1, GraceIs
      <4>2. CASE n.quiet > LocalExpiry
        <5>1. Until(n) >= 0
          <6>1. r.live /\ Until(n) \in {n.due + Timeout, Timeout - n.asked, 0}
            BY <2>9 DEF Until
          <6> QED
            BY <2>4, <6>1, GraceIs
        <5> QED
          BY <3>2, <3>3, <3>5, <4>2, <5>1, GraceIs
      <4> QED
        BY <3>2, <4>1, <4>2, GraceIs
    <3>7. r.watch = "yes" => n.barred <= n.asked
      BY <2>2, <2>4, <3>1, <3>2 DEF BarredOK, Asking
    <3>8. BarredOK(n)
      BY <2>2, <2>9, <3>6, <3>7 DEF BarredOK
    <3>9. LeaseOK(n)
      BY <2>2, <2>6, <2>9, <3>4, <3>5 DEF LeaseOK, Asking
    <3> QED
      BY <2>2, <2>3, <3>8, <3>9 DEF WatchOK, r
  <2> QED
    BY <2>8, <2>9
<1>3. \A c \in Conns : WatchOK(conns[c])'
  BY <1>1, <1>2 DEF WatchOK, BarredOK, LeaseOK
<1> QED
  BY <1>1, <1>2, <1>3 DEF WatchInv, HeldOK
LEMMA WatchesStep == OneCaller /\ ServiceInv /\ WatchInv /\ [Next]_vars => WatchInv'
<1> SUFFICES ASSUME OneCaller, ServiceInv, WatchInv, [Next]_vars
             PROVE  WatchInv'
  OBVIOUS
<1>1. CASE Give \/ Take
  BY <1>1, TicketsWatch
<1>2. CASE Call
  BY <1>2, CallWatches
<1>3. CASE ServiceNext /\ UNCHANGED <<appVars, part, given, turns>>
  <2>1. UNCHANGED given
    BY <1>3
  <2>2. ASSUME NEW q \in Callers, Open(q)
        PROVE  WatchInv'
    BY <2>2, OpenWatches
  <2>3. ASSUME NEW q \in Callers, OpenFails(q)
        PROVE  WatchInv'
    BY <2>3, QuietWatches DEF OpenFails
  <2>4. ASSUME NEW c \in Conns, TearDown(c)
        PROVE  WatchInv'
    BY <2>4, TearDownLetsGo, AllDownWatches DEF TearDown
  <2>5. ASSUME NEW c \in Conns, Goroutines(c), ~ TearDown(c)
        PROVE  WatchInv'
    BY <2>1, <2>5, TunnelWatches, WatchWatches DEF Goroutines
  <2> QED
    BY <1>3, <2>2, <2>3, <2>4, <2>5, TickWatches DEF ServiceNext
<1>4. CASE UNCHANGED <<serviceVars, given>>
  BY <1>4, QuietWatches DEF serviceVars
<1>5. UNCHANGED vars => UNCHANGED <<serviceVars, given>>
  BY DEF vars
<1> QED
  BY <1>1, <1>2, <1>3, <1>4, <1>5 DEF Next

LEMMA WatchesStart == Init => WatchInv
<1> SUFFICES ASSUME Init
             PROVE  WatchInv
  OBVIOUS
<1>1. conns = [c \in Conns |-> Unused] /\ held = None /\ calls = [q \in Callers |-> None]
  BY DEF Init, ServiceInit
<1>2. WatchOK(Unused)
  BY ServiceStart, UnusedIsOK
<1>3. Unused.live = FALSE /\ Unused.adapter = FALSE
  BY DEF Unused
<1>4. \A c \in Conns : held # c
  BY <1>1, NetserviceAssumption
<1> QED
  BY <1>1, <1>2, <1>3, <1>4 DEF WatchInv, HeldOK

\* The agent holds the only connection that is up, and its lease is bounded.
LEMMA WatchesSound == ASSUME OneCaller PROVE Spec => []WatchInv
<1>1. OneCaller
  OBVIOUS
<1>2. WatchInv /\ ServiceInv /\ [Next]_vars => WatchInv'
  BY <1>1, WatchesStep
<1> QED
  BY <1>2, WatchesStart, ServiceSound, PTL DEF Spec

\* With one caller of the pipe no connection outlives the revocation of its ticket
\* by more than a question that was just answered, the local expiry and one more
\* round of asking (lease.go, Run), whatever the interval, the expiry and the
\* timeout are and whichever answers are lost.
THEOREM RevocationAlwaysBites == ASSUME OneCaller PROVE Spec => []RevocationBites
<1>1. WatchInv => RevocationBites
  BY DEF WatchInv, WatchOK, BarredOK, RevocationBites
<1> QED
  BY <1>1, WatchesSound, PTL
--------------------------------------------------------------------------------
(* One room's network at a time *)

\* What is up is what the agent holds.
NetIs ==
    /\ held = None => \A t \in Tickets : Cardinality(Up(t)) = 0
    /\ held # None => \A t \in Tickets :
         Cardinality(Up(t)) = IF t = conns[held].ticket THEN 1 ELSE 0

LEMMA UpIsHeld == ServiceInv /\ WatchInv => NetIs
<1> SUFFICES ASSUME ServiceInv, WatchInv
             PROVE  NetIs
  OBVIOUS
<1>1. \A t \in Tickets : Up(t) = {c \in Conns : held = c /\ conns[c].ticket = t}
  BY DEF Up, WatchInv, HeldOK
<1>2. CASE held = None
  <2>1. \A t \in Tickets : Up(t) = {}
    BY <1>1, <1>2, NetserviceAssumption
  <2> QED
    BY <1>2, <2>1, FS_EmptySet DEF NetIs
<1>3. CASE held # None
  <2>1. held \in Conns
    BY <1>3 DEF ServiceInv
  <2>2. \A t \in Tickets : Up(t) = IF t = conns[held].ticket THEN {held} ELSE {}
    BY <1>1, <2>1
  <2> QED
    BY <1>3, <2>2, FS_EmptySet, FS_Singleton DEF NetIs
<1> QED
  BY <1>2, <1>3

LEMMA NetIsNext == ServiceInv' /\ WatchInv' => NetIs'
BY UpIsHeld, PTL

theNet == [t \in Tickets |-> Cardinality(Up(t))]

LEMMA OffIs == NetIs /\ held = None => theNet = Promise!Off
BY DEF NetIs, theNet, Promise!Off

LEMMA OffIsNext == NetIs' /\ held' = None => theNet' = Promise!Off
BY DEF NetIs, theNet, Promise!Off

\* A step that leaves the held connection its ticket is none to the promise.
LEMMA SameNet ==
    ASSUME NetIs, NetIs', UNCHANGED held, held # None => conns'[held].ticket = conns[held].ticket
    PROVE  UNCHANGED theNet
<1>1. CASE held = None
  BY <1>1, OffIs, OffIsNext
<1>2. CASE held # None
  <2>1. \A t \in Tickets : Cardinality(Up(t))' = Cardinality(Up(t))
    BY <1>2 DEF NetIs
  <2> QED
    BY <2>1 DEF theNet
<1> QED
  BY <1>1, <1>2
\* A connection that stays as much up as it was, for the same ticket.
LEMMA TicketStays ==
    ASSUME ServiceInv, WatchInv, NEW c \in Conns, NEW new, Changed(c, new),
           new.ticket = conns[c].ticket, new.live = conns[c].live
    PROVE  held # None => conns'[held].ticket = conns[held].ticket
<1> SUFFICES ASSUME held # None
             PROVE  conns'[held].ticket = conns[held].ticket
  OBVIOUS
<1>1. held \in Conns
  BY DEF ServiceInv
<1> DEFINE s == Settled(new)
<1>2. conns' = [conns EXCEPT ![c] = s]
  BY DEF Changed
<1>3. held = c => s = new
  BY <1>1 DEF Settled, WatchInv, HeldOK
<1> HIDE DEF s
<1> QED
  BY <1>1, <1>2, <1>3 DEF ServiceInv

LEMMA WorkStays ==
    ASSUME ServiceInv, WatchInv, NEW c \in Conns, Goroutines(c), ~ TearDown(c)
    PROVE  /\ held # None => conns'[held].ticket = conns[held].ticket
           /\ UNCHANGED <<held, teardown>>
<1> DEFINE r == conns[c]
<1>1. r \in Conn
  BY DEF ServiceInv
<1>2. UNCHANGED <<held, teardown>>
  BY DEF Goroutines, RelayKnows, RelayAsks, RelayHears, NoReply, SessionFails, TunnelEnds, Step,
         Ask, WatchEnds, RenewLease, Renewed, Refused, Unanswered, Watching
<1>3. CASE RelayAsks(c)
  <2> DEFINE n == [r EXCEPT !.tunnel = "granted", !.granted = 0]
  <2>1. Changed(c, n)
    BY <1>3 DEF RelayAsks, Step
  <2>2. n.ticket = r.ticket /\ n.live = r.live
    BY <1>1 DEF Conn
  <2> QED
    BY <1>2, <2>1, <2>2, TicketStays
<1>4. CASE Ask(c)
  <2> DEFINE n == [r EXCEPT !.watch = "ask", !.asked = 0, !.due = Interval]
  <2>1. Changed(c, n)
    BY <1>4 DEF Ask, Watching
  <2>2. n.ticket = r.ticket /\ n.live = r.live
    BY <1>1 DEF Conn
  <2> QED
    BY <1>2, <2>1, <2>2, TicketStays
<1>5. CASE Renewed(c)
  <2> DEFINE n == [r EXCEPT !.watch = "wait", !.quiet = 0]
  <2>1. Changed(c, n)
    BY <1>5 DEF Renewed, Watching
  <2>2. n.ticket = r.ticket /\ n.live = r.live
    BY <1>1 DEF Conn
  <2> QED
    BY <1>2, <2>1, <2>2, TicketStays
<1>6. ASSUME NEW w, Changed(c, [r EXCEPT !.tunnel = w])
      PROVE  held # None => conns'[held].ticket = conns[held].ticket
  <2> DEFINE n == [r EXCEPT !.tunnel = w]
  <2>1. n.ticket = r.ticket /\ n.live = r.live
    BY <1>1 DEF Conn
  <2> QED
    BY <1>6, <2>1, TicketStays
<1>7. CASE RelayKnows(c) \/ RelayHears(c) \/ NoReply(c) \/ SessionFails(c) \/ TunnelEnds(c)
  <2>1. \E w : Changed(c, [r EXCEPT !.tunnel = w])
    BY <1>7 DEF RelayKnows, RelayHears, NoReply, SessionFails, TunnelEnds, Step
  <2> QED
    BY <1>2, <1>6, <2>1
<1>8. ASSUME NEW w, Changed(c, [r EXCEPT !.watch = w])
      PROVE  held # None => conns'[held].ticket = conns[held].ticket
  <2> DEFINE n == [r EXCEPT !.watch = w]
  <2>1. n.ticket = r.ticket /\ n.live = r.live
    BY <1>1 DEF Conn
  <2> QED
    BY <1>8, <2>1, TicketStays
<1>9. CASE WatchEnds(c) \/ RenewLease(c) \/ Refused(c) \/ Unanswered(c)
  <2>1. \E w : Changed(c, [r EXCEPT !.watch = w])
    BY <1>9 DEF WatchEnds, RenewLease, Refused, Unanswered, Watching
  <2> QED
    BY <1>2, <1>8, <2>1
<1> QED
  BY <1>3, <1>4, <1>5, <1>7, <1>9 DEF Goroutines

LEMMA StepPromised ==
    OneCaller /\ ServiceInv /\ WatchInv /\ [Next]_vars /\ ServiceInv' /\ WatchInv'
      => [Promise!NetworkNext]_<<theNet, teardown>>
<1> SUFFICES ASSUME OneCaller, ServiceInv, WatchInv, [Next]_vars, ServiceInv', WatchInv'
             PROVE  Promise!NetworkNext \/ UNCHANGED <<theNet, teardown>>
  OBVIOUS
<1>0. NetIs /\ NetIs'
  BY UpIsHeld, NetIsNext
<1>1. ASSUME NEW reason \in Own, Disconnect(reason)
      PROVE  Promise!NetworkNext
  <2>1. held' = None /\ teardown' = teardown
    BY <1>1 DEF Disconnect
  <2>2. theNet' = Promise!Off
    BY <1>0, <2>1, OffIsNext
  <2> QED
    BY <2>1, <2>2 DEF theNet, Promise!NetworkNext, Promise!GoOff
<1>2. ASSUME NEW c \in Conns, TearDown(c)
      PROVE  Promise!NetworkNext
  <2>1. held' = None /\ teardown' \in Promise!Reasons
    BY <1>2 DEF TearDown, Promise!Reasons
  <2>2. theNet' = Promise!Off
    BY <1>0, <2>1, OffIsNext
  <2> QED
    BY <2>1, <2>2 DEF theNet, Promise!NetworkNext, Promise!Lose
<1>3. ASSUME NEW q \in Callers, Open(q)
      PROVE  Promise!NetworkNext
  <2> DEFINE t == calls[q]
  <2>1. PICK new \in Conns :
         /\ conns' = [conns EXCEPT ![new] =
              [Unused EXCEPT !.adapter = TRUE, !.live = TRUE, !.ticket = t,
                             !.tunnel = "connecting", !.watch = "wait", !.due = Interval]]
         /\ held' = new
    BY <1>3 DEF Open
  <2>2. t # None /\ teardown' = ""
    BY <1>3 DEF Open
  <2>3. t \in Tickets
    <3>1. t \in 0 .. given /\ given \in Nat /\ 1 .. given \subseteq Tickets
      BY DEF ServiceInv
    <3>2. t # 0
      BY <2>2 DEF None
    <3> HIDE DEF t
    <3>3. t \in 1 .. given
      BY <3>1, <3>2
    <3> QED
      BY <3>1, <3>3
  <2>4. held = None
    BY <2>2 DEF WatchInv, HeldOK
  <2>5. theNet = Promise!Off
    BY <1>0, <2>4, OffIs
  <2>6. held' # None /\ conns'[held'].ticket = t
    <3>1. [Unused EXCEPT !.adapter = TRUE, !.live = TRUE, !.ticket = t,
                         !.tunnel = "connecting", !.watch = "wait", !.due = Interval].ticket = t
      BY DEF Unused
    <3> QED
      BY <2>1, <3>1, NetserviceAssumption DEF ServiceInv
  <2>7. theNet' = Promise!On(t)
    <3>1. \A u \in Tickets : Cardinality(Up(u))' = IF u = t THEN 1 ELSE 0
      BY <1>0, <2>6 DEF NetIs
    <3>2. Promise!On(t) = [u \in Tickets |-> IF u = t THEN 1 ELSE 0]
      BY <2>3 DEF Promise!On, Promise!Off
    <3> QED
      BY <3>1, <3>2 DEF theNet
  <2> QED
    BY <2>2, <2>3, <2>5, <2>7 DEF theNet, Promise!NetworkNext, Promise!GoOn
<1>4. ASSUME UNCHANGED <<held, teardown>>, held # None => conns'[held].ticket = conns[held].ticket
      PROVE  UNCHANGED <<theNet, teardown>>
  BY <1>0, <1>4, SameNet
<1>5. CASE UNCHANGED <<conns, held, teardown>>
  BY <1>4, <1>5
<1>6. CASE Tick
  <2>1. \A c \in Conns : Waits(conns[c]) /\ conns'[c] = Aged(conns[c])
    BY <1>6 DEF Tick
  <2>2. \A c \in Conns : conns'[c].ticket = conns[c].ticket
    BY <2>1, AgedIs
  <2>3. UNCHANGED <<held, teardown>>
    BY <1>6 DEF Tick
  <2> QED
    BY <1>4, <2>2, <2>3 DEF ServiceInv
<1>7. ASSUME NEW c \in Conns, Goroutines(c), ~ TearDown(c)
      PROVE  UNCHANGED <<theNet, teardown>>
  BY <1>4, <1>7, WorkStays
<1>8. CASE Call
  BY <1>1, <1>8 DEF Call, Hangup, Connect, Own
<1>9. CASE Give \/ Take \/ (\E q \in Callers : OpenFails(q)) \/ UNCHANGED <<serviceVars, given>>
  BY <1>5, <1>9 DEF Give, Take, OpenFails, serviceVars
<1> QED
  BY <1>2, <1>3, <1>6, <1>7, <1>8, <1>9 DEF Next, ServiceNext, vars

LEMMA StartPromised == Init => Promise!NetworkInit
<1> SUFFICES ASSUME Init
             PROVE  Promise!NetworkInit
  OBVIOUS
<1>1. held = None /\ teardown = ""
  BY DEF Init, ServiceInit
<1>2. NetIs
  BY ServiceStart, WatchesStart, UpIsHeld
<1>3. theNet = Promise!Off
  BY <1>1, <1>2, OffIs
<1> QED
  BY <1>1, <1>3 DEF theNet, Promise!NetworkInit

\* With one caller of the pipe the service, its tunnels and its watchdogs implement
\* Network: one room's network at a time, and a teardown leaves its reason
\* (agent_windows.go, connect and Disconnect), whatever the constants are.
THEOREM ServiceImplementsNetwork == ASSUME OneCaller PROVE Spec => ImplementsNetwork
<1>1. OneCaller
  OBVIOUS
<1>2. /\ ServiceInv /\ WatchInv /\ [Next]_vars /\ ServiceInv' /\ WatchInv'
        => [Promise!NetworkNext]_<<[t \in Tickets |-> Cardinality(Up(t))], teardown>>
  BY <1>1, StepPromised DEF theNet
<1> QED
  BY <1>2, StartPromised, ServiceSound, WatchesSound, PTL
  DEF Spec, ImplementsNetwork, Promise!NetworkSpec
=================================================================================
