--------------------------- MODULE PacketPathProofs ----------------------------
(* Proofs about PacketPath: the queue loses no wake-up and keeps its order, and *)
(* the window accepts exactly the numbers it should, for every capacity, window *)
(* and number of packets.                                                       *)
EXTENDS PacketPath, TLAPS

\* Everything that left the queue was pushed before everything that is still in
\* it, and what left left in order.
OrderInv ==
    /\ LatestInOrder
    /\ inHand <= pushed - Len(items)
    /\ \A i \in 1 .. Len(sent) : sent[i] <= pushed - Len(items)
    /\ SentInOrder

\* The bitmap says of the last BitmapWidth numbers which were accepted.
WindowInv ==
    /\ window.seen = FALSE => received = <<>> /\ window.bitmap = {} /\ window.highest = 0
    /\ window.seen => /\ window.highest \in Range(received)
                      /\ \A m \in Range(received) : m <= window.highest
    /\ window.seen => \A b \in Bits : b \in window.bitmap <=> window.highest - b \in Range(received)
    /\ ReceivedOnce

PathInv == PathTypeOK /\ NoLostWakeUp /\ OrderInv /\ WindowInv
--------------------------------------------------------------------------------
\* Range of a sequence one longer.
LEMMA RangeOfAppend ==
    ASSUME NEW S, NEW s \in Seq(S), NEW e \in S
    PROVE  Range(Append(s, e)) = Range(s) \union {e}
<1>1. /\ DOMAIN Append(s, e) = 1 .. Len(s) + 1
      /\ DOMAIN s = 1 .. Len(s)
      /\ \A i \in 1 .. Len(s) : Append(s, e)[i] = s[i]
      /\ Append(s, e)[Len(s) + 1] = e
      /\ Len(s) \in Nat
  OBVIOUS
<1>2. 1 .. Len(s) + 1 = (1 .. Len(s)) \union {Len(s) + 1}
  BY <1>1
<1> QED
  BY <1>1, <1>2 DEF Range

\* What the bitmap of WindowInv means for Accepts (session.go, checkReplay): a
\* number is accepted if and only if it was not before and is not too old.
LEMMA AcceptsByWindow ==
    ASSUME PathTypeOK, WindowInv, NEW n \in Nat
    PROVE  Accepts(window, n) <=>
               /\ n \notin Range(received)
               /\ \A m \in Range(received) : m - n < Window
<1>1. /\ window.highest \in Nat /\ window.seen \in BOOLEAN
      /\ \A m \in Range(received) : m \in Nat
      /\ Window \in Nat \ {0} /\ BitmapWidth \in Nat /\ Window <= BitmapWidth
  BY WindowAssumption DEF PathTypeOK, Windows, Range
<1>2. CASE ~ window.seen
  <2>1. Range(received) = {}
    BY <1>2 DEF WindowInv, Range
  <2> QED
    BY <2>1, <1>2 DEF Accepts
<1>3. CASE window.seen /\ n > window.highest
  BY <1>1, <1>3 DEF WindowInv, Accepts
<1>4. CASE window.seen /\ n <= window.highest
  <2>1. window.highest \in Range(received) /\ \A m \in Range(received) : m <= window.highest
    BY <1>4 DEF WindowInv
  <2>2. (\A m \in Range(received) : m - n < Window) <=> window.highest - n < Window
    BY <2>1, <1>1
  <2>3. window.highest - n < Window =>
            (window.highest - n \in window.bitmap <=> n \in Range(received))
    <3>1. window.highest - n < Window => window.highest - n \in Bits
      BY <1>1, <1>4 DEF Bits
    <3>2. window.highest - (window.highest - n) = n
      BY <1>1
    <3> QED
      BY <1>4, <3>1, <3>2 DEF WindowInv
  <2> QED
    BY <1>1, <1>4, <2>2, <2>3 DEF Accepts
<1> QED
  BY <1>1, <1>2, <1>3, <1>4
--------------------------------------------------------------------------------
LEMMA InitPath == Init => PathInv
<1> SUFFICES ASSUME Init PROVE PathInv
  OBVIOUS
<1>1. Range(received) = {}
  BY DEF Init, Range
<1>2. PathTypeOK
  <2>1. Len(items) <= Capacity
    BY PathAssumption DEF Init
  <2>2. window \in Windows
    BY DEF Init, Unused, Windows
  <2>3. received \in Seq(1 .. Len(sent)) /\ items \in Seq(1 .. pushed) /\ sent \in Seq(Nat)
    BY DEF Init
  <2>4. inHand \in 0 .. pushed /\ pushed \in Nat
    BY DEF Init
  <2>5. /\ closed \in BOOLEAN /\ notify \in BOOLEAN /\ ctxDone \in BOOLEAN
        /\ waking \subseteq Pushers \union {Closer}
        /\ writer \in {"pop", "wait", "write", "ended"}
        /\ wire \subseteq 1 .. Len(sent)
    BY DEF Init
  <2> QED
    BY <2>1, <2>2, <2>3, <2>4, <2>5 DEF PathTypeOK
<1>3. NoLostWakeUp /\ OrderInv
  BY DEF Init, NoLostWakeUp, OrderInv, LatestInOrder, SentInOrder
<1>4. WindowInv
  BY <1>1 DEF Init, WindowInv, Unused, ReceivedOnce
<1> QED
  BY <1>2, <1>3, <1>4 DEF PathInv

\* The steps of the queue and the writer leave the receiver alone.
LEMMA SenderKeepsWindow ==
    ASSUME PathInv, UNCHANGED <<window, received>>
    PROVE  WindowInv'
BY DEF PathInv, WindowInv, ReceivedOnce, Range, Bits

\* A queue with a newcomer.
LEMMA QueuedInOrder ==
    ASSUME PathInv, NEW p, p = pushed + 1
    PROVE  /\ Queued(items, p) \in Seq(1 .. p)
           /\ Len(Queued(items, p)) \in 1 .. Capacity
           /\ \A i \in 1 .. Len(Queued(items, p)) :
                  Queued(items, p)[i] = p - Len(Queued(items, p)) + i
           /\ pushed - Len(items) <= p - Len(Queued(items, p))
<1>1. /\ items \in Seq(1 .. p) /\ Len(items) <= Capacity /\ pushed \in Nat
      /\ Capacity \in Nat \ {0}
      /\ \A i \in 1 .. Len(items) : items[i] = pushed - Len(items) + i
  <2>1. items \in Seq(1 .. pushed) /\ pushed \in Nat
    BY DEF PathInv, PathTypeOK
  <2>2. 1 .. pushed \subseteq 1 .. p
    BY <2>1
  <2> QED
    BY <2>1, <2>2, PathAssumption DEF PathInv, PathTypeOK, OrderInv, LatestInOrder
<1>2. CASE Len(items) = Capacity
  <2> DEFINE rest == Tail(items)
  <2>1. /\ rest \in Seq(1 .. p) /\ Len(rest) = Len(items) - 1
        /\ \A i \in 1 .. Len(rest) : rest[i] = items[i + 1]
    BY <1>1, <1>2
  <2>2. \A i \in 1 .. Len(rest) : rest[i] = pushed - Len(items) + i + 1
    BY <1>1, <2>1
  <2>3. Queued(items, p) = Append(rest, p)
    BY <1>2 DEF Queued
  <2>4. p \in 1 .. p
    BY <1>1
  <2> HIDE DEF rest
  <2>5. /\ Append(rest, p) \in Seq(1 .. p) /\ Len(Append(rest, p)) = Len(rest) + 1
        /\ \A i \in 1 .. Len(rest) : Append(rest, p)[i] = rest[i]
        /\ Append(rest, p)[Len(rest) + 1] = p
    BY <2>1, <2>4
  <2>6. Len(items) \in Nat /\ p \in Nat
    BY <1>1
  <2>7. \A i \in 1 .. Len(rest) + 1 : Append(rest, p)[i] = p - (Len(rest) + 1) + i
    <3> TAKE i \in 1 .. Len(rest) + 1
    <3>1. CASE i = Len(rest) + 1
      BY <3>1, <2>1, <2>5, <2>6
    <3>2. CASE i \in 1 .. Len(rest)
      BY <3>2, <1>1, <2>1, <2>2, <2>5, <2>6
    <3> QED
      BY <3>1, <3>2, <2>1, <2>6
  <2>8. Len(rest) + 1 \in 1 .. Capacity /\ pushed - Len(items) <= p - (Len(rest) + 1)
    BY <1>1, <1>2, <2>1, <2>6
  <2> QED
    BY <2>3, <2>5, <2>7, <2>8
<1>3. CASE Len(items) # Capacity
  <2>1. Queued(items, p) = Append(items, p)
    BY <1>3 DEF Queued
  <2>2. p \in 1 .. p
    BY <1>1
  <2>3. /\ Append(items, p) \in Seq(1 .. p) /\ Len(Append(items, p)) = Len(items) + 1
        /\ \A i \in 1 .. Len(items) : Append(items, p)[i] = items[i]
        /\ Append(items, p)[Len(items) + 1] = p
    BY <1>1, <2>2
  <2>4. Len(items) \in Nat /\ p \in Nat
    BY <1>1
  <2>5. \A i \in 1 .. Len(items) + 1 : Append(items, p)[i] = p - (Len(items) + 1) + i
    BY <1>1, <2>3, <2>4
  <2>6. Len(items) + 1 \in 1 .. Capacity /\ pushed - Len(items) <= p - (Len(items) + 1)
    BY <1>1, <1>3, <2>4
  <2> QED
    BY <2>1, <2>3, <2>5, <2>6
<1> QED
  BY <1>2, <1>3
--------------------------------------------------------------------------------
LEMMA TypesKept == PathInv /\ [Next]_vars => PathTypeOK'
<1> SUFFICES ASSUME PathInv, [Next]_vars PROVE PathTypeOK'
  OBVIOUS
<1>0. PathTypeOK
  BY DEF PathInv
<1>1. ASSUME NEW g \in Pushers, Push(g) PROVE PathTypeOK'
  <2>1. /\ pushed' = pushed + 1 /\ items' = Queued(items, pushed + 1)
        /\ pushed \in Nat /\ inHand \in 0 .. pushed
    BY <1>0, <1>1 DEF Push, PathTypeOK
  <2>2. items' \in Seq(1 .. pushed') /\ Len(items') <= Capacity
    BY <2>1, QueuedInOrder
  <2>3. inHand \in 0 .. pushed'
    BY <2>1
  <2>4. UNCHANGED <<closed, notify, ctxDone, writer, inHand, sent, wire, window, received>>
    BY <1>1 DEF Push, writeVars
  <2>5. waking' \subseteq Pushers \union {Closer}
    BY <1>0, <1>1 DEF Push, PathTypeOK
  <2> QED
    BY <1>0, <2>1, <2>2, <2>3, <2>4, <2>5 DEF PathTypeOK
<1>2. CASE Close
  <2>1. items' \in Seq(1 .. pushed') /\ Len(items') <= Capacity
    BY <1>2, PathAssumption DEF Close
  <2> QED
    BY <1>0, <1>2, <2>1 DEF Close, PathTypeOK, writeVars, Closer
<1>3. ASSUME NEW g \in Pushers \union {Closer}, Wake(g) PROVE PathTypeOK'
  BY <1>0, <1>3 DEF Wake, PathTypeOK, writeVars
<1>4. CASE Pop
  <2>1. /\ items \in Seq(1 .. pushed) /\ items # <<>> /\ pushed \in Nat
        /\ Len(items) <= Capacity /\ Capacity \in Nat
        /\ items' = Tail(items) /\ inHand' = Head(items) /\ pushed' = pushed
    BY <1>0, <1>4, PathAssumption DEF Pop, PathTypeOK
  <2>2. items' \in Seq(1 .. pushed') /\ Len(items') <= Capacity /\ inHand' \in 0 .. pushed'
    <3>1. Tail(items) \in Seq(1 .. pushed) /\ Len(Tail(items)) = Len(items) - 1
      BY <2>1
    <3>2. Head(items) \in 1 .. pushed /\ Len(items) \in Nat
      BY <2>1
    <3> QED
      BY <2>1, <3>1, <3>2
  <2> QED
    BY <1>0, <1>4, <2>2 DEF Pop, PathTypeOK
<1>5. CASE PopClosed \/ PopNothing \/ Woken \/ Stopped \/ Shutdown
  BY <1>0, <1>5 DEF PopClosed, PopNothing, Woken, Stopped, Shutdown, PathTypeOK,
                    queueVars, writeVars
<1>6. CASE Write
  <2>1. /\ sent \in Seq(Nat) /\ inHand \in Nat /\ received \in Seq(1 .. Len(sent))
        /\ wire \subseteq 1 .. Len(sent)
    BY <1>0 DEF PathTypeOK
  <2>2. sent' \in Seq(Nat) /\ Len(sent') = Len(sent) + 1 /\ Len(sent) \in Nat
    BY <1>6, <2>1 DEF Write
  <2>3. 1 .. Len(sent) \subseteq 1 .. Len(sent') /\ Len(sent) + 1 \in 1 .. Len(sent')
    BY <2>2
  <2>4. wire' \subseteq 1 .. Len(sent') /\ received' \in Seq(1 .. Len(sent'))
    <3>1. wire' = wire \union {Len(sent) + 1} /\ received' = received
      BY <1>6 DEF Write
    <3>2. wire' \subseteq 1 .. Len(sent')
      BY <2>1, <2>3, <3>1
    <3>3. received' \in Seq(1 .. Len(sent'))
      BY <2>1, <2>3, <3>1
    <3> QED
      BY <3>2, <3>3
  <2>5. UNCHANGED <<items, closed, notify, waking, pushed, inHand, ctxDone, window>>
        /\ writer' = "pop"
    BY <1>6 DEF Write, queueVars
  <2> QED
    BY <1>0, <2>2, <2>4, <2>5 DEF PathTypeOK
<1>7. ASSUME NEW n \in wire, Lose(n) PROVE PathTypeOK'
  BY <1>0, <1>7 DEF Lose, PathTypeOK, queueVars, writeVars
<1>8. ASSUME NEW n \in wire, Open(n) PROVE PathTypeOK'
  <2>1. /\ n \in 1 .. Len(sent) /\ Len(sent) \in Nat
        /\ window \in Windows /\ received \in Seq(1 .. Len(sent))
    BY <1>0 DEF PathTypeOK
  <2>2. window' \in Windows
    <3>1. CASE window' = window
      BY <2>1, <3>1
    <3>2. CASE window' = Accepted(window, n)
      <4>1. /\ window.seen \in BOOLEAN /\ window.highest \in Nat
            /\ window.bitmap \in SUBSET Bits /\ n \in Nat
        BY <2>1 DEF Windows
      <4>2. CASE ~ window.seen
        BY <3>2, <4>1, <4>2 DEF Accepted, Windows
      <4>3. CASE window.seen /\ n > window.highest
        <5>1. 0 \in Bits
          BY WindowAssumption DEF Bits
        <5>2. Shifted(window.bitmap, n - window.highest) \union {0} \in SUBSET Bits
          BY <5>1 DEF Shifted
        <5> QED
          BY <3>2, <4>1, <4>3, <5>2 DEF Accepted, Windows
      <4>4. CASE window.seen /\ ~ n > window.highest
        <5>1. window.bitmap \union ({window.highest - n} \intersect Bits) \in SUBSET Bits
          BY <4>1
        <5> QED
          BY <2>1, <3>2, <4>4, <5>1 DEF Accepted, Windows
      <4> QED
        BY <4>1, <4>2, <4>3, <4>4
    <3> QED
      BY <1>8, <3>1, <3>2 DEF Open
  <2>3. received' \in Seq(1 .. Len(sent))
    BY <1>8, <2>1 DEF Open
  <2> QED
    BY <1>0, <1>8, <2>2, <2>3 DEF Open, PathTypeOK, queueVars, writeVars
<1>9. CASE UNCHANGED vars
  BY <1>0, <1>9 DEF PathTypeOK, vars, queueVars, writeVars
<1> QED
  BY <1>1, <1>2, <1>3, <1>4, <1>5, <1>6, <1>7, <1>8, <1>9 DEF Next

\* Whoever changed the queue under the mutex is still to send the wake-up.
LEMMA WakeUpKept == PathInv /\ [Next]_vars => NoLostWakeUp'
<1> SUFFICES ASSUME PathInv, [Next]_vars PROVE NoLostWakeUp'
  OBVIOUS
<1>0. NoLostWakeUp
  BY DEF PathInv
<1>1. ASSUME NEW g \in Pushers, Push(g) PROVE NoLostWakeUp'
  BY <1>1 DEF Push, NoLostWakeUp
<1>2. CASE Close
  BY <1>2 DEF Close, NoLostWakeUp
<1>3. ASSUME NEW g \in Pushers \union {Closer}, Wake(g) PROVE NoLostWakeUp'
  BY <1>3 DEF Wake, NoLostWakeUp
<1>4. CASE Pop \/ PopClosed \/ PopNothing \/ Woken \/ Stopped \/ Write
  BY <1>0, <1>4 DEF Pop, PopClosed, PopNothing, Woken, Stopped, Write, NoLostWakeUp,
                    queueVars, writeVars
<1>5. CASE Shutdown \/ \E n \in wire : Lose(n) \/ Open(n)
  BY <1>0, <1>5 DEF Shutdown, Lose, Open, NoLostWakeUp, queueVars, writeVars
<1>6. CASE UNCHANGED vars
  BY <1>0, <1>6 DEF NoLostWakeUp, vars, queueVars, writeVars
<1> QED
  BY <1>1, <1>2, <1>3, <1>4, <1>5, <1>6 DEF Next

LEMMA OrderKept == PathInv /\ [Next]_vars => OrderInv'
<1> SUFFICES ASSUME PathInv, [Next]_vars PROVE OrderInv'
  OBVIOUS
<1>0. /\ OrderInv
      /\ items \in Seq(1 .. pushed) /\ Len(items) \in Nat /\ pushed \in Nat
      /\ sent \in Seq(Nat) /\ Len(sent) \in Nat /\ inHand \in Nat
      /\ \A i \in 1 .. Len(sent) : sent[i] \in Nat
  BY DEF PathInv, PathTypeOK
<1>1. ASSUME NEW g \in Pushers, Push(g) PROVE OrderInv'
  <2>1. /\ pushed' = pushed + 1 /\ items' = Queued(items, pushed + 1)
        /\ UNCHANGED <<writer, inHand, sent>>
    BY <1>1 DEF Push, writeVars
  <2>2. /\ Len(items') \in Nat
        /\ \A i \in 1 .. Len(items') : items'[i] = pushed' - Len(items') + i
        /\ pushed - Len(items) <= pushed' - Len(items')
    BY <2>1, QueuedInOrder, PathAssumption
  <2>3. \A m \in Nat : m <= pushed - Len(items) => m <= pushed' - Len(items')
    BY <1>0, <2>1, <2>2
  <2> QED
    BY <1>0, <2>1, <2>2, <2>3 DEF OrderInv, LatestInOrder, SentInOrder
<1>2. CASE Close
  <2>1. items' = <<>> /\ Len(items') = 0 /\ pushed' = pushed /\ UNCHANGED <<writer, inHand, sent>>
    BY <1>2 DEF Close, writeVars
  <2>2. \A m \in Nat : m <= pushed - Len(items) => m <= pushed' - Len(items')
    BY <1>0, <2>1
  <2> QED
    BY <1>0, <2>1, <2>2 DEF OrderInv, LatestInOrder, SentInOrder
<1>3. CASE Pop
  <2>1. /\ items' = Tail(items) /\ inHand' = Head(items) /\ items # <<>>
        /\ UNCHANGED <<pushed, sent>>
    BY <1>3 DEF Pop
  <2>2. /\ Len(items') = Len(items) - 1 /\ Len(items) \in Nat \ {0} /\ inHand' = items[1]
        /\ \A i \in 1 .. Len(items') : items'[i] = items[i + 1]
    BY <1>0, <2>1
  <2>3. inHand' = pushed - Len(items) + 1
    BY <1>0, <2>2 DEF OrderInv, LatestInOrder
  <2>4. LatestInOrder'
    BY <1>0, <2>1, <2>2 DEF OrderInv, LatestInOrder
  <2>5. \A i \in 1 .. Len(sent) : sent[i] < inHand' /\ sent[i] <= pushed - Len(items')
    BY <1>0, <2>2, <2>3 DEF OrderInv
  <2>6. inHand' <= pushed - Len(items')
    BY <1>0, <2>2, <2>3
  <2> QED
    BY <1>0, <2>1, <2>4, <2>5, <2>6 DEF OrderInv, SentInOrder
<1>4. CASE PopClosed \/ PopNothing \/ Woken \/ Stopped
  BY <1>0, <1>4 DEF PopClosed, PopNothing, Woken, Stopped, OrderInv, LatestInOrder,
                    SentInOrder, queueVars
<1>5. CASE Write
  <2>1. /\ sent' = Append(sent, inHand) /\ writer = "write" /\ writer' = "pop"
        /\ UNCHANGED <<items, pushed, inHand>>
    BY <1>5 DEF Write, queueVars
  <2>2. /\ Len(sent') = Len(sent) + 1 /\ sent'[Len(sent) + 1] = inHand
        /\ \A i \in 1 .. Len(sent) : sent'[i] = sent[i]
    BY <1>0, <2>1
  <2>3. \A i \in 1 .. Len(sent') : i \in 1 .. Len(sent) \/ i = Len(sent) + 1
    BY <1>0, <2>2
  <2>4. \A i \in 1 .. Len(sent') : sent'[i] <= pushed - Len(items)
    BY <1>0, <2>2, <2>3 DEF OrderInv
  <2>5. \A i, j \in 1 .. Len(sent') : i < j => sent'[i] < sent'[j]
    <3> TAKE i, j \in 1 .. Len(sent')
    <3> HAVE i < j
    <3>1. i \in 1 .. Len(sent)
      BY <1>0, <2>2
    <3>2. CASE j = Len(sent) + 1
      BY <1>0, <2>1, <2>2, <3>1, <3>2 DEF OrderInv, SentInOrder
    <3>3. CASE j \in 1 .. Len(sent)
      BY <1>0, <2>2, <3>1, <3>3 DEF OrderInv, SentInOrder
    <3> QED
      BY <2>3, <3>2, <3>3
  <2> QED
    BY <1>0, <2>1, <2>4, <2>5 DEF OrderInv, LatestInOrder, SentInOrder
<1>6. CASE Shutdown \/ (\E g \in Pushers \union {Closer} : Wake(g))
           \/ \E n \in wire : Lose(n) \/ Open(n)
  <2>1. UNCHANGED <<items, pushed, writer, inHand, sent>>
    BY <1>6 DEF Shutdown, Wake, Lose, Open, queueVars, writeVars
  <2> QED
    BY <1>0, <2>1 DEF OrderInv, LatestInOrder, SentInOrder
<1>7. CASE UNCHANGED vars
  BY <1>0, <1>7 DEF OrderInv, LatestInOrder, SentInOrder, vars, queueVars, writeVars
<1> QED
  BY <1>1, <1>2, <1>3, <1>4, <1>5, <1>6, <1>7 DEF Next

\* The window that accepted n stands for what was received and n.
LEMMA AcceptedMarks ==
    ASSUME PathTypeOK, WindowInv, NEW n \in Nat, Accepts(window, n),
           NEW R, R = Range(received) \union {n}, NEW w, w = Accepted(window, n)
    PROVE  /\ w.seen
           /\ w.highest \in R
           /\ \A m \in R : m <= w.highest
           /\ \A b \in Bits : b \in w.bitmap <=> w.highest - b \in R
<1>1. /\ window \in Windows /\ window.seen \in BOOLEAN /\ window.highest \in Nat
      /\ window.bitmap \subseteq Bits
      /\ \A m \in Range(received) : m \in Nat
      /\ Window \in Nat \ {0} /\ BitmapWidth \in Nat \ {0} /\ 0 \in Bits
      /\ \A b \in Bits : b \in Nat /\ b < BitmapWidth
  BY WindowAssumption DEF PathTypeOK, Windows, Range, Bits
<1>2. CASE ~ window.seen
  <2>1. Range(received) = {} /\ window.bitmap = {}
    BY <1>2 DEF WindowInv, Range
  <2>2. w.seen /\ w.highest = n /\ w.bitmap = {0} /\ R = {n}
    BY <1>1, <1>2, <2>1 DEF Accepted
  <2>3. \A b \in Bits : n - b = n <=> b = 0
    BY <1>1
  <2> QED
    BY <2>2, <2>3
<1>3. CASE window.seen /\ n > window.highest
  <2> DEFINE shift == n - window.highest
  <2>1. w.seen /\ w.highest = n /\ w.bitmap = Shifted(window.bitmap, shift) \union {0}
    BY <1>3 DEF Accepted
  <2>2. \A m \in Range(received) : m <= window.highest
    BY <1>3 DEF WindowInv
  <2>3. \A m \in R : m <= n
    BY <1>1, <1>3, <2>2
  <2>4. ASSUME NEW b \in Bits PROVE b \in w.bitmap <=> n - b \in R
    <3>1. CASE b = 0
      BY <1>1, <2>1, <3>1
    <3>2. CASE b # 0
      <4>1. n - b \in R <=> n - b \in Range(received)
        BY <1>1, <3>2
      <4>2. b \in w.bitmap <=> b \in Shifted(window.bitmap, shift)
        BY <2>1, <3>2
      <4>3. CASE shift >= BitmapWidth
        <5>1. b \notin Shifted(window.bitmap, shift)
          BY <4>3 DEF Shifted
        <5>2. n - b > window.highest
          BY <1>1, <4>3
        <5>3. n - b \notin Range(received)
          BY <1>1, <2>2, <5>2
        <5> QED
          BY <4>1, <4>2, <5>1, <5>3
      <4>4. CASE ~ shift >= BitmapWidth
        <5>1. b \in Shifted(window.bitmap, shift) <=> \E a \in window.bitmap : b = a + shift
          BY <4>4 DEF Shifted
        <5>2. CASE b < shift
          <6>1. \A a \in window.bitmap : b # a + shift
            BY <1>1, <1>3, <5>2
          <6>2. n - b \notin Range(received)
            BY <1>1, <2>2, <5>2
          <6> QED
            BY <4>1, <4>2, <5>1, <6>1, <6>2
        <5>3. CASE ~ b < shift
          <6>1. b - shift \in Bits
            BY <1>1, <1>3, <5>3 DEF Bits
          <6>2. (\E a \in window.bitmap : b = a + shift) <=> b - shift \in window.bitmap
            BY <1>1, <1>3
          <6>3. window.highest - (b - shift) = n - b
            BY <1>1
          <6>4. b - shift \in window.bitmap <=> n - b \in Range(received)
            BY <1>3, <6>1, <6>3 DEF WindowInv
          <6> QED
            BY <4>1, <4>2, <5>1, <6>2, <6>4
        <5> QED
          BY <5>2, <5>3
      <4> QED
        BY <4>3, <4>4
    <3> QED
      BY <3>1, <3>2
  <2> QED
    BY <2>1, <2>3, <2>4
<1>4. CASE window.seen /\ ~ n > window.highest
  <2>1. /\ w.seen /\ w.highest = window.highest
        /\ w.bitmap = window.bitmap \union ({window.highest - n} \intersect Bits)
    BY <1>1, <1>4 DEF Accepted, Windows
  <2>2. /\ window.highest \in Range(received)
        /\ \A m \in Range(received) : m <= window.highest
    BY <1>4 DEF WindowInv
  <2>3. ASSUME NEW b \in Bits PROVE b \in w.bitmap <=> window.highest - b \in R
    <3>1. b \in window.bitmap <=> window.highest - b \in Range(received)
      BY <1>4 DEF WindowInv
    <3>2. window.highest - b = n <=> b = window.highest - n
      BY <1>1
    <3> QED
      BY <2>1, <3>1, <3>2
  <2>4. \A m \in R : m <= window.highest
    BY <1>1, <1>4, <2>2
  <2> QED
    BY <2>1, <2>2, <2>3, <2>4
<1> QED
  BY <1>1, <1>2, <1>3, <1>4

LEMMA WindowKept == PathInv /\ [Next]_vars => WindowInv'
<1> SUFFICES ASSUME PathInv, [Next]_vars PROVE WindowInv'
  OBVIOUS
<1>0. PathTypeOK /\ WindowInv
  BY DEF PathInv
<1>1. ASSUME NEW n \in wire, Open(n) PROVE WindowInv'
  <2>1. CASE UNCHANGED <<window, received>>
    BY <2>1, SenderKeepsWindow
  <2>2. CASE ~ UNCHANGED <<window, received>>
    <3>1. /\ Accepts(window, n) /\ window' = Accepted(window, n)
          /\ received' = Append(received, n)
      BY <1>1, <2>2 DEF Open
    <3>2. n \in 1 .. Len(sent) /\ n \in Nat /\ received \in Seq(1 .. Len(sent))
      BY <1>0 DEF PathTypeOK
    <3>3. Range(received') = Range(received) \union {n}
      BY <3>1, <3>2, RangeOfAppend
    <3>4. /\ window'.seen
          /\ window'.highest \in Range(received')
          /\ \A m \in Range(received') : m <= window'.highest
          /\ \A b \in Bits : b \in window'.bitmap <=> window'.highest - b \in Range(received')
      BY <1>0, <3>1, <3>2, <3>3, AcceptedMarks
    <3>5. n \notin Range(received)
      BY <1>0, <3>1, <3>2, AcceptsByWindow
    <3>6. ReceivedOnce'
      <4>1. /\ Len(received') = Len(received) + 1 /\ Len(received) \in Nat
            /\ received'[Len(received) + 1] = n
            /\ \A i \in 1 .. Len(received) : received'[i] = received[i] /\ received[i] # n
        BY <3>1, <3>2, <3>5 DEF Range
      <4>2. \A i \in 1 .. Len(received') : i \in 1 .. Len(received) \/ i = Len(received) + 1
        BY <4>1
      <4>3. ReceivedOnce
        BY <1>0 DEF WindowInv
      <4> QED
        BY <4>1, <4>2, <4>3 DEF ReceivedOnce
    <3>7. window'.seen \in BOOLEAN
      BY TypesKept DEF PathTypeOK, Windows
    <3> QED
      BY <3>4, <3>6, <3>7 DEF WindowInv, Bits
  <2> QED
    BY <2>1, <2>2
<1>2. CASE \/ \E g \in Pushers : Push(g)
           \/ \E g \in Pushers \union {Closer} : Wake(g)
           \/ Close \/ Shutdown \/ Pop \/ PopClosed \/ PopNothing
           \/ Woken \/ Stopped \/ Write
           \/ (\E n \in wire : Lose(n)) \/ UNCHANGED vars
  <2>1. UNCHANGED <<window, received>>
    BY <1>2 DEF Push, Wake, Close, Shutdown, Pop, PopClosed, PopNothing, Woken, Stopped,
                Write, Lose, vars
  <2> QED
    BY <2>1, SenderKeepsWindow
<1> QED
  BY <1>1, <1>2 DEF Next
--------------------------------------------------------------------------------
\* PathInv is an invariant: it holds at first and every step keeps it.
THEOREM PathInvariant == PathSpec => []PathInv
<1>1. Init => PathInv
  BY InitPath
<1>2. PathInv /\ [Next]_vars => PathInv'
  BY TypesKept, WakeUpKept, OrderKept, WindowKept DEF PathInv
<1> QED
  BY <1>1, <1>2, PTL DEF PathSpec

\* The queue never holds more than its capacity, and the rest has its type
\* (queue.go, New and Push).
THEOREM PathTypes == PathSpec => []PathTypeOK
<1>1. PathInv => PathTypeOK
  BY DEF PathInv
<1> QED
  BY <1>1, PathInvariant, PTL

\* No wake-up is lost between an unlock and the writer's wait, for any number of
\* pushers (queue.go, Push and Pop).
THEOREM NoWakeUpIsLost == PathSpec => []NoLostWakeUp
<1>1. PathInv => NoLostWakeUp
  BY DEF PathInv
<1> QED
  BY <1>1, PathInvariant, PTL

\* Only the oldest packet is ever given up, and packets leave in the order of their
\* pushes, for every capacity (queue.go: drop-oldest FIFO).
THEOREM OrderIsKept == PathSpec => [](LatestInOrder /\ SentInOrder)
<1>1. PathInv => LatestInOrder /\ SentInOrder
  BY DEF PathInv, OrderInv
<1> QED
  BY <1>1, PathInvariant, PTL

\* No datagram is taken twice, for every window (session.go, checkReplay).
THEOREM NothingTwice == PathSpec => []ReceivedOnce
<1>1. PathInv => ReceivedOnce
  BY DEF PathInv, WindowInv
<1> QED
  BY <1>1, PathInvariant, PTL

\* The window accepts exactly what was not accepted yet and is not too old, for
\* every window that its bitmap has room for (session.go, checkReplay).
THEOREM WindowIsExact == PathSpec => []AcceptsExactly
<1>1. PathInv => AcceptsExactly
  <2> SUFFICES ASSUME PathInv, NEW n \in 1 .. Len(sent)
               PROVE  Accepts(window, n) <=> /\ n \notin Range(received)
                                             /\ \A m \in Range(received) : m - n < Window
    BY DEF AcceptsExactly
  <2>1. n \in Nat
    BY DEF PathInv, PathTypeOK
  <2> QED
    BY <2>1, AcceptsByWindow DEF PathInv
<1> QED
  BY <1>1, PathInvariant, PTL
=================================================================================
