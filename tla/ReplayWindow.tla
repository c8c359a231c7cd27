----------------------------- MODULE ReplayWindow ------------------------------
(* The sliding window of a secure session (protocol/crypto/session.go): which   *)
(* sequence numbers it accepts.  The bitmap is the set of its bits that are 1.  *)
EXTENDS Integers

CONSTANTS
    Window,        \* replayWindow
    BitmapWidth    \* of the bitmap's type: 64

ASSUME WindowAssumption ==
    /\ Window \in Nat \ {0} /\ BitmapWidth \in Nat
    /\ Window <= BitmapWidth

Bits    == 0 .. BitmapWidth - 1
Windows == [seen : BOOLEAN, highest : Nat, bitmap : SUBSET Bits]

Unused == [seen |-> FALSE, highest |-> 0, bitmap |-> {}]

Accepts(w, seq) ==
    \/ ~ w.seen
    \/ seq > w.highest
    \/ w.highest - seq < Window /\ w.highest - seq \notin w.bitmap

Shifted(bitmap, shift) ==
    IF shift >= BitmapWidth THEN {} ELSE {b + shift : b \in bitmap} \intersect Bits

\* Mutant of Accepted: a number behind the highest leaves no mark.
AcceptedUnmarked(w, seq) ==
    IF ~ w.seen THEN [seen |-> TRUE, highest |-> seq, bitmap |-> {0} \intersect Bits]
    ELSE IF seq > w.highest
    THEN [seen |-> TRUE, highest |-> seq,
          bitmap |-> Shifted(w.bitmap, seq - w.highest) \union {0}]
    ELSE w

\* The window after it accepted seq.
Accepted(w, seq) ==
    IF ~ w.seen THEN [seen |-> TRUE, highest |-> seq, bitmap |-> {0} \intersect Bits]
    ELSE IF seq > w.highest
    THEN [seen |-> TRUE, highest |-> seq,
          bitmap |-> Shifted(w.bitmap, seq - w.highest) \union {0}]
    ELSE [w EXCEPT !.bitmap = @ \union ({w.highest - seq} \intersect Bits)]
=================================================================================
