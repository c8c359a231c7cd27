------------------------------ MODULE PeopleProofs ------------------------------
(* The invariants of the stores of the coordinator's people, for any number of  *)
(* people, requests, rows and messages, and at any length of time.              *)
EXTENDS MCPeople, WellFoundedInduction, FiniteSetTheorems, TLAPS

--------------------------------------------------------------------------------
(* Tables *)

LEMMA RestrictIs ==
    ASSUME NEW f, NEW S
    PROVE  /\ DOMAIN Restrict(f, S) = S
           /\ \A x \in S : Restrict(f, S)[x] = f[x]
  BY DEF Restrict

\* The largest of a set that has one.
LEMMA MaxIs ==
    ASSUME NEW S, S \subseteq Int, NEW x \in S, \A y \in S : y <= x
    PROVE  Max(S) = x
<1>1. \A y \in S : x >= y
  OBVIOUS
<1>2. \E m \in S : \A y \in S : m >= y
  BY <1>1
<1>3. Max(S) \in S /\ \A y \in S : Max(S) >= y
  BY <1>2, Zenon DEF Max
<1>4. \A m \in S : (\A y \in S : m >= y) => m = x
  BY <1>1
<1> QED
  BY <1>3, <1>4
--------------------------------------------------------------------------------
(* Presence *)

\* When the flush asks from next, and whom it was told of and has yet to write down.
Mark == IF flush.do = "mark" THEN flush.asked ELSE flush.since
Told == IF flush.do = "wait" THEN <<>> ELSE flush.seen

\* The registry and the database keep times that were, the database no later one.
RegistryOK ==
    /\ time \in Nat
    /\ DOMAIN players \subseteq Visitors /\ DOMAIN recorded \subseteq Visitors
    /\ \A p \in DOMAIN players : players[p] \in 0 .. time
    /\ \A p \in DOMAIN recorded : recorded[p] \in 0 .. time
    /\ \A p \in DOMAIN players \intersect DOMAIN recorded : recorded[p] <= players[p]

\* Whoever sits or is about to is known, and the sweep that is under way, having
\* read the clock before it asked who sits, forgets none of them.
SeatingOK ==
    /\ seated \subseteq DOMAIN players /\ entering \subseteq DOMAIN players
    /\ \A p \in entering : time <= players[p] + IdleWindow
    /\ \/ sweep = Idle
       \/ /\ sweep = [do |-> "sweep", keep |-> sweep.keep, before |-> sweep.before]
          /\ sweep.before \in Int /\ sweep.before <= time - IdleWindow
          /\ \A p \in seated : p \in sweep.keep \/ players[p] >= sweep.before

\* What a flush was told is what the registry said then, and nobody seen before its
\* mark is neither written down, nor told of, nor in a gap.
FlushOK ==
    /\ \/ flush.do = "wait" /\ flush = Waiting(flush.since)
       \/ flush.do = "mark" /\ flush = [do |-> "mark", seen |-> flush.seen, asked |-> flush.asked]
       \/ flush.do = "record" /\ flush = [do |-> "record", seen |-> flush.seen, since |-> flush.since]
    /\ Mark \in 0 .. time
    /\ DOMAIN Told \subseteq Visitors /\ \A p \in DOMAIN Told : Told[p] \in 0 .. time
    /\ \A p \in DOMAIN Told \intersect DOMAIN players : Told[p] <= players[p]
    /\ \A p \in DOMAIN Told \intersect DOMAIN recorded : recorded[p] <= Told[p]
    /\ \A p \in DOMAIN players : players[p] < Mark =>
          \/ p \in DOMAIN recorded /\ recorded[p] = players[p]
          \/ p \in DOMAIN Told /\ Told[p] = players[p]
          \/ players[p] \in gaps

PresenceInv == RegistryOK /\ SeatingOK /\ FlushOK

LEMMA PresenceStarts == PresenceInit => PresenceInv
<1> SUFFICES ASSUME PresenceInit PROVE PresenceInv
  OBVIOUS
<1>1. RegistryOK /\ SeatingOK
  BY DEF PresenceInit, RegistryOK, SeatingOK
<1>2. flush.do = "wait" /\ flush.since = 0 /\ flush = Waiting(0) /\ time = 0
  BY DEF PresenceInit, Waiting
<1>3. FlushOK
  BY <1>2 DEF PresenceInit, FlushOK, Mark, Told
<1> QED
  BY <1>1, <1>3 DEF PresenceInv

\* Somebody who is seen now disturbs nothing.
LEMMA SeenKeeps ==
    ASSUME PresenceInv, NEW p \in Visitors, Seen(p),
           UNCHANGED <<seated, sweep, recorded, flush, gaps, time>>
    PROVE  /\ RegistryOK' /\ FlushOK'
           /\ DOMAIN players' = DOMAIN players \union {p} /\ players'[p] = time
           /\ \A v \in DOMAIN players : players'[v] = players[v] \/ players'[v] = time
           /\ entering' \subseteq entering \union {p} => SeatingOK'
<1> USE DEF PresenceInv
<1>1. /\ DOMAIN players' = DOMAIN players \union {p} /\ players'[p] = time
      /\ \A v \in DOMAIN players : v # p => players'[v] = players[v]
  BY DEF Seen, Put
<1>2. RegistryOK'
  BY <1>1 DEF RegistryOK
<1>3. Told' = Told /\ Mark' = Mark
  BY DEF Told, Mark
<1>4. FlushOK'
  BY <1>1, <1>3 DEF FlushOK, RegistryOK
<1>5. ASSUME entering' \subseteq entering \union {p} PROVE SeatingOK'
  BY <1>1, <1>5, PresenceAssumption DEF SeatingOK, RegistryOK
<1> QED
  BY <1>1, <1>2, <1>4, <1>5

LEMMA PresenceSteps == PresenceInv /\ [PresenceNext]_presenceVars => PresenceInv'
<1> SUFFICES ASSUME PresenceInv, [PresenceNext]_presenceVars PROVE PresenceInv'
  OBVIOUS
<1> USE DEF PresenceInv
<1>1. ASSUME NEW p \in Visitors, Heartbeat(p) \/ Enter(p) PROVE PresenceInv'
  BY <1>1, SeenKeeps DEF Heartbeat, Enter
<1>2. ASSUME NEW p \in Visitors, Sit(p) \/ Rise(p) PROVE PresenceInv'
  <2>1. UNCHANGED <<players, sweep, recorded, flush, gaps, time>>
    BY <1>2 DEF Sit, Rise
  <2>2. RegistryOK' /\ FlushOK'
    BY <2>1 DEF RegistryOK, FlushOK, Told, Mark
  <2>3. entering' \subseteq entering /\ seated' \subseteq seated \union entering
    BY <1>2 DEF Sit, Rise
  <2>4. \A v \in entering : players[v] >= time - IdleWindow
    BY PresenceAssumption DEF SeatingOK, RegistryOK
  <2>5. SeatingOK'
    BY <2>1, <2>3, <2>4, PresenceAssumption DEF SeatingOK, RegistryOK
  <2> QED
    BY <2>2, <2>5
<1>3. CASE AskSeated
  <2>1. RegistryOK' /\ FlushOK'
    BY <1>3 DEF AskSeated, RegistryOK, FlushOK, Told, Mark
  <2>2. sweep'.keep = seated /\ sweep'.before = time - IdleWindow
    BY <1>3 DEF AskSeated
  <2>3. SeatingOK'
    BY <1>3, <2>2, PresenceAssumption DEF AskSeated, SeatingOK, RegistryOK
  <2> QED
    BY <2>1, <2>3
<1>4. CASE Sweep
  <2> DEFINE kept == {p \in DOMAIN players : p \in sweep.keep \/ players[p] >= sweep.before}
  <2>1. DOMAIN players' = kept /\ \A p \in kept : players'[p] = players[p]
    BY <1>4, RestrictIs DEF Sweep
  <2>2. RegistryOK'
    BY <1>4, <2>1 DEF Sweep, RegistryOK
  <2>3. Told' = Told /\ Mark' = Mark
    BY <1>4 DEF Sweep, Told, Mark
  <2>4. FlushOK'
    BY <1>4, <2>1, <2>3 DEF Sweep, FlushOK, RegistryOK
  <2>5. entering \subseteq kept /\ seated \subseteq kept
    BY <1>4, PresenceAssumption DEF Sweep, SeatingOK, RegistryOK
  <2>6. SeatingOK'
    BY <1>4, <2>1, <2>5 DEF Sweep, SeatingOK
  <2> QED
    BY <2>2, <2>4, <2>6
<1>5. CASE AskPresence
  <2> DEFINE seen == {p \in DOMAIN players : players[p] >= flush.since}
  <2>1. RegistryOK' /\ SeatingOK'
    BY <1>5 DEF AskPresence, RegistryOK, SeatingOK
  <2>2. /\ flush.do = "wait" /\ Mark = flush.since
        /\ flush'.do = "mark" /\ Mark' = time /\ Told' = Restrict(players, seen)
        /\ flush' = [do |-> "mark", seen |-> flush'.seen, asked |-> flush'.asked]
    BY <1>5 DEF AskPresence, Mark, Told, SeenSince
  <2>3. DOMAIN Told' = seen /\ \A p \in seen : Told'[p] = players[p]
    BY <2>2, RestrictIs
  <2>4. Mark \in Int /\ \A p \in DOMAIN players : players[p] < Mark \/ p \in seen
    BY <2>2 DEF FlushOK, RegistryOK
  <2>5. \A p \in DOMAIN players : players[p] < Mark =>
          (p \in DOMAIN recorded /\ recorded[p] = players[p]) \/ players[p] \in gaps
    BY <2>2 DEF FlushOK, Told
  <2>6. Mark' \in 0 .. time' /\ UNCHANGED <<players, recorded, gaps, time>>
    BY <1>5, <2>2 DEF AskPresence, RegistryOK
  <2>7. \A p \in DOMAIN Told' : p \in DOMAIN players /\ Told'[p] = players[p]
    BY <2>3
  <2>8. \A p \in DOMAIN players : players[p] < time =>
          \/ p \in DOMAIN recorded /\ recorded[p] = players[p]
          \/ p \in DOMAIN Told' /\ Told'[p] = players[p]
          \/ players[p] \in gaps
    BY <2>3, <2>4, <2>5
  <2> HIDE DEF seen
  <2>9. FlushOK'
    BY <2>2, <2>6, <2>7, <2>8 DEF FlushOK, RegistryOK
  <2> QED
    BY <2>1, <2>9
<1>6. CASE MarkPresence
  <2>1. RegistryOK' /\ SeatingOK'
    BY <1>6 DEF MarkPresence, RegistryOK, SeatingOK
  <2>2. /\ Mark = flush.asked /\ flush'.do = "record" /\ Mark' = time /\ Told' = Told
        /\ flush' = [do |-> "record", seen |-> flush'.seen, since |-> flush'.since]
    BY <1>6 DEF MarkPresence, Mark, Told
  <2>3. \A p \in DOMAIN players : players[p] < time => players[p] < Mark \/ players[p] \in gaps'
    BY <1>6, <2>2 DEF MarkPresence, RegistryOK, FlushOK
  <2>4. FlushOK'
    BY <1>6, <2>2, <2>3 DEF MarkPresence, FlushOK, RegistryOK
  <2> QED
    BY <2>1, <2>4
<1>7. CASE RecordSeen
  <2>1. /\ DOMAIN recorded' = DOMAIN Told \union DOMAIN recorded
        /\ \A p \in DOMAIN Told : recorded'[p] = Told[p]
        /\ \A p \in DOMAIN recorded : p \notin DOMAIN Told => recorded'[p] = recorded[p]
    BY <1>7 DEF RecordSeen, Told, Over, FlushOK
  <2>2. RegistryOK' /\ SeatingOK'
    BY <1>7, <2>1 DEF RecordSeen, RegistryOK, SeatingOK, FlushOK
  <2>3. Mark' = Mark /\ Told' = <<>> /\ flush'.do = "wait" /\ flush' = Waiting(flush'.since)
    BY <1>7 DEF RecordSeen, Mark, Told, Waiting
  <2>4. FlushOK'
    BY <1>7, <2>1, <2>3 DEF RecordSeen, FlushOK, RegistryOK
  <2> QED
    BY <2>2, <2>4
<1>8. CASE PassTime
  <2>1. RegistryOK' /\ Mark' = Mark /\ Told' = Told
    BY <1>8 DEF PassTime, RegistryOK, Mark, Told
  <2>2. SeatingOK'
    BY <1>8, PresenceAssumption DEF PassTime, SeatingOK, RegistryOK
  <2>3. FlushOK'
    BY <1>8, <2>1 DEF PassTime, FlushOK, RegistryOK
  <2> QED
    BY <2>1, <2>2, <2>3
<1>9. CASE StartAgain
  <2>1. RegistryOK' /\ SeatingOK'
    BY <1>9 DEF StartAgain, RegistryOK, SeatingOK
  <2>2. flush'.do = "wait" /\ flush' = Waiting(flush'.since) /\ Mark' = time /\ Told' = <<>>
    BY <1>9 DEF StartAgain, Waiting, Mark, Told
  <2>3. FlushOK'
    BY <1>9, <2>2 DEF StartAgain, FlushOK, RegistryOK
  <2> QED
    BY <2>1, <2>3
<1>10. CASE UNCHANGED presenceVars
  BY <1>10 DEF presenceVars, RegistryOK, SeatingOK, FlushOK, Mark, Told
<1> QED
  BY <1>1, <1>2, <1>3, <1>4, <1>5, <1>6, <1>7, <1>8, <1>9, <1>10
  DEF PresenceNext, sweepPlayers, flushPresence

\* The registry, the database and the flush between them, in every reachable state.
THEOREM PresenceInvariant == PresenceSpec => []PresenceInv
  BY PresenceStarts, PresenceSteps, PTL DEF PresenceSpec

LEMMA PresenceTyped == PresenceInv => PresenceTypeOK
<1> SUFFICES ASSUME PresenceInv PROVE PresenceTypeOK
  OBVIOUS
<1> USE DEF PresenceInv, RegistryOK
<1>1. ASSUME NEW p \in DOMAIN players PROVE LastSeen(p) = players[p]
  <2> DEFINE times == {f[p] : f \in {g \in {players, recorded} : p \in DOMAIN g}}
  <2>1. players[p] \in times
    OBVIOUS
  <2>2. \A t \in times : t = players[p] \/ (p \in DOMAIN recorded /\ t = recorded[p])
    OBVIOUS
  <2>3. times \subseteq Int /\ \A t \in times : t <= players[p]
    BY <2>2
  <2> QED
    BY <2>1, <2>3, MaxIs DEF LastSeen
<1> QED
  BY <1>1 DEF PresenceTypeOK

\* Whoever sits in an open room is in the registry, however long they have been
\* silent and wherever the sweep's two steps fall (SeatedAreKnown).
THEOREM SeatedAlwaysKnown == PresenceSpec => []SeatedAreKnown
<1>1. PresenceInv => SeatedAreKnown
  BY DEF PresenceInv, SeatingOK, SeatedAreKnown
<1> QED
  BY <1>1, PresenceInvariant, PTL

\* The database misses nobody but those last seen between a flush's question and
\* the move of its mark (FlushMissesOnlyTheGap).
THEOREM FlushAlwaysMissesOnlyTheGap == PresenceSpec => []FlushMissesOnlyTheGap
<1>1. PresenceInv => FlushMissesOnlyTheGap
  BY DEF PresenceInv, FlushOK, Mark, Told, FlushMissesOnlyTheGap
<1> QED
  BY <1>1, PresenceInvariant, PTL
--------------------------------------------------------------------------------
(* Ratings *)

RatingCalls ==
    {Idle} \union
    [do : {"mirror"}, who : Raters, mmr : Scores \union {0}, wants : SUBSET Scores] \union
    [do : {"read"}, who : Raters, wants : SUBSET Scores] \union
    [do : {"write", "follow"}, who : Raters, mmr : Scores, now : Nat]

Entries == [mmr : Scores \union {0}, at : Nat, seen : Nat]

\* Of its type, and no clock is ahead.
RatingsTyped ==
    /\ day \in Nat
    /\ declared \in [Raters -> [mmr : Scores \union {0}, at : Nat]]
    /\ \A p \in Raters : declared[p].at <= day
    /\ DOMAIN mirror \subseteq Raters
    /\ \A p \in DOMAIN mirror :
          mirror[p] \in Entries /\ mirror[p].at <= day /\ mirror[p].seen <= day
    /\ asking \in [1 .. AtOnce -> RatingCalls]
    /\ \A q \in 1 .. AtOnce : asking[q].do = "write" => asking[q].now <= day

\* What the registry made of a rating it was asked to take: it has it, or the
\* interval since it took another is not over.
LEMMA RatedIs ==
    ASSUME NEW e \in Entries, NEW mmr \in Scores \union {0}, NEW now \in Nat
    PROVE  /\ Rated(e, mmr, now) \in Entries
           /\ Rated(e, mmr, now).seen = e.seen
           /\ Rated(e, mmr, now).at \in {e.at, now}
           /\ \/ Rated(e, mmr, now).mmr = mmr
              \/ now < Rated(e, mmr, now).at + Interval
<1>1. e.mmr \in Scores \union {0} /\ e.at \in Nat /\ e.seen \in Nat
  BY DEF Entries
<1> DEFINE n == [e EXCEPT !.mmr = mmr, !.at = now]
<1>2. n \in Entries /\ n.mmr = mmr /\ n.at = now /\ n.seen = e.seen
  BY DEF Entries
<1> HIDE DEF n
<1>3. Rated(e, mmr, now) = IF (e.at = 0 \/ mmr # e.mmr) /\ MayChange(e.at, now) THEN n ELSE e
  BY DEF Rated, n
<1>4. ~ MayChange(e.at, now) => now < e.at + Interval
  BY <1>1, RatingsAssumption DEF MayChange
<1>5. MayChange(e.at, now) \/ ~ MayChange(e.at, now)
  OBVIOUS
<1>6. e.at = 0 => MayChange(e.at, now)
  BY DEF MayChange
<1> QED
  BY <1>1, <1>2, <1>3, <1>4, <1>6

\* The entry that Mirror starts from.
Refreshed(p) == [(IF p \in DOMAIN mirror THEN mirror[p] ELSE FirstSeen) EXCEPT !.seen = day]

LEMMA RefreshedIs ==
    ASSUME RatingsTyped, NEW p \in Raters
    PROVE  Refreshed(p) \in Entries /\ Refreshed(p).seen = day /\ Refreshed(p).at <= day
<1> DEFINE e == IF p \in DOMAIN mirror THEN mirror[p] ELSE FirstSeen
<1>1. e \in Entries /\ e.at <= day /\ day \in Nat
  BY DEF RatingsTyped, Entries, FirstSeen
<1>2. Refreshed(p) = [e EXCEPT !.seen = day]
  BY DEF Refreshed
<1> HIDE DEF e
<1> QED
  BY <1>1, <1>2 DEF Entries

\* A step of the handlers of ratings, one line a kind.
LEMMA RatingsStepCases ==
    ASSUME RatingsNext
    PROVE  \/ \E q \in 1 .. AtOnce, p \in Raters, wants \in SUBSET Scores : Arrives(q, p, wants)
           \/ \E q \in 1 .. AtOnce : Mirror(q) \/ ReadRating(q) \/ SetMMR(q) \/ Follow(q)
           \/ \E p \in Raters : Forget(p)
           \/ StartOver \/ NextDay
<1>1. ASSUME NEW q \in 1 .. AtOnce, withSession(q) \/ updateMe(q)
      PROVE  \/ \E p \in Raters, wants \in SUBSET Scores : Arrives(q, p, wants)
             \/ Mirror(q) \/ ReadRating(q) \/ SetMMR(q) \/ Follow(q)
  <2>1. \A p \in Raters : Arrives(q, p, {}) => \E wants \in SUBSET Scores : Arrives(q, p, wants)
    OBVIOUS
  <2>2. \A p \in Raters, mmr \in Scores :
          Arrives(q, p, {mmr}) => \E wants \in SUBSET Scores : Arrives(q, p, wants)
    OBVIOUS
  <2> QED
    BY <1>1, <2>1, <2>2 DEF withSession, updateMe
<1> QED
  BY <1>1 DEF RatingsNext

LEMMA NothingToDo == Idle \in RatingCalls /\ Idle.do = "nothing"
  BY DEF RatingCalls, Idle

LEMMA RatingsStartTyped == RatingsInit => RatingsTyped
<1> SUFFICES ASSUME RatingsInit PROVE RatingsTyped
  OBVIOUS
<1>1. asking \in [1 .. AtOnce -> RatingCalls] /\ \A q \in 1 .. AtOnce : asking[q].do = "nothing"
  BY NothingToDo DEF RatingsInit
<1>2. DOMAIN mirror = {}
  BY DEF RatingsInit
<1>3. declared \in [Raters -> [mmr : Scores \union {0}, at : Nat]]
      /\ \A p \in Raters : declared[p].at = 0
  BY DEF RatingsInit, Undeclared
<1> QED
  BY <1>1, <1>2, <1>3 DEF RatingsInit, RatingsTyped

\* A step keeps every table of its type.
LEMMA RatingsStepTyped == RatingsTyped /\ [RatingsNext]_ratingsVars => RatingsTyped'
<1> SUFFICES ASSUME RatingsTyped, [RatingsNext]_ratingsVars PROVE RatingsTyped'
  OBVIOUS
<1> USE DEF RatingsTyped
<1>1. ASSUME NEW q \in 1 .. AtOnce, NEW p \in Raters, NEW wants \in SUBSET Scores, Arrives(q, p, wants)
      PROVE  RatingsTyped'
  <2> DEFINE c == [do |-> "mirror", who |-> p, mmr |-> declared[p].mmr, wants |-> wants]
  <2>1. declared[p].mmr \in Scores \union {0}
    OBVIOUS
  <2>2. c \in RatingCalls /\ c.do # "write"
    BY <2>1 DEF RatingCalls
  <2> HIDE DEF c
  <2> QED
    BY <1>1, <2>2 DEF Arrives, Asks, c
<1>2. ASSUME NEW q \in 1 .. AtOnce, Mirror(q)
      PROVE  RatingsTyped'
  <2> DEFINE c == asking[q]
             e == Refreshed(c.who)
             row == IF c.mmr > 0 THEN Rated(e, c.mmr, day) ELSE e
             next == IF c.wants = {} THEN Idle ELSE [do |-> "read", who |-> c.who, wants |-> c.wants]
  <2>1. c \in [do : {"mirror"}, who : Raters, mmr : Scores \union {0}, wants : SUBSET Scores]
    BY <1>2 DEF Mirror, RatingCalls, Idle
  <2>2. c.who \in Raters /\ c.mmr \in Scores \union {0} /\ c.wants \in SUBSET Scores
    BY <2>1
  <2>3. mirror' = Put(mirror, c.who, row) /\ asking' = [asking EXCEPT ![q] = next]
        /\ UNCHANGED <<declared, day>>
    BY <1>2 DEF Mirror, Asks, Refreshed
  <2>4. e \in Entries /\ e.seen = day /\ e.at <= day
    BY <2>2, RefreshedIs
  <2> HIDE DEF e
  <2>5. row \in Entries /\ row.seen = day /\ row.at <= day
    <3>1. /\ Rated(e, c.mmr, day) \in Entries /\ Rated(e, c.mmr, day).seen = e.seen
          /\ Rated(e, c.mmr, day).at \in {e.at, day}
      BY <2>2, <2>4, RatedIs
    <3> QED
      BY <2>4, <3>1
  <2>6. next \in RatingCalls /\ next.do # "write"
    BY <2>2 DEF RatingCalls, Idle
  <2> HIDE DEF row, next, c
  <2>7. \A p \in DOMAIN mirror' : mirror'[p] \in Entries /\ mirror'[p].at <= day /\ mirror'[p].seen <= day
    BY <2>3, <2>5 DEF Put
  <2>8. DOMAIN mirror' \subseteq Raters
    BY <2>2, <2>3 DEF Put
  <2> QED
    BY <2>3, <2>6, <2>7, <2>8
<1>3. ASSUME NEW q \in 1 .. AtOnce, ReadRating(q)
      PROVE  RatingsTyped'
  <2> DEFINE c == asking[q]
  <2>1. c \in [do : {"read"}, who : Raters, wants : SUBSET Scores]
    BY <1>3 DEF ReadRating, RatingCalls, Idle
  <2>2. c.who \in Raters /\ c.wants \in SUBSET Scores
    BY <2>1
  <2>3. PICK mmr \in c.wants :
          asking' \in {[asking EXCEPT ![q] = n] :
             n \in {Idle, Declaring("follow", c.who, mmr), Declaring("write", c.who, mmr)}}
    BY <1>3 DEF ReadRating, Asks
  <2>4. PICK n \in {Idle, Declaring("follow", c.who, mmr), Declaring("write", c.who, mmr)} :
          asking' = [asking EXCEPT ![q] = n]
    BY <2>3
  <2>5. n \in RatingCalls /\ (n.do = "write" => n.now <= day)
    BY <2>2, <2>4 DEF RatingCalls, Idle, Declaring
  <2>6. UNCHANGED <<declared, mirror, day>>
    BY <1>3 DEF ReadRating
  <2> QED
    BY <2>4, <2>5, <2>6
<1>4. ASSUME NEW q \in 1 .. AtOnce, SetMMR(q)
      PROVE  RatingsTyped'
  <2> DEFINE c == asking[q]
             n == [c EXCEPT !.do = "follow"]
             row == [mmr |-> c.mmr, at |-> c.now]
  <2>1. c \in [do : {"write", "follow"}, who : Raters, mmr : Scores, now : Nat] /\ c.now <= day
    BY <1>4 DEF SetMMR, RatingCalls, Idle
  <2>2. c.who \in Raters /\ c.mmr \in Scores /\ c.now \in Nat
    BY <2>1
  <2>3. n \in RatingCalls /\ n.do = "follow"
    BY <2>1 DEF RatingCalls
  <2>4. row \in [mmr : Scores \union {0}, at : Nat] /\ row.at <= day
    BY <2>1, <2>2
  <2>5. declared' = [declared EXCEPT ![c.who] = row] /\ asking' = [asking EXCEPT ![q] = n]
        /\ UNCHANGED <<mirror, day>>
    BY <1>4 DEF SetMMR, Asks
  <2> HIDE DEF c, n, row
  <2> QED
    BY <2>2, <2>3, <2>4, <2>5
<1>5. ASSUME NEW q \in 1 .. AtOnce, Follow(q)
      PROVE  RatingsTyped'
  <2> DEFINE c == asking[q]
             row == Rated(mirror[c.who], c.mmr, day)
  <2>1. c \in [do : {"write", "follow"}, who : Raters, mmr : Scores, now : Nat]
    BY <1>5 DEF Follow, RatingCalls, Idle
  <2>2. c.who \in Raters /\ c.mmr \in Scores
    BY <2>1
  <2>3. asking' = [asking EXCEPT ![q] = Idle] /\ UNCHANGED <<declared, day>>
    BY <1>5 DEF Follow, Asks
  <2>4. Idle \in RatingCalls /\ Idle.do # "write"
    BY DEF RatingCalls, Idle
  <2>5. CASE c.who \in DOMAIN mirror
    <3>1. row \in Entries /\ row.at <= day /\ row.seen <= day
      <4>1. mirror[c.who] \in Entries /\ mirror[c.who].at <= day /\ mirror[c.who].seen <= day
        BY <2>5
      <4>2. /\ row \in Entries /\ row.seen = mirror[c.who].seen
            /\ row.at \in {mirror[c.who].at, day}
        BY <2>2, <4>1, RatedIs
      <4> QED
        BY <4>1, <4>2
    <3>2. mirror' = [mirror EXCEPT ![c.who] = row]
      BY <1>5, <2>5 DEF Follow
    <3> HIDE DEF c, row
    <3> QED
      BY <2>2, <2>3, <2>4, <3>1, <3>2
  <2>6. CASE c.who \notin DOMAIN mirror
    BY <1>5, <2>3, <2>4, <2>6 DEF Follow
  <2> QED
    BY <2>5, <2>6
<1>6. ASSUME NEW p \in Raters, Forget(p)
      PROVE  RatingsTyped'
  BY <1>6 DEF Forget, Restrict
<1>7. CASE StartOver
  <2>1. DOMAIN mirror' = {} /\ UNCHANGED <<declared, day>>
    BY <1>7 DEF StartOver
  <2>2. asking' \in [1 .. AtOnce -> RatingCalls] /\ \A q \in 1 .. AtOnce : asking'[q].do = "nothing"
    BY <1>7, NothingToDo DEF StartOver
  <2> QED
    BY <2>1, <2>2
<1>8. CASE NextDay
  <2>1. \A q \in 1 .. AtOnce : asking[q].do = "write" => asking[q].now \in Nat
    BY DEF RatingCalls, Idle
  <2>2. /\ \A p \in Raters : declared[p].at \in Nat
        /\ \A p \in DOMAIN mirror : mirror[p].at \in Nat /\ mirror[p].seen \in Nat
    BY DEF Entries
  <2> QED
    BY <1>8, <2>1, <2>2 DEF NextDay
<1>9. CASE UNCHANGED ratingsVars
  BY <1>9 DEF ratingsVars
<1> QED
  BY <1>1, <1>2, <1>3, <1>4, <1>5, <1>6, <1>7, <1>8, <1>9, RatingsStepCases

LEMMA RatingsAlwaysTyped == RatingsSpec => []RatingsTyped
  BY RatingsStartTyped, RatingsStepTyped, PTL DEF RatingsSpec

LEMMA RatingsTypes == RatingsTyped => RatingsTypeOK
  BY DEF RatingsTyped, RatingsTypeOK, Entries

\* One request at work: with two the interleavings that README names break what
\* the rest of this section, and of the next ones, shows.
OneRequest == AtOnce = 1

UpToDate(p) ==
    \/ p \notin DOMAIN mirror
    \/ mirror[p].mmr = declared[p].mmr
    \/ declared[p].mmr = 0
    \/ mirror[p].seen < mirror[p].at + Interval

\* The registry is as far behind the accounts as DoorsCatchUp allows, but for the
\* one person whose declaration is on its way there; and what is on its way is
\* what the account says.
RatingsInv ==
    /\ RatingsTyped
    /\ \A q \in 1 .. AtOnce :
          /\ asking[q].do \in {"mirror", "follow"} => asking[q].mmr = declared[asking[q].who].mmr
          /\ \A p \in Raters : UpToDate(p) \/ (asking[q].do = "follow" /\ asking[q].who = p)

LEMMA RatingsStart == RatingsInit => RatingsInv
<1> SUFFICES ASSUME RatingsInit PROVE RatingsInv
  OBVIOUS
<1>1. DOMAIN mirror = {} /\ \A q \in 1 .. AtOnce : asking[q].do = "nothing"
  BY NothingToDo DEF RatingsInit
<1> QED
  BY <1>1, RatingsStartTyped DEF RatingsInv, UpToDate

LEMMA RatingsStep ==
    ASSUME OneRequest
    PROVE  RatingsInv /\ [RatingsNext]_ratingsVars => RatingsInv'
<1> SUFFICES ASSUME RatingsInv, [RatingsNext]_ratingsVars PROVE RatingsInv'
  OBVIOUS
<1> USE DEF OneRequest, RatingsInv
<1>0. RatingsTyped'
  BY RatingsStepTyped
<1> DEFINE c == asking[1]
<1>a. \A q \in 1 .. AtOnce : q = 1
  OBVIOUS
<1>b. c \in RatingCalls /\ day \in Nat
  BY DEF RatingsTyped
<1>1. ASSUME NEW q \in 1 .. AtOnce, NEW p \in Raters, NEW wants \in SUBSET Scores, Arrives(q, p, wants)
      PROVE  RatingsInv'
  <2>1. asking'[1] = [do |-> "mirror", who |-> p, mmr |-> declared[p].mmr, wants |-> wants]
    BY <1>1, <1>a DEF Arrives, Asks, RatingsTyped
  <2>2. c.do = "nothing" /\ UNCHANGED <<declared, mirror>>
    BY <1>1, <1>a, NothingToDo DEF Arrives
  <2> QED
    BY <1>0, <1>a, <2>1, <2>2 DEF UpToDate
<1>2. ASSUME Mirror(1)
      PROVE  RatingsInv'
  <2> DEFINE e == Refreshed(c.who)
             row == IF c.mmr > 0 THEN Rated(e, c.mmr, day) ELSE e
  <2>1. c \in [do : {"mirror"}, who : Raters, mmr : Scores \union {0}, wants : SUBSET Scores]
    BY <1>2, <1>b DEF Mirror, RatingCalls, Idle
  <2>2. c.who \in Raters /\ c.mmr \in Scores \union {0} /\ c.do = "mirror"
    BY <2>1
  <2>3. /\ mirror' = Put(mirror, c.who, row) /\ UNCHANGED declared
        /\ asking'[1].do \in {"nothing", "read"}
    BY <1>2 DEF Mirror, Asks, Refreshed, Idle, RatingsTyped
  <2>4. e \in Entries /\ e.seen = day /\ e.at <= day
    BY <2>2, RefreshedIs
  <2> HIDE DEF e
  <2>5. /\ row.seen = day
        /\ (c.mmr = 0) \/ (row.mmr = c.mmr) \/ (day < row.at + Interval)
    <3>1. /\ Rated(e, c.mmr, day).seen = e.seen
          /\ \/ Rated(e, c.mmr, day).mmr = c.mmr
             \/ day < Rated(e, c.mmr, day).at + Interval
      BY <1>b, <2>2, <2>4, RatedIs
    <3>2. c.mmr > 0 \/ c.mmr = 0
      BY <2>2, RatingsAssumption
    <3> QED
      BY <2>4, <3>1, <3>2
  <2>6. c.mmr = declared[c.who].mmr /\ \A p \in Raters : UpToDate(p)
    BY <2>2
  <2> HIDE DEF row, c
  <2>7. ASSUME NEW p \in Raters PROVE UpToDate(p)'
    BY <2>2, <2>3, <2>5, <2>6 DEF UpToDate, Put
  <2> QED
    BY <1>0, <1>a, <2>3, <2>7
<1>3. ASSUME ReadRating(1)
      PROVE  RatingsInv'
  <2>1. c.do = "read" /\ UNCHANGED <<declared, mirror>>
    BY <1>3 DEF ReadRating
  <2>2. c.who \in Raters
    BY <2>1, <1>b DEF RatingCalls, Idle
  <2>3. \/ asking'[1].do \in {"nothing", "write"}
        \/ /\ asking'[1].do = "follow" /\ asking'[1].who = c.who
           /\ asking'[1].mmr = declared[c.who].mmr
    BY <1>3 DEF ReadRating, Asks, Declaring, Idle, RatingsTyped
  <2>4. \A p \in Raters : UpToDate(p)'
    BY <2>1 DEF UpToDate
  <2> QED
    BY <1>0, <1>a, <2>1, <2>3, <2>4
<1>4. ASSUME SetMMR(1)
      PROVE  RatingsInv'
  <2> DEFINE n == [c EXCEPT !.do = "follow"]
             row == [mmr |-> c.mmr, at |-> c.now]
  <2>1. c \in [do : {"write", "follow"}, who : Raters, mmr : Scores, now : Nat] /\ c.do = "write"
    BY <1>4, <1>b DEF SetMMR, RatingCalls, Idle
  <2>2. n.do = "follow" /\ n.who = c.who /\ n.mmr = c.mmr /\ c.who \in Raters
    BY <2>1
  <2>3. declared' = [declared EXCEPT ![c.who] = row] /\ asking'[1] = n /\ UNCHANGED mirror
    BY <1>4 DEF SetMMR, Asks, RatingsTyped
  <2>4. row.mmr = c.mmr
    OBVIOUS
  <2>5. declared'[c.who].mmr = c.mmr /\ \A p \in Raters : p # c.who => declared'[p] = declared[p]
    BY <2>2, <2>3, <2>4 DEF RatingsTyped
  <2> HIDE DEF n, row
  <2>6. \A p \in Raters : p # c.who => UpToDate(p)'
    BY <2>1, <2>3, <2>5 DEF UpToDate
  <2> QED
    BY <1>0, <1>a, <2>2, <2>3, <2>5, <2>6
<1>5. ASSUME Follow(1)
      PROVE  RatingsInv'
  <2> DEFINE row == Rated(mirror[c.who], c.mmr, day)
  <2>1. c \in [do : {"write", "follow"}, who : Raters, mmr : Scores, now : Nat] /\ c.do = "follow"
    BY <1>5, <1>b DEF Follow, RatingCalls, Idle
  <2>2. c.who \in Raters /\ c.mmr \in Scores /\ c.mmr = declared[c.who].mmr
    BY <2>1
  <2>3. asking'[1].do = "nothing" /\ UNCHANGED declared
    BY <1>5, NothingToDo DEF Follow, Asks, RatingsTyped
  <2>4. mirror' = IF c.who \in DOMAIN mirror THEN [mirror EXCEPT ![c.who] = row] ELSE mirror
    BY <1>5 DEF Follow
  <2>5. ASSUME c.who \in DOMAIN mirror
        PROVE  row.mmr = c.mmr \/ row.seen < row.at + Interval
    <3>1. mirror[c.who] \in Entries /\ mirror[c.who].seen <= day /\ mirror[c.who].seen \in Nat
      BY <2>5 DEF RatingsTyped, Entries
    <3>2. /\ row \in Entries /\ row.seen = mirror[c.who].seen
          /\ row.mmr = c.mmr \/ day < row.at + Interval
      BY <3>1, <2>2, <1>b, RatedIs
    <3>3. row.at \in Nat
      BY <3>2 DEF Entries
    <3> QED
      BY <3>1, <3>2, <3>3, <1>b, RatingsAssumption
  <2> HIDE DEF row
  <2>6. ASSUME NEW p \in Raters PROVE UpToDate(p)'
    BY <2>1, <2>2, <2>3, <2>4, <2>5 DEF UpToDate
  <2> QED
    BY <1>0, <1>a, <2>3, <2>6
<1>6. ASSUME NEW p \in Raters, Forget(p)
      PROVE  RatingsInv'
  BY <1>0, <1>6 DEF Forget, Restrict, UpToDate
<1>7. CASE StartOver
  <2>1. DOMAIN mirror' = {}
    BY <1>7 DEF StartOver
  <2>2. \A q \in 1 .. AtOnce : asking'[q].do = "nothing"
    BY <1>7, NothingToDo DEF StartOver
  <2> QED
    BY <1>0, <2>1, <2>2 DEF UpToDate
<1>8. CASE NextDay \/ UNCHANGED ratingsVars
  BY <1>0, <1>8 DEF NextDay, ratingsVars, UpToDate
<1> QED
  BY <1>1, <1>2, <1>3, <1>4, <1>5, <1>6, <1>7, <1>8, <1>a, RatingsStepCases

\* With one request at work, a rating the doors believe is behind the declared one
\* for less than an interval of its owner's presence, whatever is forgotten, and
\* however often the process starts (DoorsCatchUp).
THEOREM DoorsAlwaysCatchUp == ASSUME OneRequest PROVE RatingsSpec => []DoorsCatchUp
<1>1. RatingsInv => DoorsCatchUp
  <2> SUFFICES ASSUME RatingsInv, NoneBusy(asking), NEW p \in DOMAIN mirror
               PROVE  \/ Believed(p) = declared[p].mmr \/ declared[p].mmr = 0
                      \/ mirror[p].seen < mirror[p].at + Interval
    BY DEF DoorsCatchUp
  <2>1. 1 \in 1 .. AtOnce /\ asking[1].do = "nothing" /\ p \in Raters
    BY NothingToDo DEF OneRequest, NoneBusy, RatingsInv, RatingsTyped
  <2> QED
    BY <2>1 DEF RatingsInv, UpToDate, Believed
<1> QED
  BY <1>1, RatingsStart, RatingsStep, PTL DEF RatingsSpec
--------------------------------------------------------------------------------
(* The social graph *)

SocialCalls ==
    {Idle} \union
    {c \in [do : {"request"}, from : Persons, to : Persons] : c.from # c.to} \union
    [do : {"send", "read", "mark_read"}, me : Persons, them : Persons] \union
    [do : {"invite"}, from : Persons, to : Persons, room : OpenRooms]

Messages == [from : Persons, to : Persons, read : BOOLEAN]
Invitations == [room : OpenRooms, from : Persons, to : Persons, seen : BOOLEAN]

EdgesTyped ==
    /\ DOMAIN edges \subseteq Persons \X Persons
    /\ \A e \in DOMAIN edges : edges[e] \in {"requested", "accepted"}

SocialTyped ==
    /\ EdgesTyped
    /\ blocks \subseteq Persons \X Persons
    /\ messages \in Seq(Messages) /\ shown \subseteq DOMAIN messages
    /\ invitations \in Seq(Invitations)
    /\ calling \in [1 .. AtOnce -> SocialCalls]

\* A friendship is two rows, a request one, and nobody has more friends than fit.
EdgesOK ==
    /\ \A a, b \in Persons :
          /\ EdgeState(a, b) = "accepted" => a # b /\ EdgeState(b, a) = "accepted"
          /\ EdgeState(a, b) = "requested" => EdgeState(b, a) = "none"
    /\ \A a \in Persons : IsFiniteSet(Friends(a)) /\ Cardinality(Friends(a)) <= MaxFriends

\* What a step may do to the edges: nothing, a friendship, a request, a parting.
Befriends(a, b) == a # b /\ MayAccept(a, b) /\ AcceptWithin(a, b)
Petitions(a, b) ==
    /\ a # b /\ EdgeState(b, a) = "none"
    /\ edges' = Over(edges, [e \in {<<a, b>>} |-> "requested"])
Parts(S) ==
    /\ edges' = Apart(S)
    /\ \A a, b \in Persons : EdgeState(a, b) = "accepted" /\ <<a, b>> \in S => <<b, a>> \in S

LEMMA BefriendKeeps ==
    ASSUME EdgesTyped, EdgesOK, NEW a \in Persons, NEW b \in Persons, Befriends(a, b)
    PROVE  EdgesTyped' /\ EdgesOK'
<1>1. /\ DOMAIN edges' = {<<a, b>>, <<b, a>>} \union DOMAIN edges
      /\ edges'[<<a, b>>] = "accepted" /\ edges'[<<b, a>>] = "accepted"
      /\ \A e \in DOMAIN edges : e \notin {<<a, b>>, <<b, a>>} => edges'[e] = edges[e]
  BY DEF Befriends, AcceptWithin, BothWays, Over
<1>2. EdgesTyped'
  BY <1>1 DEF EdgesTyped
<1>3. \A x, y \in Persons : EdgeState(x, y)' =
        IF <<x, y>> \in {<<a, b>>, <<b, a>>} THEN "accepted" ELSE EdgeState(x, y)
  BY <1>1 DEF EdgeState
<1>4. \A x \in Persons : Friends(x)' = IF x = a THEN Friends(a) \union {b}
                                       ELSE IF x = b THEN Friends(b) \union {a} ELSE Friends(x)
  BY <1>3 DEF Friends, Befriends
<1>5. /\ IsFiniteSet(Friends(a)) /\ Cardinality(Friends(a)) < MaxFriends
      /\ IsFiniteSet(Friends(b)) /\ Cardinality(Friends(b)) < MaxFriends
  BY DEF EdgesOK, Befriends, MayAccept, HasRoom
<1>6. \A x \in Persons : IsFiniteSet(Friends(x)') /\ Cardinality(Friends(x)') <= MaxFriends
  <2>1. \A x, y \in Persons : IsFiniteSet(Friends(x)) /\ Cardinality(Friends(x)) < MaxFriends
          => /\ IsFiniteSet(Friends(x) \union {y})
             /\ Cardinality(Friends(x) \union {y}) <= MaxFriends
    <3> SUFFICES ASSUME NEW x \in Persons, NEW y \in Persons,
                        IsFiniteSet(Friends(x)), Cardinality(Friends(x)) < MaxFriends
                 PROVE  /\ IsFiniteSet(Friends(x) \union {y})
                        /\ Cardinality(Friends(x) \union {y}) <= MaxFriends
      OBVIOUS
    <3>1. /\ IsFiniteSet(Friends(x) \union {y})
          /\ \/ Cardinality(Friends(x) \union {y}) = Cardinality(Friends(x))
             \/ Cardinality(Friends(x) \union {y}) = Cardinality(Friends(x)) + 1
      BY FS_AddElement
    <3>2. Cardinality(Friends(x)) \in Nat
      BY FS_CardinalityType
    <3> QED
      BY <3>1, <3>2, SocialAssumption
  <2> QED
    BY <1>4, <1>5, <2>1 DEF EdgesOK
<1>7. \A x, y \in Persons :
          /\ EdgeState(x, y)' = "accepted" => x # y /\ EdgeState(y, x)' = "accepted"
          /\ EdgeState(x, y)' = "requested" => EdgeState(y, x)' = "none"
  BY <1>3 DEF EdgesOK, Befriends
<1> QED
  BY <1>2, <1>6, <1>7 DEF EdgesOK

LEMMA AskKeeps ==
    ASSUME EdgesTyped, EdgesOK, NEW a \in Persons, NEW b \in Persons, Petitions(a, b)
    PROVE  EdgesTyped' /\ EdgesOK'
<1>1. /\ DOMAIN edges' = {<<a, b>>} \union DOMAIN edges
      /\ edges'[<<a, b>>] = IF <<a, b>> \in DOMAIN edges THEN edges[<<a, b>>] ELSE "requested"
      /\ \A e \in DOMAIN edges : edges'[e] = edges[e]
  BY DEF Petitions, Over
<1>2. EdgesTyped'
  BY <1>1 DEF EdgesTyped
<1>3. \A x, y \in Persons : EdgeState(x, y)' =
        IF x = a /\ y = b /\ EdgeState(a, b) = "none" THEN "requested" ELSE EdgeState(x, y)
  BY <1>1 DEF EdgeState, EdgesTyped
<1>4. \A x \in Persons : Friends(x)' = Friends(x)
  BY <1>3 DEF Friends
<1>5. \A x, y \in Persons :
          /\ EdgeState(x, y)' = "accepted" => x # y /\ EdgeState(y, x)' = "accepted"
          /\ EdgeState(x, y)' = "requested" => EdgeState(y, x)' = "none"
  BY <1>3 DEF EdgesOK, Petitions
<1> QED
  BY <1>2, <1>4, <1>5 DEF EdgesOK

LEMMA PartKeeps ==
    ASSUME EdgesTyped, EdgesOK, NEW S, Parts(S)
    PROVE  EdgesTyped' /\ EdgesOK'
<1>1. /\ DOMAIN edges' = DOMAIN edges \ S
      /\ \A e \in DOMAIN edges \ S : edges'[e] = edges[e]
  BY DEF Parts, Apart, Restrict
<1>2. EdgesTyped'
  BY <1>1 DEF EdgesTyped
<1>3. \A x, y \in Persons : EdgeState(x, y)' = IF <<x, y>> \in S THEN "none" ELSE EdgeState(x, y)
  BY <1>1 DEF EdgeState
<1>4. \A x \in Persons : Friends(x)' \subseteq Friends(x)
  BY <1>3 DEF Friends
<1>5. \A x \in Persons : IsFiniteSet(Friends(x)') /\ Cardinality(Friends(x)') <= MaxFriends
  BY <1>4, FS_Subset, FS_CardinalityType, SocialAssumption DEF EdgesOK
<1>6. ASSUME NEW x \in Persons, NEW y \in Persons
      PROVE  /\ EdgeState(x, y)' = "accepted" => x # y /\ EdgeState(y, x)' = "accepted"
             /\ EdgeState(x, y)' = "requested" => EdgeState(y, x)' = "none"
  <2>1. /\ EdgeState(x, y)' = IF <<x, y>> \in S THEN "none" ELSE EdgeState(x, y)
        /\ EdgeState(y, x)' = IF <<y, x>> \in S THEN "none" ELSE EdgeState(y, x)
    BY <1>3
  <2>2. /\ EdgeState(x, y) = "accepted" => x # y /\ EdgeState(y, x) = "accepted"
        /\ EdgeState(x, y) = "requested" => EdgeState(y, x) = "none"
    BY DEF EdgesOK
  <2>3. EdgeState(y, x) = "accepted" /\ <<y, x>> \in S => <<x, y>> \in S
    BY DEF Parts
  <2> QED
    BY <2>1, <2>2, <2>3
<1> QED
  BY <1>2, <1>5, <1>6 DEF EdgesOK


\* A call is of one kind or another, and a request with nothing to do has Idle.
LEMMA CallKinds ==
    ASSUME NEW c \in SocialCalls
    PROVE  /\ c.do = "request" => c \in [do : {"request"}, from : Persons, to : Persons] /\ c.from # c.to
           /\ c.do \in {"send", "read", "mark_read"} =>
                c \in [do : {"send", "read", "mark_read"}, me : Persons, them : Persons]
           /\ c.do = "invite" => c \in [do : {"invite"}, from : Persons, to : Persons, room : OpenRooms]
  BY DEF SocialCalls, Idle

LEMMA NoCall == Idle \in SocialCalls /\ Idle.do = "nothing"
  BY DEF SocialCalls, Idle

\* A set of numbers with a bound has a largest one.
LEMMA MaxOf ==
    ASSUME NEW n \in Nat, NEW S, S \subseteq 0 .. n, S # {}
    PROVE  Max(S) \in S /\ \A y \in S : y <= Max(S)
<1> DEFINE T == {n - x : x \in S}
<1>1. T \subseteq Nat /\ T # {}
  <2>1. \A x \in S : n - x \in Nat
    OBVIOUS
  <2> QED
    BY <2>1
<1>2. \E t \in T : \A u \in T : ~ (<<u, t>> \in OpToRel(<, Nat))
  <2> HIDE DEF T
  <2> QED
    BY <1>1, WFMin, NatLessThanWellFounded
<1>3. PICK t \in T : \A u \in T : ~ (<<u, t>> \in OpToRel(<, Nat))
  BY <1>2
<1>4. \A u \in T : u \in Nat /\ t \in Nat /\ ~ (u < t)
  <2> HIDE DEF T
  <2> QED
    BY <1>1, <1>3, Zenon DEF OpToRel
<1>5. PICK x \in S : t = n - x
  OBVIOUS
<1>6. \A y \in S : y <= x
  BY <1>4, <1>5
<1>7. S \subseteq Int
  OBVIOUS
<1> QED
  BY <1>5, <1>6, <1>7, MaxIs

LEMMA CursorIs ==
    ASSUME messages \in Seq(Messages), NEW a, NEW b, NEW after \in Cursors(a, b)
    PROVE  after \in Nat /\ (after = 0 \/ after \in Between(a, b, 0) \intersect shown)
<1> DEFINE S == {0} \union (Between(a, b, 0) \intersect shown)
<1>1. S \subseteq 0 .. Len(messages) /\ S # {} /\ Len(messages) \in Nat
  BY DEF Between
<1> HIDE DEF S
<1>2. Max(S) \in S
  BY <1>1, MaxOf
<1> QED
  BY <1>1, <1>2 DEF S, Cursors

SocialInv == SocialTyped /\ EdgesOK

LEMMA SocialStarts == SocialInit => SocialInv
<1> SUFFICES ASSUME SocialInit PROVE SocialInv
  OBVIOUS
<1>1. DOMAIN edges = {} /\ DOMAIN messages = {}
  BY DEF SocialInit
<1>2. SocialTyped
  BY <1>1, NoCall DEF SocialInit, SocialTyped, EdgesTyped
<1>3. \A a, b \in Persons : EdgeState(a, b) = "none"
  BY <1>1 DEF EdgeState
<1>4. \A a \in Persons : Friends(a) = {}
  BY <1>3 DEF Friends
<1>5. EdgesOK
  BY <1>3, <1>4, FS_EmptySet, SocialAssumption DEF EdgesOK
<1> QED
  BY <1>2, <1>5 DEF SocialInv

\* A step that leaves the edges alone, or parts, befriends or requests, and keeps the
\* other tables of their types, keeps the invariant.
LEMMA EdgesChange ==
    ASSUME SocialInv
    PROVE  /\ UNCHANGED edges => EdgesTyped' /\ EdgesOK'
           /\ \A a, b \in Persons : Befriends(a, b) \/ Petitions(a, b) => EdgesTyped' /\ EdgesOK'
           /\ \A S : Parts(S) => EdgesTyped' /\ EdgesOK'
<1>1. UNCHANGED edges => EdgesTyped' /\ EdgesOK'
  BY DEF SocialInv, SocialTyped, EdgesTyped, EdgesOK, EdgeState, Friends
<1> QED
  BY <1>1, BefriendKeeps, AskKeeps, PartKeeps DEF SocialInv, SocialTyped

\* What each handler's step does to the edges.
LEMMA BefriendEdges ==
    ASSUME SocialInv, ~ StaleInboxes, NEW q \in 1 .. AtOnce, NEW a \in Persons, NEW b \in Persons, befriend(q, a, b)
    PROVE  EdgesTyped' /\ EdgesOK'
<1>1. CASE AskRequest(q, a, b) \/ Unblock(q, a, b)
  BY <1>1, EdgesChange DEF AskRequest, Unblock
<1>2. CASE Request(q)
  <2>0. calling[q] \in SocialCalls /\ calling[q].do = "request"
    BY <1>2 DEF Request, SocialInv, SocialTyped
  <2>1. calling[q].from \in Persons /\ calling[q].to \in Persons /\ calling[q].from # calling[q].to
    BY <2>0, CallKinds
  <2> DEFINE from == calling[q].from
             to == calling[q].to
  <2>2. UNCHANGED edges \/ Befriends(from, to) \/ Petitions(from, to)
    BY <1>2, <2>1 DEF Request, Befriends, Petitions
  <2> QED
    BY <2>1, <2>2, EdgesChange
<1>3. CASE Accept(q, a, b)
  BY <1>3, EdgesChange DEF Accept, Befriends
<1>4. CASE Decline(q, a, b)
  <2>1. Parts({<<b, a>>})
    BY <1>4 DEF Decline, Parts
  <2> QED
    BY <2>1, EdgesChange
<1>5. CASE Remove(q, a, b) \/ Block(q, a, b)
  <2>1. Parts(BothWays(a, b))
    BY <1>5 DEF Remove, Block, Parts, BothWays
  <2> QED
    BY <2>1, EdgesChange
<1> QED
  BY <1>1, <1>2, <1>3, <1>4, <1>5 DEF befriend

\* The edges stay of their type whatever becomes of them, pending or not.
LEMMA EdgesStayTyped ==
    ASSUME EdgesTyped
    PROVE  /\ UNCHANGED edges => EdgesTyped'
           /\ \A a, b \in Persons :
                 \/ AcceptWithin(a, b)
                 \/ edges' = Over(edges, [e \in {<<a, b>>} |-> "requested"])
                 => EdgesTyped'
           /\ \A S : edges' = Apart(S) => EdgesTyped'
<1>1. ASSUME NEW a \in Persons, NEW b \in Persons, AcceptWithin(a, b) PROVE EdgesTyped'
  BY <1>1 DEF EdgesTyped, AcceptWithin, BothWays, Over
<1>2. ASSUME NEW a \in Persons, NEW b \in Persons, edges' = Over(edges, [e \in {<<a, b>>} |-> "requested"])
      PROVE  EdgesTyped'
  BY <1>2 DEF EdgesTyped, Over
<1>3. ASSUME NEW S, edges' = Apart(S) PROVE EdgesTyped'
  BY <1>3, RestrictIs DEF EdgesTyped, Apart
<1>4. UNCHANGED edges => EdgesTyped'
  BY DEF EdgesTyped
<1> QED
  BY <1>1, <1>2, <1>3, <1>4

LEMMA BefriendTyped ==
    ASSUME SocialTyped, NEW q \in 1 .. AtOnce, NEW a \in Persons, NEW b \in Persons, befriend(q, a, b)
    PROVE  EdgesTyped'
<1> USE EdgesStayTyped DEF SocialTyped
<1>1. CASE AskRequest(q, a, b) \/ Unblock(q, a, b)
  BY <1>1 DEF AskRequest, Unblock
<1>2. CASE Request(q)
  <2>1. calling[q].from \in Persons /\ calling[q].to \in Persons
    BY <1>2, CallKinds DEF Request
  <2> QED
    BY <1>2, <2>1 DEF Request
<1>3. CASE Accept(q, a, b)
  BY <1>3 DEF Accept
<1>4. CASE Decline(q, a, b) \/ Remove(q, a, b) \/ Block(q, a, b)
  BY <1>4 DEF Decline, Remove, Block
<1> QED
  BY <1>1, <1>2, <1>3, <1>4 DEF befriend

LEMMA SocialStepTyped == SocialTyped /\ [SocialNext]_socialVars => SocialTyped'
<1> SUFFICES ASSUME SocialTyped, [SocialNext]_socialVars PROVE SocialTyped'
  OBVIOUS
<1>1. ASSUME NEW q \in 1 .. AtOnce, NEW a \in Persons, NEW b \in Persons, befriend(q, a, b)
      PROVE  SocialTyped'
  <2>1. EdgesTyped'
    BY <1>1, BefriendTyped
  <2>2. UNCHANGED <<messages, shown, invitations>>
    BY <1>1 DEF befriend, AskRequest, Request, Accept, Decline, Remove, Block, Unblock
  <2>3. blocks' \subseteq Persons \X Persons
    BY <1>1 DEF befriend, AskRequest, Request, Accept, Decline, Remove, Block, Unblock, SocialTyped
  <2>4. \/ UNCHANGED calling
        \/ calling' = [calling EXCEPT ![q] = Idle]
        \/ a # b /\ calling' = [calling EXCEPT ![q] = [do |-> "request", from |-> a, to |-> b]]
    BY <1>1 DEF befriend, AskRequest, Request, Accept, Decline, Remove, Block, Unblock,
                Call, Return, Answered
  <2>5. a # b => [do |-> "request", from |-> a, to |-> b] \in SocialCalls
    BY DEF SocialCalls
  <2>6. calling' \in [1 .. AtOnce -> SocialCalls]
    BY <2>4, <2>5, NoCall DEF SocialTyped
  <2> QED
    BY <2>1, <2>2, <2>3, <2>6 DEF SocialTyped
<1>2. ASSUME NEW q \in 1 .. AtOnce, NEW a \in Persons, NEW b \in Persons,
             privateMessages(q, a, b) \/ inviteFriend(q, a, b) \/ MarkInvitationsSeen(q, a)
      PROVE  SocialTyped'
  <2>1. EdgesTyped' /\ UNCHANGED blocks
    BY <1>2, EdgesStayTyped DEF SocialTyped, privateMessages, inviteFriend, AskSend, Send, Conversation, MarkRead,
                             AskInvite, InviteToRoom, MarkInvitationsSeen
  <2>2. ASSUME NEW c \in SocialCalls, calling' = [calling EXCEPT ![q] = c]
        PROVE  calling' \in [1 .. AtOnce -> SocialCalls]
    BY <2>2 DEF SocialTyped
  <2>3. CASE AskSend(q, a, b)
    <3>1. [do |-> "send", me |-> a, them |-> b] \in SocialCalls
      BY DEF SocialCalls
    <3> QED
      BY <2>1, <2>2, <2>3, <3>1 DEF AskSend, Call, SocialTyped
  <2>4. CASE Send(q)
    <3> DEFINE c == calling[q]
               n == [c EXCEPT !.do = "read"]
               m == [from |-> c.me, to |-> c.them, read |-> FALSE]
    <3>1. c \in [do : {"send", "read", "mark_read"}, me : Persons, them : Persons]
      BY <2>4, CallKinds DEF Send, SocialTyped
    <3>2. n \in SocialCalls
      BY <3>1 DEF SocialCalls
    <3>3. m \in Messages
      BY <3>1 DEF Messages
    <3>4. calling' = [calling EXCEPT ![q] = n] /\ messages' = Append(messages, m)
          /\ UNCHANGED <<shown, invitations>>
      BY <2>4 DEF Send
    <3> HIDE DEF m, n, c
    <3>5. messages' \in Seq(Messages) /\ DOMAIN messages \subseteq DOMAIN messages'
      BY <3>3, <3>4 DEF SocialTyped
    <3>6. calling' \in [1 .. AtOnce -> SocialCalls]
      BY <2>2, <3>2, <3>4
    <3> QED
      BY <2>1, <3>4, <3>5, <3>6 DEF SocialTyped
  <2>5. ASSUME NEW after \in Cursors(a, b), Conversation(q, a, b, after) PROVE SocialTyped'
    <3>1. [do |-> "mark_read", me |-> a, them |-> b] \in SocialCalls
      BY DEF SocialCalls
    <3>2. Oldest(Between(a, b, after)) \subseteq DOMAIN messages
      <4>1. after \in Nat
        BY CursorIs DEF SocialTyped
      <4>2. Between(a, b, after) \subseteq DOMAIN messages
        BY <4>1 DEF Between, SocialTyped
      <4> QED
        BY <4>2 DEF Oldest
    <3>3. shown' \subseteq DOMAIN messages /\ UNCHANGED <<messages, invitations>>
      BY <2>5, <3>2 DEF Conversation, SocialTyped
    <3>4. calling' \in [1 .. AtOnce -> SocialCalls]
      BY <2>2, <2>5, <3>1 DEF Conversation
    <3> QED
      BY <2>1, <3>3, <3>4 DEF SocialTyped
  <2>6. CASE MarkRead(q)
    <3>0. \A m \in Messages : [m EXCEPT !.read = TRUE] \in Messages
      BY DEF Messages
    <3>1. \A i \in DOMAIN messages : messages[i] \in Messages
      BY DEF SocialTyped
    <3>2. /\ DOMAIN messages' = DOMAIN messages
          /\ \A i \in DOMAIN messages : messages'[i] = messages[i] \/ messages'[i] = [messages[i] EXCEPT !.read = TRUE]
          /\ calling' = [calling EXCEPT ![q] = Idle] /\ UNCHANGED <<shown, invitations>>
          /\ messages' = [i \in DOMAIN messages |-> messages'[i]]
      BY <2>6 DEF MarkRead, Return
    <3>3. messages' \in Seq(Messages)
      BY <3>0, <3>1, <3>2 DEF SocialTyped
    <3> QED
      BY <2>1, <2>2, <3>2, <3>3, NoCall DEF SocialTyped
  <2>7. ASSUME NEW id \in OpenRooms, AskInvite(q, a, b, id) PROVE SocialTyped'
    <3>1. [do |-> "invite", from |-> a, to |-> b, room |-> id] \in SocialCalls
      BY DEF SocialCalls
    <3> QED
      BY <2>1, <2>2, <2>7, <3>1 DEF AskInvite, Call, SocialTyped
  <2>8. CASE InviteToRoom(q)
    <3> DEFINE c == calling[q]
               i == [room |-> c.room, from |-> c.from, to |-> c.to, seen |-> FALSE]
    <3>1. c \in [do : {"invite"}, from : Persons, to : Persons, room : OpenRooms]
      BY <2>8, CallKinds DEF InviteToRoom, SocialTyped
    <3>2. i \in Invitations
      BY <3>1 DEF Invitations
    <3> HIDE DEF i
    <3>3. invitations' \in Seq(Invitations)
      BY <2>8, <3>2 DEF InviteToRoom, SocialTyped, i
    <3>4. calling' \in [1 .. AtOnce -> SocialCalls]
      BY <2>2, <2>8, NoCall DEF InviteToRoom, Return
    <3> QED
      BY <2>1, <2>8, <3>3, <3>4 DEF InviteToRoom, SocialTyped
  <2>9. CASE MarkInvitationsSeen(q, a)
    <3>0. \A v \in Invitations : [v EXCEPT !.seen = TRUE] \in Invitations
      BY DEF Invitations
    <3>1. \A i \in DOMAIN invitations : invitations[i] \in Invitations
      BY DEF SocialTyped
    <3>2. /\ DOMAIN invitations' = DOMAIN invitations
          /\ \A i \in DOMAIN invitations :
                invitations'[i] = invitations[i] \/ invitations'[i] = [invitations[i] EXCEPT !.seen = TRUE]
          /\ invitations' = [i \in DOMAIN invitations |-> invitations'[i]]
      BY <2>9 DEF MarkInvitationsSeen
    <3>3. invitations' \in Seq(Invitations)
      BY <3>0, <3>1, <3>2 DEF SocialTyped
    <3> QED
      BY <2>1, <2>9, <3>3 DEF MarkInvitationsSeen, Answered, SocialTyped
  <2> QED
    BY <1>2, <2>3, <2>4, <2>5, <2>6, <2>7, <2>8, <2>9 DEF privateMessages, inviteFriend
<1>3. CASE UNCHANGED socialVars
  BY <1>3, EdgesStayTyped DEF socialVars, SocialTyped
<1> QED
  BY <1>1, <1>2, <1>3 DEF SocialNext

LEMMA SocialAlwaysTyped == SocialSpec => []SocialTyped
  BY SocialStarts, SocialStepTyped, PTL DEF SocialSpec, SocialInv

LEMMA SocialSteps ==
    ASSUME ~ StaleInboxes
    PROVE  SocialInv /\ [SocialNext]_socialVars => SocialInv'
<1> SUFFICES ASSUME SocialInv, [SocialNext]_socialVars PROVE EdgesOK'
  BY SocialStepTyped DEF SocialInv
<1>1. ASSUME NEW q \in 1 .. AtOnce, NEW a \in Persons, NEW b \in Persons, befriend(q, a, b)
      PROVE  EdgesOK'
  BY <1>1, BefriendEdges
<1>2. ASSUME NEW q \in 1 .. AtOnce, NEW a \in Persons, NEW b \in Persons,
             privateMessages(q, a, b) \/ inviteFriend(q, a, b) \/ MarkInvitationsSeen(q, a)
      PROVE  EdgesOK'
  BY <1>2, EdgesChange DEF privateMessages, inviteFriend, AskSend, Send, Conversation, MarkRead,
                           AskInvite, InviteToRoom, MarkInvitationsSeen
<1>3. CASE UNCHANGED socialVars
  BY <1>3, EdgesChange DEF socialVars
<1> QED
  BY <1>1, <1>2, <1>3 DEF SocialNext

LEMMA SocialTypes == SocialTyped => SocialTypeOK
<1> SUFFICES ASSUME SocialTyped PROVE SocialTypeOK
  OBVIOUS
<1>1. /\ \A i \in DOMAIN messages : messages[i] \in Messages
      /\ \A i \in DOMAIN invitations : invitations[i] \in Invitations
  BY DEF SocialTyped
<1>2. /\ \A m \in Messages : m.from \in Persons /\ m.to \in Persons
      /\ \A v \in Invitations : v.room \in OpenRooms
  BY DEF Messages, Invitations
<1> QED
  BY <1>1, <1>2 DEF SocialTyped, EdgesTyped, SocialTypeOK

\* What a rail shows.
LEMMA RailIs ==
    ASSUME NEW a
    PROVE  /\ friendList(a).friends = Friends(a) /\ friendList(a).blocked = Blocked(a)
           /\ friendList(a).incoming = Incoming(a) /\ friendList(a).outgoing = Outgoing(a)
           /\ \A b \in Persons : friendList(a).unread[b] = Unread(a, b)
  BY DEF friendList

\* The edges are friendships and requests, in every reachable state, with any number
\* of requests at work, as long as people only decline what is pending.
THEOREM SocialInvariant == ASSUME ~ StaleInboxes PROVE SocialSpec => []SocialInv
  BY SocialStarts, SocialSteps, PTL DEF SocialSpec

\* Two people are friends of each other or not at all, a request stands one way, and
\* nobody has more friends than fit, with any number of requests at work at once, as
\* long as people only decline what is pending (FriendshipIsMutual, OnePlaceOnTheRail).
THEOREM FriendsAlwaysMutual ==
    ASSUME ~ StaleInboxes
    PROVE  SocialSpec => [](FriendshipIsMutual /\ OnePlaceOnTheRail)
<1>1. SocialInv => FriendshipIsMutual
  <2> SUFFICES ASSUME SocialInv, NEW a \in Persons
               PROVE  /\ \A b \in Friends(a) : AreFriends(a, b)
                      /\ Cardinality(Friends(a)) <= MaxFriends
    BY RailIs DEF FriendshipIsMutual
  <2>1. ASSUME NEW b \in Friends(a) PROVE AreFriends(a, b)
    BY DEF SocialInv, EdgesOK, AreFriends, Friends
  <2> QED
    BY <2>1 DEF SocialInv, EdgesOK
<1>2. SocialInv => OnePlaceOnTheRail
  <2> SUFFICES ASSUME SocialInv, NEW a \in Persons
               PROVE  /\ Friends(a) \intersect (Incoming(a) \union Outgoing(a)) = {}
                      /\ Incoming(a) \intersect Outgoing(a) = {}
    BY RailIs DEF OnePlaceOnTheRail
  <2>1. ASSUME NEW b \in Persons
        PROVE  /\ EdgeState(a, b) = "accepted" => EdgeState(b, a) = "accepted"
               /\ EdgeState(a, b) = "requested" => EdgeState(b, a) = "none"
    BY DEF SocialInv, EdgesOK
  <2> QED
    BY <2>1 DEF Friends, Incoming, Outgoing
<1> QED
  BY <1>1, <1>2, SocialInvariant, PTL

\* Nothing stands across a block, and no request that asked about it goes on to.
BlocksOK ==
    /\ \A a, b \in Persons :
          <<a, b>> \in blocks => EdgeState(a, b) = "none" /\ EdgeState(b, a) = "none"
    /\ \A q \in 1 .. AtOnce : calling[q].do = "request" =>
          ~ EitherBlocked(calling[q].from, calling[q].to)

\* There are no more rows than the bound, those about to be written included.
RowsOK ==
    /\ Len(messages) + Len(invitations) <= MaxRows
    /\ \A q \in 1 .. AtOnce :
          calling[q].do \in {"send", "invite"} => Len(messages) + Len(invitations) < MaxRows

Replying(j) == \E q \in 1 .. AtOnce :
    calling[q] = [do |-> "read", me |-> messages[j].from, them |-> messages[j].to]

SamePair(i, j) == {messages[i].from, messages[i].to} = {messages[j].from, messages[j].to}

\* What was read was shown.  Nobody was shown a message, or has sent one and read on,
\* without having been shown those before it, and what a reader is about to mark was.
ReadingOK ==
    /\ \A i \in DOMAIN messages : i \in shown \/ ~ messages[i].read
    /\ \A i, j \in DOMAIN messages : i < j /\ SamePair(i, j) /\ i \notin shown =>
          /\ j \notin shown
          /\ messages[j].to = messages[i].to \/ (j = Len(messages) /\ Replying(j))
    /\ \A q \in 1 .. AtOnce : calling[q].do = "mark_read" => \A i \in DOMAIN messages :
          messages[i].to = calling[q].me /\ messages[i].from = calling[q].them => i \in shown

RailsInv == SocialInv /\ BlocksOK /\ RowsOK /\ ReadingOK

LEMMA RailsStart == SocialInit => RailsInv
<1> SUFFICES ASSUME SocialInit PROVE RailsInv
  OBVIOUS
<1>1. messages = <<>> /\ invitations = <<>> /\ blocks = {}
  BY DEF SocialInit
<1>2. \A q \in 1 .. AtOnce : calling[q].do = "nothing"
  BY NoCall DEF SocialInit
<1>3. Len(messages) = 0 /\ Len(invitations) = 0 /\ DOMAIN messages = {}
  BY <1>1
<1> QED
  BY <1>1, <1>2, <1>3, SocialStarts, SocialAssumption DEF RailsInv, BlocksOK, RowsOK, ReadingOK

\* One poll returns a whole conversation, and whoever asks has then been shown every
\* message that was for them, wherever the cursor stands.
LEMMA PollShowsAll ==
    ASSUME SocialTyped, RowsOK, ReadingOK, MaxRows <= PollLimit,
           NEW a \in Persons, NEW b \in Persons, NEW after \in Cursors(a, b),
           NEW i \in DOMAIN messages, messages[i].to = a, messages[i].from = b
    PROVE  i \in shown \/ i \in Oldest(Between(a, b, after))
<1> DEFINE S == Between(a, b, after)
<1>1. after \in Nat /\ (after = 0 \/ after \in Between(a, b, 0) \intersect shown)
  BY CursorIs DEF SocialTyped
<1>2. Len(messages) \in Nat /\ Len(invitations) \in Nat /\ DOMAIN messages = 1 .. Len(messages)
  BY DEF SocialTyped
<1>3. S \subseteq 1 .. Len(messages)
  <2>1. after + 1 \in Nat /\ after + 1 >= 1
    BY <1>1
  <2>2. S \subseteq (after + 1) .. Len(messages)
    BY DEF Between
  <2> QED
    BY <1>2, <2>1, <2>2
<1>4. IsFiniteSet(1 .. Len(messages)) /\ Cardinality(1 .. Len(messages)) = Len(messages)
  <2>1. \A n \in Nat : IsFiniteSet(1 .. n) /\ Cardinality(1 .. n) = IF 1 > n THEN 0 ELSE n - 1 + 1
    BY FS_Interval
  <2> QED
    BY <1>2, <2>1
<1>5. ASSUME NEW k \in S PROVE Cardinality({j \in S : j <= k}) <= PollLimit
  <2>1. {j \in S : j <= k} \in SUBSET (1 .. Len(messages))
    BY <1>3
  <2>2. IsFiniteSet({j \in S : j <= k}) /\ Cardinality({j \in S : j <= k}) <= Len(messages)
    BY <2>1, <1>4, FS_Subset
  <2>3. Cardinality({j \in S : j <= k}) \in Nat
    BY <2>2, FS_CardinalityType
  <2> QED
    BY <2>2, <2>3, <1>2, SocialAssumption DEF RowsOK
<1>6. S \subseteq Oldest(S)
  BY <1>5 DEF Oldest
<1>7. CASE i > after
  <2>1. i \in (after + 1) .. Len(messages) /\ {messages[i].from, messages[i].to} = {a, b}
    BY <1>1, <1>2, <1>7
  <2>2. i \in S
    BY <2>1 DEF Between
  <2> QED
    BY <1>6, <2>2
<1>8. CASE i <= after
  <2>1. after \in Between(a, b, 0) /\ after \in shown
    BY <1>1, <1>2, <1>8
  <2>2. after \in 1 .. Len(messages) /\ {messages[after].from, messages[after].to} = {a, b}
    BY <2>1 DEF Between
  <2>3. SamePair(i, after)
    BY <2>2 DEF SamePair
  <2> QED
    BY <1>1, <1>2, <1>8, <2>1, <2>2, <2>3 DEF ReadingOK
<1> QED
  BY <1>1, <1>2, <1>7, <1>8


\* A step that writes no message and shows none, of somebody who is not replying.
LEMMA ReadingStays ==
    ASSUME RailsInv, UNCHANGED <<messages, shown>>,
           \A j \in DOMAIN messages : ~ Replying(j),
           \A q \in 1 .. AtOnce : calling'[q].do # "mark_read"
    PROVE  ReadingOK'
<1>1. \A i, j : SamePair(i, j)' = SamePair(i, j)
  BY DEF SamePair
<1> QED
  BY <1>1 DEF RailsInv, ReadingOK

LEMMA RailsStep ==
    ASSUME OneRequest, ~ StaleInboxes, MaxRows <= PollLimit
    PROVE  RailsInv /\ [SocialNext]_socialVars => RailsInv'
<1> SUFFICES ASSUME RailsInv, [SocialNext]_socialVars PROVE RailsInv'
  OBVIOUS
<1> USE DEF RailsInv
<1>0. SocialInv'
  BY SocialSteps
<1>a. \A q \in 1 .. AtOnce : q = 1
  BY DEF OneRequest
<1>b. 1 \in 1 .. AtOnce /\ calling[1] \in SocialCalls /\ \A c : [calling EXCEPT ![1] = c][1] = c
  BY DEF OneRequest, SocialInv, SocialTyped
<1>c. Len(messages) \in Nat /\ Len(invitations) \in Nat /\ DOMAIN messages = 1 .. Len(messages)
  BY DEF SocialInv, SocialTyped
<1>d. ASSUME calling[1].do # "read" PROVE \A j \in DOMAIN messages : ~ Replying(j)
  BY <1>d, <1>a DEF Replying
<1>1. ASSUME NEW a \in Persons, NEW b \in Persons, befriend(1, a, b)
      PROVE  RailsInv'
  <2>1. UNCHANGED <<messages, shown, invitations>> /\ calling[1].do \in {"nothing", "request"}
    BY <1>1, NoCall DEF befriend, AskRequest, Request, Accept, Decline, Remove, Block, Unblock,
                        Call, Answered
  <2>2. \/ calling'[1].do = "nothing"
        \/ AskRequest(1, a, b) /\ calling'[1] = [do |-> "request", from |-> a, to |-> b]
    BY <1>1, <1>b, NoCall DEF befriend, AskRequest, Request, Accept, Decline, Remove, Block, Unblock,
                        Call, Answered, Return
  <2>3. ReadingOK' /\ RowsOK'
    BY <2>1, <2>2, <1>a, <1>d, ReadingStays DEF RowsOK
  <2>4. \A q \in 1 .. AtOnce : calling'[q].do = "request" =>
          ~ EitherBlocked(calling[q].from, calling[q].to)'
    BY <1>a, <2>2 DEF AskRequest, EitherBlocked
  <2>5. \A x, y \in Persons : <<x, y>> \in blocks' =>
          EdgeState(x, y)' = "none" /\ EdgeState(y, x)' = "none"
    <3>0. \A x, y \in Persons :
            <<x, y>> \in blocks => EdgeState(x, y) = "none" /\ EdgeState(y, x) = "none"
      BY DEF BlocksOK
    <3>1. CASE AskRequest(1, a, b)
      BY <3>0, <3>1 DEF AskRequest, EdgeState
    <3>2. CASE Request(1)
      <4> DEFINE from == calling[1].from
                 to == calling[1].to
      <4>1. calling[1].do = "request"
        BY <3>2 DEF Request
      <4>2. from \in Persons /\ to \in Persons /\ ~ EitherBlocked(from, to)
        BY <4>1, <1>b, CallKinds DEF BlocksOK
      <4>3. /\ DOMAIN edges' \subseteq {<<from, to>>, <<to, from>>} \union DOMAIN edges
            /\ UNCHANGED blocks
        BY <3>2 DEF Request, AcceptWithin, BothWays, Over
      <4> HIDE DEF from, to
      <4>4. \A x, y \in Persons : EdgeState(x, y) = "none" <=> <<x, y>> \notin DOMAIN edges
        BY DEF EdgeState, SocialInv, SocialTyped, EdgesTyped
      <4>5. \A x, y \in Persons : <<x, y>> \notin DOMAIN edges' => EdgeState(x, y)' = "none"
        BY DEF EdgeState
      <4> QED
        BY <3>0, <4>2, <4>3, <4>4, <4>5 DEF EitherBlocked
    <3>3. CASE Accept(1, a, b)
      <4>1. EdgeState(b, a) # "none" /\ <<a, b>> \notin blocks /\ <<b, a>> \notin blocks
        BY <3>0, <3>3 DEF Accept
      <4>2. DOMAIN edges' = {<<a, b>>, <<b, a>>} \union DOMAIN edges /\ UNCHANGED blocks
        BY <3>3 DEF Accept, AcceptWithin, BothWays, Over
      <4>4. \A x, y \in Persons : EdgeState(x, y) = "none" <=> <<x, y>> \notin DOMAIN edges
        BY DEF EdgeState, SocialInv, SocialTyped, EdgesTyped
      <4>5. \A x, y \in Persons : <<x, y>> \notin DOMAIN edges' => EdgeState(x, y)' = "none"
        BY DEF EdgeState
      <4> QED
        BY <3>0, <4>1, <4>2, <4>4, <4>5
    <3>4. CASE Decline(1, a, b) \/ Remove(1, a, b) \/ Unblock(1, a, b)
      <4>1. \A x, y \in Persons : EdgeState(x, y) = "none" => EdgeState(x, y)' = "none"
        BY <3>4 DEF Decline, Remove, Unblock, Apart, Restrict, EdgeState, SocialInv, SocialTyped, EdgesTyped
      <4>2. blocks' \subseteq blocks
        BY <3>4 DEF Decline, Remove, Unblock
      <4> QED
        BY <3>0, <4>1, <4>2
    <3>5. CASE Block(1, a, b)
      <4>1. \A x, y \in Persons : EdgeState(x, y) = "none" => EdgeState(x, y)' = "none"
        BY <3>5 DEF Block, Apart, Restrict, EdgeState, SocialInv, SocialTyped, EdgesTyped
      <4>2. EdgeState(a, b)' = "none" /\ EdgeState(b, a)' = "none"
        BY <3>5 DEF Block, Apart, Restrict, EdgeState, BothWays
      <4>3. blocks' = blocks \union {<<a, b>>}
        BY <3>5 DEF Block
      <4> QED
        BY <3>0, <4>1, <4>2, <4>3
    <3> QED
      BY <1>1, <3>1, <3>2, <3>3, <3>4, <3>5 DEF befriend
  <2> QED
    BY <1>0, <2>3, <2>4, <2>5 DEF BlocksOK
<1>2. ASSUME UNCHANGED <<edges, blocks>>, calling'[1].do # "request" PROVE BlocksOK'
  BY <1>2, <1>a DEF BlocksOK, EdgeState
<1>3. ASSUME NEW a \in Persons, NEW b \in Persons, AskSend(1, a, b)
      PROVE  RailsInv'
  <2>1. /\ calling[1].do = "nothing" /\ UNCHANGED <<edges, blocks, messages, shown, invitations>>
        /\ calling'[1].do = "send" /\ Len(messages) + Len(invitations) < MaxRows
    BY <1>3, <1>b, NoCall DEF AskSend, Call, MoreRows
  <2> QED
    BY <1>0, <1>2, <1>a, <1>d, <2>1, ReadingStays DEF RowsOK
<1>4. ASSUME NEW a \in Persons, NEW b \in Persons, NEW id \in OpenRooms, AskInvite(1, a, b, id)
      PROVE  RailsInv'
  <2>1. /\ calling[1].do = "nothing" /\ UNCHANGED <<edges, blocks, messages, shown, invitations>>
        /\ calling'[1].do = "invite" /\ Len(messages) + Len(invitations) < MaxRows
    BY <1>4, <1>b, NoCall DEF AskInvite, Call, MoreRows
  <2> QED
    BY <1>0, <1>2, <1>a, <1>d, <2>1, ReadingStays DEF RowsOK
<1>5. CASE InviteToRoom(1)
  <2>1. /\ calling[1].do = "invite" /\ UNCHANGED <<edges, blocks, messages, shown>>
        /\ calling'[1].do = "nothing" /\ Len(invitations') = Len(invitations) + 1
    BY <1>5, <1>b, NoCall DEF InviteToRoom, Return, SocialInv, SocialTyped
  <2>2. RowsOK'
    BY <1>a, <1>c, <2>1, SocialAssumption DEF RowsOK, OneRequest
  <2> QED
    BY <1>0, <1>2, <1>a, <1>d, <2>1, <2>2, ReadingStays
<1>6. ASSUME NEW a \in Persons, MarkInvitationsSeen(1, a)
      PROVE  RailsInv'
  <2>1. /\ calling[1].do = "nothing" /\ UNCHANGED <<edges, blocks, messages, shown, calling>>
        /\ DOMAIN invitations' = DOMAIN invitations
    BY <1>6, NoCall DEF MarkInvitationsSeen, Answered
  <2>2. Len(invitations') = Len(invitations)
    BY <1>0, <2>1 DEF SocialInv, SocialTyped
  <2> QED
    BY <1>0, <1>2, <1>a, <1>d, <2>1, <2>2, ReadingStays DEF RowsOK
<1>7. CASE Send(1)
  <2> DEFINE c == calling[1]
             m == [from |-> c.me, to |-> c.them, read |-> FALSE]
  <2>0. PICK last \in Nat : last = Len(messages) + 1
    BY <1>c
  <2>1. c.do = "send" /\ c \in [do : {"send", "read", "mark_read"}, me : Persons, them : Persons]
    BY <1>7, <1>b, CallKinds DEF Send
  <2>2. /\ calling'[1] = [c EXCEPT !.do = "read"] /\ UNCHANGED <<edges, blocks, shown, invitations>>
        /\ messages' = Append(messages, m)
    BY <1>7, <1>b DEF Send
  <2>3. calling'[1] = [do |-> "read", me |-> c.me, them |-> c.them] /\ calling'[1].do = "read"
    BY <2>1, <2>2
  <2>4. m.from = c.me /\ m.to = c.them /\ ~ m.read
    OBVIOUS
  <2> HIDE DEF m
  <2>5. /\ Len(messages') = last /\ DOMAIN messages' = 1 .. last
        /\ messages'[last] = m /\ \A i \in 1 .. Len(messages) : messages'[i] = messages[i]
    BY <1>c, <2>0, <2>2 DEF SocialInv, SocialTyped
  <2>6. \A j \in DOMAIN messages : ~ Replying(j)
    BY <1>d, <2>1
  <2>7. Replying(last)'
    BY <1>b, <2>3, <2>4, <2>5 DEF Replying
  <2>8. RowsOK'
    BY <1>a, <1>b, <1>c, <2>0, <2>1, <2>2, <2>3, <2>5, SocialAssumption DEF RowsOK
  <2>9. \A i \in DOMAIN messages' : i \in shown' \/ ~ messages'[i].read
    BY <1>c, <2>0, <2>2, <2>4, <2>5 DEF ReadingOK
  <2>10. last \notin shown
    BY <1>c, <2>0 DEF SocialInv, SocialTyped
  <2>11. ASSUME NEW i \in DOMAIN messages', NEW j \in DOMAIN messages', i < j, SamePair(i, j)', i \notin shown'
         PROVE  /\ j \notin shown'
                /\ messages'[j].to = messages'[i].to \/ (j = Len(messages') /\ Replying(j)')
    <3>1. i \in 1 .. Len(messages)
      BY <1>c, <2>0, <2>5, <2>11
    <3>2. CASE j = last
      BY <2>2, <2>5, <2>7, <2>10, <3>2
    <3>3. CASE j # last
      <4>0. j \in 1 .. Len(messages)
        BY <1>c, <2>0, <2>5, <3>3
      <4>a. messages'[i] = messages[i] /\ messages'[j] = messages[j]
        BY <2>5, <3>1, <4>0
      <4>1. SamePair(i, j)
        BY <2>11, <4>a DEF SamePair
      <4> QED
        BY <1>c, <2>2, <2>6, <2>11, <3>1, <4>0, <4>a, <4>1 DEF ReadingOK
    <3> QED
      BY <3>2, <3>3
  <2>12. ReadingOK'
    BY <1>a, <2>3, <2>9, <2>11 DEF ReadingOK
  <2> QED
    BY <1>0, <1>2, <2>2, <2>3, <2>8, <2>12
<1>8. ASSUME NEW a \in Persons, NEW b \in Persons, NEW after \in Cursors(a, b), Conversation(1, a, b, after)
      PROVE  RailsInv'
  <2> DEFINE new == {i \in Oldest(Between(a, b, after)) : messages[i].to = a}
  <2>1. /\ UNCHANGED <<edges, blocks, messages, invitations>>
        /\ shown' = shown \union new /\ a # b
        /\ calling'[1] = [do |-> "mark_read", me |-> a, them |-> b]
        /\ calling'[1].do = "mark_read" /\ calling'[1].me = a /\ calling'[1].them = b
        /\ calling[1].do = "nothing" \/ calling[1] = [do |-> "read", me |-> a, them |-> b]
    BY <1>8, <1>b, NoCall DEF Conversation
  <2>2. \A i \in new : messages[i].to = a /\ {messages[i].from, messages[i].to} = {a, b}
    BY DEF Oldest, Between
  <2>3. ASSUME NEW i \in DOMAIN messages, messages[i].to = a, messages[i].from = b
        PROVE  i \in shown'
    BY <2>1, <2>3, PollShowsAll DEF SocialInv
  <2> HIDE DEF new
  <2>4. \A i, j : SamePair(i, j)' = SamePair(i, j)
    BY <2>1 DEF SamePair
  <2>5. ASSUME NEW i \in DOMAIN messages, NEW j \in DOMAIN messages, i < j, SamePair(i, j), i \notin shown'
        PROVE  j \notin shown' /\ messages[j].to = messages[i].to
    <3>1. i \notin shown /\ j \notin shown
          /\ (messages[j].to = messages[i].to \/ Replying(j))
      BY <2>1, <2>5 DEF ReadingOK
    <3>2. Replying(j) => messages[j].from = a /\ messages[j].to = b
      BY <2>1, <1>a DEF Replying
    <3>3. ~ (messages[i].to = a /\ messages[i].from = b)
      BY <2>3, <2>5
    <3>4. j \in new => messages[i].to = b /\ messages[i].from = a /\ messages[j].to = a /\ messages[j].from = b
      BY <2>1, <2>2, <2>5, <3>3 DEF SamePair
    <3>5. Replying(j) => messages[i].to = messages[j].to
      BY <2>1, <2>5, <3>2, <3>3 DEF SamePair
    <3>6. messages[j].to = messages[i].to
      BY <3>1, <3>5
    <3> QED
      BY <2>1, <3>1, <3>4, <3>6
  <2>6. ReadingOK'
    BY <1>a, <2>1, <2>3, <2>4, <2>5 DEF ReadingOK
  <2>7. RowsOK'
    BY <1>a, <2>1 DEF RowsOK
  <2> QED
    BY <1>0, <1>2, <2>1, <2>6, <2>7
<1>9. CASE MarkRead(1)
  <2> DEFINE c == calling[1]
  <2>1. /\ c.do = "mark_read" /\ calling'[1].do = "nothing"
        /\ UNCHANGED <<edges, blocks, shown, invitations>>
    BY <1>9, <1>b, NoCall DEF MarkRead, Return
  <2>2. /\ DOMAIN messages' = DOMAIN messages
        /\ \A i \in DOMAIN messages :
              \/ messages'[i] = messages[i]
              \/ messages'[i] = [messages[i] EXCEPT !.read = TRUE] /\ messages[i].to = c.me /\ messages[i].from = c.them
    BY <1>9 DEF MarkRead
  <2>3. \A i \in DOMAIN messages : messages[i] \in Messages
    BY DEF SocialInv, SocialTyped
  <2>4. \A m \in Messages : [m EXCEPT !.read = TRUE].from = m.from /\ [m EXCEPT !.read = TRUE].to = m.to
    BY DEF Messages
  <2>5. \A i \in DOMAIN messages :
          /\ messages'[i].from = messages[i].from /\ messages'[i].to = messages[i].to
          /\ messages'[i] = messages[i] \/ i \in shown
    BY <1>a, <1>b, <2>1, <2>2, <2>3, <2>4 DEF ReadingOK
  <2>6. Len(messages') = Len(messages)
    BY <1>0, <1>c, <2>2 DEF SocialInv, SocialTyped
  <2>7. \A i, j \in DOMAIN messages : SamePair(i, j)' = SamePair(i, j)
    BY <2>5 DEF SamePair
  <2>8. \A j \in DOMAIN messages : ~ Replying(j)
    BY <1>d, <2>1
  <2> HIDE DEF c
  <2>9. ReadingOK'
    BY <1>a, <2>1, <2>2, <2>5, <2>7, <2>8 DEF ReadingOK
  <2>10. RowsOK'
    BY <1>a, <2>1, <2>6 DEF RowsOK
  <2> QED
    BY <1>0, <1>2, <2>1, <2>9, <2>10
<1>10. CASE UNCHANGED socialVars
  <2>1. UNCHANGED <<edges, blocks, messages, shown, invitations, calling>>
    BY <1>10 DEF socialVars
  <2>2. BlocksOK'
    BY <2>1 DEF BlocksOK, EdgeState, EitherBlocked
  <2>3. RowsOK'
    BY <2>1 DEF RowsOK
  <2>4. \A i, j : SamePair(i, j)' = SamePair(i, j) /\ Replying(j)' = Replying(j)
    BY <2>1 DEF SamePair, Replying
  <2>5. ReadingOK'
    BY <2>1, <2>4 DEF ReadingOK
  <2> QED
    BY <1>0, <2>2, <2>3, <2>5
<1>11. ASSUME NEW q \in 1 .. AtOnce, NEW a \in Persons, NEW b \in Persons,
              privateMessages(q, a, b) \/ inviteFriend(q, a, b)
       PROVE  RailsInv'
  BY <1>a, <1>3, <1>4, <1>5, <1>7, <1>8, <1>9, <1>11 DEF privateMessages, inviteFriend
<1> QED
  BY <1>a, <1>1, <1>6, <1>10, <1>11 DEF SocialNext

\* With one request at work, and no conversation longer than a poll, everybody's
\* rail agrees with everybody else's: nothing stands across a block, and a message
\* that does not count as unread was shown to the one it is for (RailsAgree).
THEOREM RailsAlwaysAgree ==
    ASSUME OneRequest, ~ StaleInboxes, MaxRows <= PollLimit
    PROVE  SocialSpec => []RailsAgree
<1>1. RailsInv => BlockedAreApart
  <2> SUFFICES ASSUME RailsInv, NEW a \in Persons, NEW b \in Blocked(a)
               PROVE  EdgeState(a, b) = "none" /\ EdgeState(b, a) = "none"
    BY RailIs DEF BlockedAreApart
  <2> QED
    BY DEF RailsInv, BlocksOK, Blocked
<1>2. RailsInv => ReadWasShown
  <2> SUFFICES ASSUME RailsInv, NEW i \in DOMAIN messages, i \notin shown
               PROVE  i \in friendList(messages[i].to).unread[messages[i].from]
    BY DEF ReadWasShown
  <2>1. messages[i] \in Messages /\ ~ messages[i].read
    BY DEF RailsInv, SocialInv, SocialTyped, ReadingOK
  <2>2. messages[i].from \in Persons /\ messages[i].to \in Persons
    BY <2>1 DEF Messages
  <2>3. i \in Unread(messages[i].to, messages[i].from)
    BY <2>1 DEF Unread
  <2> QED
    BY <2>2, <2>3, RailIs
<1>3. SocialSpec => []RailsInv
  BY RailsStart, RailsStep, PTL DEF SocialSpec
<1> QED
  BY <1>1, <1>2, <1>3, FriendsAlwaysMutual, PTL DEF RailsAgree

--------------------------------------------------------------------------------
(* Chat *)

\* Ids that grow, after one and up to another.
Rising(s, low, high) ==
    /\ s \in Seq(Nat)
    /\ \A i \in 1 .. Len(s) : low < s[i] /\ s[i] <= high
    /\ \A i, j \in 1 .. Len(s) : i < j => s[i] < s[j]

BoardOK ==
    /\ nextID \in Nat /\ DOMAIN channels \subseteq Channels
    /\ \A ch \in DOMAIN channels : Rising(channels[ch], 0, nextID) /\ Len(channels[ch]) \in 1 .. History

PlacesOK ==
    /\ rooms \in [RoomIds -> {"unused", "open", "ended", "gone"}]
    /\ seats \in [Players -> Channels]
    /\ \A p \in Players : seats[p] # Lobby => rooms[seats[p]] \in {"open", "ended"}

\* What an app shows of a channel goes up in lives and ids, no further than its
\* cursor in this life; and it has of the board what its cursor has passed.
Heard == Nat \X Nat
Said(now, m) == <<now, m>>

AllSaid(heard, new, now) ==
    /\ heard \in Seq(Heard) /\ Len(heard) = Len(new)
    /\ \A k \in 1 .. Len(new) : heard[k] = Said(now, new[k])

Earlier(e, f) == e[1] < f[1] \/ (e[1] = f[1] /\ e[2] < f[2])

InOrder(heard, cursor, now) ==
    /\ heard \in Seq(Heard)
    /\ \A i, j \in 1 .. Len(heard) : i < j => Earlier(heard[i], heard[j])
    /\ \A i \in 1 .. Len(heard) :
          heard[i][1] <= now /\ (heard[i][1] = now => heard[i][2] <= cursor)

Hears(opened, cursor, heard, ch) ==
    /\ InOrder(heard, cursor, life)
    /\ opened = life =>
          /\ cursor <= nextID
          /\ \A i \in 1 .. Len(Kept(ch)) : Kept(ch)[i] <= cursor =>
                \E k \in 1 .. Len(heard) : heard[k] = Said(life, Kept(ch)[i])

HeardOK(c, ch) == Hears(c.opened, c.cursor[ch], c.heard[ch], ch)

Clients == [opened : Nat, cursor : [Channels -> Nat], heard : [Channels -> Seq(Heard)]]

ClientsOK ==
    /\ life \in Nat
    /\ clients \in [Players -> Clients]
    /\ \A p \in Players : clients[p].opened <= life /\ \A ch \in Channels : HeardOK(clients[p], ch)

IsPoll(j) == j.do \in {"lobby", "room", "reply"}
Nexts     == {Idle} \union {Dropping(id) : id \in RoomIds}

JobOK(j) ==
    /\ IsPoll(j) => j.who \in Players
    /\ j.do \in {"lobby", "room"} => j.room \in Channels
    /\ j.do \in {"room", "reply"} => DOMAIN j.heard \subseteq Channels
    /\ j.do = "tell" => j.channels \in Seq(Channels) /\ j.channels # <<>> /\ j.then \in Nexts

\* What a poll has read of a channel is all there was between its client's cursor
\* and the last it read.
NoneMissed(new, cursor, ch) ==
    \A i \in 1 .. Len(Kept(ch)), k \in 1 .. Len(new) :
       cursor < Kept(ch)[i] /\ Kept(ch)[i] <= new[k] => \E n \in 1 .. Len(new) : new[n] = Kept(ch)[i]

ReplyOK(j, ch) ==
    LET new == j.heard[ch]  cursor == clients[j.who].cursor[ch] IN
    /\ Rising(new, cursor, nextID) /\ NoneMissed(new, cursor, ch)

\* And a client has one poll out.
PollsOK ==
    /\ working = [h \in 1 .. AtOnce |-> working[h]]
    /\ \A h \in 1 .. AtOnce : JobOK(working[h])
    /\ \A h \in 1 .. AtOnce : working[h].do \in {"room", "reply"} =>
          \A ch \in DOMAIN working[h].heard : ReplyOK(working[h], ch)
    /\ \A g, h \in 1 .. AtOnce :
          IsPoll(working[g]) /\ IsPoll(working[h]) /\ working[g].who = working[h].who => g = h

ChatInv == BoardOK /\ PlacesOK /\ ClientsOK /\ PollsOK

\* The end of a sequence of ids.
LEMMA EndIs ==
    ASSUME NEW s \in Seq(Nat), NEW m \in 1 .. Len(s) + 1
    PROVE  /\ SubSeq(s, m, Len(s)) \in Seq(Nat)
           /\ Len(SubSeq(s, m, Len(s))) = Len(s) - m + 1
           /\ \A i \in 1 .. Len(s) - m + 1 : SubSeq(s, m, Len(s))[i] = s[i + m - 1]
  OBVIOUS

\* A place in the end of a sequence, from its place in the sequence.
LEMMA EndPlace ==
    ASSUME NEW n \in Nat, NEW m \in 1 .. n + 1, NEW i \in 1 .. n - m + 1
    PROVE  i + m - 1 \in 1 .. n
  OBVIOUS

LEMMA EndRises ==
    ASSUME NEW s, NEW low \in Nat, NEW high \in Nat, Rising(s, low, high), NEW m \in 1 .. Len(s) + 1
    PROVE  Rising(SubSeq(s, m, Len(s)), low, high)
<1> DEFINE t == SubSeq(s, m, Len(s))
<1>1. s \in Seq(Nat) /\ Len(s) \in Nat
  BY DEF Rising
<1>2. /\ t \in Seq(Nat) /\ Len(t) = Len(s) - m + 1
      /\ \A i \in 1 .. Len(s) - m + 1 : t[i] = s[i + m - 1]
  BY <1>1, EndIs
<1> HIDE DEF t
<1>3. \A i \in 1 .. Len(t) : i + m - 1 \in 1 .. Len(s) /\ t[i] = s[i + m - 1]
  <2> SUFFICES ASSUME NEW i \in 1 .. Len(t) PROVE i + m - 1 \in 1 .. Len(s) /\ t[i] = s[i + m - 1]
    OBVIOUS
  <2>1. i \in 1 .. Len(s) - m + 1
    BY <1>2
  <2>2. i + m - 1 \in 1 .. Len(s)
    BY <1>1, <2>1, EndPlace
  <2> QED
    BY <1>2, <2>1, <2>2
<1>4. ASSUME NEW i \in 1 .. Len(t) PROVE low < t[i] /\ t[i] <= high
  BY <1>3 DEF Rising
<1>5. ASSUME NEW i \in 1 .. Len(t), NEW j \in 1 .. Len(t), i < j PROVE t[i] < t[j]
  <2>1. i + m - 1 < j + m - 1
    BY <1>1, <1>2, <1>5
  <2> QED
    BY <1>3, <2>1 DEF Rising
<1>6. Rising(t, low, high)
  BY <1>2, <1>4, <1>5 DEF Rising
<1> QED
  BY <1>6 DEF t

LEMMA KeptIs ==
    ASSUME BoardOK, NEW ch
    PROVE  Rising(Kept(ch), 0, nextID) /\ Len(Kept(ch)) \in 0 .. History
  BY ChatAssumption DEF BoardOK, Kept, Rising

LEMMA KeptIsNext == BoardOK' => \A ch : Rising(Kept(ch)', 0, nextID')
  BY ChatAssumption DEF BoardOK, Kept, Rising

\* What a poll reads is what the channel keeps past the cursor.
LEMMA SinceIs ==
    ASSUME BoardOK, NEW ch, NEW cursor \in Nat
    PROVE  /\ Rising(Since(ch, cursor), cursor, nextID)
           /\ \A i \in 1 .. Len(Kept(ch)) : cursor < Kept(ch)[i] =>
                 \E n \in 1 .. Len(Since(ch, cursor)) : Since(ch, cursor)[n] = Kept(ch)[i]
<1> DEFINE s == Kept(ch)
           old == {i \in DOMAIN s : s[i] <= cursor}
           m == Max({0} \union old)
           t == SubSeq(s, m + 1, Len(s))
<1>1. Rising(s, 0, nextID) /\ nextID \in Nat
  BY KeptIs DEF BoardOK
<1>2. s \in Seq(Nat) /\ Len(s) \in Nat /\ DOMAIN s = 1 .. Len(s)
  BY <1>1 DEF Rising
<1>3. m \in {0} \union old /\ \A i \in old : i <= m
  <2>1. {0} \union old \subseteq 0 .. Len(s)
    BY <1>2
  <2> DEFINE all == {0} \union old
  <2>2. all \subseteq 0 .. Len(s) /\ all # {} /\ old \subseteq all /\ m = Max(all)
    BY <2>1
  <2> HIDE DEF all
  <2>3. Max(all) \in all /\ \A y \in all : y <= Max(all)
    BY <1>2, <2>2, MaxOf
  <2> HIDE DEF m
  <2> QED
    BY <2>2, <2>3 DEF all
<1> HIDE DEF m
<1>4. m \in 0 .. Len(s) /\ m + 1 \in 1 .. Len(s) + 1
  BY <1>2, <1>3
<1>5. ASSUME NEW i \in 1 .. Len(s) PROVE s[i] <= cursor <=> i <= m
  <2>1. i <= m /\ i # m => s[i] < s[m] /\ s[m] <= cursor
    BY <1>2, <1>3, <1>1 DEF Rising
  <2>2. i = m => s[i] <= cursor
    BY <1>2, <1>3
  <2>3. s[i] \in Nat /\ (m # 0 => s[m] \in Nat)
    BY <1>2, <1>4
  <2>4. s[i] <= cursor => i <= m
    BY <1>2, <1>3
  <2> QED
    BY <1>4, <2>1, <2>2, <2>3, <2>4
<1>6. Rising(t, 0, nextID)
  BY <1>1, <1>4, EndRises
<1>7. Len(t) = Len(s) - m /\ \A i \in 1 .. Len(s) - m : t[i] = s[i + m]
  <2>1. PICK k \in 1 .. Len(s) + 1 : k = m + 1
    BY <1>4
  <2>2. t = SubSeq(s, k, Len(s))
    BY <2>1
  <2> HIDE DEF s, t
  <2>3. /\ Len(t) = Len(s) - k + 1
        /\ \A i \in 1 .. Len(s) - k + 1 : t[i] = s[i + k - 1]
    BY <1>2, <2>2, EndIs
  <2>4. Len(s) - k + 1 = Len(s) - m /\ \A i \in 1 .. Len(s) - m : i + k - 1 = i + m
    BY <1>2, <1>4, <2>1
  <2> QED
    BY <2>3, <2>4
<1> HIDE DEF t
<1>8. \A i \in 1 .. Len(t) : i + m \in 1 .. Len(s) /\ i + m > m /\ t[i] = s[i + m]
  BY <1>2, <1>4, <1>7
<1>9. \A i \in 1 .. Len(t) : cursor < t[i]
  <2> SUFFICES ASSUME NEW i \in 1 .. Len(t) PROVE cursor < t[i]
    OBVIOUS
  <2>1. i + m \in 1 .. Len(s) /\ ~ (i + m <= m) /\ t[i] = s[i + m]
    BY <1>4, <1>8
  <2>2. ~ (s[i + m] <= cursor) /\ s[i + m] \in Nat
    BY <1>2, <1>5, <2>1
  <2> QED
    BY <2>1, <2>2
<1>10. Rising(t, cursor, nextID)
  BY <1>6, <1>9 DEF Rising
<1>11. ASSUME NEW i \in 1 .. Len(s), cursor < s[i] PROVE \E n \in 1 .. Len(t) : t[n] = s[i]
  <2>1. s[i] \in Nat
    BY <1>2
  <2>2. i > m
    BY <1>4, <1>5, <1>11, <2>1
  <2>3. i - m \in 1 .. Len(t) /\ (i - m) + m = i
    BY <1>2, <1>4, <1>7, <2>2
  <2> QED
    BY <1>8, <2>3
<1> QED
  BY <1>10, <1>11 DEF Since, t, m


\* The board has more ids, and on no channel more of the old ones.
Grows ==
    /\ nextID' \in Nat /\ nextID <= nextID'
    /\ \A ch \in Channels : \A i \in 1 .. Len(Kept(ch)') :
          nextID < Kept(ch)'[i] \/ \E k \in 1 .. Len(Kept(ch)) : Kept(ch)[k] = Kept(ch)'[i]

LEMMA StillGrows == BoardOK /\ UNCHANGED board => BoardOK' /\ Grows
  BY DEF BoardOK, board, Grows, Kept

\* A post keeps the channels rising and bounded; dropping some keeps the others.
LEMMA PostGrows ==
    ASSUME BoardOK, NEW ch \in Channels, Posted(ch)
    PROVE  BoardOK' /\ Grows
<1> DEFINE s == Append(Kept(ch), nextID + 1)
           t == Newest(s)
<1>1. Rising(Kept(ch), 0, nextID) /\ Len(Kept(ch)) \in 0 .. History /\ nextID \in Nat /\ nextID' = nextID + 1
  BY KeptIs DEF BoardOK, Posted
<1>2. /\ s \in Seq(Nat) /\ Len(s) = Len(Kept(ch)) + 1
      /\ \A i \in 1 .. Len(Kept(ch)) : s[i] = Kept(ch)[i]
  BY <1>1 DEF Rising
<1>3. s[Len(s)] = nextID + 1
  BY <1>1 DEF Rising
<1> HIDE DEF s
<1>a. PICK k \in 0 .. History : k = Len(Kept(ch))
  BY <1>1
<1>b. k \in Nat /\ Len(s) = k + 1 /\ k <= History /\ History \in Nat \ {0}
  BY <1>2, <1>a, ChatAssumption
<1>4. Rising(s, 0, nextID + 1)
  <2>1. \A i \in 1 .. Len(s) : i = Len(s) \/ i \in 1 .. Len(Kept(ch))
    BY <1>a, <1>b
  <2>2. \A i \in 1 .. Len(Kept(ch)) : s[i] \in Nat /\ s[i] <= nextID /\ 0 < s[i]
    BY <1>1, <1>2 DEF Rising
  <2>3. \A i \in 1 .. Len(s) : 0 < s[i] /\ s[i] <= nextID + 1
    BY <1>1, <1>3, <2>1, <2>2
  <2>4. ASSUME NEW i \in 1 .. Len(s), NEW j \in 1 .. Len(s), i < j PROVE s[i] < s[j]
    <3>1. i \in 1 .. Len(Kept(ch))
      BY <1>a, <1>b, <2>4
    <3>2. CASE j = Len(s)
      BY <1>1, <1>3, <2>2, <3>1, <3>2
    <3>3. CASE j # Len(s)
      BY <1>1, <1>2, <2>1, <2>4, <3>1, <3>3 DEF Rising
    <3> QED
      BY <3>2, <3>3
  <2> QED
    BY <1>2, <2>3, <2>4 DEF Rising
<1>5. /\ Rising(t, 0, nextID + 1) /\ Len(t) \in 1 .. History
      /\ \A i \in 1 .. Len(t) : t[i] = nextID + 1 \/ \E o \in 1 .. Len(Kept(ch)) : Kept(ch)[o] = t[i]
  <2>0. \A i \in 1 .. Len(s) : s[i] = nextID + 1 \/ \E o \in 1 .. Len(Kept(ch)) : Kept(ch)[o] = s[i]
    <3>1. \A i \in 1 .. Len(s) : i = Len(s) \/ i \in 1 .. Len(Kept(ch))
      BY <1>a, <1>b
    <3> QED
      BY <1>2, <1>3, <3>1
  <2>1. CASE Len(s) > History
    <3>1. PICK m \in 1 .. Len(s) + 1 : m = 2 /\ m = Len(s) - History + 1 /\ Len(s) = History + 1
      BY <1>b, <2>1
    <3>2. t = SubSeq(s, m, Len(s))
      BY <2>1, <3>1 DEF Newest
    <3> HIDE DEF t
    <3>3. Rising(t, 0, nextID + 1)
      BY <1>1, <1>4, <3>2, EndRises
    <3>4. /\ Len(t) = Len(s) - m + 1
          /\ \A i \in 1 .. Len(s) - m + 1 : t[i] = s[i + m - 1]
      BY <1>2, <3>2, EndIs
    <3>5. ASSUME NEW i \in 1 .. Len(t) PROVE i + m - 1 \in 1 .. Len(s) /\ t[i] = s[i + m - 1]
      <4>1. i \in 1 .. Len(s) - m + 1 /\ Len(s) \in Nat
        BY <1>2, <3>4
      <4>2. i + m - 1 \in 1 .. Len(s)
        BY <4>1, EndPlace
      <4> QED
        BY <3>4, <4>1, <4>2
    <3>6. Len(t) \in 1 .. History
      <4>1. PICK l \in Nat : l = Len(s)
        BY <1>2
      <4>2. Len(t) = l - m + 1 /\ l = History + 1 /\ m = 2
        BY <3>1, <3>4, <4>1
      <4> QED
        BY <4>2, ChatAssumption
    <3> QED
      BY <2>0, <3>3, <3>5, <3>6
  <2>2. CASE ~ (Len(s) > History)
    <3>1. t = s
      BY <2>2 DEF Newest
    <3>2. Len(s) \in 1 .. History
      BY <1>b, <2>2
    <3> QED
      BY <1>4, <2>0, <3>1, <3>2
  <2> QED
    BY <2>1, <2>2
<1>6. /\ DOMAIN channels' = DOMAIN channels \union {ch} /\ channels'[ch] = t
      /\ \A c \in DOMAIN channels : c # ch => channels'[c] = channels[c]
  BY DEF Posted, Put, s
<1> HIDE DEF t
<1>7. \A q : Rising(q, 0, nextID) => Rising(q, 0, nextID + 1)
  BY <1>1 DEF Rising
<1>8. BoardOK'
  BY <1>1, <1>5, <1>6, <1>7 DEF BoardOK
<1>9. Kept(ch)' = t /\ \A c : c # ch => Kept(c)' = Kept(c)
  BY <1>6 DEF Kept
<1>10. Grows
  <2> SUFFICES ASSUME NEW c \in Channels, NEW i \in 1 .. Len(Kept(c)')
               PROVE  nextID < Kept(c)'[i] \/ \E o \in 1 .. Len(Kept(c)) : Kept(c)[o] = Kept(c)'[i]
    BY <1>1 DEF Grows
  <2>1. CASE c = ch
    BY <1>1, <1>5, <1>9, <2>1
  <2>2. CASE c # ch
    BY <1>9, <2>2
  <2> QED
    BY <2>1, <2>2
<1> QED
  BY <1>8, <1>10

LEMMA DropGrows ==
    ASSUME BoardOK, NEW S, Dropped(S), UNCHANGED nextID
    PROVE  BoardOK' /\ Grows
<1>1. /\ DOMAIN channels' = DOMAIN channels \ S
      /\ \A ch \in DOMAIN channels' : channels'[ch] = channels[ch]
  BY DEF Dropped, Restrict
<1>2. BoardOK'
  BY <1>1 DEF BoardOK
<1>3. \A ch : Kept(ch)' = Kept(ch) \/ Kept(ch)' = <<>>
  BY <1>1 DEF Kept
<1>4. \A ch \in Channels : \A i \in 1 .. Len(Kept(ch)') :
        \E k \in 1 .. Len(Kept(ch)) : Kept(ch)[k] = Kept(ch)'[i]
  BY <1>3
<1> QED
  BY <1>2, <1>4 DEF Grows, BoardOK

\* A step in which no client and no poll takes part.
LEMMA QuietKeeps ==
    ASSUME BoardOK, BoardOK', ClientsOK, PollsOK, Grows, UNCHANGED <<clients, life>>,
           working' = [h \in 1 .. AtOnce |-> working'[h]],
           \A h \in 1 .. AtOnce :
              working'[h] = working[h] \/ (~ IsPoll(working'[h]) /\ JobOK(working'[h]))
    PROVE  ClientsOK' /\ PollsOK'
<1>1. ASSUME NEW c \in Clients, NEW ch \in Channels, HeardOK(c, ch) PROVE HeardOK(c, ch)'
  <2>1. c.cursor[ch] \in Nat /\ nextID \in Nat
    BY DEF Clients, BoardOK
  <2>2. ASSUME c.opened = life, NEW i \in 1 .. Len(Kept(ch)'), Kept(ch)'[i] <= c.cursor[ch]
        PROVE  \E k \in 1 .. Len(c.heard[ch]) : c.heard[ch][k] = Said(life, Kept(ch)'[i])
    <3>1. c.cursor[ch] <= nextID
      BY <1>1, <2>2 DEF HeardOK, Hears
    <3>3. \/ nextID < Kept(ch)'[i]
          \/ \E k \in 1 .. Len(Kept(ch)) : Kept(ch)[k] = Kept(ch)'[i]
      BY <2>2 DEF Grows
    <3>4. CASE nextID < Kept(ch)'[i]
      <4>1. Kept(ch)'[i] \in Nat
        <5>1. \A q, high : Rising(q, 0, high) => \A n \in 1 .. Len(q) : q[n] \in Nat
          BY DEF Rising
        <5>2. Rising(Kept(ch)', 0, nextID')
          BY KeptIsNext
        <5> QED
          BY <5>1, <5>2
      <4> QED
        BY <2>1, <2>2, <3>1, <3>4, <4>1
    <3>5. CASE \E k \in 1 .. Len(Kept(ch)) : Kept(ch)[k] = Kept(ch)'[i]
      BY <1>1, <2>2, <3>5 DEF HeardOK, Hears
    <3> QED
      BY <3>3, <3>4, <3>5
  <2>3. c.opened = life => c.cursor[ch] <= nextID'
    BY <1>1, <2>1 DEF HeardOK, Hears, Grows
  <2> QED
    BY <1>1, <2>2, <2>3 DEF HeardOK, Hears
<1>2. ClientsOK'
  BY <1>1 DEF ClientsOK
<1>3. ASSUME NEW j, NEW ch \in Channels, j.who \in Players, ReplyOK(j, ch)
      PROVE  ReplyOK(j, ch)'
  <2> DEFINE new == j.heard[ch]
             cursor == clients[j.who].cursor[ch]
  <2>1. cursor \in Nat /\ nextID \in Nat /\ nextID' \in Nat /\ nextID <= nextID'
    BY <1>3 DEF ClientsOK, Clients, BoardOK, Grows
  <2>2. Rising(new, cursor, nextID) /\ cursor' = cursor
    BY <1>3 DEF ReplyOK
  <2> HIDE DEF new, cursor
  <2>3. Rising(new, cursor, nextID')
    BY <2>1, <2>2 DEF Rising
  <2>4. ASSUME NEW i \in 1 .. Len(Kept(ch)'), NEW k \in 1 .. Len(new),
               cursor < Kept(ch)'[i], Kept(ch)'[i] <= new[k]
        PROVE  \E n \in 1 .. Len(new) : new[n] = Kept(ch)'[i]
    <3>1. new[k] \in Nat /\ new[k] <= nextID
      BY <2>2 DEF Rising
    <3>2. Kept(ch)'[i] \in Nat
      BY KeptIsNext DEF Rising
    <3>3. ~ (nextID < Kept(ch)'[i])
      BY <2>1, <2>4, <3>1, <3>2
    <3>4. PICK m \in 1 .. Len(Kept(ch)) : Kept(ch)[m] = Kept(ch)'[i]
      BY <3>3 DEF Grows
    <3> QED
      BY <1>3, <2>4, <3>4 DEF ReplyOK, NoneMissed, new, cursor
  <2> QED
    BY <2>2, <2>3, <2>4 DEF ReplyOK, NoneMissed, new, cursor
<1>4. ASSUME NEW h \in 1 .. AtOnce, working'[h].do \in {"room", "reply"}, NEW ch \in DOMAIN working'[h].heard
      PROVE  ReplyOK(working[h], ch)' /\ working'[h] = working[h]
  <2>1. working'[h] = working[h] /\ JobOK(working[h])
    BY <1>4 DEF IsPoll, PollsOK
  <2>2. working[h].who \in Players /\ ch \in Channels
    BY <1>4, <2>1 DEF JobOK, IsPoll
  <2>3. ReplyOK(working[h], ch)
    BY <1>4, <2>1 DEF PollsOK
  <2> HIDE DEF PollsOK
  <2>4. PICK j : j = working[h]
    OBVIOUS
  <2>5. ReplyOK(j, ch)'
    BY <1>3, <2>2, <2>3, <2>4
  <2> QED
    BY <2>1, <2>4, <2>5
<1>5. PollsOK'
  BY <1>4 DEF PollsOK
<1> QED
  BY <1>2, <1>5


\* Where a cursor goes.
LEMMA CursorAfterIs ==
    ASSUME NEW was \in Nat, NEW high \in Nat, NEW new, Rising(new, was, high)
    PROVE  /\ CursorAfter(was, new) \in Nat /\ was <= CursorAfter(was, new)
           /\ \A k \in 1 .. Len(new) : new[k] \in Nat /\ was < new[k] /\ new[k] <= CursorAfter(was, new)
           /\ new # <<>> => Len(new) \in 1 .. Len(new) /\ CursorAfter(was, new) = new[Len(new)]
           /\ new = <<>> => CursorAfter(was, new) = was
           /\ was <= high => CursorAfter(was, new) <= high
<1>1. new \in Seq(Nat) /\ Len(new) \in Nat /\ \A k \in 1 .. Len(new) : new[k] \in Nat /\ was < new[k] /\ new[k] <= high
  BY DEF Rising
<1>2. CASE new = <<>>
  BY <1>1, <1>2 DEF CursorAfter
<1>3. CASE new # <<>>
  <2>1. Len(new) \in 1 .. Len(new) /\ CursorAfter(was, new) = new[Len(new)]
    BY <1>1, <1>3 DEF CursorAfter
  <2>2. ASSUME NEW k \in 1 .. Len(new) PROVE new[k] <= new[Len(new)]
    <3>1. k = Len(new) \/ k < Len(new)
      BY <1>1
    <3>2. k < Len(new) => new[k] < new[Len(new)]
      BY <2>1 DEF Rising
    <3> QED
      BY <1>1, <2>1, <3>1, <3>2
  <2> QED
    BY <1>1, <1>3, <2>1, <2>2
<1> QED
  BY <1>2, <1>3

\* What is shown stays in order when what is newer than the cursor comes after it.
LEMMA MoreInOrder ==
    ASSUME NEW now \in Nat, NEW was \in Nat, NEW high \in Nat,
           NEW old, InOrder(old, was, now), NEW new, Rising(new, was, high),
           NEW more, AllSaid(more, new, now)
    PROVE  /\ InOrder(old \o more, CursorAfter(was, new), now)
           /\ \A k \in 1 .. Len(old) : k \in 1 .. Len(old \o more) /\ (old \o more)[k] = old[k]
           /\ \A k \in 1 .. Len(new) : \E l \in 1 .. Len(old \o more) : (old \o more)[l] = Said(now, new[k])
<1> DEFINE all == old \o more
           is == CursorAfter(was, new)
<1>1. old \in Seq(Heard) /\ Len(old) \in Nat
  BY DEF InOrder
<1>2. new \in Seq(Nat) /\ Len(new) \in Nat /\ DOMAIN new = 1 .. Len(new)
  BY DEF Rising
<1>3. more \in Seq(Heard) /\ Len(more) = Len(new) /\ \A k \in 1 .. Len(new) : more[k] = Said(now, new[k])
  BY DEF AllSaid
<1>4. all \in Seq(Heard) /\ Len(all) = Len(old) + Len(new)
  BY <1>1, <1>3
<1>5. ASSUME NEW k \in 1 .. Len(old) PROVE k \in 1 .. Len(all) /\ all[k] = old[k]
  BY <1>1, <1>2, <1>3, <1>4
<1>6. ASSUME NEW k \in 1 .. Len(new)
      PROVE  Len(old) + k \in 1 .. Len(all) /\ all[Len(old) + k] = Said(now, new[k])
  <2>1. Len(old) + k \in 1 .. Len(all) /\ all[Len(old) + k] = more[k]
    BY <1>1, <1>2, <1>3, <1>4
  <2> QED
    BY <1>3, <2>1
<1> HIDE DEF all
<1>7. ASSUME NEW l \in 1 .. Len(all)
      PROVE  l \in 1 .. Len(old) \/ \E k \in 1 .. Len(new) : l = Len(old) + k
  <2>1. l \in 1 .. Len(old) \/ (l - Len(old) \in 1 .. Len(new) /\ l = Len(old) + (l - Len(old)))
    BY <1>1, <1>2, <1>3, <1>4
  <2> QED
    BY <2>1
<1>8. /\ is \in Nat /\ was <= is
      /\ \A k \in 1 .. Len(new) : new[k] \in Nat /\ was < new[k] /\ new[k] <= is
  BY CursorAfterIs
<1> HIDE DEF is
<1>9. \A k \in 1 .. Len(old) :
        old[k][1] \in Nat /\ old[k][2] \in Nat /\ old[k][1] <= now /\ (old[k][1] = now => old[k][2] <= was)
  <2>1. \A k \in 1 .. Len(old) : old[k] \in Heard
    BY <1>1
  <2>2. \A e \in Heard : e[1] \in Nat /\ e[2] \in Nat
    BY DEF Heard
  <2> QED
    BY <2>1, <2>2 DEF InOrder
<1>10. \A k \in 1 .. Len(new) : Said(now, new[k])[1] = now /\ Said(now, new[k])[2] = new[k]
  BY DEF Said
<1>11. ASSUME NEW i \in 1 .. Len(all), NEW j \in 1 .. Len(all), i < j
       PROVE  Earlier(all[i], all[j])
  <2>1. CASE j \in 1 .. Len(old)
    <3>1. i \in 1 .. Len(old)
      BY <1>1, <1>11, <2>1
    <3>2. Earlier(old[i], old[j])
      BY <1>11, <2>1, <3>1 DEF InOrder
    <3> QED
      BY <1>5, <2>1, <3>1, <3>2
  <2>2. ASSUME NEW k \in 1 .. Len(new), j = Len(old) + k, i \in 1 .. Len(old)
        PROVE  Earlier(all[i], all[j])
    <3>1. old[i][1] < now \/ (old[i][1] = now /\ old[i][2] < new[k])
      BY <1>8, <1>9, <2>2
    <3>2. Earlier(old[i], Said(now, new[k]))
      BY <1>10, <3>1 DEF Earlier
    <3> QED
      BY <1>5, <1>6, <2>2, <3>2
  <2>3. ASSUME NEW k \in 1 .. Len(new), j = Len(old) + k, NEW l \in 1 .. Len(new), i = Len(old) + l
        PROVE  Earlier(all[i], all[j])
    <3>1. l < k
      BY <1>1, <1>11, <2>3
    <3>2. new[l] < new[k]
      BY <3>1 DEF Rising
    <3>3. Earlier(Said(now, new[l]), Said(now, new[k]))
      BY <1>10, <3>2 DEF Earlier
    <3> QED
      BY <1>6, <2>3, <3>3
  <2> QED
    BY <1>7, <2>1, <2>2, <2>3
<1>12. ASSUME NEW i \in 1 .. Len(all)
       PROVE  all[i][1] <= now /\ (all[i][1] = now => all[i][2] <= is)
  <2>1. CASE i \in 1 .. Len(old)
    <3>1. all[i] = old[i]
      BY <1>5, <2>1
    <3> QED
      BY <1>8, <1>9, <2>1, <3>1
  <2>2. ASSUME NEW k \in 1 .. Len(new), i = Len(old) + k
        PROVE  all[i][1] <= now /\ (all[i][1] = now => all[i][2] <= is)
    <3>1. all[i][1] = now /\ all[i][2] = new[k]
      BY <1>6, <1>10, <2>2
    <3> QED
      BY <1>8, <3>1
  <2> QED
    BY <1>7, <2>1, <2>2
<1>13. InOrder(all, is, now)
  BY <1>4, <1>11, <1>12 DEF InOrder
<1> QED
  BY <1>5, <1>6, <1>13 DEF all, is

\* What an app shows of a channel once a reply came in.
LEMMA HearMore ==
    ASSUME BoardOK, life \in Nat, NEW ch, NEW opened, NEW was \in Nat, NEW old, Hears(opened, was, old, ch),
           NEW new, Rising(new, was, nextID), NoneMissed(new, was, ch),
           NEW more, AllSaid(more, new, life)
    PROVE  /\ Hears(opened, CursorAfter(was, new), old \o more, ch)
           /\ CursorAfter(was, new) \in Nat /\ old \o more \in Seq(Heard)
<1>1. nextID \in Nat /\ InOrder(old, was, life)
  BY DEF BoardOK, Hears
<1>2. /\ InOrder(old \o more, CursorAfter(was, new), life)
      /\ \A k \in 1 .. Len(old) : k \in 1 .. Len(old \o more) /\ (old \o more)[k] = old[k]
      /\ \A k \in 1 .. Len(new) : \E l \in 1 .. Len(old \o more) : (old \o more)[l] = Said(life, new[k])
  BY <1>1, MoreInOrder
<1>3. PICK all : all = old \o more
  OBVIOUS
<1>4. /\ CursorAfter(was, new) \in Nat
      /\ new # <<>> => Len(new) \in 1 .. Len(new) /\ CursorAfter(was, new) = new[Len(new)]
      /\ new = <<>> => CursorAfter(was, new) = was
      /\ was <= nextID => CursorAfter(was, new) <= nextID
  BY <1>1, CursorAfterIs
<1>5. ASSUME opened = life, NEW i \in 1 .. Len(Kept(ch)), Kept(ch)[i] <= CursorAfter(was, new)
      PROVE  \E l \in 1 .. Len(all) : all[l] = Said(life, Kept(ch)[i])
  <2>1. Kept(ch)[i] \in Nat
    BY KeptIs DEF Rising
  <2>2. CASE Kept(ch)[i] <= was
    <3>1. PICK k \in 1 .. Len(old) : old[k] = Said(life, Kept(ch)[i])
      BY <1>5, <2>2 DEF Hears
    <3> QED
      BY <1>2, <1>3, <3>1
  <2>3. CASE was < Kept(ch)[i]
    <3>1. new # <<>>
      BY <1>4, <1>5, <2>1, <2>3
    <3>2. Len(new) \in 1 .. Len(new) /\ Kept(ch)[i] <= new[Len(new)]
      BY <1>4, <1>5, <3>1
    <3>3. PICK m \in 1 .. Len(new) : new[m] = Kept(ch)[i]
      BY <2>3, <3>2 DEF NoneMissed
    <3> QED
      BY <1>2, <1>3, <3>3
  <2> QED
    BY <2>1, <2>2, <2>3
<1>6. Hears(opened, CursorAfter(was, new), old \o more, ch)
  BY <1>2, <1>3, <1>4, <1>5 DEF Hears
<1>7. old \o more \in Seq(Heard)
  BY <1>2 DEF InOrder
<1> QED
  BY <1>4, <1>6, <1>7

LEMMA TwoFields ==
    ASSUME NEW f \in [Players -> Clients], NEW p \in Players, NEW x, NEW y
    PROVE  [f EXCEPT ![p].cursor = x, ![p].heard = y] =
           [f EXCEPT ![p] = [opened |-> f[p].opened, cursor |-> x, heard |-> y]]
<1> DEFINE c == f[p]
           n == [opened |-> c.opened, cursor |-> x, heard |-> y]
<1>1. c = [opened |-> c.opened, cursor |-> c.cursor, heard |-> c.heard]
  BY DEF Clients
<1>2. [[c EXCEPT !.cursor = x] EXCEPT !.heard = y] = n
  <2>1. [c EXCEPT !.cursor = x] = [opened |-> c.opened, cursor |-> x, heard |-> c.heard]
    BY <1>1
  <2> DEFINE d == [c EXCEPT !.cursor = x]
  <2>2. \A r : r = [opened |-> c.opened, cursor |-> x, heard |-> c.heard] => [r EXCEPT !.heard = y] = n
    OBVIOUS
  <2> QED
    BY <2>1, <2>2
<1>3. [f EXCEPT ![p].cursor = x, ![p].heard = y] = [f EXCEPT ![p] = [[c EXCEPT !.cursor = x] EXCEPT !.heard = y]]
  OBVIOUS
<1> QED
  BY <1>2, <1>3

LEMMA DeliverKeeps ==
    ASSUME BoardOK, ClientsOK, PollsOK, NEW h \in 1 .. AtOnce, Deliver(h)
    PROVE  ClientsOK' /\ PollsOK'
<1> DEFINE j == working[h]
           p == j.who
           c == clients[p]
           D == DOMAIN j.heard
           cursor == Over([ch \in D |-> CursorAfter(c.cursor[ch], j.heard[ch])], c.cursor)
           heard == Over([ch \in D |->
                      c.heard[ch] \o [i \in DOMAIN j.heard[ch] |-> Said(life, j.heard[ch][i])]], c.heard)
           n == [opened |-> c.opened, cursor |-> cursor, heard |-> heard]
<1>1. j.do = "reply" /\ UNCHANGED <<board, life>> /\ working' = [working EXCEPT ![h] = Idle]
  BY DEF Deliver, Work
<1>2. JobOK(j) /\ p \in Players /\ D \subseteq Channels /\ \A ch \in D : ReplyOK(j, ch)
  BY <1>1 DEF PollsOK, JobOK, IsPoll
<1>3. c \in Clients /\ life \in Nat
  BY <1>2 DEF ClientsOK
<1>4. clients' = [clients EXCEPT ![p] = n]
  <2>1. clients' = [clients EXCEPT ![p].cursor = cursor, ![p].heard = heard]
    BY DEF Deliver, Said
  <2>2. clients \in [Players -> Clients]
    BY DEF ClientsOK
  <2>3. \A x, y : [clients EXCEPT ![p].cursor = x, ![p].heard = y]
                  = [clients EXCEPT ![p] = [opened |-> c.opened, cursor |-> x, heard |-> y]]
    BY <1>2, <2>2, TwoFields
  <2> HIDE DEF cursor, heard, p, c
  <2> QED
    BY <2>1, <2>3
<1>5. /\ n.opened = c.opened /\ n.cursor = cursor /\ n.heard = heard
  OBVIOUS
<1>6. /\ DOMAIN cursor = Channels /\ DOMAIN heard = Channels
      /\ \A ch \in D :
            /\ n.cursor[ch] = CursorAfter(c.cursor[ch], j.heard[ch])
            /\ n.heard[ch] = c.heard[ch] \o [i \in DOMAIN j.heard[ch] |-> Said(life, j.heard[ch][i])]
      /\ \A ch \in Channels \ D : n.cursor[ch] = c.cursor[ch] /\ n.heard[ch] = c.heard[ch]
  BY <1>2, <1>3 DEF Over, Clients
<1>7. cursor = [ch \in Channels |-> cursor[ch]] /\ heard = [ch \in Channels |-> heard[ch]]
  BY <1>6 DEF Over
<1> HIDE DEF n, cursor, heard
<1>8. ASSUME NEW ch \in Channels
      PROVE  HeardOK(n, ch) /\ n.cursor[ch] \in Nat /\ n.heard[ch] \in Seq(Heard)
  <2>1. c.cursor[ch] \in Nat /\ c.heard[ch] \in Seq(Heard)
    BY <1>3 DEF Clients
  <2>2. Hears(c.opened, c.cursor[ch], c.heard[ch], ch)
    BY <1>2 DEF ClientsOK, HeardOK
  <2>3. CASE ch \in D
    <3>1. PICK new, more : new = j.heard[ch] /\ more = [i \in DOMAIN new |-> Said(life, new[i])]
      OBVIOUS
    <3>2. Rising(new, c.cursor[ch], nextID) /\ NoneMissed(new, c.cursor[ch], ch)
      BY <1>2, <2>3, <3>1 DEF ReplyOK
    <3>3. n.cursor[ch] = CursorAfter(c.cursor[ch], new) /\ n.heard[ch] = c.heard[ch] \o more
      BY <1>6, <2>3, <3>1
    <3>4. AllSaid(more, new, life)
      <4>1. new \in Seq(Nat) /\ DOMAIN new = 1 .. Len(new)
        BY <3>2 DEF Rising
      <4>2. \A k \in 1 .. Len(new) : Said(life, new[k]) \in Heard
        BY <1>3, <4>1 DEF Heard, Said
      <4> QED
        BY <3>1, <4>1, <4>2 DEF AllSaid
    <3> HIDE DEF c, j, D, p
    <3> QED
      BY <1>3, <1>5, <2>1, <2>2, <3>2, <3>3, <3>4, HearMore DEF HeardOK
  <2>4. CASE ch \notin D
    <3>1. n.cursor[ch] = c.cursor[ch] /\ n.heard[ch] = c.heard[ch]
      BY <1>6, <2>4
    <3> HIDE DEF c, j, D, p
    <3> QED
      BY <1>5, <2>1, <2>2, <3>1 DEF HeardOK
  <2> QED
    BY <2>3, <2>4
<1>9. n \in Clients
  <2>1. cursor \in [Channels -> Nat] /\ heard \in [Channels -> Seq(Heard)]
    BY <1>5, <1>7, <1>8
  <2>2. c.opened \in Nat
    BY <1>3 DEF Clients
  <2> QED
    BY <2>1, <2>2 DEF n, Clients
<1> HIDE DEF c, j, p
<1>10. \A d, ch : HeardOK(d, ch)' = HeardOK(d, ch)
  BY <1>1 DEF HeardOK, Hears, Kept, board
<1>11. ClientsOK'
  <2>1. clients' \in [Players -> Clients] /\ life' \in Nat
    BY <1>1, <1>3, <1>4, <1>9 DEF ClientsOK
  <2>2. ASSUME NEW q \in Players
        PROVE  clients'[q].opened <= life /\ \A ch \in Channels : HeardOK(clients'[q], ch)
    <3>1. CASE q = p
      <4>1. clients'[q] = n /\ c.opened <= life
        BY <1>2, <1>4, <3>1 DEF ClientsOK, c
      <4> QED
        BY <1>5, <1>8, <4>1
    <3>2. CASE q # p
      BY <1>4, <3>2 DEF ClientsOK
    <3> QED
      BY <3>1, <3>2
  <2>3. \A q \in Players : \A ch \in Channels : HeardOK(clients[q], ch)' = HeardOK(clients'[q], ch)
    BY <1>1 DEF HeardOK, Hears, Kept, board
  <2> QED
    BY <1>1, <2>1, <2>2, <2>3 DEF ClientsOK
<1>12. PollsOK'
  <2>1. working'[h] = Idle /\ \A g \in 1 .. AtOnce : g # h => working'[g] = working[g]
    BY <1>1 DEF PollsOK
  <2>2. ~ IsPoll(Idle) /\ JobOK(Idle) /\ Idle.do = "nothing"
    BY DEF IsPoll, JobOK, Idle
  <2>3. ASSUME NEW g \in 1 .. AtOnce, g # h, working[g].do \in {"room", "reply"}, NEW ch \in DOMAIN working[g].heard
        PROVE  ReplyOK(working[g], ch)'
    <3>1. ReplyOK(working[g], ch) /\ IsPoll(working[g]) /\ working[g].who # p
      BY <1>1, <2>3 DEF PollsOK, IsPoll, p, j
    <3>2. working'[g] = working[g] /\ clients'[working[g].who] = clients[working[g].who]
      BY <1>2, <1>4, <2>1, <2>3, <3>1 DEF ClientsOK
    <3> QED
      BY <1>1, <3>1, <3>2 DEF ReplyOK, NoneMissed, Kept, board
  <2>4. working' = [g \in 1 .. AtOnce |-> working'[g]] /\ \A g \in 1 .. AtOnce : JobOK(working'[g])
    BY <1>1, <2>1, <2>2 DEF PollsOK
  <2>5. \A g \in 1 .. AtOnce : working'[g].do \in {"room", "reply"} =>
          \A ch \in DOMAIN working'[g].heard : ReplyOK(working[g], ch)'
    BY <2>1, <2>2, <2>3
  <2>6. \A f, g \in 1 .. AtOnce :
          IsPoll(working'[f]) /\ IsPoll(working'[g]) /\ working'[f].who = working'[g].who => f = g
    BY <2>1, <2>2 DEF PollsOK
  <2> QED
    BY <2>4, <2>5, <2>6 DEF PollsOK
<1> QED
  BY <1>11, <1>12


\* A step of a poll up to its reply.
LEMMA PollKeeps ==
    ASSUME BoardOK, ClientsOK, PollsOK, UNCHANGED <<board, clients, life>>,
           NEW h \in 1 .. AtOnce, NEW job, working' = [working EXCEPT ![h] = job], JobOK(job),
           IsPoll(job) => \/ IsPoll(working[h]) /\ job.who = working[h].who
                          \/ \A g \in 1 .. AtOnce : ~ (IsPoll(working[g]) /\ working[g].who = job.who),
           job.do \in {"room", "reply"} => \A ch \in DOMAIN job.heard : ReplyOK(job, ch)
    PROVE  BoardOK' /\ ClientsOK' /\ PollsOK'
<1>1. BoardOK' /\ UNCHANGED <<channels, nextID>>
  BY StillGrows DEF board
<1>2. \A d, ch : HeardOK(d, ch)' = HeardOK(d, ch)
  BY <1>1 DEF HeardOK, Hears, Kept
<1>3. ClientsOK'
  BY <1>1, <1>2 DEF ClientsOK, HeardOK, Hears, Kept
<1>4. working'[h] = job /\ \A g \in 1 .. AtOnce : g # h => working'[g] = working[g]
  BY DEF PollsOK
<1>5. \A j, ch : ReplyOK(j, ch)' = ReplyOK(j, ch)
  BY <1>1 DEF ReplyOK, NoneMissed, Kept
<1>6. working' = [g \in 1 .. AtOnce |-> working'[g]] /\ \A g \in 1 .. AtOnce : JobOK(working'[g])
  BY <1>4 DEF PollsOK
<1>7. ASSUME NEW g \in 1 .. AtOnce, working'[g].do \in {"room", "reply"}, NEW ch \in DOMAIN working'[g].heard
      PROVE  ReplyOK(working[g], ch)'
  <2>1. ReplyOK(working'[g], ch)
    BY <1>4, <1>7 DEF PollsOK
  <2>2. ReplyOK(working[g], ch)' = ReplyOK(working'[g], ch)
    BY <1>1 DEF ReplyOK, NoneMissed, Kept
  <2> QED
    BY <2>1, <2>2
<1>8. \A f, g \in 1 .. AtOnce :
        IsPoll(working'[f]) /\ IsPoll(working'[g]) /\ working'[f].who = working'[g].who => f = g
  BY <1>4 DEF PollsOK
<1> QED
  BY <1>1, <1>3, <1>6, <1>7, <1>8 DEF PollsOK

LEMMA SyncKeeps ==
    ASSUME BoardOK, ClientsOK, PollsOK, NEW h \in 1 .. AtOnce, sync(h)
    PROVE  BoardOK' /\ ClientsOK' /\ PollsOK'
<1> USE DEF Work
<1>a. JobOK(Idle) /\ ~ IsPoll(Idle) /\ Idle.do = "nothing"
  BY DEF JobOK, IsPoll, Idle
<1>b. JobOK(working[h])
  BY DEF PollsOK
<1>1. ASSUME NEW p \in Players, NEW ch \in Channels, Poll(h, p, ch)
      PROVE  BoardOK' /\ ClientsOK' /\ PollsOK'
  <2> DEFINE job == [do |-> "lobby", who |-> p, room |-> ch]
  <2>1. job.do = "lobby" /\ job.who = p /\ JobOK(job) /\ IsPoll(job)
    BY DEF JobOK, IsPoll
  <2>2. \A g \in 1 .. AtOnce : ~ (IsPoll(working[g]) /\ working[g].who = p)
    BY <1>1 DEF Poll, Polling, IsPoll
  <2>3. working' = [working EXCEPT ![h] = job] /\ UNCHANGED <<board, clients, life>>
    BY <1>1 DEF Poll, Start
  <2> HIDE DEF job
  <2> QED
    BY <2>1, <2>2, <2>3, PollKeeps
<1>2. CASE ReadLobby(h)
  <2> DEFINE j == working[h]
             cursor == clients[j.who].cursor[Lobby]
             heard == [ch \in {Lobby} |-> Since(Lobby, cursor)]
             room == [do |-> "room", who |-> j.who, room |-> j.room, heard |-> heard]
             reply == Reply(j.who, heard)
  <2>1. j.do = "lobby" /\ UNCHANGED <<board, clients, life>>
    BY <1>2 DEF ReadLobby
  <2>2. IsPoll(j) /\ j.who \in Players /\ j.room \in Channels /\ Lobby \in Channels
    BY <1>b, <2>1 DEF JobOK, IsPoll, Channels
  <2>3. cursor \in Nat
    BY <2>2 DEF ClientsOK, Clients
  <2>4. Rising(heard[Lobby], cursor, nextID) /\ NoneMissed(heard[Lobby], cursor, Lobby)
    BY <2>3, SinceIs DEF NoneMissed
  <2>5. DOMAIN heard = {Lobby}
    OBVIOUS
  <2> HIDE DEF heard
  <2>6. /\ room.do = "room" /\ room.who = j.who /\ room.room = j.room /\ room.heard = heard
        /\ reply.do = "reply" /\ reply.who = j.who /\ reply.heard = heard
    BY DEF Reply
  <2>7. working' = [working EXCEPT ![h] = room] \/ working' = [working EXCEPT ![h] = reply]
    BY <1>2 DEF ReadLobby, heard
  <2> HIDE DEF room, reply
  <2>8. JobOK(room) /\ JobOK(reply) /\ IsPoll(room) /\ IsPoll(reply)
    BY <2>2, <2>5, <2>6 DEF JobOK, IsPoll
  <2>9. ReplyOK(room, Lobby) /\ ReplyOK(reply, Lobby)
    BY <2>4, <2>6 DEF ReplyOK
  <2> QED
    BY <2>1, <2>2, <2>5, <2>6, <2>7, <2>8, <2>9, PollKeeps
<1>3. CASE ReadRoom(h)
  <2> DEFINE j == working[h]
             cursor == clients[j.who].cursor[j.room]
             new == Since(j.room, cursor)
             reply == Reply(j.who, Put(j.heard, j.room, new))
  <2>1. j.do = "room" /\ UNCHANGED <<board, clients, life>> /\ working' = [working EXCEPT ![h] = reply]
    BY <1>3 DEF ReadRoom
  <2>2. /\ IsPoll(j) /\ j.who \in Players /\ j.room \in Channels /\ DOMAIN j.heard \subseteq Channels
        /\ \A ch \in DOMAIN j.heard : ReplyOK(j, ch)
    BY <1>b, <2>1 DEF JobOK, IsPoll, PollsOK
  <2>3. cursor \in Nat
    BY <2>2 DEF ClientsOK, Clients
  <2>4. Rising(new, cursor, nextID) /\ NoneMissed(new, cursor, j.room)
    BY <2>3, SinceIs DEF NoneMissed
  <2> HIDE DEF new
  <2>5. reply.do = "reply" /\ reply.who = j.who /\ reply.heard = Put(j.heard, j.room, new)
    BY DEF Reply
  <2> HIDE DEF reply
  <2>6. /\ DOMAIN reply.heard = DOMAIN j.heard \union {j.room} /\ reply.heard[j.room] = new
        /\ \A ch \in DOMAIN j.heard : ch # j.room => reply.heard[ch] = j.heard[ch]
    BY <2>5 DEF Put
  <2>7. JobOK(reply) /\ IsPoll(reply)
    BY <2>2, <2>5, <2>6 DEF JobOK, IsPoll
  <2>8. \A ch \in DOMAIN reply.heard : ReplyOK(reply, ch)
    BY <2>2, <2>4, <2>5, <2>6 DEF ReplyOK
  <2> QED
    BY <2>1, <2>2, <2>5, <2>7, <2>8, PollKeeps
<1>4. CASE Deliver(h)
  BY <1>4, DeliverKeeps, StillGrows DEF Deliver
<1>5. CASE LoseReply(h)
  BY <1>5, <1>a, PollKeeps DEF LoseReply
<1> QED
  BY <1>1, <1>2, <1>3, <1>4, <1>5 DEF sync

\* Somebody who starts their app again, with no poll out.
LEMMA OpenKeeps ==
    ASSUME BoardOK, ClientsOK, PollsOK, NEW p \in Players, OpenApp(p)
    PROVE  BoardOK' /\ ClientsOK' /\ PollsOK'
<1>1. BoardOK' /\ UNCHANGED <<channels, nextID, working, life>> /\ clients' = [clients EXCEPT ![p] = NewClient]
  BY StillGrows DEF OpenApp, board
<1>2. life \in Nat /\ nextID \in Nat
  BY DEF ClientsOK, BoardOK
<1>3. NewClient \in Clients
  <2>1. <<>> \in Seq(Heard)
    OBVIOUS
  <2> QED
    BY <1>2, <2>1 DEF NewClient, Clients
<1>4. ASSUME NEW ch \in Channels PROVE HeardOK(NewClient, ch) /\ NewClient.opened = life
  <2>1. NewClient.opened = life /\ NewClient.cursor[ch] = 0 /\ NewClient.heard[ch] = <<>>
    BY DEF NewClient
  <2>2. InOrder(<<>>, 0, life)
    BY DEF InOrder
  <2>3. \A i \in 1 .. Len(Kept(ch)) : Kept(ch)[i] \in Nat /\ 0 < Kept(ch)[i]
    BY KeptIs DEF Rising
  <2>4. Hears(life, 0, <<>>, ch)
    BY <1>2, <2>2, <2>3 DEF Hears
  <2> QED
    BY <2>1, <2>4 DEF HeardOK
<1>5. NewClient.opened = life
  BY DEF NewClient
<1>6. ASSUME NEW q \in Players
      PROVE  clients'[q] \in Clients /\ clients'[q].opened <= life /\ \A ch \in Channels : HeardOK(clients'[q], ch)
  BY <1>1, <1>2, <1>3, <1>4, <1>5 DEF ClientsOK
<1>7. \A q \in Players, ch \in Channels : HeardOK(clients[q], ch)' = HeardOK(clients'[q], ch)
  BY <1>1 DEF HeardOK, Hears, Kept
<1>8. ClientsOK'
  BY <1>1, <1>6, <1>7 DEF ClientsOK
<1>9. ASSUME NEW h \in 1 .. AtOnce, working[h].do \in {"room", "reply"}, NEW ch \in DOMAIN working[h].heard
      PROVE  ReplyOK(working[h], ch)'
  <2>1. working[h].who # p
    BY <1>9 DEF OpenApp, Polling
  <2>2. clients'[working[h].who] = clients[working[h].who] /\ ReplyOK(working[h], ch)
    BY <1>1, <1>9, <2>1 DEF ClientsOK, PollsOK, JobOK, IsPoll
  <2> QED
    BY <1>1, <2>2 DEF ReplyOK, NoneMissed, Kept
<1>10. PollsOK'
  BY <1>1, <1>9 DEF PollsOK
<1> QED
  BY <1>1, <1>8, <1>10


\* Where people sit is a room the store has, whatever ends and goes.
LEMMA PlacesKeep == PlacesOK /\ ChatNext => PlacesOK'
<1> SUFFICES ASSUME PlacesOK, ChatNext PROVE PlacesOK'
  OBVIOUS
<1> USE DEF PlacesOK
<1>1. CASE UNCHANGED places
  BY <1>1 DEF places
<1>2. ASSUME NEW h \in 1 .. AtOnce, NEW p \in Players, NEW id \in RoomIds, CreateRoom(h, p, id) \/ JoinRoom(h, p, id)
      PROVE  PlacesOK'
  BY <1>2, ChatAssumption DEF CreateRoom, JoinRoom, Channels
<1>3. ASSUME NEW h \in 1 .. AtOnce, NEW p \in Players, LeaveRoom(h, p) PROVE PlacesOK'
  BY <1>3 DEF LeaveRoom, Channels
<1>4. ASSUME NEW h \in 1 .. AtOnce, NEW p \in Players, HostLeaves(h, p) PROVE PlacesOK'
  <2>1. seats[p] \in RoomIds
    BY <1>4 DEF HostLeaves, Free, Channels
  <2> QED
    BY <1>4, <2>1 DEF HostLeaves, Channels
<1>5. ASSUME NEW h \in 1 .. AtOnce, NEW id \in RoomIds, SetStatusClosed(h, id) \/ CloseRoom(h, id) PROVE PlacesOK'
  BY <1>5, ChatAssumption DEF SetStatusClosed, CloseRoom, Channels
<1>6. ASSUME NEW ending \in SUBSET RoomIds, NEW gone \in SUBSET RoomIds, Tick(ending, gone) PROVE PlacesOK'
  <2>1. /\ rooms' = Over([id \in ending |-> "ended"], Over([id \in gone |-> "gone"], rooms))
        /\ seats' = [p \in Players |-> IF seats[p] \in gone THEN Lobby ELSE seats[p]]
    BY <1>6 DEF Tick
  <2>2. rooms' = [id \in RoomIds |-> IF id \in ending THEN "ended" ELSE IF id \in gone THEN "gone" ELSE rooms[id]]
    BY <2>1 DEF Over
  <2> QED
    BY <2>1, <2>2, ChatAssumption DEF Channels
<1>7. CASE Restart
  BY <1>7 DEF Restart, Channels
<1> QED
  BY <1>1, <1>2, <1>3, <1>4, <1>5, <1>6, <1>7
  DEF ChatNext, sync, postChat, createRoom, joinRoom, leaveRoom, setStatus, closeRoom, runTimers,
      Poll, ReadLobby, ReadRoom, Deliver, LoseReply, OpenApp, PostChat, Post, Drop, TimerDrop

LEMMA ChatStarts == ChatInit => ChatInv
<1> SUFFICES ASSUME ChatInit PROVE ChatInv
  OBVIOUS
<1>1. DOMAIN channels = {} /\ nextID = 0 /\ life = 1 /\ \A ch : Kept(ch) = <<>>
  BY DEF ChatInit, Kept
<1>2. BoardOK
  BY <1>1 DEF BoardOK
<1>3. PlacesOK
  BY DEF ChatInit, PlacesOK, Channels
<1>4. NewClient \in Clients /\ NewClient.opened = life
  <2>1. <<>> \in Seq(Heard)
    OBVIOUS
  <2> QED
    BY <1>1, <2>1 DEF NewClient, Clients
<1>5. ASSUME NEW ch \in Channels PROVE HeardOK(NewClient, ch)
  <2>1. NewClient.opened = life /\ NewClient.cursor[ch] = 0 /\ NewClient.heard[ch] = <<>>
    BY DEF NewClient
  <2>2. InOrder(<<>>, 0, life)
    BY DEF InOrder
  <2> QED
    BY <1>1, <2>1, <2>2 DEF HeardOK, Hears
<1>6. ClientsOK
  BY <1>1, <1>4, <1>5 DEF ChatInit, ClientsOK
<1>7. PollsOK
  <2>1. JobOK(Idle) /\ ~ IsPoll(Idle) /\ Idle.do = "nothing"
    BY DEF JobOK, IsPoll, Idle
  <2> QED
    BY <2>1 DEF ChatInit, PollsOK
<1> QED
  BY <1>2, <1>3, <1>6, <1>7 DEF ChatInv

\* The process goes: what is shown was shown in an earlier life.
LEMMA RestartKeeps ==
    ASSUME BoardOK, ClientsOK, PollsOK, Restart
    PROVE  BoardOK' /\ ClientsOK' /\ PollsOK'
<1>1. DOMAIN channels' = {} /\ nextID' = 0 /\ life' = life + 1 /\ life \in Nat /\ UNCHANGED clients
  BY DEF Restart, ClientsOK
<1>2. BoardOK'
  BY <1>1 DEF BoardOK
<1>3. ASSUME NEW p \in Players, NEW ch \in Channels PROVE HeardOK(clients[p], ch)' /\ clients[p].opened <= life
  <2>1. /\ clients[p].opened <= life /\ clients[p].opened \in Nat
        /\ InOrder(clients[p].heard[ch], clients[p].cursor[ch], life)
    BY DEF ClientsOK, HeardOK, Hears, Clients
  <2> DEFINE heard == clients[p].heard[ch]
             cursor == clients[p].cursor[ch]
  <2>2. heard' = heard /\ cursor' = cursor /\ clients[p]' = clients[p]
    BY <1>1
  <2>3. \A k \in 1 .. Len(heard) : heard[k][1] \in Nat
    <3>1. \A k \in 1 .. Len(heard) : heard[k] \in Heard
      BY <2>1 DEF InOrder
    <3>2. \A e \in Heard : e[1] \in Nat
      BY DEF Heard
    <3> QED
      BY <3>1, <3>2
  <2> HIDE DEF heard, cursor
  <2>4. InOrder(heard, cursor, life')
    <3>1. \A k \in 1 .. Len(heard) : heard[k][1] <= life
      BY <2>1 DEF InOrder, heard
    <3>2. \A k \in 1 .. Len(heard) : heard[k][1] <= life' /\ heard[k][1] # life'
      BY <1>1, <2>3, <3>1
    <3> QED
      BY <2>1, <3>2 DEF InOrder, heard
  <2>5. clients[p].opened # life'
    BY <1>1, <2>1
  <2> QED
    BY <2>1, <2>2, <2>4, <2>5 DEF HeardOK, Hears, heard, cursor
<1>4. ClientsOK'
  <2>1. \A p \in Players : clients[p].opened \in Nat
    BY DEF ClientsOK, Clients
  <2> QED
    BY <1>1, <1>3, <2>1 DEF ClientsOK
<1>5. PollsOK'
  <2>1. JobOK(Idle) /\ ~ IsPoll(Idle) /\ Idle.do = "nothing"
    BY DEF JobOK, IsPoll, Idle
  <2> QED
    BY <2>1 DEF Restart, PollsOK
<1> QED
  BY <1>2, <1>4, <1>5

\* A handler that posts, or announces what it has done, or drops a channel; a timer.
LEMMA TalkKeeps ==
    ASSUME BoardOK, ClientsOK, PollsOK, PlacesOK, NEW h \in 1 .. AtOnce,
           postChat(h) \/ createRoom(h) \/ joinRoom(h) \/ leaveRoom(h) \/ setStatus(h) \/ closeRoom(h)
    PROVE  BoardOK' /\ ClientsOK' /\ PollsOK'
<1> USE DEF Work, Start, Tell
<1>a. /\ JobOK(Idle) /\ ~ IsPoll(Idle)
      /\ \A id : JobOK(Dropping(id)) /\ ~ IsPoll(Dropping(id))
      /\ \A chs, then : ~ IsPoll(Telling(chs, then))
      /\ \A chs \in Seq(Channels), then \in Nexts : chs # <<>> => JobOK(Telling(chs, then))
  BY DEF JobOK, IsPoll, Idle, Dropping, Telling
<1>b. JobOK(working[h])
  BY DEF PollsOK
<1>1. ASSUME NEW job, working' = [working EXCEPT ![h] = job], JobOK(job), ~ IsPoll(job),
             UNCHANGED <<clients, life>>, BoardOK', Grows
      PROVE  BoardOK' /\ ClientsOK' /\ PollsOK'
  <2>1. /\ working' = [g \in 1 .. AtOnce |-> working'[g]]
        /\ \A g \in 1 .. AtOnce : working'[g] = working[g] \/ (~ IsPoll(working'[g]) /\ JobOK(working'[g]))
    BY <1>1 DEF PollsOK
  <2> QED
    BY <1>1, <2>1, QuietKeeps
<1>2. ASSUME NEW chs \in Seq(Channels), chs # <<>>, NEW then \in Nexts,
             working' = [working EXCEPT ![h] = Telling(chs, then)], UNCHANGED <<board, clients, life>>
      PROVE  BoardOK' /\ ClientsOK' /\ PollsOK'
  BY <1>1, <1>2, <1>a, StillGrows
<1>3. ASSUME NEW p \in Players, NEW ch \in Channels, PostChat(h, p, ch)
      PROVE  BoardOK' /\ ClientsOK' /\ PollsOK'
  <2>1. <<ch>> \in Seq(Channels) /\ <<ch>> # <<>> /\ Idle \in Nexts
    BY DEF Nexts
  <2> QED
    BY <1>2, <1>3, <2>1 DEF PostChat
<1>4. ASSUME NEW p \in Players, NEW id \in RoomIds, CreateRoom(h, p, id) \/ JoinRoom(h, p, id)
      PROVE  BoardOK' /\ ClientsOK' /\ PollsOK'
  <2>1. /\ <<id, Lobby>> \in Seq(Channels) /\ <<id, Lobby>> # <<>>
        /\ <<id>> \in Seq(Channels) /\ <<id>> # <<>> /\ Idle \in Nexts
    BY DEF Nexts, Channels
  <2> QED
    BY <1>2, <1>4, <2>1 DEF CreateRoom, JoinRoom
<1>5. ASSUME NEW p \in Players, LeaveRoom(h, p) \/ HostLeaves(h, p)
      PROVE  BoardOK' /\ ClientsOK' /\ PollsOK'
  <2>1. seats[p] \in RoomIds
    BY <1>5 DEF LeaveRoom, HostLeaves, Free, PlacesOK, Channels
  <2>2. <<seats[p]>> \in Seq(Channels) /\ <<seats[p]>> # <<>> /\ Idle \in Nexts /\ Dropping(seats[p]) \in Nexts
    BY <2>1 DEF Nexts, Channels
  <2> QED
    BY <1>2, <1>5, <2>2 DEF LeaveRoom, HostLeaves
<1>6. ASSUME NEW id \in RoomIds, SetStatusClosed(h, id)
      PROVE  BoardOK' /\ ClientsOK' /\ PollsOK'
  <2>1. <<id>> \in Seq(Channels) /\ <<id>> # <<>> /\ Idle \in Nexts
    BY DEF Nexts, Channels
  <2> QED
    BY <1>2, <1>6, <2>1 DEF SetStatusClosed
<1>7. ASSUME NEW id \in RoomIds, CloseRoom(h, id)
      PROVE  BoardOK' /\ ClientsOK' /\ PollsOK'
  BY <1>1, <1>7, <1>a, StillGrows DEF CloseRoom
<1>8. CASE Post(h)
  <2> DEFINE left == working[h].channels
             then == working[h].then
  <2>1. left \in Seq(Channels) /\ left # <<>> /\ then \in Nexts
    BY <1>8, <1>b DEF Post, JobOK
  <2>2. Head(left) \in Channels /\ Tail(left) \in Seq(Channels)
    BY <2>1
  <2>3. BoardOK' /\ Grows /\ UNCHANGED <<clients, life>>
    BY <1>8, <2>2, PostGrows DEF Post
  <2>4. JobOK(then) /\ ~ IsPoll(then)
    BY <1>a, <2>1 DEF Nexts
  <2>5. \/ working' = [working EXCEPT ![h] = then]
        \/ Tail(left) # <<>> /\ working' = [working EXCEPT ![h] = Telling(Tail(left), then)]
    BY <1>8 DEF Post
  <2> HIDE DEF left, then
  <2> QED
    BY <1>1, <1>a, <2>1, <2>2, <2>3, <2>4, <2>5
<1>9. CASE Drop(h)
  <2>1. BoardOK' /\ Grows /\ UNCHANGED <<clients, life>>
    BY <1>9, DropGrows DEF Drop
  <2> QED
    BY <1>1, <1>9, <1>a, <2>1 DEF Drop
<1> QED
  BY <1>3, <1>4, <1>5, <1>6, <1>7, <1>8, <1>9 DEF postChat, createRoom, joinRoom, leaveRoom, setStatus, closeRoom

LEMMA ChatSteps == ChatInv /\ [ChatNext]_chatVars => ChatInv'
<1> SUFFICES ASSUME ChatInv, [ChatNext]_chatVars PROVE ChatInv'
  OBVIOUS
<1> USE DEF ChatInv
<1>1. ASSUME NEW h \in 1 .. AtOnce, sync(h) PROVE BoardOK' /\ ClientsOK' /\ PollsOK'
  BY <1>1, SyncKeeps
<1>2. ASSUME NEW h \in 1 .. AtOnce,
             postChat(h) \/ createRoom(h) \/ joinRoom(h) \/ leaveRoom(h) \/ setStatus(h) \/ closeRoom(h)
      PROVE  BoardOK' /\ ClientsOK' /\ PollsOK'
  BY <1>2, TalkKeeps
<1>3. ASSUME runTimers PROVE BoardOK' /\ ClientsOK' /\ PollsOK'
  <2>1. BoardOK' /\ Grows /\ UNCHANGED <<clients, working, life>>
    BY <1>3, StillGrows, DropGrows DEF runTimers, Tick, TimerDrop
  <2>2. /\ working' = [h \in 1 .. AtOnce |-> working'[h]]
        /\ \A h \in 1 .. AtOnce : working'[h] = working[h]
    BY <2>1 DEF PollsOK
  <2> QED
    BY <2>1, <2>2, QuietKeeps
<1>4. ASSUME NEW p \in Players, OpenApp(p) PROVE BoardOK' /\ ClientsOK' /\ PollsOK'
  BY <1>4, OpenKeeps
<1>5. ASSUME Restart PROVE BoardOK' /\ ClientsOK' /\ PollsOK'
  BY <1>5, RestartKeeps
<1>6. CASE UNCHANGED chatVars
  <2>1. UNCHANGED <<board, places, clients, working, life>>
    BY <1>6 DEF chatVars
  <2>2. BoardOK' /\ Grows
    BY <2>1, StillGrows
  <2>3. /\ working' = [h \in 1 .. AtOnce |-> working'[h]]
        /\ \A h \in 1 .. AtOnce : working'[h] = working[h]
    BY <2>1 DEF PollsOK
  <2>4. ClientsOK' /\ PollsOK'
    BY <2>1, <2>2, <2>3, QuietKeeps
  <2>5. PlacesOK'
    BY <2>1 DEF PlacesOK, places
  <2> QED
    BY <2>2, <2>4, <2>5
<1>7. ASSUME ChatNext PROVE ChatInv'
  <2>1. ASSUME NEW p \in Players, OpenApp(p) PROVE BoardOK' /\ ClientsOK' /\ PollsOK'
    BY <1>4, <2>1
  <2>2. ASSUME NEW h \in 1 .. AtOnce,
               \/ sync(h)
               \/ postChat(h) \/ createRoom(h) \/ joinRoom(h) \/ leaveRoom(h) \/ setStatus(h) \/ closeRoom(h)
        PROVE  BoardOK' /\ ClientsOK' /\ PollsOK'
    BY <1>1, <1>2, <2>2
  <2>3. PlacesOK'
    BY <1>7, PlacesKeep
  <2>4. BoardOK' /\ ClientsOK' /\ PollsOK'
    BY <1>7, <1>3, <1>5, <2>1, <2>2 DEF ChatNext
  <2> QED
    BY <2>3, <2>4
<1> QED
  BY <1>6, <1>7

\* The board, the rooms and seats it serves, and what polls and apps hold of it, in
\* every reachable state, with any number of requests at work.
THEOREM ChatInvariant == ChatSpec => []ChatInv
  BY ChatStarts, ChatSteps, PTL DEF ChatSpec

LEMMA ChatTypes == ChatInv => ChatTypeOK
  BY DEF ChatInv, BoardOK, PlacesOK, ChatTypeOK

\* What an app shows is in the order it was said and has everything up to its cursor
\* that the channel keeps, for any history, any requests at work, replies lost and
\* processes started again (ScreensFollowTheBoard).
THEOREM ScreensAlwaysFollow == ChatSpec => []ScreensFollowTheBoard
<1>1. ASSUME ChatInv, NEW p \in Players, NEW ch \in Channels
      PROVE  LET c == clients[p] IN
             /\ \A i, j \in DOMAIN c.heard[ch] : i < j => Earlier(c.heard[ch][i], c.heard[ch][j])
             /\ c.opened = life =>
                  \A m \in Range(Kept(ch)) : m <= c.cursor[ch] => Said(life, m) \in Range(c.heard[ch])
  <2> DEFINE heard == clients[p].heard[ch]
  <2>1. Hears(clients[p].opened, clients[p].cursor[ch], heard, ch)
    BY <1>1 DEF ChatInv, ClientsOK, HeardOK
  <2>2. heard \in Seq(Heard) /\ DOMAIN heard = 1 .. Len(heard)
    BY <2>1 DEF Hears, InOrder
  <2>3. Kept(ch) \in Seq(Nat) /\ DOMAIN Kept(ch) = 1 .. Len(Kept(ch))
    BY <1>1, KeptIs DEF ChatInv, Rising
  <2>4. \A i, j \in DOMAIN heard : i < j => Earlier(heard[i], heard[j])
    BY <2>1, <2>2 DEF Hears, InOrder
  <2>5. ASSUME clients[p].opened = life, NEW m \in Range(Kept(ch)), m <= clients[p].cursor[ch]
        PROVE  Said(life, m) \in Range(heard)
    <3>1. PICK i \in 1 .. Len(Kept(ch)) : Kept(ch)[i] = m
      BY <2>3 DEF Range
    <3>2. PICK k \in 1 .. Len(heard) : heard[k] = Said(life, m)
      BY <2>1, <2>5, <3>1 DEF Hears
    <3> QED
      BY <2>2, <3>2 DEF Range
  <2> QED
    BY <2>4, <2>5
<1>2. ChatInv => ScreensFollowTheBoard
  BY <1>1 DEF ScreensFollowTheBoard, Earlier, Said
<1> QED
  BY <1>2, ChatInvariant, PTL

--------------------------------------------------------------------------------
(* Accounts *)

AccountRows  == [password : Passphrases, weak : BOOLEAN, disabled : BOOLEAN, terms : BOOLEAN]
SessionRows  == [account : Members, opened : Passphrases, expires : Nat]
GrantRows    == [account : Members, role : {"head_admin", "admin"},
                 by : Members \union {Nobody}, revokedBy : Members \union {Nobody}]
SanctionRows == [account : Members, kind : SanctionKinds, actor : Members,
                 liftedBy : Members \union {Nobody}, until : Nat]

TablesTyped ==
    /\ clock \in Nat
    /\ DOMAIN accounts \subseteq Members /\ \A a \in DOMAIN accounts : accounts[a] \in AccountRows
    /\ DOMAIN sessions \subseteq Tokens /\ \A t \in DOMAIN sessions : sessions[t] \in SessionRows
    /\ grants \in Seq(GrantRows) /\ sanctions \in Seq(SanctionRows)
    /\ DOMAIN banners \subseteq Banners

\* A row names an account there is.
RowsRefer ==
    /\ \A t \in DOMAIN sessions : sessions[t].account \in DOMAIN accounts
    /\ \A i \in DOMAIN grants : grants[i].account \in DOMAIN accounts
    /\ \A i \in DOMAIN sanctions : sanctions[i].account \in DOMAIN accounts

LettingIn(a)       == [do |-> "let_in", who |-> a]
EndingAll(a, then) == [do |-> "end_all", who |-> a, then |-> then]

\* What a request has yet to do, when there are these accounts and sanctions.
JobTyped(c, known, rows) ==
    \/ c = Idle
    \/ c.do \in {"terms", "rehash", "open"} /\ c.who \in known /\ c.word \in Passphrases
    \/ c.do \in {"resolve", "signed_in", "disable"} /\ c.who \in known
    \/ c.do \in {"let_in", "enable"} /\ c.who \in Members
    \/ /\ c.do = "set_password" /\ c.who \in known /\ c.word \in Passphrases
       /\ c.then = EndingAll(c.who, Opening(c.who, c.word))
    \/ /\ c.do = "end_all" /\ c.who \in known
       /\ (c.then = Idle \/ \E word \in Passphrases : c.then = Opening(c.who, word))
    \/ c.do = "grant" /\ c.who \in known /\ c.target \in known
    \/ /\ c.do = "sanction" /\ c.who \in known /\ c.target \in known
       /\ c.kind \in SanctionKinds /\ c.for \in Durations
    \/ c.do = "lift" /\ c.who \in known /\ c.row \in rows /\ c.named \in Members
    \/ /\ c.do = "record" /\ c.actor \in known
       /\ \/ c.then = Idle
          \/ \E a \in known : c.then = Disabling(a)
          \/ \E a \in Members : c.then = LettingIn(a)

JobsTyped ==
    /\ DOMAIN doing = 1 .. AtOnce
    /\ \A q \in 1 .. AtOnce : JobTyped(doing[q], DOMAIN accounts, DOMAIN sanctions)

AccountsTyped == TablesTyped /\ RowsRefer /\ JobsTyped

LEMMA NoJob == Idle.do = "nothing"
  BY DEF Idle

\* The jobs a step leaves alone stay what they are: accounts and sanctions are never
\* deleted.
LEMMA JobKinds ==
    ASSUME NEW known, NEW rows
    PROVE  /\ JobTyped(Idle, known, rows)
           /\ \A a \in known, word \in Passphrases : JobTyped(Opening(a, word), known, rows)
           /\ \A a \in known : JobTyped(Disabling(a), known, rows)
           /\ \A a \in Members : JobTyped(LettingIn(a), known, rows)
<1>1. JobTyped(Idle, known, rows)
  BY DEF JobTyped
<1>2. \A a \in known, word \in Passphrases : JobTyped(Opening(a, word), known, rows)
  BY DEF JobTyped, Opening
<1>3. \A a \in known : JobTyped(Disabling(a), known, rows)
  BY DEF JobTyped, Disabling
<1>4. \A a \in Members : JobTyped(LettingIn(a), known, rows)
  BY DEF JobTyped, LettingIn
<1> QED
  BY <1>1, <1>2, <1>3, <1>4

LEMMA JobStays ==
    ASSUME DOMAIN accounts \subseteq DOMAIN accounts', DOMAIN sanctions \subseteq DOMAIN sanctions',
           NEW c, JobTyped(c, DOMAIN accounts, DOMAIN sanctions)
    PROVE  JobTyped(c, DOMAIN accounts', DOMAIN sanctions')
  BY DEF JobTyped

LEMMA JobsStay ==
    ASSUME JobsTyped, DOMAIN accounts \subseteq DOMAIN accounts', DOMAIN sanctions \subseteq DOMAIN sanctions',
           UNCHANGED doing
    PROVE  JobsTyped'
  BY JobStays DEF JobsTyped

LEMMA JobChanges ==
    ASSUME JobsTyped, DOMAIN accounts \subseteq DOMAIN accounts', DOMAIN sanctions \subseteq DOMAIN sanctions',
           NEW q \in 1 .. AtOnce, NEW job, Continue(q, job),
           JobTyped(job, DOMAIN accounts', DOMAIN sanctions')
    PROVE  JobsTyped'
  BY JobStays DEF JobsTyped, Continue

LEMMA AccountsStartTyped == AccountsInit => AccountsTyped
<1> SUFFICES ASSUME AccountsInit PROVE AccountsTyped
  OBVIOUS
<1>1. PICK weak \in BOOLEAN : accounts = [a \in {HeadAdmin} |->
          [NewAccount(FirstPassword) EXCEPT !.weak = weak, !.terms = TRUE]]
  BY DEF AccountsInit
<1>2. DOMAIN accounts = {HeadAdmin} /\ accounts[HeadAdmin] \in AccountRows
  BY <1>1, AccountsAssumption DEF NewAccount, AccountRows
<1>3. Grant(HeadAdmin, "head_admin", Nobody) \in GrantRows
  BY AccountsAssumption DEF Grant, GrantRows
<1>4. DOMAIN sessions = {} /\ DOMAIN banners = {}
  BY DEF AccountsInit
<1>5. sanctions = <<>> /\ sanctions \in Seq(SanctionRows) /\ DOMAIN sanctions = {}
  BY DEF AccountsInit
<1>6. /\ grants \in Seq(GrantRows)
      /\ \A i \in DOMAIN grants : grants[i].account = HeadAdmin
  BY <1>3 DEF AccountsInit, Grant
<1>7. TablesTyped /\ RowsRefer
  BY <1>2, <1>4, <1>5, <1>6, AccountsAssumption DEF TablesTyped, RowsRefer, AccountsInit
<1>8. JobsTyped
  BY DEF AccountsInit, JobsTyped, JobTyped
<1> QED
  BY <1>7, <1>8 DEF AccountsTyped

\* A row of an account with some of its fields written.
LEMMA AccountFields ==
    ASSUME NEW f, NEW a \in DOMAIN f, f[a] \in AccountRows, NEW x
    PROVE  /\ [f EXCEPT ![a].password = x, ![a].weak = FALSE] =
              [f EXCEPT ![a] = [password |-> x, weak |-> FALSE, disabled |-> f[a].disabled, terms |-> f[a].terms]]
           /\ [f EXCEPT ![a].terms = x] =
              [f EXCEPT ![a] = [password |-> f[a].password, weak |-> f[a].weak, disabled |-> f[a].disabled, terms |-> x]]
           /\ [f EXCEPT ![a].disabled = x] =
              [f EXCEPT ![a] = [password |-> f[a].password, weak |-> f[a].weak, disabled |-> x, terms |-> f[a].terms]]
<1> DEFINE r == f[a]
<1>1. r = [password |-> r.password, weak |-> r.weak, disabled |-> r.disabled, terms |-> r.terms]
  BY DEF AccountRows
<1>2. /\ [r EXCEPT !.terms = x] = [password |-> r.password, weak |-> r.weak, disabled |-> r.disabled, terms |-> x]
      /\ [r EXCEPT !.disabled = x] = [password |-> r.password, weak |-> r.weak, disabled |-> x, terms |-> r.terms]
      /\ [r EXCEPT !.password = x] = [password |-> x, weak |-> r.weak, disabled |-> r.disabled, terms |-> r.terms]
  BY <1>1
<1>3. [[r EXCEPT !.password = x] EXCEPT !.weak = FALSE] =
      [password |-> x, weak |-> FALSE, disabled |-> r.disabled, terms |-> r.terms]
  <2>1. [[r EXCEPT !.password = x] EXCEPT !.weak = FALSE] =
        [[password |-> x, weak |-> r.weak, disabled |-> r.disabled, terms |-> r.terms] EXCEPT !.weak = FALSE]
    BY <1>2, Zenon
  <2>2. \A s, y : s = [password |-> x, weak |-> r.weak, disabled |-> r.disabled, terms |-> r.terms] =>
          [s EXCEPT !.weak = y] = [password |-> x, weak |-> y, disabled |-> r.disabled, terms |-> r.terms]
    OBVIOUS
  <2>3. [[password |-> x, weak |-> r.weak, disabled |-> r.disabled, terms |-> r.terms] EXCEPT !.weak = FALSE] =
        [password |-> x, weak |-> FALSE, disabled |-> r.disabled, terms |-> r.terms]
    BY <2>2, Zenon
  <2> QED
    BY <2>1, <2>3
<1>4. [f EXCEPT ![a].password = x, ![a].weak = FALSE] = [f EXCEPT ![a] = [[r EXCEPT !.password = x] EXCEPT !.weak = FALSE]]
  OBVIOUS
<1> QED
  BY <1>2, <1>3, <1>4

\* What may happen to the tables while one request goes on to its next job.
LEMMA TablesStay ==
    ASSUME AccountsTyped, UNCHANGED <<accounts, sessions, grants, sanctions, banners, clock>>,
           NEW q \in 1 .. AtOnce, NEW c, Continue(q, c), JobTyped(c, DOMAIN accounts, DOMAIN sanctions)
    PROVE  AccountsTyped'
<1>1. TablesTyped' /\ RowsRefer'
  BY DEF AccountsTyped, TablesTyped, RowsRefer
<1>2. JobsTyped'
  BY JobChanges DEF AccountsTyped
<1> QED
  BY <1>1, <1>2 DEF AccountsTyped

LEMMA AccountsChange ==
    ASSUME AccountsTyped, UNCHANGED <<sessions, grants, sanctions, banners, clock>>,
           DOMAIN accounts \subseteq DOMAIN accounts', DOMAIN accounts' \subseteq Members,
           \A a \in DOMAIN accounts' : accounts'[a] \in AccountRows,
           NEW q \in 1 .. AtOnce, NEW c, Continue(q, c), JobTyped(c, DOMAIN accounts', DOMAIN sanctions)
    PROVE  AccountsTyped'
<1>1. TablesTyped' /\ RowsRefer'
  BY DEF AccountsTyped, TablesTyped, RowsRefer
<1>2. JobsTyped'
  BY JobChanges DEF AccountsTyped
<1> QED
  BY <1>1, <1>2 DEF AccountsTyped

\* A field of an account is written.
LEMMA AccountWritten ==
    ASSUME AccountsTyped, UNCHANGED <<sessions, grants, sanctions, banners, clock>>,
           NEW a \in DOMAIN accounts, NEW row \in AccountRows, accounts' = [accounts EXCEPT ![a] = row],
           NEW q \in 1 .. AtOnce, NEW c, Continue(q, c), JobTyped(c, DOMAIN accounts, DOMAIN sanctions)
    PROVE  AccountsTyped'
<1>1. /\ DOMAIN accounts' = DOMAIN accounts
      /\ \A b \in DOMAIN accounts : accounts'[b] = IF b = a THEN row ELSE accounts[b]
  OBVIOUS
<1> QED
  BY <1>1, AccountsChange DEF AccountsTyped, TablesTyped

LEMMA SessionsChange ==
    ASSUME AccountsTyped, UNCHANGED <<accounts, grants, sanctions, banners, clock>>,
           DOMAIN sessions' \subseteq Tokens,
           \A t \in DOMAIN sessions' : sessions'[t] \in SessionRows /\ sessions'[t].account \in DOMAIN accounts,
           JobsTyped'
    PROVE  AccountsTyped'
  BY DEF AccountsTyped, TablesTyped, RowsRefer

LEMMA SessionsEnd ==
    ASSUME AccountsTyped, UNCHANGED <<accounts, grants, sanctions, banners, clock>>,
           NEW S, sessions' = Without(sessions, S), JobsTyped'
    PROVE  AccountsTyped'
<1>1. /\ DOMAIN sessions' = DOMAIN sessions \ S
      /\ \A t \in DOMAIN sessions' : sessions'[t] = sessions[t]
  BY RestrictIs DEF Without
<1> QED
  BY <1>1, SessionsChange DEF AccountsTyped, TablesTyped, RowsRefer

LEMMA GrantsChange ==
    ASSUME AccountsTyped, UNCHANGED <<accounts, sessions, sanctions, banners, clock>>,
           grants' \in Seq(GrantRows), \A i \in DOMAIN grants' : grants'[i].account \in DOMAIN accounts,
           NEW q \in 1 .. AtOnce, NEW c, Continue(q, c), JobTyped(c, DOMAIN accounts, DOMAIN sanctions)
    PROVE  AccountsTyped'
<1>1. TablesTyped' /\ RowsRefer'
  BY DEF AccountsTyped, TablesTyped, RowsRefer
<1>2. JobsTyped'
  BY JobChanges DEF AccountsTyped
<1> QED
  BY <1>1, <1>2 DEF AccountsTyped

LEMMA SanctionsChange ==
    ASSUME AccountsTyped, UNCHANGED <<accounts, sessions, grants, banners, clock>>,
           sanctions' \in Seq(SanctionRows), \A i \in DOMAIN sanctions' : sanctions'[i].account \in DOMAIN accounts,
           DOMAIN sanctions \subseteq DOMAIN sanctions',
           NEW q \in 1 .. AtOnce, NEW c, Continue(q, c), JobTyped(c, DOMAIN accounts, DOMAIN sanctions')
    PROVE  AccountsTyped'
<1>1. TablesTyped' /\ RowsRefer'
  BY DEF AccountsTyped, TablesTyped, RowsRefer
<1>2. JobsTyped'
  BY JobChanges DEF AccountsTyped
<1> QED
  BY <1>1, <1>2 DEF AccountsTyped

LEMMA SigningTyped ==
    ASSUME AccountsTyped, NEW q \in 1 .. AtOnce, signUp(q) \/ signIn(q) \/ authenticated(q)
    PROVE  AccountsTyped'
<1> DEFINE c == doing[q]
<1>c. JobTyped(c, DOMAIN accounts, DOMAIN sanctions)
  BY DEF AccountsTyped, JobsTyped
<1>r. \A a \in DOMAIN accounts : a \in Members /\ accounts[a] \in AccountRows
  BY DEF AccountsTyped, TablesTyped
<1>f. \A a \in DOMAIN accounts : /\ accounts[a].password \in Passphrases
                                 /\ accounts[a].weak \in BOOLEAN /\ accounts[a].disabled \in BOOLEAN
                                 /\ accounts[a].terms \in BOOLEAN
  BY <1>r DEF AccountRows
<1>1. ASSUME NEW a \in Members, NEW word \in Passphrases, SignUp(q, a, word) PROVE AccountsTyped'
  <2> DEFINE job == [do |-> "terms", who |-> a, word |-> word]
  <2>1. NewAccount(word) \in AccountRows
    BY DEF NewAccount, AccountRows
  <2>2. /\ DOMAIN accounts' = DOMAIN accounts \union {a}
        /\ accounts'[a] = NewAccount(word)
        /\ \A b \in DOMAIN accounts : accounts'[b] = accounts[b]
    BY <1>1 DEF SignUp, Put
  <2>4. \A b \in DOMAIN accounts' : accounts'[b] \in AccountRows
    BY <1>r, <2>1, <2>2
  <2>3. JobTyped(job, DOMAIN accounts', DOMAIN sanctions) /\ Continue(q, job)
    BY <1>1, <2>2 DEF SignUp, Begin, JobTyped, Continue
  <2> HIDE DEF job
  <2> QED
    BY <1>1, <1>r, <2>2, <2>3, <2>4, AccountsChange DEF SignUp
<1>2. CASE AcceptTerms(q)
  <2> DEFINE job == Opening(c.who, c.word)
             row == [password |-> accounts[c.who].password, weak |-> accounts[c.who].weak,
                     disabled |-> accounts[c.who].disabled, terms |-> TRUE]
  <2>1. c.who \in DOMAIN accounts /\ c.word \in Passphrases
    BY <1>2, <1>c, NoJob DEF AcceptTerms, JobTyped
  <2>2. row \in AccountRows
    BY <1>f, <2>1 DEF AccountRows
  <2>3. accounts' = [accounts EXCEPT ![c.who] = row]
    BY <1>2, <1>r, <2>1, AccountFields DEF AcceptTerms
  <2>4. JobTyped(job, DOMAIN accounts, DOMAIN sanctions)
    BY <2>1 DEF JobTyped, Opening
  <2>5. Continue(q, job) /\ UNCHANGED <<sessions, grants, sanctions, banners, clock>>
    BY <1>2 DEF AcceptTerms
  <2> HIDE DEF job, row
  <2> QED
    BY <2>1, <2>2, <2>3, <2>4, <2>5, AccountWritten
<1>3. ASSUME NEW a \in Members, NEW word \in Passphrases, SignIn(q, a, word) PROVE AccountsTyped'
  <2>1. PICK job \in {[do |-> "rehash", who |-> a, word |-> word], Opening(a, word)} : Continue(q, job)
    BY <1>3 DEF SignIn, Begin, Continue
  <2>2. JobTyped(job, DOMAIN accounts, DOMAIN sanctions)
    BY <1>3 DEF SignIn, JobTyped, Opening
  <2> QED
    BY <1>3, <2>1, <2>2, TablesStay DEF SignIn, tables
<1>4. CASE Rehash(q)
  <2> DEFINE job == Opening(c.who, c.word)
             row == [password |-> c.word, weak |-> FALSE,
                     disabled |-> accounts[c.who].disabled, terms |-> accounts[c.who].terms]
  <2>1. c.who \in DOMAIN accounts /\ c.word \in Passphrases
    BY <1>4, <1>c, NoJob DEF Rehash, JobTyped
  <2>2. row \in AccountRows
    BY <1>f, <2>1 DEF AccountRows
  <2>3. accounts' = [accounts EXCEPT ![c.who] = row]
    BY <1>4, <1>r, <2>1, AccountFields DEF Rehash
  <2>4. JobTyped(job, DOMAIN accounts, DOMAIN sanctions)
    BY <2>1 DEF JobTyped, Opening
  <2>5. Continue(q, job) /\ UNCHANGED <<sessions, grants, sanctions, banners, clock>>
    BY <1>4 DEF Rehash
  <2> HIDE DEF job, row
  <2> QED
    BY <2>1, <2>2, <2>3, <2>4, <2>5, AccountWritten
<1>5. CASE StartSession(q)
  <2>1. PICK t \in Tokens : sessions' = Put(sessions, t, [account |-> c.who, opened |-> c.word,
                                                          expires |-> clock + SessionLifetime])
    BY <1>5 DEF StartSession, Fresh
  <2> DEFINE row == [account |-> c.who, opened |-> c.word, expires |-> clock + SessionLifetime]
  <2>2. c.who \in DOMAIN accounts /\ c.word \in Passphrases
    BY <1>5, <1>c, NoJob DEF StartSession, JobTyped
  <2>3. row \in SessionRows /\ row.account \in DOMAIN accounts
    BY <1>r, <2>2, AccountsAssumption DEF SessionRows, AccountsTyped, TablesTyped
  <2>4. sessions' = Put(sessions, t, row)
    BY <2>1
  <2> HIDE DEF row
  <2>5. /\ DOMAIN sessions' \subseteq Tokens
        /\ \A u \in DOMAIN sessions' : sessions'[u] = row \/ (u \in DOMAIN sessions /\ sessions'[u] = sessions[u])
    BY <2>4 DEF Put, AccountsTyped, TablesTyped
  <2>6. UNCHANGED <<accounts, grants, sanctions, banners, clock>> /\ Continue(q, Idle)
    BY <1>5 DEF StartSession, Finish
  <2>7. JobsTyped'
    BY <2>6, JobChanges DEF JobTyped, AccountsTyped
  <2> QED
    BY <2>3, <2>5, <2>6, <2>7, SessionsChange DEF AccountsTyped, TablesTyped, RowsRefer
<1>6. ASSUME NEW t \in Tokens, Arrive(q, t) PROVE AccountsTyped'
  <2>1. CASE clock > sessions[t].expires
    <3>1. sessions' = Without(sessions, {t}) /\ UNCHANGED <<accounts, grants, sanctions, banners, clock, doing>>
      BY <1>6, <2>1 DEF Arrive
    <3> QED
      BY <3>1, JobsStay, SessionsEnd DEF AccountsTyped
  <2>2. CASE ~ (clock > sessions[t].expires)
    <3> DEFINE job == [do |-> "resolve", token |-> t, who |-> sessions[t].account]
    <3>1. Continue(q, job) /\ UNCHANGED <<accounts, sessions, grants, sanctions, banners, clock>>
      BY <1>6, <2>2 DEF Arrive, Begin, Continue
    <3>2. JobTyped(job, DOMAIN accounts, DOMAIN sanctions)
      BY <1>6 DEF Arrive, JobTyped, AccountsTyped, RowsRefer
    <3> HIDE DEF job
    <3> QED
      BY <3>1, <3>2, TablesStay
  <2> QED
    BY <2>1, <2>2
<1>7. CASE Resolve(q)
  <2>1. c.who \in DOMAIN accounts
    BY <1>7, <1>c, NoJob DEF Resolve, JobTyped
  <2>2. PICK job \in {Idle, [do |-> "signed_in", who |-> c.who]} : Continue(q, job)
    BY <1>7 DEF Resolve, Finish
  <2>3. JobTyped(job, DOMAIN accounts, DOMAIN sanctions)
    BY <2>1 DEF JobTyped
  <2>4. UNCHANGED <<accounts, grants, sanctions, banners, clock>>
    BY <1>7 DEF Resolve
  <2>5. JobsTyped'
    BY <2>2, <2>3, <2>4, JobChanges DEF AccountsTyped
  <2>6. \/ UNCHANGED sessions
        \/ c.token \in DOMAIN sessions /\ sessions' = [sessions EXCEPT ![c.token].expires = clock + SessionLifetime]
    BY <1>7 DEF Resolve
  <2>7. DOMAIN sessions' = DOMAIN sessions
    BY <2>6
  <2>8. ASSUME NEW t \in DOMAIN sessions
        PROVE  sessions'[t] \in SessionRows /\ sessions'[t].account = sessions[t].account
    <3>1. sessions[t] \in SessionRows /\ clock + SessionLifetime \in Nat
      BY AccountsAssumption DEF AccountsTyped, TablesTyped
    <3>2. sessions'[t] = sessions[t] \/ sessions'[t] = [sessions[t] EXCEPT !.expires = clock + SessionLifetime]
      BY <2>6
    <3> QED
      BY <3>1, <3>2 DEF SessionRows
  <2> QED
    BY <2>4, <2>5, <2>7, <2>8, SessionsChange DEF AccountsTyped, TablesTyped, RowsRefer
<1>8. CASE Answer(q)
  <2>1. JobTyped(Idle, DOMAIN accounts, DOMAIN sanctions)
    BY DEF JobTyped
  <2> QED
    BY <1>8, <2>1, TablesStay DEF Answer, Finish, tables
<1> QED
  BY <1>1, <1>2, <1>3, <1>4, <1>5, <1>6, <1>7, <1>8 DEF signUp, signIn, authenticated

LEMMA PasswordsTyped ==
    ASSUME AccountsTyped, NEW q \in 1 .. AtOnce,
           \/ \E next \in Passphrases : ChangePassword(q, next)
           \/ SetPassword(q) \/ EndAllSessions(q) \/ Disable(q) \/ Enable(q)
    PROVE  AccountsTyped'
<1> DEFINE c == doing[q]
<1>c. JobTyped(c, DOMAIN accounts, DOMAIN sanctions)
  BY DEF AccountsTyped, JobsTyped
<1>r. \A a \in DOMAIN accounts : a \in Members /\ accounts[a] \in AccountRows
  BY DEF AccountsTyped, TablesTyped
<1>f. \A a \in DOMAIN accounts : /\ accounts[a].password \in Passphrases
                                 /\ accounts[a].weak \in BOOLEAN /\ accounts[a].disabled \in BOOLEAN
                                 /\ accounts[a].terms \in BOOLEAN
  BY <1>r DEF AccountRows
<1>1. ASSUME NEW next \in Passphrases, ChangePassword(q, next) PROVE AccountsTyped'
  <2> DEFINE job == [do |-> "set_password", who |-> c.who, word |-> next,
                     then |-> [do |-> "end_all", who |-> c.who, then |-> Opening(c.who, next)]]
  <2>1. c.who \in DOMAIN accounts
    BY <1>1, <1>c, NoJob DEF ChangePassword, Signed, JobTyped
  <2>2. JobTyped(job, DOMAIN accounts, DOMAIN sanctions)
    BY <2>1 DEF JobTyped, EndingAll
  <2>3. Continue(q, job)
    BY <1>1 DEF ChangePassword
  <2> HIDE DEF job
  <2> QED
    BY <1>1, <2>2, <2>3, TablesStay DEF ChangePassword, tables
<1>2. CASE SetPassword(q)
  <2> DEFINE row == [password |-> c.word, weak |-> FALSE,
                     disabled |-> accounts[c.who].disabled, terms |-> accounts[c.who].terms]
  <2>1. /\ c.who \in DOMAIN accounts /\ c.word \in Passphrases
        /\ c.then = EndingAll(c.who, Opening(c.who, c.word))
    BY <1>2, <1>c, NoJob DEF SetPassword, JobTyped
  <2>2. row \in AccountRows
    BY <1>f, <2>1 DEF AccountRows
  <2>3. accounts' = [accounts EXCEPT ![c.who] = row]
    BY <1>2, <1>r, <2>1, AccountFields DEF SetPassword
  <2>4. JobTyped(c.then, DOMAIN accounts, DOMAIN sanctions)
    <3>1. c.then.do = "end_all" /\ c.then.who = c.who /\ c.then.then = Opening(c.who, c.word)
      BY <2>1 DEF EndingAll
    <3> QED
      BY <2>1, <3>1 DEF JobTyped
  <2>5. Continue(q, c.then) /\ UNCHANGED <<sessions, grants, sanctions, banners, clock>>
    BY <1>2 DEF SetPassword
  <2> HIDE DEF row
  <2> QED
    BY <2>1, <2>2, <2>3, <2>4, <2>5, AccountWritten
<1>3. CASE EndAllSessions(q)
  <2> DEFINE S == {t \in DOMAIN sessions : sessions[t].account = c.who}
  <2>1. /\ sessions' = Without(sessions, S) /\ Continue(q, c.then)
        /\ UNCHANGED <<accounts, grants, sanctions, banners, clock>>
    BY <1>3 DEF EndAllSessions
  <2>2. c.who \in DOMAIN accounts /\ (c.then = Idle \/ \E word \in Passphrases : c.then = Opening(c.who, word))
    BY <1>3, <1>c, NoJob DEF EndAllSessions, JobTyped
  <2>3. JobTyped(c.then, DOMAIN accounts, DOMAIN sanctions)
    BY <2>2, JobKinds
  <2>4. JobsTyped'
    BY <2>1, <2>3, JobChanges DEF AccountsTyped
  <2> HIDE DEF S
  <2> QED
    BY <2>1, <2>4, SessionsEnd
<1>4. CASE Disable(q)
  <2> DEFINE row == [password |-> accounts[c.who].password, weak |-> accounts[c.who].weak,
                     disabled |-> TRUE, terms |-> accounts[c.who].terms]
             job == [do |-> "end_all", who |-> c.who, then |-> Idle]
  <2>1. c.who \in DOMAIN accounts
    BY <1>4, <1>c, NoJob DEF Disable, JobTyped
  <2>2. row \in AccountRows
    BY <1>f, <2>1 DEF AccountRows
  <2>3. accounts' = [accounts EXCEPT ![c.who] = row]
    BY <1>4, <1>r, <2>1, AccountFields DEF Disable
  <2>4. JobTyped(job, DOMAIN accounts, DOMAIN sanctions)
    BY <2>1 DEF JobTyped
  <2>5. Continue(q, job) /\ UNCHANGED <<sessions, grants, sanctions, banners, clock>>
    BY <1>4 DEF Disable
  <2> HIDE DEF row, job
  <2> QED
    BY <2>1, <2>2, <2>3, <2>4, <2>5, AccountWritten
<1>5. CASE Enable(q)
  <2>1. JobTyped(Idle, DOMAIN accounts, DOMAIN sanctions)
    BY DEF JobTyped
  <2>2. Continue(q, Idle) /\ UNCHANGED <<sessions, grants, sanctions, banners, clock>>
    BY <1>5 DEF Enable, Finish
  <2>3. CASE c.who \in DOMAIN accounts
    <3> DEFINE row == [password |-> accounts[c.who].password, weak |-> accounts[c.who].weak,
                       disabled |-> FALSE, terms |-> accounts[c.who].terms]
    <3>1. row \in AccountRows
      BY <1>f, <2>3 DEF AccountRows
    <3>2. accounts' = [accounts EXCEPT ![c.who] = row]
      BY <1>5, <1>r, <2>3, AccountFields DEF Enable
    <3> HIDE DEF row
    <3> QED
      BY <2>1, <2>2, <2>3, <3>1, <3>2, AccountWritten
  <2>4. CASE c.who \notin DOMAIN accounts
    BY <1>5, <2>1, <2>2, <2>4, TablesStay DEF Enable
  <2> QED
    BY <2>3, <2>4
<1> QED
  BY <1>1, <1>2, <1>3, <1>4, <1>5

\* What staff ask for, before and after a table is written.
LEMMA StaffTyped ==
    ASSUME AccountsTyped, NEW q \in 1 .. AtOnce,
           \/ \E target \in Members : Appoint(q, target)
           \/ \E target \in Members, kind \in SanctionKinds, for \in Durations : Judge(q, target, kind, for)
           \/ \E i \in DOMAIN sanctions, named \in Members : AskToLift(q, i, named)
           \/ \E target \in Members, label \in Labels :
                 LabelPlayer(q, target, label) \/ UnlabelPlayer(q, target, label)
           \/ Record(q) \/ LetIn(q)
    PROVE  AccountsTyped'
<1> DEFINE c == doing[q]
<1>c. JobTyped(c, DOMAIN accounts, DOMAIN sanctions)
  BY DEF AccountsTyped, JobsTyped
<1>r. \A a \in DOMAIN accounts : a \in Members
  BY DEF AccountsTyped, TablesTyped
<1>s. Signed(q) => c.who \in DOMAIN accounts
  BY <1>c, NoJob DEF Signed, JobTyped
<1>1. ASSUME NEW target \in Members, Appoint(q, target) PROVE AccountsTyped'
  <2> DEFINE job == [do |-> "grant", who |-> c.who, target |-> target]
  <2>1. JobTyped(job, DOMAIN accounts, DOMAIN sanctions) /\ Continue(q, job)
    BY <1>1, <1>s DEF Appoint, Acting, JobTyped
  <2> HIDE DEF job
  <2> QED
    BY <1>1, <2>1, TablesStay DEF Appoint, tables
<1>2. ASSUME NEW target \in Members, NEW kind \in SanctionKinds, NEW for \in Durations, Judge(q, target, kind, for)
      PROVE  AccountsTyped'
  <2> DEFINE job == [do |-> "sanction", who |-> c.who, target |-> target, kind |-> kind, for |-> for]
  <2>1. JobTyped(job, DOMAIN accounts, DOMAIN sanctions) /\ Continue(q, job)
    BY <1>2, <1>s DEF Judge, Acting, JobTyped
  <2> HIDE DEF job
  <2> QED
    BY <1>2, <2>1, TablesStay DEF Judge, tables
<1>3. ASSUME NEW i \in DOMAIN sanctions, NEW named \in Members, AskToLift(q, i, named)
      PROVE  AccountsTyped'
  <2> DEFINE job == [do |-> "lift", who |-> c.who, row |-> i, named |-> named]
  <2>1. JobTyped(job, DOMAIN accounts, DOMAIN sanctions) /\ Continue(q, job)
    BY <1>3, <1>s DEF AskToLift, Acting, JobTyped
  <2> HIDE DEF job
  <2> QED
    BY <1>3, <2>1, TablesStay DEF AskToLift, tables
<1>4. ASSUME NEW target \in Members, NEW label \in Labels,
             LabelPlayer(q, target, label) \/ UnlabelPlayer(q, target, label)
      PROVE  AccountsTyped'
  <2>1. PICK job \in {Recording(c.who, "label", target, Idle), Recording(c.who, "unlabel", target, Idle)} :
          Continue(q, job)
    BY <1>4 DEF LabelPlayer, UnlabelPlayer
  <2>2. c.who \in DOMAIN accounts
    BY <1>4, <1>s DEF LabelPlayer, UnlabelPlayer, Acting
  <2>3. JobTyped(job, DOMAIN accounts, DOMAIN sanctions)
    BY <2>2 DEF JobTyped, Recording
  <2>4. UNCHANGED <<accounts, sessions, grants, sanctions, banners, clock>>
    BY <1>4 DEF LabelPlayer, UnlabelPlayer
  <2> QED
    BY <2>1, <2>3, <2>4, TablesStay
<1>5. CASE Record(q)
  <2>1. /\ Continue(q, c.then)
        /\ UNCHANGED <<accounts, sessions, grants, sanctions, banners, clock>>
    BY <1>5 DEF Record
  <2>2. \/ c.then = Idle
        \/ \E a \in DOMAIN accounts : c.then = Disabling(a)
        \/ \E a \in Members : c.then = LettingIn(a)
    BY <1>5, <1>c, NoJob DEF Record, JobTyped
  <2>3. JobTyped(c.then, DOMAIN accounts, DOMAIN sanctions)
    BY <2>2, JobKinds
  <2> QED
    BY <2>1, <2>3, TablesStay
<1>6. CASE LetIn(q)
  <2>1. c.who \in Members
    BY <1>6, <1>c, NoJob DEF LetIn, JobTyped
  <2>2. PICK job \in {Idle, [do |-> "enable", who |-> c.who]} : Continue(q, job)
    BY <1>6 DEF LetIn, Finish
  <2>3. JobTyped(job, DOMAIN accounts, DOMAIN sanctions)
    BY <2>1 DEF JobTyped
  <2> QED
    BY <1>6, <2>2, <2>3, TablesStay DEF LetIn, tables
<1> QED
  BY <1>1, <1>2, <1>3, <1>4, <1>5, <1>6

\* A table of staff's is written.
LEMMA StaffWritesTyped ==
    ASSUME AccountsTyped, NEW q \in 1 .. AtOnce,
           \/ GrantAdmin(q) \/ Sanction(q) \/ Lift(q)
           \/ \E target \in Members : RevokeAdmin(q, target)
           \/ \E b \in Banners :
                 \/ RemoveBanner(q, b)
                 \/ \E active \in BOOLEAN : AddBanner(q, b, active) \/ EditBanner(q, b, active)
    PROVE  AccountsTyped'
<1> DEFINE c == doing[q]
<1>c. JobTyped(c, DOMAIN accounts, DOMAIN sanctions)
  BY DEF AccountsTyped, JobsTyped
<1>r. \A a \in DOMAIN accounts : a \in Members
  BY DEF AccountsTyped, TablesTyped
<1>s. Signed(q) => c.who \in DOMAIN accounts
  BY <1>c, NoJob DEF Signed, JobTyped
<1>g. /\ grants \in Seq(GrantRows) /\ sanctions \in Seq(SanctionRows)
      /\ \A i \in DOMAIN grants : grants[i] \in GrantRows /\ grants[i].account \in DOMAIN accounts
      /\ \A i \in DOMAIN sanctions : sanctions[i] \in SanctionRows /\ sanctions[i].account \in DOMAIN accounts
  BY DEF AccountsTyped, TablesTyped, RowsRefer
<1>1. CASE GrantAdmin(q)
  <2> DEFINE row == Grant(c.target, "admin", c.who)
             job == Recording(c.who, "grant_admin", c.target, Idle)
  <2>1. c.who \in DOMAIN accounts /\ c.target \in DOMAIN accounts
    BY <1>1, <1>c, NoJob DEF GrantAdmin, JobTyped
  <2>2. row \in GrantRows /\ row.account = c.target
    BY <1>r, <2>1 DEF Grant, GrantRows
  <2>3. JobTyped(job, DOMAIN accounts, DOMAIN sanctions)
    BY <2>1 DEF JobTyped, Recording
  <2>4. /\ grants' = Append(grants, row) /\ Continue(q, job)
        /\ UNCHANGED <<accounts, sessions, sanctions, banners, clock>>
    BY <1>1 DEF GrantAdmin
  <2> HIDE DEF row, job
  <2>5. /\ grants' \in Seq(GrantRows)
        /\ \A i \in DOMAIN grants' : grants'[i].account \in DOMAIN accounts
    BY <1>g, <2>1, <2>2, <2>4
  <2> QED
    BY <2>3, <2>4, <2>5, GrantsChange
<1>2. ASSUME NEW target \in Members, RevokeAdmin(q, target) PROVE AccountsTyped'
  <2> DEFINE job == Recording(c.who, "revoke_admin", target, Idle)
             row(i) == IF grants[i].account = target /\ grants[i].role = "admin" /\ grants[i].revokedBy = Nobody
                       THEN [grants[i] EXCEPT !.revokedBy = c.who] ELSE grants[i]
  <2>1. c.who \in DOMAIN accounts
    BY <1>2, <1>s DEF RevokeAdmin, Acting
  <2>2. JobTyped(job, DOMAIN accounts, DOMAIN sanctions)
    BY <2>1 DEF JobTyped, Recording
  <2>3. /\ grants' = [i \in DOMAIN grants |-> row(i)] /\ Continue(q, job)
        /\ UNCHANGED <<accounts, sessions, sanctions, banners, clock>>
    BY <1>2 DEF RevokeAdmin
  <2>4. \A i \in DOMAIN grants : row(i) \in GrantRows /\ row(i).account = grants[i].account
    BY <1>g, <1>r, <2>1 DEF GrantRows
  <2> HIDE DEF row, job
  <2>5. /\ grants' \in Seq(GrantRows)
        /\ \A i \in DOMAIN grants' : grants'[i].account \in DOMAIN accounts
    BY <1>g, <2>3, <2>4
  <2> QED
    BY <2>2, <2>3, <2>5, GrantsChange
<1>3. CASE Sanction(q)
  <2> DEFINE row == [account |-> c.target, kind |-> c.kind, actor |-> c.who, liftedBy |-> Nobody,
                     until |-> IF c.for > 0 THEN clock + c.for ELSE 0]
             then == IF c.kind = "ban" THEN Disabling(c.target) ELSE Idle
             job == Recording(c.who, c.kind, c.target, then)
  <2>1. /\ c.who \in DOMAIN accounts /\ c.target \in DOMAIN accounts
        /\ c.kind \in SanctionKinds /\ c.for \in Durations
    BY <1>3, <1>c, NoJob DEF Sanction, JobTyped
  <2>2. row.until \in Nat
    <3>1. c.for \in Nat /\ clock \in Nat
      BY <2>1, AccountsAssumption DEF AccountsTyped, TablesTyped
    <3> QED
      BY <3>1
  <2>3. row \in SanctionRows /\ row.account = c.target
    BY <1>r, <2>1, <2>2 DEF SanctionRows
  <2>4. /\ sanctions' = Append(sanctions, row) /\ Continue(q, job)
        /\ UNCHANGED <<accounts, sessions, grants, banners, clock>>
    BY <1>3 DEF Sanction
  <2>5. then = Idle \/ then = Disabling(c.target)
    OBVIOUS
  <2> HIDE DEF row, then
  <2>6. JobTyped(job, DOMAIN accounts, DOMAIN sanctions')
    BY <2>1, <2>5 DEF JobTyped, Recording
  <2> HIDE DEF job
  <2>7. /\ sanctions' \in Seq(SanctionRows) /\ DOMAIN sanctions \subseteq DOMAIN sanctions'
        /\ \A i \in DOMAIN sanctions' : sanctions'[i].account \in DOMAIN accounts
    BY <1>g, <2>1, <2>3, <2>4
  <2> QED
    BY <2>4, <2>6, <2>7, SanctionsChange
<1>4. CASE Lift(q)
  <2> DEFINE then == [do |-> "let_in", who |-> c.named]
             job == Recording(c.who, "lift", sanctions[c.row].account, then)
  <2>1. c.who \in DOMAIN accounts /\ c.row \in DOMAIN sanctions /\ c.named \in Members
    BY <1>4, <1>c, NoJob DEF Lift, JobTyped
  <2>2. then = LettingIn(c.named)
    BY DEF LettingIn
  <2> HIDE DEF then
  <2>3. JobTyped(job, DOMAIN accounts, DOMAIN sanctions)
    BY <2>1, <2>2 DEF JobTyped, Recording
  <2>4. /\ sanctions' = [sanctions EXCEPT ![c.row].liftedBy = c.who] /\ Continue(q, job)
        /\ UNCHANGED <<accounts, sessions, grants, banners, clock>>
    BY <1>4 DEF Lift, then
  <2> HIDE DEF job
  <2>5. PICK r : r = [sanctions[c.row] EXCEPT !.liftedBy = c.who]
    OBVIOUS
  <2>6. r \in SanctionRows /\ r.account = sanctions[c.row].account
    BY <1>g, <1>r, <2>1, <2>5 DEF SanctionRows
  <2>7. sanctions' = [sanctions EXCEPT ![c.row] = r]
    BY <2>4, <2>5
  <2>8. /\ sanctions' \in Seq(SanctionRows) /\ DOMAIN sanctions' = DOMAIN sanctions
        /\ \A i \in DOMAIN sanctions' : sanctions'[i].account \in DOMAIN accounts
    BY <1>g, <2>1, <2>6, <2>7
  <2> QED
    BY <2>3, <2>4, <2>8, SanctionsChange
<1>5. ASSUME NEW b \in Banners,
             \/ RemoveBanner(q, b)
             \/ \E active \in BOOLEAN : AddBanner(q, b, active) \/ EditBanner(q, b, active)
      PROVE  AccountsTyped'
  <2>1. PICK job \in {Recording(c.who, "banner_add", b, Idle), Recording(c.who, "banner_edit", b, Idle),
                      Recording(c.who, "banner_remove", b, Idle)} : Continue(q, job)
    BY <1>5 DEF RemoveBanner, AddBanner, EditBanner
  <2>2. c.who \in DOMAIN accounts
    BY <1>5, <1>s DEF RemoveBanner, AddBanner, EditBanner, Acting
  <2>3. JobTyped(job, DOMAIN accounts, DOMAIN sanctions)
    BY <2>2 DEF JobTyped, Recording
  <2>4. DOMAIN banners' \subseteq Banners
    BY <1>5 DEF RemoveBanner, AddBanner, EditBanner, Put, Without, Restrict, AccountsTyped, TablesTyped
  <2>5. UNCHANGED <<accounts, sessions, grants, sanctions, clock>>
    BY <1>5 DEF RemoveBanner, AddBanner, EditBanner
  <2>6. TablesTyped' /\ RowsRefer'
    BY <2>4, <2>5 DEF AccountsTyped, TablesTyped, RowsRefer
  <2>7. JobsTyped'
    BY <2>1, <2>3, <2>5, JobChanges DEF AccountsTyped
  <2> QED
    BY <2>6, <2>7 DEF AccountsTyped
<1> QED
  BY <1>1, <1>2, <1>3, <1>4, <1>5

LEMMA AccountsStepTyped == AccountsTyped /\ [AccountsNext]_accountsVars => AccountsTyped'
<1> SUFFICES ASSUME AccountsTyped, [AccountsNext]_accountsVars PROVE AccountsTyped'
  OBVIOUS
<1>1. ASSUME UNCHANGED <<accounts, sessions, grants, sanctions, banners, doing>>, clock' \in Nat PROVE AccountsTyped'
  BY <1>1 DEF AccountsTyped, TablesTyped, RowsRefer, JobsTyped
<1>2. CASE UNCHANGED accountsVars
  BY <1>1, <1>2 DEF accountsVars, tables, AccountsTyped, TablesTyped
<1>3. CASE Wait
  BY <1>1, <1>3 DEF Wait, tables, AccountsTyped, TablesTyped
<1>4. ASSUME NEW t \in Tokens, SignOut(t) PROVE AccountsTyped'
  BY <1>4, JobsStay, SessionsEnd DEF SignOut, AccountsTyped
<1>5. ASSUME NEW q \in 1 .. AtOnce,
             \/ authenticated(q) \/ signUp(q) \/ signIn(q) \/ changePassword(q)
             \/ setRole(q) \/ sanction(q) \/ liftSanction(q) \/ labelPlayer(q) \/ editBanner(q)
      PROVE  AccountsTyped'
  <2>1. StartSession(q) => signIn(q)
    BY DEF signIn
  <2> QED
    BY <1>5, <2>1, SigningTyped, PasswordsTyped, StaffTyped, StaffWritesTyped
       DEF changePassword, setRole, sanction, liftSanction, labelPlayer, editBanner
<1> QED
  BY <1>2, <1>3, <1>4, <1>5 DEF AccountsNext

LEMMA AccountsAlwaysTyped == AccountsSpec => []AccountsTyped
  BY AccountsStartTyped, AccountsStepTyped, PTL DEF AccountsSpec

LEMMA AccountsTypes == AccountsTyped => AccountsTypeOK
<1> SUFFICES ASSUME AccountsTyped PROVE AccountsTypeOK
  OBVIOUS
<1>1. \A a \in DOMAIN accounts : accounts[a].password \in Passphrases
  BY DEF AccountsTyped, TablesTyped, AccountRows
<1>2. \A i \in DOMAIN sanctions : sanctions[i].kind \in SanctionKinds
  <2>1. \A i \in DOMAIN sanctions : sanctions[i] \in SanctionRows
    BY DEF AccountsTyped, TablesTyped
  <2> QED
    BY <2>1 DEF SanctionRows
<1> QED
  BY <1>1, <1>2 DEF AccountsTyped, TablesTyped, RowsRefer, AccountsTypeOK

\* The rows that tell of one act by one person about another.
JudgedRows(actor, kind, a) == {i \in DOMAIN sanctions :
    sanctions[i].actor = actor /\ sanctions[i].kind = kind /\ sanctions[i].account = a}
LiftedRows(actor, a)  == {i \in DOMAIN sanctions : sanctions[i].liftedBy = actor /\ sanctions[i].account = a}
GrantedRows(actor, a) == {i \in DOMAIN grants : grants[i].by = actor /\ grants[i].account = a}
RevokedRows(actor, a) == {i \in DOMAIN grants : grants[i].revokedBy = actor /\ grants[i].account = a}

\* A ban nobody lifted, and the requests that will make an account follow its bans.
BanStands(a) == \E i \in DOMAIN sanctions : /\ sanctions[i].account = a /\ sanctions[i].kind = "ban"
                                           /\ sanctions[i].liftedBy = Nobody
Disables(c, a) == \/ c.do = "disable" /\ c.who = a
                  \/ c.do = "record" /\ c.then = Disabling(a)
LetsIn(c, a) == \/ c.do \in {"let_in", "enable"} /\ c.who = a
                \/ c.do = "record" /\ c.then = LettingIn(a)

\* The request at work has read what still holds.
JobFits(c) ==
    /\ c.do \in {"terms", "rehash", "open"} =>
          accounts[c.who].password = c.word /\ ~ accounts[c.who].disabled
    /\ c.do \in {"signed_in", "set_password"} => ~ accounts[c.who].disabled
    /\ c.do = "end_all" /\ c.then # Idle =>
          ~ accounts[c.who].disabled /\ c.then = Opening(c.who, accounts[c.who].password)
    /\ c.do = "enable" => ~ Banned(c.who)
    /\ \A a \in Members : Disables(c, a) => BanStands(a)
    /\ c.do = "lift" => sanctions[c.row].liftedBy = Nobody /\ c.named = sanctions[c.row].account
    /\ c.do = "grant" => ~ IsStaff(c.target)

\* Only the request that is to end an account's sessions lets them outlive its
\* password, or its being enabled.
SessionsFollow(c) ==
    \A t \in DOMAIN sessions : LET a == sessions[t].account IN
        \/ c.do = "end_all" /\ c.who = a
        \/ sessions[t].opened = accounts[a].password /\ ~ accounts[a].disabled

BansFollow(c) ==
    \A a \in DOMAIN accounts :
        /\ Banned(a) => accounts[a].disabled \/ Disables(c, a)
        /\ accounts[a].disabled => BanStands(a) \/ LetsIn(c, a)

\* The log lacks what the request at work is to write down; and nobody holds two
\* grants, so that a revocation stamps one.
Due(c, actor, action, a) ==
    IF c.do = "record" /\ c.actor = actor /\ c.action = action /\ c.subject = a THEN 1 ELSE 0

Acts == SanctionKinds \union {"lift", "grant_admin", "revoke_admin"}

InLog(actor, action, a) ==
    IF action \in SanctionKinds THEN JudgedRows(actor, action, a)
    ELSE IF action = "lift" THEN LiftedRows(actor, a)
    ELSE IF action = "grant_admin" THEN GrantedRows(actor, a)
    ELSE RevokedRows(actor, a)

Counted(c) == \A actor, a \in Members, action \in Acts :
    Cardinality(InLog(actor, action, a)) = Written(actor, action, a) + Due(c, actor, action, a)

OneGrant == \A i, j \in DOMAIN grants :
    (grants[i].account = grants[j].account /\ grants[i].revokedBy = Nobody /\ grants[j].revokedBy = Nobody) => i = j

LogOK ==
    /\ \A line \in DOMAIN audit : audit[line] \in Nat
    /\ Counted(doing[1]) /\ OneGrant

AccessOK == JobFits(doing[1]) /\ SessionsFollow(doing[1]) /\ BansFollow(doing[1])

AccountsInv == AccountsTyped /\ AccessOK /\ LogOK

LEMMA JobFields ==
    ASSUME NEW a, NEW word
    PROVE  /\ Idle.do = "nothing"
           /\ Opening(a, word).do = "open" /\ Opening(a, word).who = a /\ Opening(a, word).word = word
           /\ Disabling(a).do = "disable" /\ Disabling(a).who = a
           /\ LettingIn(a).do = "let_in" /\ LettingIn(a).who = a
  BY DEF Idle, Opening, Disabling, LettingIn

\* A request that neither bans nor lifts.
Plain(c) == /\ c.do \notin {"disable", "let_in", "enable"}
            /\ c.do = "record" => c.then = Idle

LEMMA PlainIs ==
    ASSUME NEW c, Plain(c), NEW a
    PROVE  ~ Disables(c, a) /\ ~ LetsIn(c, a)
<1>1. Idle.do = "nothing" /\ Disabling(a).do = "disable" /\ LettingIn(a).do = "let_in"
  BY JobFields
<1>2. Idle # Disabling(a) /\ Idle # LettingIn(a)
  BY <1>1
<1> QED
  BY <1>2 DEF Plain, Disables, LetsIn

\* An account is disabled while it is banned, and only while a ban on it stands.
Follows(a) == (Banned(a) => accounts[a].disabled) /\ (accounts[a].disabled => BanStands(a))

\* A plain request leaves accounts that follow their bans; so does any after it.
LEMMA PlainFollows ==
    ASSUME NEW c, Plain(c)
    PROVE  /\ BansFollow(c) <=> \A a \in DOMAIN accounts : Follows(a)
           /\ c.do # "end_all" /\ SessionsFollow(c) => \A d : SessionsFollow(d)
<1>1. BansFollow(c) <=> \A a \in DOMAIN accounts : Follows(a)
  BY PlainIs DEF BansFollow, Follows
<1>2. c.do # "end_all" /\ SessionsFollow(c) => \A d : SessionsFollow(d)
  BY DEF SessionsFollow
<1> QED
  BY <1>1, <1>2

\* What restrictions and standing are read from.
LEMMA StandsSame ==
    ASSUME UNCHANGED <<sanctions, clock>>, NEW a
    PROVE  /\ Banned(a)' <=> Banned(a)
           /\ BanStands(a)' <=> BanStands(a)
           /\ UNCHANGED grants => (IsStaff(a)' <=> IsStaff(a))
  BY DEF Banned, ActiveSanctions, Active, BanStands, IsStaff, RoleOf, Standing

\* Nothing that access depends on changes but the request, plain before and after.
LEMMA AccessSame ==
    ASSUME AccountsTyped, SessionsFollow(doing[1]), BansFollow(doing[1]),
           UNCHANGED <<sanctions, clock>>, Plain(doing[1]), doing[1].do # "end_all",
           DOMAIN accounts' = DOMAIN accounts,
           \A a \in DOMAIN accounts : /\ accounts'[a].password = accounts[a].password
                                      /\ accounts'[a].disabled = accounts[a].disabled,
           DOMAIN sessions' \subseteq DOMAIN sessions,
           \A t \in DOMAIN sessions' : /\ sessions'[t].account = sessions[t].account
                                       /\ sessions'[t].opened = sessions[t].opened
    PROVE  SessionsFollow(doing[1])' /\ BansFollow(doing[1])'
<1>1. SessionsFollow(doing[1])'
  BY DEF SessionsFollow, AccountsTyped, RowsRefer
<1>2. \A a : Banned(a)' <=> Banned(a)
  BY StandsSame
<1>3. \A a : BanStands(a)' <=> BanStands(a)
  BY StandsSame
<1>4. \A a \in DOMAIN accounts : Follows(a)
  BY PlainFollows
<1>5. BansFollow(doing[1])'
  BY <1>2, <1>3, <1>4 DEF BansFollow, Follows
<1> QED
  BY <1>1, <1>5

LEMMA ContinueIs ==
    ASSUME OneRequest, JobsTyped, NEW job, Continue(1, job)
    PROVE  doing'[1] = job
  BY DEF OneRequest, JobsTyped, Continue

\* A request that has read nothing it will go by.
Quiet(c) == \/ c.do \in {"nothing", "resolve", "sanction"}
            \/ c.do = "record" /\ c.then = Idle

LEMMA QuietFits == ASSUME NEW job, Quiet(job), doing'[1] = job PROVE JobFits(doing[1])'
<1>1. \A a : ~ Disables(job, a)
  BY PlainIs DEF Quiet, Plain
<1> QED
  BY <1>1 DEF Quiet, JobFits

\* What writing an account leaves of the others and of its own fields.
LEMMA TermsWritten ==
    ASSUME NEW f, NEW a \in DOMAIN f, f[a] \in AccountRows, NEW x, NEW g, g = [f EXCEPT ![a].terms = x]
    PROVE  /\ DOMAIN g = DOMAIN f
           /\ \A b \in DOMAIN f : b # a => g[b] = f[b]
           /\ g[a].password = f[a].password /\ g[a].disabled = f[a].disabled
<1> DEFINE row == [password |-> f[a].password, weak |-> f[a].weak, disabled |-> f[a].disabled, terms |-> x]
<1>1. row.password = f[a].password /\ row.disabled = f[a].disabled
  OBVIOUS
<1>2. [f EXCEPT ![a].terms = x] = [f EXCEPT ![a] = row]
  BY AccountFields
<1> HIDE DEF row
<1> QED
  BY <1>1, <1>2

LEMMA DisabledWritten ==
    ASSUME AccountsTyped, NEW a \in DOMAIN accounts, NEW x,
           accounts' = [accounts EXCEPT ![a].disabled = x]
    PROVE  /\ DOMAIN accounts' = DOMAIN accounts
           /\ \A b \in DOMAIN accounts : b # a => accounts'[b] = accounts[b]
           /\ accounts'[a].password = accounts[a].password /\ accounts'[a].disabled = x
<1> DEFINE row == [password |-> accounts[a].password, weak |-> accounts[a].weak, disabled |-> x, terms |-> accounts[a].terms]
<1>1. row.password = accounts[a].password /\ row.disabled = x
  OBVIOUS
<1>2. accounts[a] \in AccountRows
  BY DEF AccountsTyped, TablesTyped
<1>3. accounts' = [accounts EXCEPT ![a] = row]
  BY <1>2, AccountFields
<1> HIDE DEF row
<1> QED
  BY <1>1, <1>3

LEMMA PasswordWritten ==
    ASSUME AccountsTyped, NEW a \in DOMAIN accounts, NEW x,
           accounts' = [accounts EXCEPT ![a].password = x, ![a].weak = FALSE]
    PROVE  /\ DOMAIN accounts' = DOMAIN accounts
           /\ \A b \in DOMAIN accounts : b # a => accounts'[b] = accounts[b]
           /\ accounts'[a].password = x /\ accounts'[a].disabled = accounts[a].disabled
<1> DEFINE row == [password |-> x, weak |-> FALSE, disabled |-> accounts[a].disabled, terms |-> accounts[a].terms]
<1>1. row.password = x /\ row.disabled = accounts[a].disabled
  OBVIOUS
<1>2. accounts[a] \in AccountRows
  BY DEF AccountsTyped, TablesTyped
<1>3. accounts' = [accounts EXCEPT ![a] = row]
  BY <1>2, AccountFields
<1> HIDE DEF row
<1> QED
  BY <1>1, <1>3

LEMMA SigningFollows ==
    ASSUME OneRequest, AccountsTyped, AccessOK, signUp(1) \/ signIn(1) \/ authenticated(1)
    PROVE  AccessOK'
<1> DEFINE c == doing[1]
<1>c. JobTyped(c, DOMAIN accounts, DOMAIN sanctions) /\ JobsTyped /\ JobFits(c)
  BY DEF AccountsTyped, JobsTyped, OneRequest, AccessOK
<1>r. /\ \A a \in DOMAIN accounts : a \in Members /\ accounts[a] \in AccountRows
      /\ \A t \in DOMAIN sessions : sessions[t].account \in DOMAIN accounts
  BY DEF AccountsTyped, TablesTyped, RowsRefer
<1>i. Idle.do = "nothing"
  BY JobFields
<1>1. ASSUME NEW a \in Members, NEW word \in Passphrases, SignUp(1, a, word) PROVE AccessOK'
  <2> DEFINE job == [do |-> "terms", who |-> a, word |-> word]
  <2>1. c = Idle /\ doing'[1] = job /\ UNCHANGED <<sessions, sanctions, clock>> /\ a \notin DOMAIN accounts
    BY <1>1, <1>c, ContinueIs DEF SignUp, Begin, Continue
  <2>2. /\ DOMAIN accounts' = DOMAIN accounts \union {a}
        /\ accounts'[a] = NewAccount(word)
        /\ \A b \in DOMAIN accounts : accounts'[b] = accounts[b]
    BY <1>1 DEF SignUp, Put
  <2>3. NewAccount(word).password = word /\ ~ NewAccount(word).disabled
    BY DEF NewAccount
  <2>4. Plain(c) /\ Plain(doing'[1]) /\ c.do # "end_all"
    BY <1>i, <2>1 DEF Plain
  <2>5. JobFits(doing[1])'
    <3>1. \A b : ~ Disables(doing'[1], b)
      BY <2>4, PlainIs
    <3>2. job.do = "terms" /\ job.who = a /\ job.word = word
      OBVIOUS
    <3> HIDE DEF job
    <3> QED
      BY <2>1, <2>2, <2>3, <3>1, <3>2 DEF JobFits
  <2>6. SessionsFollow(doing[1])'
    BY <1>r, <2>1, <2>2, <2>4 DEF SessionsFollow, AccessOK
  <2>7. ~ Banned(a)
    BY <2>1 DEF Banned, ActiveSanctions, AccountsTyped, RowsRefer
  <2>8. \A b \in DOMAIN accounts : Follows(b)
    BY <2>4, PlainFollows DEF AccessOK
  <2>9. BansFollow(doing[1])'
    <3>1. \A b : (Banned(b)' <=> Banned(b)) /\ (BanStands(b)' <=> BanStands(b))
      BY <2>1, StandsSame
    <3> QED
      BY <2>2, <2>3, <2>7, <2>8, <3>1 DEF BansFollow, Follows
  <2> QED
    BY <2>5, <2>6, <2>9 DEF AccessOK
<1>2. CASE AcceptTerms(1) \/ Rehash(1)
  <2>1. c.who \in DOMAIN accounts /\ c.word \in Passphrases /\ c.do \in {"terms", "rehash"}
    BY <1>2, <1>c, <1>i DEF AcceptTerms, Rehash, JobTyped
  <2>2. accounts[c.who].password = c.word /\ ~ accounts[c.who].disabled
    BY <1>c, <2>1 DEF JobFits
  <2>3. /\ DOMAIN accounts' = DOMAIN accounts
        /\ \A a \in DOMAIN accounts : /\ accounts'[a].password = accounts[a].password
                                      /\ accounts'[a].disabled = accounts[a].disabled
    <3>1. CASE AcceptTerms(1)
      BY <1>r, <2>1, <3>1, TermsWritten DEF AcceptTerms
    <3>2. CASE Rehash(1)
      <4>1. accounts' = [accounts EXCEPT ![c.who].password = c.word, ![c.who].weak = FALSE]
        BY <3>2 DEF Rehash
      <4>3. /\ DOMAIN accounts' = DOMAIN accounts
            /\ \A a \in DOMAIN accounts : a # c.who => accounts'[a] = accounts[a]
            /\ accounts'[c.who].password = c.word /\ accounts'[c.who].disabled = accounts[c.who].disabled
        BY <2>1, <4>1, PasswordWritten
      <4> QED
        BY <2>2, <4>3
    <3> QED
      BY <1>2, <3>1, <3>2
  <2>4. doing'[1] = Opening(c.who, c.word) /\ UNCHANGED <<sessions, grants, sanctions, clock>>
    BY <1>2, <1>c, ContinueIs DEF AcceptTerms, Rehash
  <2>5. Plain(c) /\ Plain(doing'[1]) /\ c.do # "end_all" /\ doing'[1].do = "open"
    BY <2>1, <2>4, JobFields DEF Plain
  <2>6. SessionsFollow(doing[1])' /\ BansFollow(doing[1])'
    BY <2>3, <2>4, <2>5, AccessSame DEF AccessOK
  <2>7. JobFits(doing[1])'
    <3>1. \A b : ~ Disables(doing'[1], b)
      BY <2>5, PlainIs
    <3>2. doing'[1].do = "open" /\ doing'[1].who = c.who /\ doing'[1].word = c.word
      BY <2>4, JobFields
    <3> QED
      BY <2>1, <2>2, <2>3, <3>1, <3>2 DEF JobFits
  <2> QED
    BY <2>6, <2>7 DEF AccessOK
<1>3. ASSUME NEW a \in Members, NEW word \in Passphrases, SignIn(1, a, word) PROVE AccessOK'
  <2>1. PICK job \in {[do |-> "rehash", who |-> a, word |-> word], Opening(a, word)} : Continue(1, job)
    BY <1>3 DEF SignIn, Begin, Continue
  <2>2. doing'[1] = job /\ job.do \in {"rehash", "open"} /\ job.who = a /\ job.word = word
    BY <1>c, <2>1, ContinueIs, JobFields
  <2>3. /\ c.do = "nothing" /\ a \in DOMAIN accounts /\ accounts[a].password = word /\ ~ accounts[a].disabled
        /\ UNCHANGED <<accounts, sessions, grants, sanctions, clock>>
    BY <1>3, <1>i DEF SignIn, Begin, tables
  <2>4. Plain(c) /\ Plain(doing'[1]) /\ c.do # "end_all"
    BY <2>2, <2>3 DEF Plain
  <2>5. SessionsFollow(doing[1])' /\ BansFollow(doing[1])'
    BY <2>3, <2>4, AccessSame DEF AccessOK
  <2>6. JobFits(doing[1])'
    <3>1. \A b : ~ Disables(doing'[1], b)
      BY <2>4, PlainIs
    <3> QED
      BY <2>2, <2>3, <3>1 DEF JobFits
  <2> QED
    BY <2>5, <2>6 DEF AccessOK
<1>4. CASE StartSession(1)
  <2>1. PICK t \in Tokens : sessions' = Put(sessions, t, [account |-> c.who, opened |-> c.word,
                                                          expires |-> clock + SessionLifetime])
    BY <1>4 DEF StartSession, Fresh
  <2> DEFINE row == [account |-> c.who, opened |-> c.word, expires |-> clock + SessionLifetime]
  <2>2. c.do = "open" /\ accounts[c.who].password = c.word /\ ~ accounts[c.who].disabled
    BY <1>4, <1>c DEF StartSession, JobFits
  <2>3. row.account = c.who /\ row.opened = c.word /\ sessions' = Put(sessions, t, row)
    BY <2>1
  <2> HIDE DEF row
  <2>5. \A u \in DOMAIN sessions' : sessions'[u] = row \/ (u \in DOMAIN sessions /\ sessions'[u] = sessions[u])
    BY <2>3 DEF Put
  <2>6. UNCHANGED <<accounts, grants, sanctions, clock>> /\ doing'[1] = Idle
    BY <1>4, <1>c, ContinueIs DEF StartSession, Finish
  <2>7. Plain(c) /\ c.do # "end_all"
    BY <2>2 DEF Plain
  <2>8. SessionsFollow(doing[1])'
    BY <2>2, <2>3, <2>5, <2>6, <2>7 DEF SessionsFollow, AccessOK
  <2>9. JobFits(doing[1])'
    BY <1>i, <2>6, QuietFits DEF Quiet
  <2>10. BansFollow(doing[1])'
    <3>1. \A b : (Banned(b)' <=> Banned(b)) /\ (BanStands(b)' <=> BanStands(b))
      BY <2>6, StandsSame
    <3>2. \A b \in DOMAIN accounts : Follows(b)
      BY <2>7, PlainFollows DEF AccessOK
    <3> QED
      BY <2>6, <3>1, <3>2 DEF BansFollow, Follows
  <2> QED
    BY <2>8, <2>9, <2>10 DEF AccessOK
<1>5. CASE (\E t \in Tokens : Arrive(1, t)) \/ Resolve(1) \/ Answer(1)
  <2>1. /\ UNCHANGED <<accounts, grants, sanctions, clock>>
        /\ c.do \in {"nothing", "resolve", "signed_in"}
    BY <1>5, <1>i DEF Arrive, Begin, Resolve, Answer, Signed, tables
  <2>2. /\ DOMAIN sessions' \subseteq DOMAIN sessions
        /\ \A t \in DOMAIN sessions' : /\ sessions'[t].account = sessions[t].account
                                       /\ sessions'[t].opened = sessions[t].opened
    <3>1. CASE \E t \in Tokens : Arrive(1, t)
      BY <3>1, RestrictIs DEF Arrive, Without
    <3>2. CASE Resolve(1)
      <4>1. \/ UNCHANGED sessions
            \/ c.token \in DOMAIN sessions /\ sessions' = [sessions EXCEPT ![c.token].expires = clock + SessionLifetime]
        BY <3>2 DEF Resolve
      <4>2. \A t \in DOMAIN sessions : sessions[t] \in SessionRows
        BY DEF AccountsTyped, TablesTyped
      <4>3. \A t \in DOMAIN sessions : /\ [sessions[t] EXCEPT !.expires = clock + SessionLifetime].account = sessions[t].account
                                       /\ [sessions[t] EXCEPT !.expires = clock + SessionLifetime].opened = sessions[t].opened
        BY <4>2 DEF SessionRows
      <4> QED
        BY <4>1, <4>3
    <3>3. CASE Answer(1)
      BY <3>3 DEF Answer, tables
    <3> QED
      BY <1>5, <3>1, <3>2, <3>3
  <2>3. Plain(c) /\ c.do # "end_all"
    BY <2>1 DEF Plain
  <2>4. SessionsFollow(doing[1])' /\ BansFollow(doing[1])'
    BY <2>1, <2>2, <2>3, AccessSame DEF AccessOK
  <2>5. JobFits(doing[1])'
    <3>1. \/ doing'[1].do \in {"nothing", "resolve"}
          \/ doing'[1].do = "signed_in" /\ ~ accounts[doing'[1].who].disabled
      <4>1. CASE \E t \in Tokens : Arrive(1, t)
        <5>1. PICK t \in Tokens : Arrive(1, t)
          BY <4>1
        <5>2. CASE clock > sessions[t].expires
          BY <1>i, <5>1, <5>2 DEF Arrive
        <5>3. CASE ~ (clock > sessions[t].expires)
          BY <1>c, <5>1, <5>3, ContinueIs DEF Arrive, Begin, Continue
        <5> QED
          BY <5>2, <5>3
      <4>2. CASE Resolve(1)
        <5>1. CASE accounts[c.who].disabled
          BY <1>c, <1>i, <4>2, <5>1, ContinueIs DEF Resolve, Finish
        <5>2. CASE ~ accounts[c.who].disabled
          BY <1>c, <4>2, <5>2, ContinueIs DEF Resolve
        <5> QED
          BY <5>1, <5>2
      <4>3. CASE Answer(1)
        BY <1>c, <1>i, <4>3, ContinueIs DEF Answer, Finish
      <4> QED
        BY <1>5, <4>1, <4>2, <4>3
    <3>2. Plain(doing'[1])
      BY <3>1 DEF Plain
    <3> QED
      BY <2>1, <3>1, <3>2, PlainIs DEF JobFits
  <2> QED
    BY <2>4, <2>5 DEF AccessOK
<1> QED
  BY <1>1, <1>2, <1>3, <1>4, <1>5 DEF signUp, signIn, authenticated

LEMMA PasswordsFollow ==
    ASSUME OneRequest, AccountsTyped, AccessOK,
           \/ \E next \in Passphrases : ChangePassword(1, next)
           \/ SetPassword(1) \/ EndAllSessions(1) \/ Disable(1) \/ Enable(1)
    PROVE  AccessOK'
<1> DEFINE c == doing[1]
<1>c. JobTyped(c, DOMAIN accounts, DOMAIN sanctions) /\ JobsTyped /\ JobFits(c) /\ SessionsFollow(c) /\ BansFollow(c)
  BY DEF AccountsTyped, JobsTyped, OneRequest, AccessOK
<1>r. /\ \A a \in DOMAIN accounts : a \in Members /\ accounts[a] \in AccountRows
      /\ \A t \in DOMAIN sessions : sessions[t].account \in DOMAIN accounts
  BY DEF AccountsTyped, TablesTyped, RowsRefer
<1>i. Idle.do = "nothing"
  BY JobFields
<1>1. ASSUME NEW next \in Passphrases, ChangePassword(1, next) PROVE AccessOK'
  <2> DEFINE job == [do |-> "set_password", who |-> c.who, word |-> next,
                     then |-> [do |-> "end_all", who |-> c.who, then |-> Opening(c.who, next)]]
  <2>1. c.do = "signed_in" /\ ~ accounts[c.who].disabled
    BY <1>1, <1>c DEF ChangePassword, Signed, JobFits
  <2>2. doing'[1] = job /\ job.do = "set_password" /\ job.who = c.who
    BY <1>1, <1>c, ContinueIs DEF ChangePassword
  <2> HIDE DEF job
  <2>3. UNCHANGED <<accounts, sessions, grants, sanctions, clock>>
    BY <1>1 DEF ChangePassword, tables
  <2>4. Plain(c) /\ Plain(job) /\ c.do # "end_all"
    BY <2>1, <2>2 DEF Plain
  <2>5. SessionsFollow(doing[1])' /\ BansFollow(doing[1])'
    BY <2>2, <2>3, <2>4, AccessSame DEF AccessOK
  <2>6. JobFits(doing[1])'
    BY <2>1, <2>2, <2>3, <2>4, PlainIs DEF JobFits
  <2> QED
    BY <2>5, <2>6 DEF AccessOK
<1>2. CASE SetPassword(1)
  <2>1. /\ c.who \in DOMAIN accounts /\ c.word \in Passphrases /\ c.do = "set_password"
        /\ c.then = EndingAll(c.who, Opening(c.who, c.word))
    BY <1>2, <1>c, <1>i DEF SetPassword, JobTyped
  <2>2. /\ accounts' = [accounts EXCEPT ![c.who].password = c.word, ![c.who].weak = FALSE]
        /\ doing'[1] = c.then /\ UNCHANGED <<sessions, grants, sanctions, clock>>
    BY <1>2, <1>c, ContinueIs DEF SetPassword
  <2>3. /\ DOMAIN accounts' = DOMAIN accounts
        /\ \A a \in DOMAIN accounts : a # c.who => accounts'[a] = accounts[a]
        /\ accounts'[c.who].password = c.word /\ accounts'[c.who].disabled = accounts[c.who].disabled
    BY <2>1, <2>2, PasswordWritten
  <2>4. doing'[1].do = "end_all" /\ doing'[1].who = c.who /\ doing'[1].then = Opening(c.who, c.word)
    BY <2>1, <2>2 DEF EndingAll
  <2>5. Plain(c) /\ Plain(doing'[1]) /\ c.do # "end_all" /\ ~ accounts[c.who].disabled
    BY <1>c, <2>1, <2>4 DEF Plain, JobFits
  <2>6. SessionsFollow(doing[1])'
    BY <1>c, <1>r, <2>2, <2>3, <2>4, <2>5 DEF SessionsFollow
  <2>7. BansFollow(doing[1])'
    <3>1. \A b : (Banned(b)' <=> Banned(b)) /\ (BanStands(b)' <=> BanStands(b))
      BY <2>2, StandsSame
    <3>2. \A b \in DOMAIN accounts : Follows(b)
      BY <1>c, <2>5, PlainFollows
    <3> QED
      BY <2>3, <3>1, <3>2 DEF BansFollow, Follows
  <2>8. JobFits(doing[1])'
    <3>1. \A b : ~ Disables(doing'[1], b)
      BY <2>5, PlainIs
    <3> QED
      BY <2>3, <2>4, <2>5, <3>1 DEF JobFits
  <2> QED
    BY <2>6, <2>7, <2>8 DEF AccessOK
<1>3. CASE EndAllSessions(1)
  <2> DEFINE S == {t \in DOMAIN sessions : sessions[t].account = c.who}
  <2>1. /\ sessions' = Without(sessions, S) /\ doing'[1] = c.then /\ c.do = "end_all"
        /\ UNCHANGED <<accounts, grants, sanctions, clock>>
    BY <1>3, <1>c, ContinueIs DEF EndAllSessions
  <2>2. c.then = Idle \/ \E word \in Passphrases : c.then = Opening(c.who, word)
    BY <1>3, <1>c, <1>i DEF EndAllSessions, JobTyped
  <2>3. \A t \in DOMAIN sessions' : t \in DOMAIN sessions /\ sessions'[t] = sessions[t] /\ sessions[t].account # c.who
    BY <2>1, RestrictIs DEF Without
  <2>4. SessionsFollow(doing[1])'
    BY <1>c, <2>1, <2>3 DEF SessionsFollow
  <2>5. BansFollow(doing[1])'
    <3>1. \A b : (Banned(b)' <=> Banned(b)) /\ (BanStands(b)' <=> BanStands(b))
      BY <2>1, StandsSame
    <3>2. \A b \in DOMAIN accounts : Follows(b)
      BY <1>c, <2>1, PlainFollows DEF Plain
    <3> QED
      BY <2>1, <3>1, <3>2 DEF BansFollow, Follows
  <2>6. JobFits(doing[1])'
    <3>1. CASE c.then = Idle
      BY <1>i, <2>1, <3>1, QuietFits DEF Quiet
    <3>2. CASE c.then # Idle
      <4>1. ~ accounts[c.who].disabled /\ c.then = Opening(c.who, accounts[c.who].password)
        BY <1>c, <2>1, <3>2 DEF JobFits
      <4>2. c.then.do = "open" /\ c.then.who = c.who /\ c.then.word = accounts[c.who].password
        BY <4>1, JobFields
      <4>3. \A b : ~ Disables(c.then, b)
        BY <4>2, PlainIs DEF Plain
      <4> QED
        BY <2>1, <4>1, <4>2, <4>3 DEF JobFits
    <3> QED
      BY <3>1, <3>2
  <2> QED
    BY <2>4, <2>5, <2>6 DEF AccessOK
<1>4. CASE Disable(1)
  <2> DEFINE job == [do |-> "end_all", who |-> c.who, then |-> Idle]
  <2>1. c.who \in DOMAIN accounts /\ c.do = "disable"
    BY <1>4, <1>c, <1>i DEF Disable, JobTyped
  <2>2. /\ accounts' = [accounts EXCEPT ![c.who].disabled = TRUE]
        /\ doing'[1] = job /\ UNCHANGED <<sessions, grants, sanctions, clock>>
    BY <1>4, <1>c, ContinueIs DEF Disable
  <2>3. job.do = "end_all" /\ job.who = c.who /\ job.then = Idle
    OBVIOUS
  <2> HIDE DEF job
  <2>4. /\ DOMAIN accounts' = DOMAIN accounts
        /\ \A a \in DOMAIN accounts : a # c.who => accounts'[a] = accounts[a]
        /\ accounts'[c.who].password = accounts[c.who].password /\ accounts'[c.who].disabled = TRUE
    BY <1>r, <2>1, <2>2, DisabledWritten
  <2>5. Plain(job)
    BY <2>3 DEF Plain
  <2>6. SessionsFollow(doing[1])'
    BY <1>c, <1>r, <2>1, <2>2, <2>3, <2>4 DEF SessionsFollow
  <2>7. BansFollow(doing[1])'
    <3>1. \A b : (Banned(b)' <=> Banned(b)) /\ (BanStands(b)' <=> BanStands(b))
      BY <2>2, StandsSame
    <3>2. BanStands(c.who)
      BY <1>c, <1>r, <2>1 DEF JobFits, Disables
    <3>3. ASSUME NEW b \in DOMAIN accounts, b # c.who PROVE Follows(b)
      <4>1. c.do # "record"
        BY <2>1
      <4>2. ~ Disables(c, b) /\ ~ LetsIn(c, b)
        BY <2>1, <3>3, <4>1 DEF Disables, LetsIn
      <4> QED
        BY <1>c, <4>2 DEF BansFollow, Follows
    <3> QED
      BY <2>4, <3>1, <3>2, <3>3 DEF BansFollow, Follows
  <2>8. JobFits(doing[1])'
    <3>1. \A b : ~ Disables(job, b)
      BY <2>5, PlainIs
    <3> QED
      BY <2>2, <2>3, <3>1 DEF JobFits
  <2> QED
    BY <2>6, <2>7, <2>8 DEF AccessOK
<1>5. CASE Enable(1)
  <2>1. /\ c.do = "enable" /\ doing'[1] = Idle
        /\ UNCHANGED <<sessions, grants, sanctions, clock>>
    BY <1>5, <1>c, ContinueIs DEF Enable, Finish
  <2>2. ~ Banned(c.who)
    BY <1>c, <2>1 DEF JobFits
  <2>3. /\ DOMAIN accounts' = DOMAIN accounts
        /\ \A a \in DOMAIN accounts : a # c.who => accounts'[a] = accounts[a]
        /\ c.who \in DOMAIN accounts =>
              accounts'[c.who].password = accounts[c.who].password /\ accounts'[c.who].disabled = FALSE
    <3>1. CASE c.who \in DOMAIN accounts
      <4>1. PICK no : no = FALSE
        OBVIOUS
      <4>2. accounts' = [accounts EXCEPT ![c.who].disabled = no]
        BY <1>5, <3>1, <4>1 DEF Enable
      <4>3. accounts'[c.who].password = accounts[c.who].password /\ accounts'[c.who].disabled = no
        BY <1>r, <3>1, <4>2, DisabledWritten
      <4> QED
        BY <3>1, <4>1, <4>2, <4>3
    <3>2. CASE c.who \notin DOMAIN accounts
      BY <1>5, <3>2 DEF Enable
    <3> QED
      BY <3>1, <3>2
  <2>4. SessionsFollow(doing[1])'
    BY <1>c, <1>r, <2>1, <2>3 DEF SessionsFollow
  <2>5. BansFollow(doing[1])'
    <3>1. \A b : (Banned(b)' <=> Banned(b)) /\ (BanStands(b)' <=> BanStands(b))
      BY <2>1, StandsSame
    <3>3. ASSUME NEW b \in DOMAIN accounts, b # c.who PROVE Follows(b)
      <4>1. ~ Disables(c, b) /\ ~ LetsIn(c, b)
        BY <2>1, <3>3 DEF Disables, LetsIn
      <4> QED
        BY <1>c, <4>1 DEF BansFollow, Follows
    <3> QED
      BY <2>2, <2>3, <3>1, <3>3 DEF BansFollow, Follows
  <2>6. JobFits(doing[1])'
    BY <1>i, <2>1, QuietFits DEF Quiet
  <2> QED
    BY <2>4, <2>5, <2>6 DEF AccessOK
<1> QED
  BY <1>1, <1>2, <1>3, <1>4, <1>5

\* A sanction that bans now was lifted by nobody.
LEMMA BannedStands == ASSUME NEW a, Banned(a) PROVE BanStands(a)
  BY DEF Banned, ActiveSanctions, Active, BanStands

LEMMA StaffFollows ==
    ASSUME OneRequest, ~ StrayLifts, AccountsTyped, AccessOK,
           \/ \E target \in Members : Appoint(1, target)
           \/ \E target \in Members, kind \in SanctionKinds, for \in Durations : Judge(1, target, kind, for)
           \/ \E i \in DOMAIN sanctions, named \in Members : AskToLift(1, i, named)
           \/ \E target \in Members, label \in Labels :
                 LabelPlayer(1, target, label) \/ UnlabelPlayer(1, target, label)
           \/ Record(1) \/ LetIn(1)
    PROVE  AccessOK'
<1> DEFINE c == doing[1]
<1>c. JobTyped(c, DOMAIN accounts, DOMAIN sanctions) /\ JobsTyped /\ JobFits(c) /\ SessionsFollow(c) /\ BansFollow(c)
  BY DEF AccountsTyped, JobsTyped, OneRequest, AccessOK
<1>i. Idle.do = "nothing"
  BY JobFields
<1>a. UNCHANGED <<accounts, sessions, grants, sanctions, clock>>
  BY DEF Appoint, Judge, AskToLift, LabelPlayer, UnlabelPlayer, Record, LetIn, tables
<1>b. \A b : (Banned(b)' <=> Banned(b)) /\ (BanStands(b)' <=> BanStands(b)) /\ (IsStaff(b)' <=> IsStaff(b))
  BY <1>a, StandsSame
<1>1. ASSUME c.do = "signed_in", NEW job, doing'[1] = job, Plain(job), JobFits(doing[1])' PROVE AccessOK'
  <2>1. Plain(c)
    BY <1>1 DEF Plain
  <2> QED
    BY <1>1, <1>a, <2>1, AccessSame DEF AccessOK
<1>2. ASSUME NEW target \in Members, Appoint(1, target) PROVE AccessOK'
  <2> DEFINE job == [do |-> "grant", who |-> c.who, target |-> target]
  <2>1. c.do = "signed_in" /\ doing'[1] = job /\ ~ IsStaff(target)
    BY <1>2, <1>c, ContinueIs DEF Appoint, Acting, Signed
  <2>2. job.do = "grant" /\ job.target = target
    OBVIOUS
  <2> HIDE DEF job
  <2>3. Plain(job)
    BY <2>2 DEF Plain
  <2>4. JobFits(doing[1])'
    BY <1>b, <2>1, <2>2, <2>3, PlainIs DEF JobFits
  <2> QED
    BY <1>1, <2>1, <2>3, <2>4
<1>3. ASSUME NEW target \in Members, NEW kind \in SanctionKinds, NEW for \in Durations, Judge(1, target, kind, for)
      PROVE  AccessOK'
  <2> DEFINE job == [do |-> "sanction", who |-> c.who, target |-> target, kind |-> kind, for |-> for]
  <2>1. c.do = "signed_in" /\ doing'[1] = job
    BY <1>3, <1>c, ContinueIs DEF Judge, Acting, Signed
  <2>2. Quiet(job) /\ Plain(job)
    BY DEF Quiet, Plain
  <2> HIDE DEF job
  <2> QED
    BY <1>1, <2>1, <2>2, QuietFits
<1>4. ASSUME NEW i \in DOMAIN sanctions, NEW named \in Members, AskToLift(1, i, named)
      PROVE  AccessOK'
  <2> DEFINE job == [do |-> "lift", who |-> c.who, row |-> i, named |-> named]
  <2>1. /\ c.do = "signed_in" /\ doing'[1] = job
        /\ sanctions[i].liftedBy = Nobody /\ named = sanctions[i].account
    BY <1>4, <1>c, ContinueIs DEF AskToLift, Acting, Signed
  <2>2. job.do = "lift" /\ job.row = i /\ job.named = named
    OBVIOUS
  <2> HIDE DEF job
  <2>3. Plain(job)
    BY <2>2 DEF Plain
  <2>4. JobFits(doing[1])'
    BY <1>a, <2>1, <2>2, <2>3, PlainIs DEF JobFits
  <2> QED
    BY <1>1, <2>1, <2>3, <2>4
<1>5. ASSUME NEW target \in Members, NEW label \in Labels,
             LabelPlayer(1, target, label) \/ UnlabelPlayer(1, target, label)
      PROVE  AccessOK'
  <2>1. PICK job \in {Recording(c.who, "label", target, Idle), Recording(c.who, "unlabel", target, Idle)} :
          doing'[1] = job
    BY <1>5, <1>c, ContinueIs DEF LabelPlayer, UnlabelPlayer
  <2>2. c.do = "signed_in"
    BY <1>5 DEF LabelPlayer, UnlabelPlayer, Acting, Signed
  <2>3. Quiet(job) /\ Plain(job)
    BY <2>1 DEF Quiet, Plain, Recording
  <2> QED
    BY <1>1, <2>1, <2>2, <2>3, QuietFits
<1>6. CASE Record(1)
  <2>1. c.do = "record" /\ doing'[1] = c.then
    BY <1>6, <1>c, ContinueIs DEF Record
  <2>2. \/ c.then = Idle
        \/ \E a \in DOMAIN accounts : c.then = Disabling(a)
        \/ \E a \in Members : c.then = LettingIn(a)
    BY <1>c, <1>i, <2>1 DEF JobTyped
  <2>3. c.then.do \in {"nothing", "disable", "let_in"}
    BY <2>2, JobFields
  <2>4. \A b : (Disables(c.then, b) <=> Disables(c, b)) /\ (LetsIn(c.then, b) <=> LetsIn(c, b))
    <3>1. CASE c.then = Idle
      BY <1>i, <2>1, <3>1, PlainIs DEF Plain
    <3>2. ASSUME NEW a, c.then = Disabling(a)
          PROVE  \A b : (Disables(c.then, b) <=> Disables(c, b)) /\ (LetsIn(c.then, b) <=> LetsIn(c, b))
      <4>1. \A b : Disabling(b).do = "disable" /\ Disabling(b).who = b /\ LettingIn(b).do = "let_in"
        BY JobFields
      <4>2. \A b : c.then = Disabling(b) <=> b = a
        BY <3>2, <4>1
      <4>3. \A b : c.then # LettingIn(b)
        BY <3>2, <4>1
      <4> QED
        BY <2>1, <3>2, <4>1, <4>2, <4>3 DEF Disables, LetsIn
    <3>3. ASSUME NEW a, c.then = LettingIn(a)
          PROVE  \A b : (Disables(c.then, b) <=> Disables(c, b)) /\ (LetsIn(c.then, b) <=> LetsIn(c, b))
      <4>1. \A b : Disabling(b).do = "disable" /\ LettingIn(b).do = "let_in" /\ LettingIn(b).who = b
        BY JobFields
      <4>2. \A b : c.then = LettingIn(b) <=> b = a
        BY <3>3, <4>1
      <4>3. \A b : c.then # Disabling(b)
        BY <3>3, <4>1
      <4> QED
        BY <2>1, <3>3, <4>1, <4>2, <4>3 DEF Disables, LetsIn
    <3> QED
      BY <2>2, <3>1, <3>2, <3>3
  <2>5. SessionsFollow(doing[1])'
    BY <1>a, <1>c, <2>1, <2>3 DEF SessionsFollow
  <2>6. BansFollow(doing[1])'
    BY <1>a, <1>b, <1>c, <2>1, <2>4 DEF BansFollow
  <2>7. JobFits(doing[1])'
    BY <1>a, <1>b, <1>c, <2>1, <2>3, <2>4 DEF JobFits
  <2> QED
    BY <2>5, <2>6, <2>7 DEF AccessOK
<1>7. CASE LetIn(1)
  <2>1. c.do = "let_in" /\ c.who \in Members
    BY <1>7, <1>c, <1>i DEF LetIn, JobTyped
  <2>2. \A b : ~ Disables(c, b) /\ (LetsIn(c, b) <=> b = c.who)
    BY <2>1 DEF Disables, LetsIn
  <2>3. SessionsFollow(Idle) /\ BansFollow(c)
    BY <1>c, <2>1 DEF SessionsFollow
  <2>4. CASE Banned(c.who)
    <3>1. doing'[1] = Idle /\ BanStands(c.who)
      BY <1>7, <1>c, <2>4, ContinueIs, BannedStands DEF LetIn, Finish
    <3>2. SessionsFollow(doing[1])'
      BY <1>a, <2>3, <3>1 DEF SessionsFollow
    <3>3. BansFollow(doing[1])'
      BY <1>a, <1>b, <2>2, <2>3, <3>1 DEF BansFollow
    <3>4. JobFits(doing[1])'
      BY <1>i, <3>1, QuietFits DEF Quiet
    <3> QED
      BY <3>2, <3>3, <3>4 DEF AccessOK
  <2>5. CASE ~ Banned(c.who)
    <3> DEFINE job == [do |-> "enable", who |-> c.who]
    <3>1. doing'[1] = job
      BY <1>7, <1>c, <2>5, ContinueIs DEF LetIn
    <3>2. job.do = "enable" /\ job.who = c.who
      OBVIOUS
    <3> HIDE DEF job
    <3>3. \A b : ~ Disables(job, b) /\ (LetsIn(job, b) <=> b = c.who)
      BY <3>2 DEF Disables, LetsIn
    <3>4. SessionsFollow(doing[1])'
      BY <1>a, <1>c, <2>1, <3>1, <3>2 DEF SessionsFollow
    <3>5. BansFollow(doing[1])'
      BY <1>a, <1>b, <2>2, <2>3, <3>1, <3>3 DEF BansFollow
    <3>6. JobFits(doing[1])'
      BY <1>a, <1>b, <2>5, <3>1, <3>2, <3>3 DEF JobFits
    <3> QED
      BY <3>4, <3>5, <3>6 DEF AccessOK
  <2> QED
    BY <2>4, <2>5
<1> QED
  BY <1>2, <1>3, <1>4, <1>5, <1>6, <1>7

LEMMA StaffWritesFollow ==
    ASSUME OneRequest, AccountsTyped, AccessOK,
           \/ GrantAdmin(1) \/ Sanction(1) \/ Lift(1)
           \/ \E target \in Members : RevokeAdmin(1, target)
           \/ \E b \in Banners :
                 \/ RemoveBanner(1, b)
                 \/ \E active \in BOOLEAN : AddBanner(1, b, active) \/ EditBanner(1, b, active)
    PROVE  AccessOK'
<1> DEFINE c == doing[1]
<1>c. JobTyped(c, DOMAIN accounts, DOMAIN sanctions) /\ JobsTyped /\ JobFits(c) /\ SessionsFollow(c) /\ BansFollow(c)
  BY DEF AccountsTyped, JobsTyped, OneRequest, AccessOK
<1>r. /\ \A a \in DOMAIN accounts : a \in Members
      /\ \A t \in DOMAIN sessions : sessions[t].account \in DOMAIN accounts
      /\ sanctions \in Seq(SanctionRows)
      /\ \A i \in DOMAIN sanctions : sanctions[i].account \in DOMAIN accounts
      /\ \A a \in DOMAIN accounts : a # Nobody
  BY PeopleAssumption DEF AccountsTyped, TablesTyped, RowsRefer
<1>i. Idle.do = "nothing"
  BY JobFields
<1>1. ASSUME \/ GrantAdmin(1)
             \/ \E target \in Members : RevokeAdmin(1, target)
             \/ \E b \in Banners :
                   \/ RemoveBanner(1, b)
                   \/ \E active \in BOOLEAN : AddBanner(1, b, active) \/ EditBanner(1, b, active)
      PROVE  AccessOK'
  <2>1. /\ UNCHANGED <<accounts, sessions, sanctions, clock>>
        /\ c.do \in {"grant", "signed_in"}
        /\ \E actor, action, subject : doing'[1] = Recording(actor, action, subject, Idle)
    BY <1>1, <1>c, ContinueIs DEF GrantAdmin, RevokeAdmin, RemoveBanner, AddBanner, EditBanner, Acting, Signed
  <2>2. Plain(c) /\ Plain(doing'[1]) /\ Quiet(doing'[1])
    BY <2>1 DEF Plain, Quiet, Recording
  <2>3. SessionsFollow(doing[1])' /\ BansFollow(doing[1])'
    BY <2>1, <2>2, AccessSame DEF AccessOK
  <2>4. JobFits(doing[1])'
    BY <2>2, QuietFits
  <2> QED
    BY <2>3, <2>4 DEF AccessOK
<1>2. CASE Sanction(1)
  <2> DEFINE row == [account |-> c.target, kind |-> c.kind, actor |-> c.who, liftedBy |-> Nobody,
                     until |-> IF c.for > 0 THEN clock + c.for ELSE 0]
             then == IF c.kind = "ban" THEN Disabling(c.target) ELSE Idle
             job == Recording(c.who, c.kind, c.target, then)
  <2>1. c.do = "sanction" /\ c.target \in DOMAIN accounts
    BY <1>2, <1>c, <1>i DEF Sanction, JobTyped
  <2>2. /\ sanctions' = Append(sanctions, row) /\ doing'[1] = job
        /\ UNCHANGED <<accounts, sessions, grants, clock>>
    BY <1>2, <1>c, ContinueIs DEF Sanction
  <2>3. row.account = c.target /\ row.kind = c.kind /\ row.liftedBy = Nobody
    OBVIOUS
  <2>4. job.do = "record" /\ job.then = then
    BY DEF Recording
  <2>5. /\ c.kind = "ban" => then = Disabling(c.target)
        /\ c.kind # "ban" => then = Idle
    OBVIOUS
  <2> HIDE DEF row, then, job
  <2>6. /\ Len(sanctions) \in Nat /\ DOMAIN sanctions = 1 .. Len(sanctions)
        /\ DOMAIN sanctions' = 1 .. Len(sanctions) + 1
        /\ sanctions'[Len(sanctions) + 1] = row
        /\ \A i \in DOMAIN sanctions : sanctions'[i] = sanctions[i]
    BY <1>r, <2>2
  <2>7. \A i \in DOMAIN sanctions' : i \in DOMAIN sanctions \/ sanctions'[i] = row
    BY <2>6
  <2>8. \A a : Banned(a)' => Banned(a) \/ (a = c.target /\ c.kind = "ban")
    BY <2>2, <2>3, <2>6, <2>7 DEF Banned, ActiveSanctions, Active
  <2>9. \A a : /\ BanStands(a) => BanStands(a)'
               /\ a = c.target /\ c.kind = "ban" => BanStands(a)'
    <3>1. DOMAIN sanctions \subseteq DOMAIN sanctions' /\ Len(sanctions) + 1 \in DOMAIN sanctions'
      BY <2>6
    <3>2. \A a : BanStands(a) => BanStands(a)'
      BY <2>6, <3>1 DEF BanStands
    <3>3. \A a : a = c.target /\ c.kind = "ban" => BanStands(a)'
      BY <2>3, <2>6, <3>1 DEF BanStands
    <3> QED
      BY <3>2, <3>3
  <2>10. Plain(c) /\ c.do # "end_all"
    BY <2>1 DEF Plain
  <2>11. \A b : /\ Disables(job, b) <=> b = c.target /\ c.kind = "ban"
                /\ ~ LetsIn(job, b)
    <3>1. \A b : Disabling(b).do = "disable" /\ Disabling(b).who = b /\ LettingIn(b).do = "let_in"
      BY JobFields
    <3>2. CASE c.kind = "ban"
      BY <2>4, <2>5, <3>1, <3>2 DEF Disables, LetsIn
    <3>3. CASE c.kind # "ban"
      BY <2>4, <2>5, <3>3, PlainIs DEF Plain
    <3> QED
      BY <3>2, <3>3
  <2>12. SessionsFollow(doing[1])'
    BY <1>c, <2>2, <2>10 DEF SessionsFollow
  <2>13. BansFollow(doing[1])'
    <3>1. \A b \in DOMAIN accounts : Follows(b)
      BY <1>c, <2>10, PlainFollows
    <3> QED
      BY <2>2, <2>8, <2>9, <2>11, <3>1 DEF BansFollow, Follows
  <2>14. JobFits(doing[1])'
    <3>1. \A a : Disables(doing'[1], a) => BanStands(a)'
      BY <2>2, <2>9, <2>11
    <3> QED
      BY <2>2, <2>4, <3>1 DEF JobFits
  <2> QED
    BY <2>12, <2>13, <2>14 DEF AccessOK
<1>3. CASE Lift(1)
  <2> DEFINE then == LettingIn(c.named)
             job == Recording(c.who, "lift", sanctions[c.row].account, then)
  <2>1. c.do = "lift" /\ c.row \in DOMAIN sanctions /\ c.who # Nobody
    BY <1>3, <1>c, <1>i, <1>r DEF Lift, JobTyped
  <2>2. c.named = sanctions[c.row].account
    BY <1>c, <2>1 DEF JobFits
  <2>3. /\ sanctions' = [sanctions EXCEPT ![c.row].liftedBy = c.who] /\ doing'[1] = job
        /\ UNCHANGED <<accounts, sessions, grants, clock>>
    BY <1>3, <1>c, ContinueIs DEF Lift, LettingIn
  <2>4. job.do = "record" /\ job.then = LettingIn(c.named)
    BY DEF Recording
  <2> HIDE DEF then, job
  <2>5. PICK r : r = [sanctions[c.row] EXCEPT !.liftedBy = c.who]
    OBVIOUS
  <2>6. r.liftedBy = c.who /\ r.account = sanctions[c.row].account
    BY <1>r, <2>1, <2>5 DEF SanctionRows
  <2>7. /\ DOMAIN sanctions' = DOMAIN sanctions /\ sanctions'[c.row] = r
        /\ \A i \in DOMAIN sanctions : i # c.row => sanctions'[i] = sanctions[i]
    BY <2>1, <2>3, <2>5
  <2>8. \A a : /\ Banned(a)' => Banned(a)
               /\ a # c.named => (BanStands(a) => BanStands(a)')
    BY <2>1, <2>2, <2>3, <2>6, <2>7 DEF Banned, ActiveSanctions, Active, BanStands
  <2>9. Plain(c) /\ c.do # "end_all"
    BY <2>1 DEF Plain
  <2>10. \A b : ~ Disables(job, b) /\ (LetsIn(job, b) <=> b = c.named)
    <3>1. \A b : Disabling(b).do = "disable" /\ LettingIn(b).who = b /\ LettingIn(b).do = "let_in"
      BY JobFields
    <3> QED
      BY <2>4, <3>1 DEF Disables, LetsIn
  <2>11. SessionsFollow(doing[1])'
    BY <1>c, <2>3, <2>9 DEF SessionsFollow
  <2>12. BansFollow(doing[1])'
    <3>1. \A b \in DOMAIN accounts : Follows(b)
      BY <1>c, <2>9, PlainFollows
    <3> QED
      BY <2>3, <2>8, <2>10, <3>1 DEF BansFollow, Follows
  <2>13. JobFits(doing[1])'
    BY <2>3, <2>4, <2>10 DEF JobFits
  <2> QED
    BY <2>11, <2>12, <2>13 DEF AccessOK
<1> QED
  BY <1>1, <1>2, <1>3

\* Time passes, and restrictions run out; somebody signs out.
LEMMA OthersFollow ==
    ASSUME OneRequest, AccountsTyped, AccessOK,
           \/ Wait \/ UNCHANGED accountsVars \/ \E t \in Tokens : SignOut(t)
    PROVE  AccessOK'
<1> DEFINE c == doing[1]
<1>c. JobFits(c) /\ SessionsFollow(c) /\ BansFollow(c)
  BY DEF AccessOK
<1>1. UNCHANGED <<accounts, grants, sanctions, doing>>
  BY DEF Wait, accountsVars, tables, SignOut
<1>2. clock \in Nat /\ clock' \in Nat /\ clock <= clock'
  <2>1. clock \in Nat
    BY DEF AccountsTyped, TablesTyped
  <2>2. clock' = clock \/ clock' = clock + 1
    BY DEF Wait, accountsVars, SignOut
  <2> QED
    BY <2>1, <2>2
<1>3. \A t \in DOMAIN sessions' : t \in DOMAIN sessions /\ sessions'[t] = sessions[t]
  <2>1. CASE Wait \/ UNCHANGED accountsVars
    BY <2>1 DEF Wait, accountsVars, tables
  <2>2. ASSUME NEW t \in Tokens, SignOut(t)
        PROVE  \A u \in DOMAIN sessions' : u \in DOMAIN sessions /\ sessions'[u] = sessions[u]
    BY <2>2, RestrictIs DEF SignOut, Without
  <2> QED
    BY <2>1, <2>2
<1>4. \A i \in DOMAIN sanctions : sanctions[i].until \in Nat
  <2>1. \A i \in DOMAIN sanctions : sanctions[i] \in SanctionRows
    BY DEF AccountsTyped, TablesTyped
  <2> QED
    BY <2>1 DEF SanctionRows
<1>5. \A i \in DOMAIN sanctions : clock' < sanctions[i].until => clock < sanctions[i].until
  BY <1>2, <1>4
<1>6. \A a : Banned(a)' => Banned(a)
  BY <1>1, <1>5 DEF Banned, ActiveSanctions, Active
<1>7. \A a : (BanStands(a)' <=> BanStands(a)) /\ (IsStaff(a)' <=> IsStaff(a))
  BY <1>1 DEF BanStands, IsStaff, RoleOf, Standing
<1>8. SessionsFollow(doing[1])'
  BY <1>1, <1>3, <1>c DEF SessionsFollow
<1>9. BansFollow(doing[1])'
  BY <1>1, <1>6, <1>7, <1>c DEF BansFollow
<1>10. JobFits(doing[1])'
  BY <1>1, <1>6, <1>7, <1>c DEF JobFits
<1> QED
  BY <1>8, <1>9, <1>10 DEF AccessOK

LEMMA AccessStarts == ASSUME OneRequest, AccountsInit PROVE AccessOK
<1>1. PICK weak \in BOOLEAN : accounts = [a \in {HeadAdmin} |->
          [NewAccount(FirstPassword) EXCEPT !.weak = weak, !.terms = TRUE]]
  BY DEF AccountsInit
<1>2. ~ accounts[HeadAdmin].disabled /\ DOMAIN accounts = {HeadAdmin}
  BY <1>1 DEF NewAccount
<1>3. DOMAIN sessions = {} /\ DOMAIN sanctions = {} /\ doing[1] = Idle
  BY DEF AccountsInit, OneRequest
<1>4. doing[1].do = "nothing"
  BY <1>3, JobFields
<1>5. \A a : ~ Banned(a)
  BY <1>3 DEF Banned, ActiveSanctions
<1>6. \A a : ~ Disables(doing[1], a)
  BY <1>4 DEF Disables
<1> QED
  BY <1>2, <1>3, <1>4, <1>5, <1>6 DEF AccessOK, JobFits, SessionsFollow, BansFollow

LEMMA AccessSteps ==
    ASSUME OneRequest, ~ StrayLifts, AccountsTyped, AccessOK, [AccountsNext]_accountsVars
    PROVE  AccessOK'
<1>1. CASE \/ Wait \/ UNCHANGED accountsVars \/ \E t \in Tokens : SignOut(t)
  BY <1>1, OthersFollow
<1>2. CASE \/ authenticated(1) \/ signUp(1) \/ signIn(1) \/ changePassword(1)
           \/ setRole(1) \/ sanction(1) \/ liftSanction(1) \/ labelPlayer(1) \/ editBanner(1)
  <2>1. StartSession(1) => signIn(1)
    BY DEF signIn
  <2> QED
    BY <1>2, <2>1, SigningFollows, PasswordsFollow, StaffFollows, StaffWritesFollow
       DEF changePassword, setRole, sanction, liftSanction, labelPlayer, editBanner
<1>3. 1 .. AtOnce = {1}
  BY DEF OneRequest
<1> QED
  BY <1>1, <1>2, <1>3 DEF AccountsNext

LEMMA AccessFollows ==
    ASSUME OneRequest, ~ StrayLifts
    PROVE  AccountsSpec => [](SessionsFollowTheAccount /\ DisabledFollowsBans)
<1>1. AccountsTyped /\ AccessOK => SessionsFollowTheAccount /\ DisabledFollowsBans
  <2> SUFFICES ASSUME AccountsTyped, AccessOK, NoneBusy(doing)
               PROVE  SessionsFollowTheAccount /\ DisabledFollowsBans
    BY DEF SessionsFollowTheAccount, DisabledFollowsBans
  <2>1. doing[1] = Idle
    BY DEF NoneBusy, AccountsTyped, JobsTyped, OneRequest
  <2>2. Plain(doing[1]) /\ doing[1].do # "end_all"
    BY <2>1, JobFields DEF Plain
  <2>3. SessionsFollowTheAccount
    BY <2>2 DEF AccessOK, SessionsFollow, SessionsFollowTheAccount
  <2>4. \A a \in DOMAIN accounts : Follows(a)
    BY <2>2, PlainFollows DEF AccessOK
  <2>5. DisabledFollowsBans
    BY <2>4 DEF Follows, BanStands, DisabledFollowsBans
  <2> QED
    BY <2>3, <2>5
<1>2. AccountsInit => AccountsTyped /\ AccessOK
  BY AccountsStartTyped, AccessStarts
<1>3. AccountsTyped /\ AccessOK /\ [AccountsNext]_accountsVars => (AccountsTyped /\ AccessOK)'
  BY AccountsStepTyped, AccessSteps
<1> QED
  BY <1>1, <1>2, <1>3, PTL DEF AccountsSpec

\* With one request at work at a time and lifts that name their sanction's account,
\* nobody stays signed in past a new password or a ban (SessionsFollowTheAccount).
THEOREM SessionsAlwaysFollow ==
    ASSUME OneRequest, ~ StrayLifts PROVE AccountsSpec => []SessionsFollowTheAccount
  BY AccessFollows, PTL

\* Under the same hypotheses an account is disabled exactly while a ban of it stands
\* (DisabledFollowsBans).
THEOREM DisabledAlwaysFollows ==
    ASSUME OneRequest, ~ StrayLifts PROVE AccountsSpec => []DisabledFollowsBans
  BY AccessFollows, PTL

LEMMA BagGrows ==
    ASSUME NEW B, \A e \in DOMAIN B : B[e] \in Nat, NEW r
    PROVE  LET C == B (+) SetToBag({r}) IN
           /\ DOMAIN C = DOMAIN B \union {r}
           /\ \A e \in DOMAIN C : C[e] \in Nat
           /\ \A e : (IF e \in DOMAIN C THEN C[e] ELSE 0) =
                     (IF e \in DOMAIN B THEN B[e] ELSE 0) + (IF e = r THEN 1 ELSE 0)
  BY DEF SetToBag, (+)

LEMMA RecordingIs ==
    ASSUME NEW actor, NEW action, NEW subject, NEW then
    PROVE  /\ Recording(actor, action, subject, then).do = "record"
           /\ Recording(actor, action, subject, then).actor = actor
           /\ Recording(actor, action, subject, then).action = action
           /\ Recording(actor, action, subject, then).subject = subject
           /\ Recording(actor, action, subject, then).then = then
  BY DEF Recording

\* A request that owes the log nothing it is counted by.
OwesNothing(c) == c.do = "record" => c.action \notin Acts

LEMMA NothingDue ==
    ASSUME NEW c, OwesNothing(c), NEW actor, NEW action \in Acts, NEW a
    PROVE  Due(c, actor, action, a) = 0
  BY DEF OwesNothing, Due

LEMMA RowsFinite ==
    ASSUME AccountsTyped, NEW actor, NEW action, NEW a
    PROVE  /\ IsFiniteSet(InLog(actor, action, a)) /\ Cardinality(InLog(actor, action, a)) \in Nat
           /\ \A i : i \notin InLog(actor, action, a) =>
                 Cardinality(InLog(actor, action, a) \union {i}) = Cardinality(InLog(actor, action, a)) + 1
<1>1. PICK n \in Nat : InLog(actor, action, a) \subseteq 1 .. n
  <2>1. /\ Len(grants) \in Nat /\ DOMAIN grants = 1 .. Len(grants)
        /\ Len(sanctions) \in Nat /\ DOMAIN sanctions = 1 .. Len(sanctions)
    BY DEF AccountsTyped, TablesTyped
  <2>2. InLog(actor, action, a) \subseteq DOMAIN grants \/ InLog(actor, action, a) \subseteq DOMAIN sanctions
    BY DEF InLog, JudgedRows, LiftedRows, GrantedRows, RevokedRows
  <2> QED
    BY <2>1, <2>2
<1>2. IsFiniteSet(InLog(actor, action, a))
  <2>1. IsFiniteSet(1 .. n)
    BY FS_Interval
  <2> QED
    BY <1>1, <2>1, FS_Subset
<1> QED
  BY <1>2, FS_CardinalityType, FS_AddElement

\* Nothing the log is counted by changes, and nothing comes due.
LEMMA CountStays ==
    ASSUME LogOK, UNCHANGED <<sanctions, grants, audit>>,
           \/ UNCHANGED doing
           \/ OwesNothing(doing[1]) /\ OwesNothing(doing'[1])
    PROVE  LogOK'
<1>1. \A actor, action, a : InLog(actor, action, a)' = InLog(actor, action, a)
  BY DEF InLog, JudgedRows, LiftedRows, GrantedRows, RevokedRows
<1>2. \A actor, action, a : Written(actor, action, a)' = Written(actor, action, a)
  BY DEF Written
<1>3. \A actor, a \in Members, action \in Acts :
         Due(doing'[1], actor, action, a) = Due(doing[1], actor, action, a)
  BY NothingDue
<1>4. Counted(doing[1])'
  BY <1>1, <1>2, <1>3 DEF LogOK, Counted
<1> QED
  BY <1>4 DEF LogOK, OneGrant

\* An act is written into its table: it is due in the log.
LEMMA CountGrows ==
    ASSUME AccountsTyped, LogOK, UNCHANGED audit, OwesNothing(doing[1]),
           NEW who \in Members, NEW act \in Acts, NEW b \in Members, NEW then, NEW row,
           doing'[1] = Recording(who, act, b, then), row \notin InLog(who, act, b),
           \A actor, a \in Members, action \in Acts : InLog(actor, action, a)' =
               IF actor = who /\ action = act /\ a = b THEN InLog(who, act, b) \union {row}
               ELSE InLog(actor, action, a),
           OneGrant'
    PROVE  LogOK'
<1>1. \A actor, action, a : Written(actor, action, a)' = Written(actor, action, a)
  BY DEF Written
<1>2. \A actor, a \in Members, action \in Acts :
         Due(doing'[1], actor, action, a) = IF actor = who /\ action = act /\ a = b THEN 1 ELSE 0
  BY RecordingIs DEF Due
<1>3. \A actor, a \in Members, action \in Acts :
         /\ Cardinality(InLog(actor, action, a)) = Written(actor, action, a)
         /\ Cardinality(InLog(actor, action, a)) \in Nat
  <2> SUFFICES ASSUME NEW actor \in Members, NEW a \in Members, NEW action \in Acts
               PROVE  /\ Cardinality(InLog(actor, action, a)) = Written(actor, action, a)
                      /\ Cardinality(InLog(actor, action, a)) \in Nat
    OBVIOUS
  <2>1. Written(actor, action, a) \in Nat
    BY DEF LogOK, Written, BagIn, BagToSet
  <2>2. Due(doing[1], actor, action, a) = 0
    BY NothingDue
  <2>3. Cardinality(InLog(actor, action, a)) = Written(actor, action, a) + 0
    BY <2>2 DEF LogOK, Counted
  <2> QED
    BY <2>1, <2>3, RowsFinite
<1>4. Cardinality(InLog(who, act, b) \union {row}) = Cardinality(InLog(who, act, b)) + 1
  BY RowsFinite
<1>5. Counted(doing[1])'
  <2> SUFFICES ASSUME NEW actor \in Members, NEW a \in Members, NEW action \in Acts
               PROVE  Cardinality(InLog(actor, action, a)') = Written(actor, action, a)' + Due(doing'[1], actor, action, a)
    BY DEF Counted, Due, Acts
  <2>1. CASE actor = who /\ action = act /\ a = b
    BY <1>1, <1>2, <1>3, <1>4, <2>1
  <2>2. CASE ~ (actor = who /\ action = act /\ a = b)
    BY <1>1, <1>2, <1>3, <2>2
  <2> QED
    BY <2>1, <2>2
<1> QED
  BY <1>5 DEF LogOK

LEMMA ActsDiffer ==
    /\ "lift" \notin SanctionKinds /\ "grant_admin" \notin SanctionKinds /\ "revoke_admin" \notin SanctionKinds
    /\ "label" \notin Acts /\ "unlabel" \notin Acts /\ "bootstrap_head_admin" \notin Acts
    /\ "banner_add" \notin Acts /\ "banner_edit" \notin Acts /\ "banner_remove" \notin Acts
  BY AccountsAssumption DEF Acts

\* The log catches up with what was due.
LEMMA RecordCounts ==
    ASSUME OneRequest, AccountsTyped, LogOK, Record(1) PROVE LogOK'
<1> DEFINE c == doing[1]
           line == [actor |-> c.actor, action |-> c.action, subject |-> c.subject]
<1>c. JobTyped(c, DOMAIN accounts, DOMAIN sanctions) /\ JobsTyped
  BY DEF AccountsTyped, JobsTyped, OneRequest
<1>1. c.do = "record" /\ doing'[1] = c.then /\ UNCHANGED <<sanctions, grants>>
  BY <1>c, ContinueIs DEF Record
<1>2. c.then.do \in {"nothing", "disable", "let_in"}
  BY <1>1, <1>c, JobFields DEF JobTyped
<1>3. audit' = audit (+) SetToBag({line})
  BY DEF Record
<1>4. \A actor, action, a : [actor |-> actor, action |-> action, subject |-> a] = line <=>
                            (actor = c.actor /\ action = c.action /\ a = c.subject)
  OBVIOUS
<1> HIDE DEF line
<1>5. /\ \A e \in DOMAIN audit' : audit'[e] \in Nat
      /\ \A e : (IF e \in DOMAIN audit' THEN audit'[e] ELSE 0) =
                (IF e \in DOMAIN audit THEN audit[e] ELSE 0) + (IF e = line THEN 1 ELSE 0)
  BY <1>3, BagGrows DEF LogOK
<1>6. ASSUME NEW actor \in Members, NEW a \in Members, NEW action \in Acts
      PROVE  Cardinality(InLog(actor, action, a)') = Written(actor, action, a)' + Due(doing'[1], actor, action, a)
  <2>1. Written(actor, action, a)' = Written(actor, action, a) + Due(c, actor, action, a)
    <3> DEFINE e == [actor |-> actor, action |-> action, subject |-> a]
    <3>1. /\ Written(actor, action, a)' = IF e \in DOMAIN audit' THEN audit'[e] ELSE 0
          /\ Written(actor, action, a) = IF e \in DOMAIN audit THEN audit[e] ELSE 0
      BY DEF Written, BagIn, BagToSet
    <3>2. Due(c, actor, action, a) = IF e = line THEN 1 ELSE 0
      BY <1>1, <1>4 DEF Due
    <3> HIDE DEF e
    <3> QED
      BY <1>5, <3>1, <3>2
  <2>2. InLog(actor, action, a)' = InLog(actor, action, a)
    BY <1>1 DEF InLog, JudgedRows, LiftedRows, GrantedRows, RevokedRows
  <2>3. Due(doing'[1], actor, action, a) = 0
    BY <1>1, <1>2 DEF Due
  <2>4. Written(actor, action, a) \in Nat /\ Due(c, actor, action, a) \in {0, 1}
    BY DEF LogOK, Written, BagIn, BagToSet, Due
  <2>5. Cardinality(InLog(actor, action, a)) = Written(actor, action, a) + Due(c, actor, action, a)
    BY DEF LogOK, Counted
  <2> HIDE DEF c
  <2> QED
    BY <2>1, <2>2, <2>3, <2>4, <2>5
<1>7. Counted(doing[1])'
  BY <1>6 DEF Counted, Acts
<1> QED
  BY <1>1, <1>5, <1>7 DEF LogOK, OneGrant

LEMMA SanctionCounts ==
    ASSUME OneRequest, AccountsTyped, LogOK, Sanction(1) PROVE LogOK'
<1> DEFINE c == doing[1]
           row == [account |-> c.target, kind |-> c.kind, actor |-> c.who, liftedBy |-> Nobody,
                   until |-> IF c.for > 0 THEN clock + c.for ELSE 0]
           then == IF c.kind = "ban" THEN Disabling(c.target) ELSE Idle
           i == Len(sanctions) + 1
<1>c. JobTyped(c, DOMAIN accounts, DOMAIN sanctions) /\ JobsTyped /\ DOMAIN accounts \subseteq Members
  BY DEF AccountsTyped, JobsTyped, TablesTyped, OneRequest
<1>1. c.do = "sanction" /\ c.who \in Members /\ c.target \in Members /\ c.kind \in SanctionKinds
  BY <1>c, JobFields DEF Sanction, JobTyped
<1>2. /\ sanctions' = Append(sanctions, row) /\ doing'[1] = Recording(c.who, c.kind, c.target, then)
      /\ UNCHANGED <<grants, audit>>
  BY <1>c, ContinueIs DEF Sanction
<1>3. row.account = c.target /\ row.kind = c.kind /\ row.actor = c.who /\ row.liftedBy = Nobody
  OBVIOUS
<1> HIDE DEF row, then
<1>4. /\ i \notin DOMAIN sanctions /\ DOMAIN sanctions' = DOMAIN sanctions \union {i}
      /\ sanctions'[i] = row
      /\ \A k \in DOMAIN sanctions : sanctions'[k] = sanctions[k]
  <2>1. sanctions \in Seq(SanctionRows) /\ Len(sanctions) \in Nat
    BY DEF AccountsTyped, TablesTyped
  <2> QED
    BY <1>2, <2>1
<1> HIDE DEF i
<1>5. ASSUME NEW actor \in Members, NEW a \in Members, NEW action \in Acts
      PROVE  InLog(actor, action, a)' = IF actor = c.who /\ action = c.kind /\ a = c.target
                                       THEN InLog(c.who, c.kind, c.target) \union {i}
                                       ELSE InLog(actor, action, a)
  <2>1. JudgedRows(actor, action, a)' = IF actor = c.who /\ action = c.kind /\ a = c.target
                                        THEN JudgedRows(actor, action, a) \union {i}
                                        ELSE JudgedRows(actor, action, a)
    BY <1>3, <1>4 DEF JudgedRows
  <2>2. LiftedRows(actor, a)' = LiftedRows(actor, a)
    BY <1>3, <1>4, PeopleAssumption DEF LiftedRows
  <2>3. GrantedRows(actor, a)' = GrantedRows(actor, a) /\ RevokedRows(actor, a)' = RevokedRows(actor, a)
    BY <1>2 DEF GrantedRows, RevokedRows
  <2> HIDE DEF c
  <2> QED
    BY <1>1, <2>1, <2>2, <2>3 DEF InLog
<1>6. i \notin InLog(c.who, c.kind, c.target)
  BY <1>1, <1>4 DEF InLog, JudgedRows
<1>7. OneGrant'
  BY <1>2 DEF LogOK, OneGrant
<1>8. OwesNothing(c) /\ c.kind \in Acts
  BY <1>1 DEF OwesNothing, Acts
<1>9. PICK who \in Members, act \in Acts, b \in Members : who = c.who /\ act = c.kind /\ b = c.target
  BY <1>1, <1>8
<1> QED
  BY <1>2, <1>5, <1>6, <1>7, <1>8, <1>9, CountGrows

LEMMA LiftCounts ==
    ASSUME OneRequest, AccountsTyped, AccessOK, LogOK, Lift(1) PROVE LogOK'
<1> DEFINE c == doing[1]
           then == [do |-> "let_in", who |-> c.named]
<1>c. /\ JobTyped(c, DOMAIN accounts, DOMAIN sanctions) /\ JobsTyped /\ JobFits(c)
      /\ DOMAIN accounts \subseteq Members
  BY DEF AccountsTyped, JobsTyped, TablesTyped, OneRequest, AccessOK
<1>1. /\ c.do = "lift" /\ c.who \in Members /\ c.row \in DOMAIN sanctions
      /\ sanctions[c.row].liftedBy = Nobody /\ c.who # Nobody
  BY <1>c, JobFields, PeopleAssumption DEF Lift, JobTyped, JobFits
<1>2. /\ sanctions' = [sanctions EXCEPT ![c.row].liftedBy = c.who]
      /\ doing'[1] = Recording(c.who, "lift", sanctions[c.row].account, then)
      /\ UNCHANGED <<grants, audit>>
  BY <1>c, ContinueIs DEF Lift
<1> HIDE DEF then
<1>3. PICK b \in Members : b = sanctions[c.row].account
  BY <1>1, <1>c DEF AccountsTyped, RowsRefer
<1>4. PICK r : r = [sanctions[c.row] EXCEPT !.liftedBy = c.who]
  OBVIOUS
<1>5. /\ r.liftedBy = c.who /\ r.account = b /\ r.kind = sanctions[c.row].kind
      /\ r.actor = sanctions[c.row].actor
  <2>1. sanctions[c.row] \in SanctionRows
    BY <1>1 DEF AccountsTyped, TablesTyped
  <2> QED
    BY <1>3, <1>4, <2>1 DEF SanctionRows
<1>6. /\ DOMAIN sanctions' = DOMAIN sanctions /\ sanctions'[c.row] = r
      /\ \A k \in DOMAIN sanctions : k # c.row => sanctions'[k] = sanctions[k]
  BY <1>1, <1>2, <1>4
<1>7. PICK who \in Members, i \in DOMAIN sanctions : who = c.who /\ i = c.row
  BY <1>1
<1>8. ASSUME NEW actor \in Members, NEW a \in Members, NEW action \in Acts
      PROVE  InLog(actor, action, a)' = IF actor = who /\ action = "lift" /\ a = b
                                       THEN InLog(who, "lift", b) \union {i}
                                       ELSE InLog(actor, action, a)
  <2>1. JudgedRows(actor, action, a)' = JudgedRows(actor, action, a)
    BY <1>3, <1>5, <1>6 DEF JudgedRows
  <2>2. LiftedRows(actor, a)' = IF actor = who /\ a = b THEN LiftedRows(actor, a) \union {i}
                                ELSE LiftedRows(actor, a)
    BY <1>1, <1>3, <1>5, <1>6, <1>7, PeopleAssumption DEF LiftedRows
  <2>3. GrantedRows(actor, a)' = GrantedRows(actor, a) /\ RevokedRows(actor, a)' = RevokedRows(actor, a)
    BY <1>2 DEF GrantedRows, RevokedRows
  <2> QED
    BY <2>1, <2>2, <2>3, ActsDiffer DEF InLog
<1>9. i \notin InLog(who, "lift", b)
  BY <1>1, <1>7, ActsDiffer DEF InLog, LiftedRows
<1>10. OneGrant'
  BY <1>2 DEF LogOK, OneGrant
<1>11. OwesNothing(c) /\ "lift" \in Acts
  BY <1>1 DEF OwesNothing, Acts
<1> QED
  BY <1>2, <1>3, <1>7, <1>8, <1>9, <1>10, <1>11, CountGrows

LEMMA GrantCounts ==
    ASSUME OneRequest, AccountsTyped, AccessOK, LogOK, GrantAdmin(1) PROVE LogOK'
<1> DEFINE c == doing[1]
           row == Grant(c.target, "admin", c.who)
<1>c. /\ JobTyped(c, DOMAIN accounts, DOMAIN sanctions) /\ JobsTyped /\ JobFits(c)
      /\ DOMAIN accounts \subseteq Members
  BY DEF AccountsTyped, JobsTyped, TablesTyped, OneRequest, AccessOK
<1>1. /\ c.do = "grant" /\ c.who \in Members /\ c.target \in Members /\ ~ IsStaff(c.target)
  BY <1>c, JobFields DEF GrantAdmin, JobTyped, JobFits
<1>2. /\ grants' = Append(grants, row) /\ doing'[1] = Recording(c.who, "grant_admin", c.target, Idle)
      /\ UNCHANGED <<sanctions, audit>>
  BY <1>c, ContinueIs DEF GrantAdmin
<1>3. row.account = c.target /\ row.by = c.who /\ row.revokedBy = Nobody
  BY DEF Grant
<1> HIDE DEF row
<1>4. PICK i : /\ i \notin DOMAIN grants /\ DOMAIN grants' = DOMAIN grants \union {i}
               /\ grants'[i] = row
               /\ \A k \in DOMAIN grants : grants'[k] = grants[k]
  <2>1. grants \in Seq(GrantRows) /\ Len(grants) \in Nat
    BY DEF AccountsTyped, TablesTyped
  <2>2. /\ Len(grants) + 1 \notin DOMAIN grants /\ DOMAIN grants' = DOMAIN grants \union {Len(grants) + 1}
        /\ grants'[Len(grants) + 1] = row
        /\ \A k \in DOMAIN grants : grants'[k] = grants[k]
    BY <1>2, <2>1
  <2> QED
    BY <2>2
<1>5. PICK who \in Members, b \in Members : who = c.who /\ b = c.target
  BY <1>1
<1>6. ASSUME NEW actor \in Members, NEW a \in Members, NEW action \in Acts
      PROVE  InLog(actor, action, a)' = IF actor = who /\ action = "grant_admin" /\ a = b
                                       THEN InLog(who, "grant_admin", b) \union {i}
                                       ELSE InLog(actor, action, a)
  <2>1. JudgedRows(actor, action, a)' = JudgedRows(actor, action, a) /\ LiftedRows(actor, a)' = LiftedRows(actor, a)
    BY <1>2 DEF JudgedRows, LiftedRows
  <2>2. GrantedRows(actor, a)' = IF actor = who /\ a = b THEN GrantedRows(actor, a) \union {i}
                                 ELSE GrantedRows(actor, a)
    BY <1>3, <1>4, <1>5 DEF GrantedRows
  <2>3. RevokedRows(actor, a)' = RevokedRows(actor, a)
    BY <1>3, <1>4, PeopleAssumption DEF RevokedRows
  <2> QED
    BY <2>1, <2>2, <2>3, ActsDiffer DEF InLog
<1>7. i \notin InLog(who, "grant_admin", b)
  BY <1>4, ActsDiffer DEF InLog, GrantedRows
<1>8. \A k \in DOMAIN grants : ~ (grants[k].account = b /\ grants[k].revokedBy = Nobody)
  <2>1. \A k \in DOMAIN grants : grants[k].role \in {"head_admin", "admin"}
    <3>1. \A k \in DOMAIN grants : grants[k] \in GrantRows
      BY DEF AccountsTyped, TablesTyped
    <3> QED
      BY <3>1 DEF GrantRows
  <2>2. RoleOf(b) = ""
    BY <1>1, <1>5 DEF IsStaff
  <2>3. "head_admin" \notin Standing(b) /\ "admin" \notin Standing(b)
    BY <2>2 DEF RoleOf
  <2> QED
    BY <2>1, <2>3 DEF Standing
<1>9. OneGrant'
  BY <1>3, <1>4, <1>5, <1>8 DEF LogOK, OneGrant
<1>10. OwesNothing(c) /\ "grant_admin" \in Acts
  BY <1>1 DEF OwesNothing, Acts
<1> QED
  BY <1>2, <1>5, <1>6, <1>7, <1>9, <1>10, CountGrows

LEMMA RevokeCounts ==
    ASSUME OneRequest, AccountsTyped, LogOK, NEW b \in Members, RevokeAdmin(1, b) PROVE LogOK'
<1> DEFINE c == doing[1]
<1>c. /\ JobTyped(c, DOMAIN accounts, DOMAIN sanctions) /\ JobsTyped
      /\ DOMAIN accounts \subseteq Members
  BY DEF AccountsTyped, JobsTyped, TablesTyped, OneRequest
<1>1. c.do = "signed_in" /\ c.who \in Members
  BY <1>c, JobFields DEF RevokeAdmin, Acting, Signed, JobTyped
<1>2. PICK who \in Members : who = c.who /\ who # Nobody
  BY <1>1, PeopleAssumption
<1>3. PICK i \in DOMAIN grants : grants[i].account = b /\ grants[i].role = "admin" /\ grants[i].revokedBy = Nobody
  BY DEF RevokeAdmin, Standing
<1>4. \A k \in DOMAIN grants : (grants[k].account = b /\ grants[k].revokedBy = Nobody) => k = i
  BY <1>3 DEF LogOK, OneGrant
<1>5. /\ doing'[1] = Recording(who, "revoke_admin", b, Idle) /\ UNCHANGED <<sanctions, audit>>
      /\ grants' = [k \in DOMAIN grants |->
           IF grants[k].account = b /\ grants[k].role = "admin" /\ grants[k].revokedBy = Nobody
           THEN [grants[k] EXCEPT !.revokedBy = who] ELSE grants[k]]
  BY <1>c, <1>2, ContinueIs DEF RevokeAdmin
<1>6. PICK r : r = [grants[i] EXCEPT !.revokedBy = who]
  OBVIOUS
<1>7. r.revokedBy = who /\ r.account = b /\ r.by = grants[i].by
  <2>1. grants[i] \in GrantRows
    BY <1>3 DEF AccountsTyped, TablesTyped
  <2> QED
    BY <1>3, <1>6, <2>1 DEF GrantRows
<1>8. /\ DOMAIN grants' = DOMAIN grants /\ grants'[i] = r
      /\ \A k \in DOMAIN grants : k # i => grants'[k] = grants[k]
  BY <1>3, <1>4, <1>5, <1>6
<1>9. ASSUME NEW actor \in Members, NEW a \in Members, NEW action \in Acts
      PROVE  InLog(actor, action, a)' = IF actor = who /\ action = "revoke_admin" /\ a = b
                                       THEN InLog(who, "revoke_admin", b) \union {i}
                                       ELSE InLog(actor, action, a)
  <2>1. JudgedRows(actor, action, a)' = JudgedRows(actor, action, a) /\ LiftedRows(actor, a)' = LiftedRows(actor, a)
    BY <1>5 DEF JudgedRows, LiftedRows
  <2>2. GrantedRows(actor, a)' = GrantedRows(actor, a)
    BY <1>3, <1>7, <1>8 DEF GrantedRows
  <2>3. RevokedRows(actor, a)' = IF actor = who /\ a = b THEN RevokedRows(actor, a) \union {i}
                                 ELSE RevokedRows(actor, a)
    BY <1>3, <1>7, <1>8, PeopleAssumption DEF RevokedRows
  <2> QED
    BY <2>1, <2>2, <2>3, ActsDiffer DEF InLog, Acts
<1>10. i \notin InLog(who, "revoke_admin", b)
  BY <1>2, <1>3, ActsDiffer DEF InLog, RevokedRows
<1>11. OneGrant'
  BY <1>2, <1>7, <1>8 DEF LogOK, OneGrant
<1>12. OwesNothing(c) /\ "revoke_admin" \in Acts
  BY <1>1 DEF OwesNothing, Acts
<1> QED
  BY <1>2, <1>5, <1>9, <1>10, <1>11, <1>12, CountGrows

LEMMA LogStarts == ASSUME OneRequest, AccountsInit PROVE LogOK
<1>1. DOMAIN sanctions = {} /\ doing[1] = Idle
  BY DEF AccountsInit, OneRequest
<1>2. DOMAIN grants = {1} /\ grants[1].by = Nobody /\ grants[1].revokedBy = Nobody
  BY DEF AccountsInit, Grant
<1>3. DOMAIN audit = {[actor |-> HeadAdmin, action |-> "bootstrap_head_admin", subject |-> HeadAdmin]}
  BY DEF AccountsInit, SetToBag
<1>4. \A line \in DOMAIN audit : audit[line] \in Nat
  BY DEF AccountsInit, SetToBag
<1>5. ASSUME NEW actor \in Members, NEW a \in Members, NEW action \in Acts
      PROVE  Cardinality(InLog(actor, action, a)) = Written(actor, action, a) + Due(doing[1], actor, action, a)
  <2>1. InLog(actor, action, a) = {}
    BY <1>1, <1>2, PeopleAssumption DEF InLog, JudgedRows, LiftedRows, GrantedRows, RevokedRows
  <2>2. Cardinality(InLog(actor, action, a)) = 0
    BY <2>1, FS_EmptySet
  <2>3. [actor |-> actor, action |-> action, subject |-> a] \notin DOMAIN audit
    BY <1>3, ActsDiffer
  <2>4. Written(actor, action, a) = 0
    BY <2>3 DEF Written, BagIn, BagToSet
  <2>5. Due(doing[1], actor, action, a) = 0
    BY <1>1, JobFields DEF Due
  <2> QED
    BY <2>2, <2>4, <2>5
<1> QED
  BY <1>2, <1>4, <1>5 DEF LogOK, Counted, OneGrant

LEMMA LogSteps ==
    ASSUME OneRequest, AccountsTyped, AccessOK, LogOK, [AccountsNext]_accountsVars
    PROVE  LogOK'
<1> DEFINE c == doing[1]
<1>c. JobTyped(c, DOMAIN accounts, DOMAIN sanctions) /\ JobsTyped
  BY DEF AccountsTyped, JobsTyped, OneRequest
<1>i. Idle.do = "nothing"
  BY JobFields
<1>1. CASE \/ Wait \/ UNCHANGED accountsVars \/ \E t \in Tokens : SignOut(t)
  BY <1>1, CountStays DEF Wait, accountsVars, tables, SignOut
<1>2. CASE \E t \in Tokens : Arrive(1, t)
  <2>1. PICK t \in Tokens : Arrive(1, t)
    BY <1>2
  <2>2. UNCHANGED doing \/ (OwesNothing(c) /\ OwesNothing(doing'[1]))
    <3>1. CASE clock > sessions[t].expires
      BY <2>1, <3>1 DEF Arrive
    <3>2. CASE ~ (clock > sessions[t].expires)
      <4>1. c = Idle /\ Continue(1, [do |-> "resolve", token |-> t, who |-> sessions[t].account])
        BY <2>1, <3>2 DEF Arrive, Begin, Continue
      <4>2. doing'[1] = [do |-> "resolve", token |-> t, who |-> sessions[t].account]
        BY <1>c, <4>1, ContinueIs
      <4>3. doing'[1].do = "resolve"
        BY <4>2
      <4> QED
        BY <1>i, <4>1, <4>3 DEF OwesNothing
    <3> QED
      BY <3>1, <3>2
  <2>3. UNCHANGED <<sanctions, grants, audit>>
    BY <2>1 DEF Arrive
  <2> QED
    BY <2>2, <2>3, CountStays
<1>3. ASSUME UNCHANGED <<sanctions, grants, audit>>, c.do # "record", NEW job, Continue(1, job), job.do # "record"
      PROVE  LogOK'
  <2>1. OwesNothing(c) /\ OwesNothing(doing'[1])
    BY <1>c, <1>3, ContinueIs DEF OwesNothing
  <2> QED
    BY <1>3, <2>1, CountStays
<1>4. CASE \/ \E a \in Members, word \in Passphrases : SignUp(1, a, word) \/ SignIn(1, a, word)
           \/ AcceptTerms(1) \/ Rehash(1) \/ StartSession(1) \/ Resolve(1) \/ Answer(1)
  <2>1. /\ UNCHANGED <<sanctions, grants, audit>>
        /\ c.do \in {"nothing", "terms", "rehash", "open", "resolve", "signed_in"}
    BY <1>4, <1>i DEF SignUp, SignIn, AcceptTerms, Rehash, StartSession, Resolve, Answer, Begin, Signed, tables
  <2>2. \E job : Continue(1, job) /\ job.do # "record"
    <3>1. \A a, word : Opening(a, word).do = "open"
      BY JobFields
    <3>2. CASE \E a \in Members, word \in Passphrases : SignUp(1, a, word) \/ SignIn(1, a, word)
      BY <3>1, <3>2 DEF SignUp, SignIn, Begin, Continue
    <3>3. CASE AcceptTerms(1) \/ Rehash(1)
      BY <3>1, <3>3 DEF AcceptTerms, Rehash
    <3>4. CASE StartSession(1) \/ Answer(1)
      BY <1>i, <3>4 DEF StartSession, Answer, Finish
    <3>5. CASE Resolve(1)
      BY <1>i, <3>5 DEF Resolve, Finish
    <3> QED
      BY <1>4, <3>2, <3>3, <3>4, <3>5
  <2> QED
    BY <1>3, <2>1, <2>2
<1>5. CASE \/ \E next \in Passphrases : ChangePassword(1, next)
           \/ SetPassword(1) \/ EndAllSessions(1) \/ Disable(1) \/ Enable(1) \/ LetIn(1)
  <2>1. /\ UNCHANGED <<sanctions, grants, audit>>
        /\ c.do \in {"signed_in", "set_password", "end_all", "disable", "enable", "let_in"}
    BY <1>5 DEF ChangePassword, SetPassword, EndAllSessions, Disable, Enable, LetIn, Signed, tables
  <2>2. \E job : Continue(1, job) /\ job.do # "record"
    <3>1. CASE SetPassword(1)
      <4>1. c.then = EndingAll(c.who, Opening(c.who, c.word)) /\ Continue(1, c.then)
        BY <1>c, <1>i, <3>1 DEF SetPassword, JobTyped
      <4> QED
        BY <4>1 DEF EndingAll
    <3>2. CASE EndAllSessions(1)
      <4>1. /\ Continue(1, c.then)
            /\ c.then = Idle \/ \E word \in Passphrases : c.then = Opening(c.who, word)
        BY <1>c, <1>i, <3>2 DEF EndAllSessions, JobTyped
      <4>2. c.then.do \in {"nothing", "open"}
        BY <4>1, JobFields
      <4> QED
        BY <4>1, <4>2
    <3>3. CASE \E next \in Passphrases : ChangePassword(1, next)
      BY <3>3 DEF ChangePassword
    <3>4. CASE Disable(1)
      BY <3>4 DEF Disable
    <3>5. CASE Enable(1)
      BY <1>i, <3>5 DEF Enable, Finish
    <3>6. CASE LetIn(1)
      BY <1>i, <3>6 DEF LetIn, Finish
    <3> QED
      BY <1>5, <3>1, <3>2, <3>3, <3>4, <3>5, <3>6
  <2> QED
    BY <1>3, <2>1, <2>2
<1>6. CASE \/ \E target \in Members : Appoint(1, target)
           \/ \E target \in Members, kind \in SanctionKinds, for \in Durations : Judge(1, target, kind, for)
           \/ \E i \in DOMAIN sanctions, named \in Members : AskToLift(1, i, named)
  <2>1. UNCHANGED <<sanctions, grants, audit>> /\ c.do = "signed_in"
    BY <1>6 DEF Appoint, Judge, AskToLift, Acting, Signed, tables
  <2>2. \E job : Continue(1, job) /\ job.do # "record"
    <3>1. CASE \E target \in Members : Appoint(1, target)
      BY <3>1 DEF Appoint
    <3>2. CASE \E target \in Members, kind \in SanctionKinds, for \in Durations : Judge(1, target, kind, for)
      BY <3>2 DEF Judge
    <3>3. CASE \E i \in DOMAIN sanctions, named \in Members : AskToLift(1, i, named)
      BY <3>3 DEF AskToLift
    <3> QED
      BY <1>6, <3>1, <3>2, <3>3
  <2> QED
    BY <1>3, <2>1, <2>2
<1>7. CASE \/ \E target \in Members, label \in Labels :
                 LabelPlayer(1, target, label) \/ UnlabelPlayer(1, target, label)
           \/ \E b \in Banners :
                 \/ RemoveBanner(1, b)
                 \/ \E active \in BOOLEAN : AddBanner(1, b, active) \/ EditBanner(1, b, active)
  <2>1. UNCHANGED <<sanctions, grants, audit>> /\ c.do = "signed_in"
    BY <1>7 DEF LabelPlayer, UnlabelPlayer, RemoveBanner, AddBanner, EditBanner, Acting, Signed
  <2>2. \E action \in {"label", "unlabel", "banner_add", "banner_edit", "banner_remove"} : \E who, subject :
          doing'[1] = Recording(who, action, subject, Idle)
    BY <1>c, <1>7, ContinueIs DEF LabelPlayer, UnlabelPlayer, RemoveBanner, AddBanner, EditBanner
  <2>3. doing'[1].action \in {"label", "unlabel", "banner_add", "banner_edit", "banner_remove"}
    BY <2>2, RecordingIs
  <2>4. OwesNothing(c) /\ OwesNothing(doing'[1])
    BY <2>1, <2>3, ActsDiffer DEF OwesNothing
  <2> QED
    BY <2>1, <2>4, CountStays
<1>8. CASE Sanction(1) \/ Lift(1) \/ GrantAdmin(1) \/ Record(1) \/ \E target \in Members : RevokeAdmin(1, target)
  BY <1>8, SanctionCounts, LiftCounts, GrantCounts, RecordCounts, RevokeCounts
<1>9. 1 .. AtOnce = {1}
  BY DEF OneRequest
<1>10. CASE \/ authenticated(1) \/ signUp(1) \/ signIn(1) \/ changePassword(1)
            \/ setRole(1) \/ sanction(1) \/ liftSanction(1) \/ labelPlayer(1) \/ editBanner(1)
  BY <1>10, <1>2, <1>4, <1>5, <1>6, <1>7, <1>8
     DEF authenticated, signUp, signIn, changePassword, setRole, sanction, liftSanction, labelPlayer, editBanner
<1> QED
  BY <1>1, <1>9, <1>10 DEF AccountsNext

\* The tables, what the request at work has read of them, and the log, with one
\* request at work at a time and lifts that name their sanction's account.
THEOREM AccountsInvariant ==
    ASSUME OneRequest, ~ StrayLifts PROVE AccountsSpec => []AccountsInv
<1>1. AccountsInit => AccountsInv
  BY AccountsStartTyped, AccessStarts, LogStarts DEF AccountsInv
<1>2. AccountsInv /\ [AccountsNext]_accountsVars => AccountsInv'
  BY AccountsStepTyped, AccessSteps, LogSteps DEF AccountsInv
<1> QED
  BY <1>1, <1>2, PTL DEF AccountsSpec

\* Every sanction, lift, appointment and revocation is in the audit log, once, as
\* soon as its request is done (EverythingIsWrittenDown).
THEOREM EverythingAlwaysWrittenDown ==
    ASSUME OneRequest, ~ StrayLifts PROVE AccountsSpec => []EverythingIsWrittenDown
<1>1. ASSUME AccountsInv, NoneBusy(doing), NEW actor \in Members, NEW a \in Members
      PROVE  /\ \A kind \in SanctionKinds : Judged(actor, kind, a) = Written(actor, kind, a)
             /\ Written(actor, "lift", a) = Cardinality(LiftedRows(actor, a))
             /\ Written(actor, "grant_admin", a) = Cardinality(GrantedRows(actor, a))
             /\ Written(actor, "revoke_admin", a) = Cardinality(RevokedRows(actor, a))
  <2>1. doing[1] = Idle
    BY <1>1 DEF NoneBusy, AccountsInv, AccountsTyped, JobsTyped, OneRequest
  <2>2. ASSUME NEW action \in Acts PROVE Cardinality(InLog(actor, action, a)) = Written(actor, action, a)
    <3>1. Due(doing[1], actor, action, a) = 0
      BY <2>1, JobFields DEF Due
    <3>2. Written(actor, action, a) \in Nat
      BY <1>1 DEF AccountsInv, LogOK, Written, BagIn, BagToSet
    <3>3. Cardinality(InLog(actor, action, a)) = Written(actor, action, a) + Due(doing[1], actor, action, a)
      BY <1>1 DEF AccountsInv, LogOK, Counted
    <3> QED
      BY <3>1, <3>2, <3>3
  <2>3. \A kind \in SanctionKinds : InLog(actor, kind, a) = JudgedRows(actor, kind, a)
    BY DEF InLog
  <2>4. /\ InLog(actor, "lift", a) = LiftedRows(actor, a)
        /\ InLog(actor, "grant_admin", a) = GrantedRows(actor, a)
        /\ InLog(actor, "revoke_admin", a) = RevokedRows(actor, a)
    BY ActsDiffer DEF InLog
  <2>5. \A kind \in SanctionKinds : Judged(actor, kind, a) = Cardinality(JudgedRows(actor, kind, a))
    BY DEF Judged, JudgedRows
  <2>6. {"lift", "grant_admin", "revoke_admin"} \subseteq Acts /\ SanctionKinds \subseteq Acts
    BY DEF Acts
  <2> QED
    BY <2>2, <2>3, <2>4, <2>5, <2>6
<1>2. AccountsInv => EverythingIsWrittenDown
  BY <1>1 DEF EverythingIsWrittenDown, LiftedRows, GrantedRows, RevokedRows
<1> QED
  BY <1>2, AccountsInvariant, PTL

--------------------------------------------------------------------------------
(* The stores together *)

\* Each store takes its own steps and stutters through those of the others.
LEMMA PartsRun ==
    PeopleSpec => AccountsSpec /\ SocialSpec /\ ChatSpec /\ PresenceSpec /\ RatingsSpec
<1>1. PeopleInit => AccountsInit /\ SocialInit /\ ChatInit /\ PresenceInit /\ RatingsInit
  BY DEF PeopleInit
<1>2. [PeopleNext]_peopleVars =>
        /\ [AccountsNext]_accountsVars /\ [SocialNext]_socialVars /\ [ChatNext]_chatVars
        /\ [PresenceNext]_presenceVars /\ [RatingsNext]_ratingsVars
  BY DEF PeopleNext, peopleVars
<1> QED
  BY <1>1, <1>2, PTL DEF PeopleSpec, AccountsSpec, SocialSpec, ChatSpec, PresenceSpec, RatingsSpec

\* The tables and maps of all five stores are of their types and their rows refer to
\* rows, with any number of requests at work and any lifts and declines (PeopleTypeOK).
THEOREM PeopleAlwaysTyped == PeopleSpec => []PeopleTypeOK
<1>1. AccountsTyped /\ SocialTyped /\ ChatInv /\ PresenceInv /\ RatingsTyped => PeopleTypeOK
  BY AccountsTypes, SocialTypes, ChatTypes, PresenceTyped, RatingsTypes DEF PeopleTypeOK
<1> QED
  BY <1>1, PartsRun, AccountsAlwaysTyped, SocialAlwaysTyped, ChatInvariant, PresenceInvariant,
     RatingsAlwaysTyped, PTL

=================================================================================
