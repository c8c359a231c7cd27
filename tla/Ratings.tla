--------------------------------- MODULE Ratings --------------------------------
(* A player's declared rating, in the two places it is kept: account/account.go *)
(* SetMMR, player/registry.go SetMMR, and what api/lobby.go updateMe and        *)
(* api/auth.go withSession do to keep the second in step with the first.        *)
(*                                                                              *)
(* Both places let a rating change once an interval, each by a clock of its     *)
(* own; a door that asks for a rating (api/privacy.go) believes the registry.   *)
EXTENDS People, Functions

CONSTANTS
    Raters,       \* the account ids
    Scores,       \* what people declare; 0 is also what nobody has declared
    Interval,     \* MMRChangeInterval
    LastDay       \* bound: the clock

ASSUME RatingsAssumption ==
    /\ Scores \subseteq Nat
    /\ Interval \in Nat \ {0} /\ LastDay \in Nat

VARIABLES
    declared,     \* accounts.mmr and mmr_set_at
    mirror,       \* Registry.players: MMR, MMRSetAt and LastSeen
    asking,       \* request -> what its handler has yet to do
    day

ratingsVars == <<declared, mirror, asking, day>>

Undeclared == [mmr |-> 0, at |-> 0]     \* a zero time is no time
FirstSeen  == [mmr |-> 0, at |-> 0, seen |-> 0]

RatingsInit ==
    /\ declared = [p \in Raters |-> Undeclared]
    /\ mirror = <<>>
    /\ asking = [q \in 1 .. AtOnce |-> Idle]
    /\ day = 1

Asks(q, call) == asking' = [asking EXCEPT ![q] = call]

\* Whether a rating that was set then may change now.
MayChange(at, now) == at = 0 \/ now >= at + Interval
--------------------------------------------------------------------------------
\* Mutant of Rated: the registry takes one rating and no other.
RatedOnce(e, mmr, now) == IF e.at = 0 THEN [e EXCEPT !.mmr = mmr, !.at = now] ELSE e

\* Registry.SetMMR.
Rated(e, mmr, now) ==
    IF (e.at = 0 \/ mmr # e.mmr) /\ MayChange(e.at, now)
    THEN [e EXCEPT !.mmr = mmr, !.at = now] ELSE e

\* A request with a session, or a sign-in: the account is read,
Arrives(q, p, wants) ==
    /\ asking[q] = Idle
    /\ Asks(q, [do |-> "mirror", who |-> p, mmr |-> declared[p].mmr, wants |-> wants])
    /\ UNCHANGED <<declared, mirror, day>>

\* then seen and mirrored; some are updateMe and declare a rating.  Seen makes the
\* entry that SetMMR fills at once.
Mirror(q) ==
    LET c == asking[q]
        e == [(IF c.who \in DOMAIN mirror THEN mirror[c.who] ELSE FirstSeen) EXCEPT !.seen = day] IN
    /\ c.do = "mirror"
    /\ mirror' = Put(mirror, c.who, IF c.mmr > 0 THEN Rated(e, c.mmr, day) ELSE e)
    /\ Asks(q, IF c.wants = {} THEN Idle ELSE [do |-> "read", who |-> c.who, wants |-> c.wants])
    /\ UNCHANGED <<declared, day>>

Declaring(do, p, mmr) == [do |-> do, who |-> p, mmr |-> mmr, now |-> day]

\* Store.SetMMR reads the account: the same number again is no change,
ReadRating(q) ==
    LET c == asking[q] IN
    /\ c.do = "read"
    /\ \E mmr \in c.wants : LET d == declared[c.who] IN
          IF mmr = d.mmr /\ d.at # 0 THEN Asks(q, Declaring("follow", c.who, mmr))
          ELSE IF MayChange(d.at, day) THEN Asks(q, Declaring("write", c.who, mmr))
          ELSE Asks(q, Idle)
    /\ UNCHANGED <<declared, mirror, day>>

\* and any other is written.
SetMMR(q) ==
    LET c == asking[q] IN
    /\ c.do = "write"
    /\ declared' = [declared EXCEPT ![c.who] = [mmr |-> c.mmr, at |-> c.now]]
    /\ Asks(q, [c EXCEPT !.do = "follow"])
    /\ UNCHANGED <<mirror, day>>

\* updateMe mirrors what the database now says; a refusal is nobody's error.
Follow(q) ==
    LET c == asking[q] IN
    /\ c.do = "follow"
    /\ mirror' = IF c.who \in DOMAIN mirror
                 THEN [mirror EXCEPT ![c.who] = Rated(@, c.mmr, day)] ELSE mirror
    /\ Asks(q, Idle)
    /\ UNCHANGED <<declared, day>>

\* The registry's Sweep forgets somebody who has been silent,
Forget(p) ==
    /\ p \in DOMAIN mirror /\ mirror[p].seen < day
    /\ mirror' = Restrict(mirror, DOMAIN mirror \ {p})
    /\ UNCHANGED <<declared, asking, day>>

\* and a new process starts with an empty one.
StartOver ==
    /\ mirror' = <<>> /\ asking' = [q \in 1 .. AtOnce |-> Idle]
    /\ UNCHANGED <<declared, day>>

NextDay == day < LastDay /\ day' = day + 1 /\ UNCHANGED <<declared, mirror, asking>>

\* Each handler is its steps.
withSession(q) == (\E p \in Raters : Arrives(q, p, {})) \/ Mirror(q)

updateMe(q) ==
    \/ \E p \in Raters, mmr \in Scores : Arrives(q, p, {mmr})
    \/ Mirror(q) \/ ReadRating(q) \/ SetMMR(q) \/ Follow(q)

RatingsNext ==
    \/ \E q \in 1 .. AtOnce : withSession(q) \/ updateMe(q)
    \/ \E p \in Raters : Forget(p)
    \/ StartOver \/ NextDay

RatingsSpec == RatingsInit /\ [][RatingsNext]_ratingsVars
--------------------------------------------------------------------------------
\* Ratings are declared ones, and no clock is ahead.
RatingsTypeOK ==
    /\ \A p \in Raters : declared[p].mmr \in Scores \union {0} /\ declared[p].at \in 0 .. day
    /\ DOMAIN mirror \subseteq Raters
    /\ \A p \in DOMAIN mirror : mirror[p].mmr \in Scores \union {0} /\ mirror[p].at \in 0 .. day

\* applicant: what a door believes of somebody.
Believed(p) == IF p \in DOMAIN mirror THEN mirror[p].mmr ELSE 0

\* A rating the doors believe differs from the declared one only until its owner
\* asks for anything an interval after the registry took it, whenever the process
\* was started and whoever was forgotten meanwhile (lobby.go, updateMe: the
\* registry mirrors what the database says); a declared zero is not mirrored.
DoorsCatchUp ==
    NoneBusy(asking) => \A p \in DOMAIN mirror :
        \/ Believed(p) = declared[p].mmr
        \/ declared[p].mmr = 0
        \/ mirror[p].seen < mirror[p].at + Interval
=================================================================================
