-------------------------------- MODULE Accounts -------------------------------
(* Accounts, sessions and moderation: account/account.go, api/auth.go,          *)
(* moderation/roles.go, sanctions.go, labels.go, banners.go, api/moderation.go. *)
(*                                                                              *)
(* An account is written by several requests at once: a sign-in, a change of    *)
(* password, a ban and its lifting each read, then write, then end sessions.    *)
(* A password is a member of a small set and its hash is the password with a    *)
(* mark saying whether it was made with weaker parameters; a username is the    *)
(* account.  A banned person's eviction from rooms is Coordinator's.            *)
EXTENDS People, Functions, Bags

CONSTANTS
    HeadAdmin,        \* the head admin, appointed at deployment
    Passphrases,      \* the passwords people use
    FirstPassword,    \* and the one the head admin was appointed with
    Tokens,           \* bound: session tokens
    SessionLifetime,  \* SessionLifetime
    SanctionKinds,    \* of KindBan, KindMute and KindTimeout, those staff use
    Durations,        \* how long staff sanction for; 0 is for ever
    Labels,           \* KnownLabels
    Banners,          \* bound: banners
    StrayLifts,       \* whether a lift may name another account than its sanction's
    MaxClock,         \* bound on time
    MaxActs           \* bound: entries of the audit log

ASSUME AccountsAssumption ==
    /\ HeadAdmin \in Members /\ FirstPassword \in Passphrases
    /\ SessionLifetime \in Nat /\ Durations \subseteq Nat
    /\ SanctionKinds \subseteq {"ban", "mute", "timeout"}
    /\ StrayLifts \in BOOLEAN
    /\ MaxClock \in Nat /\ MaxActs \in Nat

VARIABLES
    accounts,    \* the accounts table: a function on the accounts that exist
    sessions,    \* the sessions table, and in each row the password that opened it
    grants,      \* the role_grants table
    sanctions,   \* the sanctions table
    labels,      \* player_labels: <<account, label>> -> actor
    banners,     \* banner -> whether it is active, for those there are
    audit,       \* admin_actions, whose order nothing reads
    doing,       \* request -> what its handler has yet to do
    clock

tables       == <<accounts, sessions, grants, sanctions, labels, banners, audit>>
accountsVars == <<tables, doing, clock>>

NewAccount(word) ==
    [password |-> word, weak |-> FALSE, disabled |-> FALSE, terms |-> FALSE]

Grant(a, role, by) == [account |-> a, role |-> role, by |-> by, revokedBy |-> Nobody]

\* A deployment with a head admin, whose hash may be of an older making.
AccountsInit ==
    /\ \E weak \in BOOLEAN :
          accounts = [a \in {HeadAdmin} |->
                         [NewAccount(FirstPassword) EXCEPT !.weak = weak, !.terms = TRUE]]
    /\ grants = <<Grant(HeadAdmin, "head_admin", Nobody)>>
    /\ sessions = <<>> /\ sanctions = <<>> /\ labels = <<>> /\ banners = <<>>
    /\ audit = SetToBag({[actor |-> HeadAdmin, action |-> "bootstrap_head_admin", subject |-> HeadAdmin]})
    /\ doing = [q \in 1 .. AtOnce |-> Idle]
    /\ clock = 1

Begin(q, call)    == doing[q] = Idle /\ doing' = [doing EXCEPT ![q] = call]
Continue(q, call) == doing' = [doing EXCEPT ![q] = call]
Finish(q)         == Continue(q, Idle)
Signed(q)         == doing[q].do = "signed_in"
--------------------------------------------------------------------------------
(* Signing up, signing in, and who a request is from *)

Opening(a, word) == [do |-> "open", who |-> a, word |-> word]

\* The terms are accepted in the body; a name that is taken is refused.
SignUp(q, a, word) ==
    /\ a \notin DOMAIN accounts
    /\ Begin(q, [do |-> "terms", who |-> a, word |-> word])
    /\ accounts' = Put(accounts, a, NewAccount(word))
    /\ UNCHANGED <<sessions, grants, sanctions, labels, banners, audit, clock>>

AcceptTerms(q) ==
    /\ doing[q].do = "terms"
    /\ accounts' = [accounts EXCEPT ![doing[q].who].terms = TRUE]
    /\ Continue(q, Opening(doing[q].who, doing[q].word))
    /\ UNCHANGED <<sessions, grants, sanctions, labels, banners, audit, clock>>

\* Authenticate: the row is read, then the password checked against it.
SignIn(q, a, word) ==
    /\ a \in DOMAIN accounts
    /\ accounts[a].password = word /\ ~ accounts[a].disabled
    /\ Begin(q, IF accounts[a].weak THEN [do |-> "rehash", who |-> a, word |-> word]
                ELSE Opening(a, word))
    /\ UNCHANGED <<tables, clock>>

Rehash(q) ==
    /\ doing[q].do = "rehash"
    /\ accounts' = [accounts EXCEPT ![doing[q].who].password = doing[q].word,
                                    ![doing[q].who].weak = FALSE]
    /\ Continue(q, Opening(doing[q].who, doing[q].word))
    /\ UNCHANGED <<sessions, grants, sanctions, labels, banners, audit, clock>>

\* A token is random: never one that is or was in use by a request at work.
Fresh == Tokens \ (DOMAIN sessions \union
                   {doing[q].token : q \in {r \in 1 .. AtOnce : doing[r].do = "resolve"}})

StartSession(q) ==
    /\ doing[q].do = "open"
    /\ \E t \in Fresh :
          sessions' = Put(sessions, t, [account |-> doing[q].who, opened |-> doing[q].word,
                                         expires |-> clock + SessionLifetime])
    /\ Finish(q)
    /\ UNCHANGED <<accounts, grants, sanctions, labels, banners, audit, clock>>

Without(f, S) == Restrict(f, DOMAIN f \ S)

\* Resolve finds the session.  Deleting an expired one changes nothing for
\* anybody who asks again.
Arrive(q, t) ==
    /\ t \in DOMAIN sessions
    /\ IF clock > sessions[t].expires
       THEN doing[q] = Idle /\ sessions' = Without(sessions, {t}) /\ UNCHANGED doing
       ELSE /\ Begin(q, [do |-> "resolve", token |-> t, who |-> sessions[t].account])
            /\ UNCHANGED sessions
    /\ UNCHANGED <<accounts, grants, sanctions, labels, banners, audit, clock>>

\* Resolve reads the account and slides the expiry of the row, if it still is there.
Resolve(q) ==
    LET c == doing[q] IN
    /\ c.do = "resolve"
    /\ IF accounts[c.who].disabled THEN Finish(q) /\ UNCHANGED sessions
       ELSE /\ Continue(q, [do |-> "signed_in", who |-> c.who])
            /\ sessions' = IF c.token \in DOMAIN sessions
                           THEN [sessions EXCEPT ![c.token].expires = clock + SessionLifetime]
                           ELSE sessions
    /\ UNCHANGED <<accounts, grants, sanctions, labels, banners, audit, clock>>

\* A handler that only reads, or refuses.
Answer(q) == Signed(q) /\ Finish(q) /\ UNCHANGED <<tables, clock>>

\* signOut asks for no session: it deletes whichever the header names.
SignOut(t) ==
    /\ t \in DOMAIN sessions
    /\ sessions' = Without(sessions, {t})
    /\ UNCHANGED <<accounts, grants, sanctions, labels, banners, audit, doing, clock>>
--------------------------------------------------------------------------------
(* Passwords *)

\* Mutant of ChangePassword: the devices that are signed in stay so.
ChangePasswordHere(q, next) ==
    /\ Signed(q)
    /\ Continue(q, [do |-> "set_password", who |-> doing[q].who, word |-> next,
                    then |-> Opening(doing[q].who, next)])
    /\ UNCHANGED <<tables, clock>>

\* The current password was asked for and was right.
ChangePassword(q, next) ==
    /\ Signed(q)
    /\ Continue(q, [do |-> "set_password", who |-> doing[q].who, word |-> next,
                    then |-> [do |-> "end_all", who |-> doing[q].who,
                              then |-> Opening(doing[q].who, next)]])
    /\ UNCHANGED <<tables, clock>>

SetPassword(q) ==
    LET c == doing[q] IN
    /\ c.do = "set_password"
    /\ accounts' = [accounts EXCEPT ![c.who].password = c.word, ![c.who].weak = FALSE]
    /\ Continue(q, c.then)
    /\ UNCHANGED <<sessions, grants, sanctions, labels, banners, audit, clock>>

EndAllSessions(q) ==
    LET c == doing[q] IN
    /\ c.do = "end_all"
    /\ sessions' = Without(sessions, {t \in DOMAIN sessions : sessions[t].account = c.who})
    /\ Continue(q, c.then)
    /\ UNCHANGED <<accounts, grants, sanctions, labels, banners, audit, clock>>
--------------------------------------------------------------------------------
(* Staff *)

Standing(a) == {grants[i].role : i \in {j \in DOMAIN grants :
                  grants[j].account = a /\ grants[j].revokedBy = Nobody}}

RoleOf(a) ==
    IF "head_admin" \in Standing(a) THEN "head_admin"
    ELSE IF "admin" \in Standing(a) THEN "admin" ELSE ""

IsStaff(a) == RoleOf(a) # ""

MayActAgainst(actor, target) ==
    \/ actor = target
    \/ RoleOf(target) = ""
    \/ RoleOf(target) = "admin" /\ RoleOf(actor) = "head_admin"

Active(s) == s.liftedBy = Nobody /\ (s.until = 0 \/ clock < s.until)

ActiveSanctions(a) ==
    {i \in DOMAIN sanctions : sanctions[i].account = a /\ Active(sanctions[i])}

Banned(a) == \E i \in ActiveSanctions(a) : sanctions[i].kind = "ban"

Recording(actor, action, subject, then) ==
    [do |-> "record", actor |-> actor, action |-> action, subject |-> subject, then |-> then]

Record(q) ==
    LET c == doing[q] IN
    /\ c.do = "record"
    /\ audit' = audit (+) SetToBag({[actor |-> c.actor, action |-> c.action, subject |-> c.subject]})
    /\ Continue(q, c.then)
    /\ UNCHANGED <<accounts, sessions, grants, sanctions, labels, banners, clock>>

\* The staff member request q is from, asking for one more act.
Acting(q) == Signed(q) /\ IsStaff(doing[q].who) /\ BagCardinality(audit) < MaxActs

Appoint(q, target) ==
    /\ Acting(q) /\ RoleOf(doing[q].who) = "head_admin"
    /\ target \in DOMAIN accounts /\ ~ IsStaff(target)
    /\ Continue(q, [do |-> "grant", who |-> doing[q].who, target |-> target])
    /\ UNCHANGED <<tables, clock>>

GrantAdmin(q) ==
    LET c == doing[q] IN
    /\ c.do = "grant"
    /\ grants' = Append(grants, Grant(c.target, "admin", c.who))
    /\ Continue(q, Recording(c.who, "grant_admin", c.target, Idle))
    /\ UNCHANGED <<accounts, sessions, sanctions, labels, banners, audit, clock>>

\* The head admin's check, which no step can undo, then one statement that
\* stamps whatever stands.
RevokeAdmin(q, target) ==
    LET who == doing[q].who IN
    /\ Acting(q) /\ RoleOf(who) = "head_admin" /\ target # who
    /\ "admin" \in Standing(target)
    /\ grants' = [i \in DOMAIN grants |->
         IF grants[i].account = target /\ grants[i].role = "admin" /\ grants[i].revokedBy = Nobody
         THEN [grants[i] EXCEPT !.revokedBy = who] ELSE grants[i]]
    /\ Continue(q, Recording(who, "revoke_admin", target, Idle))
    /\ UNCHANGED <<accounts, sessions, sanctions, labels, banners, audit, clock>>

Disabling(a) == [do |-> "disable", who |-> a]

Judge(q, target, kind, for) ==
    /\ Acting(q) /\ target \in DOMAIN accounts
    /\ MayActAgainst(doing[q].who, target)
    /\ Continue(q, [do |-> "sanction", who |-> doing[q].who, target |-> target,
                    kind |-> kind, for |-> for])
    /\ UNCHANGED <<tables, clock>>

\* Mutant of Sanction: nothing is written down.
SanctionUnrecorded(q) ==
    LET c == doing[q] IN
    /\ c.do = "sanction"
    /\ sanctions' = Append(sanctions,
         [account |-> c.target, kind |-> c.kind, actor |-> c.who, liftedBy |-> Nobody,
          until |-> IF c.for > 0 THEN clock + c.for ELSE 0])
    /\ Continue(q, IF c.kind = "ban" THEN Disabling(c.target) ELSE Idle)
    /\ UNCHANGED <<accounts, sessions, grants, labels, banners, audit, clock>>

Sanction(q) ==
    LET c == doing[q] IN
    /\ c.do = "sanction"
    /\ sanctions' = Append(sanctions,
         [account |-> c.target, kind |-> c.kind, actor |-> c.who, liftedBy |-> Nobody,
          until |-> IF c.for > 0 THEN clock + c.for ELSE 0])
    /\ Continue(q, Recording(c.who, c.kind, c.target,
                             IF c.kind = "ban" THEN Disabling(c.target) ELSE Idle))
    /\ UNCHANGED <<accounts, sessions, grants, labels, banners, audit, clock>>

\* SetDisabled(true), which goes on to end the sessions.
Disable(q) ==
    LET c == doing[q] IN
    /\ c.do = "disable"
    /\ accounts' = [accounts EXCEPT ![c.who].disabled = TRUE]
    /\ Continue(q, [do |-> "end_all", who |-> c.who, then |-> Idle])
    /\ UNCHANGED <<sessions, grants, sanctions, labels, banners, audit, clock>>

\* liftSanction finds a sanction nobody has lifted; the body names the account
\* to let back in.
AskToLift(q, i, named) ==
    /\ Acting(q)
    /\ sanctions[i].liftedBy = Nobody
    /\ StrayLifts \/ named = sanctions[i].account
    /\ Continue(q, [do |-> "lift", who |-> doing[q].who, row |-> i, named |-> named])
    /\ UNCHANGED <<tables, clock>>

\* The statement stamps the row, lifted already or not.
Lift(q) ==
    LET c == doing[q] IN
    /\ c.do = "lift"
    /\ sanctions' = [sanctions EXCEPT ![c.row].liftedBy = c.who]
    /\ Continue(q, Recording(c.who, "lift", sanctions[c.row].account,
                             [do |-> "let_in", who |-> c.named]))
    /\ UNCHANGED <<accounts, sessions, grants, labels, banners, audit, clock>>

\* Mutant of LetIn: other bans are not asked about.
LetInAnyway(q) ==
    /\ doing[q].do = "let_in"
    /\ Continue(q, [do |-> "enable", who |-> doing[q].who])
    /\ UNCHANGED <<tables, clock>>

\* Restrictions: "if nothing is banning them any more, let them back in".
LetIn(q) ==
    /\ doing[q].do = "let_in"
    /\ IF Banned(doing[q].who) THEN Finish(q)
       ELSE Continue(q, [do |-> "enable", who |-> doing[q].who])
    /\ UNCHANGED <<tables, clock>>

\* SetDisabled(false).
Enable(q) ==
    /\ doing[q].do = "enable"
    /\ accounts' = IF doing[q].who \in DOMAIN accounts
                   THEN [accounts EXCEPT ![doing[q].who].disabled = FALSE] ELSE accounts
    /\ Finish(q)
    /\ UNCHANGED <<sessions, grants, sanctions, labels, banners, audit, clock>>

\* Nothing but a view reads marks and banners: check and write are one step.
LabelPlayer(q, target, label) ==
    LET who == doing[q].who IN
    /\ Acting(q) /\ target \in DOMAIN accounts /\ MayActAgainst(who, target)
    /\ labels' = Put(labels, <<target, label>>, who)
    /\ Continue(q, Recording(who, "label", target, Idle))
    /\ UNCHANGED <<accounts, sessions, grants, sanctions, banners, audit, clock>>

\* Taking a mark away asks only for staff, and is recorded whether there was one.
UnlabelPlayer(q, target, label) ==
    /\ Acting(q)
    /\ labels' = Without(labels, {<<target, label>>})
    /\ Continue(q, Recording(doing[q].who, "unlabel", target, Idle))
    /\ UNCHANGED <<accounts, sessions, grants, sanctions, banners, audit, clock>>

AddBanner(q, b, active) ==
    /\ Acting(q) /\ b \notin DOMAIN banners
    /\ banners' = Put(banners, b, active)
    /\ Continue(q, Recording(doing[q].who, "banner_add", b, Idle))
    /\ UNCHANGED <<accounts, sessions, grants, sanctions, labels, audit, clock>>

EditBanner(q, b, active) ==
    /\ Acting(q) /\ b \in DOMAIN banners
    /\ banners' = [banners EXCEPT ![b] = active]
    /\ Continue(q, Recording(doing[q].who, "banner_edit", b, Idle))
    /\ UNCHANGED <<accounts, sessions, grants, sanctions, labels, audit, clock>>

RemoveBanner(q, b) ==
    /\ Acting(q) /\ b \in DOMAIN banners
    /\ banners' = Without(banners, {b})
    /\ Continue(q, Recording(doing[q].who, "banner_remove", b, Idle))
    /\ UNCHANGED <<accounts, sessions, grants, sanctions, labels, audit, clock>>
--------------------------------------------------------------------------------
Wait == clock < MaxClock /\ clock' = clock + 1 /\ UNCHANGED <<tables, doing>>

\* Each handler is its steps.
signUp(q) ==
    \/ \E a \in Members, word \in Passphrases : SignUp(q, a, word)
    \/ AcceptTerms(q) \/ StartSession(q)

signIn(q) ==
    \/ \E a \in Members, word \in Passphrases : SignIn(q, a, word)
    \/ Rehash(q) \/ StartSession(q)

authenticated(q) == (\E t \in Tokens : Arrive(q, t)) \/ Resolve(q) \/ Answer(q)

changePassword(q) ==
    \/ \E next \in Passphrases : ChangePassword(q, next)
    \/ SetPassword(q) \/ EndAllSessions(q) \/ StartSession(q)

setRole(q) ==
    \/ \E target \in Members : Appoint(q, target) \/ RevokeAdmin(q, target)
    \/ GrantAdmin(q) \/ Record(q)

sanction(q) ==
    \/ \E target \in Members, kind \in SanctionKinds, for \in Durations : Judge(q, target, kind, for)
    \/ Sanction(q) \/ Record(q) \/ Disable(q) \/ EndAllSessions(q)

liftSanction(q) ==
    \/ \E i \in DOMAIN sanctions, named \in Members : AskToLift(q, i, named)
    \/ Lift(q) \/ Record(q) \/ LetIn(q) \/ Enable(q)

labelPlayer(q) ==
    \/ \E target \in Members, label \in Labels :
          LabelPlayer(q, target, label) \/ UnlabelPlayer(q, target, label)
    \/ Record(q)

editBanner(q) ==
    \/ \E b \in Banners :
          \/ RemoveBanner(q, b)
          \/ \E active \in BOOLEAN : AddBanner(q, b, active) \/ EditBanner(q, b, active)
    \/ Record(q)

AccountsNext ==
    \/ Wait
    \/ \E t \in Tokens : SignOut(t)
    \/ \E q \in 1 .. AtOnce :
          \/ authenticated(q) \/ signUp(q) \/ signIn(q) \/ changePassword(q)
          \/ setRole(q) \/ sanction(q) \/ liftSanction(q) \/ labelPlayer(q) \/ editBanner(q)

AccountsSpec == AccountsInit /\ [][AccountsNext]_accountsVars
--------------------------------------------------------------------------------
\* The tables hold rows of their type, and refer to accounts there are.
AccountsTypeOK ==
    /\ DOMAIN accounts \subseteq Members /\ DOMAIN sessions \subseteq Tokens
    /\ \A a \in DOMAIN accounts : accounts[a].password \in Passphrases
    /\ \A t \in DOMAIN sessions : sessions[t].account \in DOMAIN accounts
    /\ \A i \in DOMAIN grants : grants[i].account \in DOMAIN accounts
    /\ \A i \in DOMAIN sanctions :
          sanctions[i].account \in DOMAIN accounts /\ sanctions[i].kind \in SanctionKinds
    /\ DOMAIN banners \subseteq Banners

\* With no request at work, every session of an account was opened with the
\* password it has now, and a disabled account has none (account.go:
\* ChangePassword and SetDisabled sign every device out).
SessionsFollowTheAccount ==
    NoneBusy(doing) => \A t \in DOMAIN sessions :
        LET a == accounts[sessions[t].account] IN
        sessions[t].opened = a.password /\ ~ a.disabled

\* With no request at work, a ban in force keeps its account disabled, and an
\* account is disabled only while a ban on it stands that nobody lifted
\* (moderation.go: a ban has to bite now; if nothing is banning them any more,
\* let them back in).
DisabledFollowsBans ==
    NoneBusy(doing) => \A a \in DOMAIN accounts :
        /\ Banned(a) => accounts[a].disabled
        /\ accounts[a].disabled =>
              \E i \in DOMAIN sanctions : /\ sanctions[i].account = a /\ sanctions[i].kind = "ban"
                                          /\ sanctions[i].liftedBy = Nobody

\* The acts of one kind by one person about one person: as the tables tell them.
Judged(actor, kind, a) == Cardinality({i \in DOMAIN sanctions :
    sanctions[i].actor = actor /\ sanctions[i].kind = kind /\ sanctions[i].account = a})
Written(actor, action, a) ==
    LET line == [actor |-> actor, action |-> action, subject |-> a] IN
    IF BagIn(line, audit) THEN audit[line] ELSE 0

\* With no request at work, the audit log tells every sanction, every lift and
\* every appointment that the tables hold (moderation.go: nothing succeeds
\* without being written down).
EverythingIsWrittenDown ==
    NoneBusy(doing) => \A actor, a \in Members :
        /\ \A kind \in SanctionKinds : Judged(actor, kind, a) = Written(actor, kind, a)
        /\ Written(actor, "lift", a) = Cardinality({i \in DOMAIN sanctions :
              sanctions[i].liftedBy = actor /\ sanctions[i].account = a})
        /\ Written(actor, "grant_admin", a) = Cardinality({i \in DOMAIN grants :
              grants[i].by = actor /\ grants[i].account = a})
        /\ Written(actor, "revoke_admin", a) = Cardinality({i \in DOMAIN grants :
              grants[i].revokedBy = actor /\ grants[i].account = a})
=================================================================================
