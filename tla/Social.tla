--------------------------------- MODULE Social --------------------------------
(* The friend graph, private messages and room invitations: social/social.go,   *)
(* api/social.go.                                                               *)
(*                                                                              *)
(* Request, Send and InviteToRoom ask about blocks with a statement of their    *)
(* own before the transaction or the statement that writes, and reading a       *)
(* conversation marks it read with another: other requests run in between.      *)
EXTENDS People, Functions, FiniteSetsExt

CONSTANTS
    MaxFriends,     \* MaxFriends
    PollLimit,      \* how many messages one Conversation returns
    OpenRooms,      \* the rooms people are seated in together
    StaleInboxes,   \* whether people decline requests that are pending no more
    MaxRows         \* bound: private messages and invitations

ASSUME SocialAssumption ==
    /\ MaxFriends \in Nat \ {0} /\ PollLimit \in Nat \ {0}
    /\ StaleInboxes \in BOOLEAN
    /\ MaxRows \in Nat

VARIABLES
    edges,          \* the friend_edges table: <<from, to>> -> state
    blocks,         \* the blocks table: <<blocker, blocked>>
    messages,       \* the private_messages table; a row's id is its place
    shown,          \* ids of the messages their addressee has been sent
    invitations,    \* the room_invites table
    calling         \* request -> the store call its handler is in

socialVars == <<edges, blocks, messages, shown, invitations, calling>>

SocialInit ==
    /\ edges = <<>> /\ blocks = {}
    /\ messages = <<>> /\ shown = {} /\ invitations = <<>>
    /\ calling = [q \in 1 .. AtOnce |-> Idle]

Call(q, c)  == calling[q] = Idle /\ calling' = [calling EXCEPT ![q] = c]
Return(q)   == calling' = [calling EXCEPT ![q] = Idle]
Answered(q) == calling[q] = Idle /\ UNCHANGED calling

EitherBlocked(a, b) == <<a, b>> \in blocks \/ <<b, a>> \in blocks
EdgeState(a, b)     == IF <<a, b>> \in DOMAIN edges THEN edges[<<a, b>>] ELSE "none"
AreFriends(a, b)    == a # b /\ EdgeState(a, b) = "accepted" /\ EdgeState(b, a) = "accepted"

Friends(me)   == {b \in Persons : EdgeState(me, b) = "accepted"}
Incoming(me)  == {b \in Persons : EdgeState(b, me) = "requested"}
Outgoing(me)  == {b \in Persons : EdgeState(me, b) = "requested"}
Blocked(me)   == {b \in Persons : <<me, b>> \in blocks}
Unread(me, b) == {i \in DOMAIN messages :
                    messages[i].from = b /\ messages[i].to = me /\ ~ messages[i].read}

\* The rail of the app.
friendList(me) ==
    [friends |-> Friends(me), incoming |-> Incoming(me), outgoing |-> Outgoing(me),
     blocked |-> Blocked(me), unread |-> [b \in Persons |-> Unread(me, b)]]

HasRoom(a)          == Cardinality(Friends(a)) < MaxFriends
Apart(S)            == Restrict(edges, DOMAIN edges \ S)
BothWays(a, b)      == {<<a, b>>, <<b, a>>}
MoreRows            == Len(messages) + Len(invitations) < MaxRows
--------------------------------------------------------------------------------
(* Friends *)

\* Mutant of MayAccept: only the one who accepts is counted.
MayAcceptOneSided(me, them) == HasRoom(me)

MayAccept(me, them) == HasRoom(me) /\ HasRoom(them)

\* acceptWithin: both rows, whatever they were.
AcceptWithin(me, them) ==
    edges' = Over([e \in BothWays(me, them) |-> "accepted"], edges)

\* A block is silent: the request of somebody blocked is dropped.
AskRequest(q, from, to) ==
    /\ from # to /\ ~ EitherBlocked(from, to)
    /\ Call(q, [do |-> "request", from |-> from, to |-> to])
    /\ UNCHANGED <<edges, blocks, messages, shown, invitations>>

\* The transaction.  Whoever was asked already and asks back accepts.
Request(q) ==
    LET from == calling[q].from  to == calling[q].to IN
    /\ calling[q].do = "request"
    /\ Return(q)
    /\ IF EdgeState(to, from) # "none"
       THEN IF MayAccept(from, to) THEN AcceptWithin(from, to) ELSE UNCHANGED edges
       ELSE edges' = IF HasRoom(from) THEN Over(edges, [e \in {<<from, to>>} |-> "requested"]) ELSE edges
    /\ UNCHANGED <<blocks, messages, shown, invitations>>

Accept(q, me, them) ==
    /\ Answered(q)
    /\ me # them /\ EdgeState(them, me) # "none" /\ MayAccept(me, them)
    /\ AcceptWithin(me, them)
    /\ UNCHANGED <<blocks, messages, shown, invitations>>

\* Decline deletes the row of the other, whatever it says by now.
Decline(q, me, them) ==
    /\ Answered(q)
    /\ IF StaleInboxes THEN EdgeState(them, me) # "none" ELSE EdgeState(them, me) = "requested"
    /\ edges' = Apart({<<them, me>>})
    /\ UNCHANGED <<blocks, messages, shown, invitations>>

Remove(q, me, them) ==
    /\ Answered(q)
    /\ edges' = Apart(BothWays(me, them))
    /\ UNCHANGED <<blocks, messages, shown, invitations>>

Block(q, me, them) ==
    /\ Answered(q)
    /\ me # them
    /\ blocks' = blocks \union {<<me, them>>}
    /\ edges' = Apart(BothWays(me, them))
    /\ UNCHANGED <<messages, shown, invitations>>

Unblock(q, me, them) ==
    /\ Answered(q)
    /\ <<me, them>> \in blocks
    /\ blocks' = blocks \ {<<me, them>>}
    /\ UNCHANGED <<edges, messages, shown, invitations>>
--------------------------------------------------------------------------------
(* Messages and invitations *)

\* privateMessages with a body: Send asks about blocks and about friendship, and
\* writes with a third statement; a message across a block is dropped silently.
AskSend(q, from, to) ==
    /\ from # to /\ ~ EitherBlocked(from, to) /\ AreFriends(from, to)
    /\ MoreRows
    /\ Call(q, [do |-> "send", me |-> from, them |-> to])
    /\ UNCHANGED <<edges, blocks, messages, shown, invitations>>

Send(q) ==
    LET c == calling[q] IN
    /\ c.do = "send"
    /\ messages' = Append(messages, [from |-> c.me, to |-> c.them, read |-> FALSE])
    /\ calling' = [calling EXCEPT ![q] = [c EXCEPT !.do = "read"]]
    /\ UNCHANGED <<edges, blocks, shown, invitations>>

\* The ids of a conversation after a cursor, and the oldest of them one poll returns.
Between(me, them, after) ==
    {i \in (after + 1) .. Len(messages) : {messages[i].from, messages[i].to} = {me, them}}
Oldest(S) == {i \in S : Cardinality({j \in S : j <= i}) <= PollLimit}

\* The app asks from the start each time; another client, from the last it has.
Cursors(me, them) == {0, Max({0} \union (Between(me, them, 0) \intersect shown))}

\* privateMessages reads the conversation, and marks it read with a second call.
Conversation(q, me, them, after) ==
    /\ me # them
    /\ calling[q] \in {Idle, [do |-> "read", me |-> me, them |-> them]}
    /\ calling' = [calling EXCEPT ![q] = [do |-> "mark_read", me |-> me, them |-> them]]
    /\ shown' = shown \union {i \in Oldest(Between(me, them, after)) : messages[i].to = me}
    /\ UNCHANGED <<edges, blocks, messages, invitations>>

MarkRead(q) ==
    LET c == calling[q] IN
    /\ c.do = "mark_read"
    /\ messages' = [i \in DOMAIN messages |->
         IF messages[i].to = c.me /\ messages[i].from = c.them
         THEN [messages[i] EXCEPT !.read = TRUE] ELSE messages[i]]
    /\ Return(q)
    /\ UNCHANGED <<edges, blocks, shown, invitations>>

\* inviteFriend, from inside a room; opening the door is RoomStore's.
AskInvite(q, from, to, id) ==
    /\ MoreRows
    /\ from # to /\ ~ EitherBlocked(from, to) /\ AreFriends(from, to)
    /\ Call(q, [do |-> "invite", from |-> from, to |-> to, room |-> id])
    /\ UNCHANGED <<edges, blocks, messages, shown, invitations>>

InviteToRoom(q) ==
    LET c == calling[q] IN
    /\ c.do = "invite"
    /\ invitations' = Append(invitations,
                             [room |-> c.room, from |-> c.from, to |-> c.to, seen |-> FALSE])
    /\ Return(q)
    /\ UNCHANGED <<edges, blocks, messages, shown>>

MarkInvitationsSeen(q, me) ==
    /\ Answered(q)
    /\ invitations' = [i \in DOMAIN invitations |->
         IF invitations[i].to = me THEN [invitations[i] EXCEPT !.seen = TRUE] ELSE invitations[i]]
    /\ UNCHANGED <<edges, blocks, messages, shown>>
--------------------------------------------------------------------------------
\* Each handler is its steps.
befriend(q, a, b) ==
    \/ AskRequest(q, a, b) \/ Request(q)
    \/ Accept(q, a, b) \/ Decline(q, a, b) \/ Remove(q, a, b) \/ Block(q, a, b) \/ Unblock(q, a, b)

privateMessages(q, a, b) ==
    \/ AskSend(q, a, b) \/ Send(q)
    \/ \E after \in Cursors(a, b) : Conversation(q, a, b, after)
    \/ MarkRead(q)

inviteFriend(q, a, b) == (\E id \in OpenRooms : AskInvite(q, a, b, id)) \/ InviteToRoom(q)

SocialNext == \E q \in 1 .. AtOnce :
    \/ \E a, b \in Persons : befriend(q, a, b) \/ privateMessages(q, a, b) \/ inviteFriend(q, a, b)
    \/ \E a \in Persons : MarkInvitationsSeen(q, a)

SocialSpec == SocialInit /\ [][SocialNext]_socialVars
--------------------------------------------------------------------------------
\* The tables hold rows of their type.
SocialTypeOK ==
    /\ \A e \in DOMAIN edges : e \in Persons \X Persons /\ edges[e] \in {"requested", "accepted"}
    /\ blocks \subseteq Persons \X Persons
    /\ shown \subseteq DOMAIN messages
    /\ \A i \in DOMAIN messages : {messages[i].from, messages[i].to} \subseteq Persons
    /\ \A i \in DOMAIN invitations : invitations[i].room \in OpenRooms

\* A friendship is two rows: nobody's rail shows a friend on whose rail they are
\* not, and nobody has more friends than fit, whoever asked and whoever answered
\* (social.go: a friendship one person has left is not a friendship).
FriendshipIsMutual ==
    \A a \in Persons :
        /\ \A b \in friendList(a).friends : AreFriends(a, b)
        /\ Cardinality(friendList(a).friends) <= MaxFriends

\* Nobody is in two places of a rail: a friend waits for no answer, and two
\* requests that cross become a friendship (social.go, Request).
OnePlaceOnTheRail ==
    \A a \in Persons : LET rail == friendList(a) IN
        /\ rail.friends \intersect (rail.incoming \union rail.outgoing) = {}
        /\ rail.incoming \intersect rail.outgoing = {}

\* With no request at work, there is nothing between people one of whom has
\* blocked the other: no friendship and no request either way (social.go, Block).
BlockedAreApart ==
    NoneBusy(calling) => \A a \in Persons : \A b \in friendList(a).blocked :
        EdgeState(a, b) = "none" /\ EdgeState(b, a) = "none"

\* A message that no longer counts as unread was sent to the one it is for
\* (api/social.go: reading a conversation is what marks it read).
ReadWasShown ==
    \A i \in DOMAIN messages : LET m == messages[i] IN
        i \notin shown => i \in friendList(m.to).unread[m.from]

\* What everybody's rail shows agrees with everybody else's, in these four ways
\* (api/social.go, friendList; social.go, Remove and Block).
RailsAgree ==
    FriendshipIsMutual /\ OnePlaceOnTheRail /\ BlockedAreApart /\ ReadWasShown
=================================================================================
