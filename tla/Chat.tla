---------------------------------- MODULE Chat ---------------------------------
(* The channels and the polls that read them: chat/chat.go, and sync, postChat  *)
(* and the room handlers' announcements in api/lobby.go and api/http.go.        *)
(*                                                                              *)
(* The board lives in the process: a restart forgets it, and clients keep their *)
(* cursors.  Every call into the board or the room store is a step.  A message  *)
(* is its id; of rooms there is only whether they are open and who sits there.  *)
EXTENDS People, Functions, FiniteSetsExt

CONSTANTS
    Lobby,          \* Lobby, the channel of everybody
    RoomIds,        \* room identifiers, each drawn once
    History,        \* History, the messages a channel keeps
    MaxPosts,       \* bound: messages of one life of the process
    MaxLives        \* bound: lives of the process

ASSUME ChatAssumption ==
    /\ Lobby \notin RoomIds
    /\ History \in Nat \ {0} /\ MaxPosts \in Nat /\ MaxLives \in Nat

VARIABLES
    channels,    \* Board.channels: channel -> the messages it keeps
    nextID,      \* Board.nextID
    rooms,       \* room -> "unused", "open", "ended" (still stored) or "gone"
    seats,       \* person -> the room they sit in, or Lobby
    clients,     \* person -> the cursors of their app, its start, what it has shown
    working,     \* handler -> what it has yet to do
    dropping,    \* the channels runTimers has yet to drop
    life         \* how often the process has started

board    == <<channels, nextID>>
places   == <<rooms, seats>>
chatVars == <<board, places, clients, working, dropping, life>>

Channels  == {Lobby} \union RoomIds
NewClient == [opened |-> life, cursor |-> [ch \in Channels |-> 0], heard |-> [ch \in Channels |-> <<>>]]

ChatInit ==
    /\ channels = <<>> /\ nextID = 0
    /\ rooms = [id \in RoomIds |-> "unused"] /\ seats = [p \in Players |-> Lobby]
    /\ life = 1 /\ clients = [p \in Players |-> NewClient]
    /\ working = [h \in 1 .. AtOnce |-> Idle]
    /\ dropping = {}

Work(h, job)  == working' = [working EXCEPT ![h] = job]
Start(h, job) == working[h] = Idle /\ Work(h, job)

Kept(ch)  == IF ch \in DOMAIN channels THEN channels[ch] ELSE <<>>

\* Mutant of Newest: the oldest goes one message late.
NewestAndOne(s) == IF Len(s) > History + 1 THEN SubSeq(s, Len(s) - History, Len(s)) ELSE s

Newest(s) == IF Len(s) > History THEN SubSeq(s, Len(s) - History + 1, Len(s)) ELSE s

\* append: a channel is made by its first message, and the oldest goes.
Posted(ch) ==
    /\ nextID' = nextID + 1
    /\ channels' = Put(channels, ch, Newest(Append(Kept(ch), nextID + 1)))

\* Ids grow along a channel: what is newer than a cursor is its end.
Since(ch, cursor) ==
    LET old == {i \in DOMAIN Kept(ch) : Kept(ch)[i] <= cursor} IN
    SubSeq(Kept(ch), Max({0} \union old) + 1, Len(Kept(ch)))

\* Mutant of CursorAfter: a quiet channel starts over.
CursorAfterQuiet(was, msgs) == IF msgs = <<>> THEN 0 ELSE msgs[Len(msgs)]

CursorAfter(was, msgs) == IF msgs = <<>> THEN was ELSE msgs[Len(msgs)]

Dropped(S) == channels' = Restrict(channels, DOMAIN channels \ S)
--------------------------------------------------------------------------------
(* sync, the client's only poll *)

Polling(p) == {h \in 1 .. AtOnce : working[h].do \in {"lobby", "room", "reply"} /\ working[h].who = p}

\* A client has one poll out; it names the room it believes it is in.
Poll(h, p, room) ==
    /\ Polling(p) = {}
    /\ Start(h, [do |-> "lobby", who |-> p, room |-> room])
    /\ UNCHANGED <<board, places, clients, dropping, life>>

Reply(p, heard) == [do |-> "reply", who |-> p, heard |-> heard]

\* The lobby's messages, and whether the caller is seated where they say.
ReadLobby(h) ==
    LET j == working[h]
        heard == [ch \in {Lobby} |-> Since(Lobby, clients[j.who].cursor[Lobby])] IN
    /\ j.do = "lobby"
    /\ Work(h, IF j.room # Lobby /\ seats[j.who] = j.room
               THEN [do |-> "room", who |-> j.who, room |-> j.room, heard |-> heard]
               ELSE Reply(j.who, heard))
    /\ UNCHANGED <<board, places, clients, dropping, life>>

ReadRoom(h) ==
    LET j == working[h] IN
    /\ j.do = "room"
    /\ Work(h, Reply(j.who, Put(j.heard, j.room, Since(j.room, clients[j.who].cursor[j.room]))))
    /\ UNCHANGED <<board, places, clients, dropping, life>>

\* The client shows what came and keeps the cursors.
Deliver(h) ==
    LET j == working[h]  c == clients[j.who] IN
    /\ j.do = "reply"
    /\ clients' = [clients EXCEPT
         ![j.who].cursor = Over([ch \in DOMAIN j.heard |-> CursorAfter(c.cursor[ch], j.heard[ch])], @),
         ![j.who].heard  = Over([ch \in DOMAIN j.heard |->
              c.heard[ch] \o [i \in DOMAIN j.heard[ch] |-> <<life, j.heard[ch][i]>>]], @)]
    /\ Work(h, Idle)
    /\ UNCHANGED <<board, places, dropping, life>>

LoseReply(h) ==
    /\ working[h].do = "reply" /\ Work(h, Idle)
    /\ UNCHANGED <<board, places, clients, dropping, life>>

\* Somebody starts their app again.
OpenApp(p) ==
    /\ Polling(p) = {} /\ clients[p] # NewClient
    /\ clients' = [clients EXCEPT ![p] = NewClient]
    /\ UNCHANGED <<board, places, working, dropping, life>>
--------------------------------------------------------------------------------
(* Talking, and what the room handlers tell *)

Telling(chs, then) == [do |-> "tell", channels |-> chs, then |-> then]
Dropping(id)       == [do |-> "drop", room |-> id]

\* postChat: only people in a room talk in it; a mute refuses.
PostChat(h, p, ch) ==
    /\ ch = Lobby \/ seats[p] = ch
    /\ nextID < MaxPosts
    /\ Start(h, Telling(<<ch>>, Idle))
    /\ UNCHANGED <<board, places, clients, dropping, life>>

\* One message, and the next.
Post(h) ==
    LET left == working[h].channels IN
    /\ working[h].do = "tell"
    /\ Posted(Head(left))
    /\ Work(h, IF Tail(left) = <<>> THEN working[h].then ELSE Telling(Tail(left), working[h].then))
    /\ UNCHANGED <<places, clients, dropping, life>>

Tell(h, chs, then) == nextID < MaxPosts /\ Start(h, Telling(chs, then))

\* A seat in a room that ended keeps nobody from another.
Free(p) == seats[p] \in {Lobby} \union {id \in RoomIds : rooms[id] = "ended"}

\* createRoom tells the room, then the lobby.
CreateRoom(h, p, id) ==
    /\ Free(p) /\ rooms[id] = "unused"
    /\ rooms' = [rooms EXCEPT ![id] = "open"] /\ seats' = [seats EXCEPT ![p] = id]
    /\ Tell(h, <<id, Lobby>>, Idle)
    /\ UNCHANGED <<board, clients, dropping, life>>

JoinRoom(h, p, id) ==
    /\ Free(p) /\ rooms[id] = "open"
    /\ seats' = [seats EXCEPT ![p] = id]
    /\ Tell(h, <<id>>, Idle)
    /\ UNCHANGED <<board, rooms, clients, dropping, life>>

\* A departure, also from a room that has ended, or a kick.
LeaveRoom(h, p) ==
    /\ seats[p] # Lobby
    /\ seats' = [seats EXCEPT ![p] = Lobby]
    /\ Tell(h, <<seats[p]>>, Idle)
    /\ UNCHANGED <<board, rooms, clients, dropping, life>>

\* The host's departure ends the room, which is told; then the channel goes.
HostLeaves(h, p) ==
    /\ ~ Free(p)
    /\ rooms' = [rooms EXCEPT ![seats[p]] = "ended"]
    /\ seats' = [seats EXCEPT ![p] = Lobby]
    /\ Tell(h, <<seats[p]>>, Dropping(seats[p]))
    /\ UNCHANGED <<board, clients, dropping, life>>

\* A host who sets the status to closed: it is told, and nothing is dropped.
SetStatusClosed(h, id) ==
    /\ rooms[id] = "open" /\ rooms' = [rooms EXCEPT ![id] = "ended"]
    /\ Tell(h, <<id>>, Idle)
    /\ UNCHANGED <<board, seats, clients, dropping, life>>

\* Staff end a room with one call and drop its channel with another.
CloseRoom(h, id) ==
    /\ rooms[id] = "open" /\ rooms' = [rooms EXCEPT ![id] = "ended"]
    /\ Start(h, Dropping(id))
    /\ UNCHANGED <<board, seats, clients, dropping, life>>

Drop(h) ==
    /\ working[h].do = "drop"
    /\ Dropped({working[h].room})
    /\ Work(h, Idle)
    /\ UNCHANGED <<nextID, places, clients, dropping, life>>

\* A tick ends rooms and forgets rooms that had ended; whoever sat there is nowhere.
Tick(ending, gone) ==
    /\ dropping = {} /\ ending \union gone # {}
    /\ \A id \in ending : rooms[id] = "open"
    /\ \A id \in gone : rooms[id] = "ended"
    /\ rooms' = Over([id \in ending |-> "ended"], Over([id \in gone |-> "gone"], rooms))
    /\ seats' = [p \in Players |-> IF seats[p] \in gone THEN Lobby ELSE seats[p]]
    /\ dropping' = ending
    /\ UNCHANGED <<board, clients, working, life>>

TimerDrop(id) ==
    /\ id \in dropping /\ dropping' = dropping \ {id}
    /\ Dropped({id})
    /\ UNCHANGED <<nextID, places, clients, working, life>>

\* The process goes and starts again: only the clients remain.
Restart ==
    /\ life < MaxLives /\ life' = life + 1
    /\ channels' = <<>> /\ nextID' = 0
    /\ rooms' = [id \in RoomIds |-> IF rooms[id] = "unused" THEN "unused" ELSE "gone"]
    /\ seats' = [p \in Players |-> Lobby]
    /\ working' = [h \in 1 .. AtOnce |-> Idle] /\ dropping' = {}
    /\ UNCHANGED clients

\* Each handler, and the timer, is its steps.
sync(h) ==
    \/ \E p \in Players, ch \in Channels : Poll(h, p, ch)
    \/ ReadLobby(h) \/ ReadRoom(h) \/ Deliver(h) \/ LoseReply(h)

postChat(h) == (\E p \in Players, ch \in Channels : PostChat(h, p, ch)) \/ Post(h)

createRoom(h) == (\E p \in Players, id \in RoomIds : CreateRoom(h, p, id)) \/ Post(h)

joinRoom(h) == (\E p \in Players, id \in RoomIds : JoinRoom(h, p, id)) \/ Post(h)

leaveRoom(h) == (\E p \in Players : LeaveRoom(h, p) \/ HostLeaves(h, p)) \/ Post(h) \/ Drop(h)

setStatus(h) == (\E id \in RoomIds : SetStatusClosed(h, id)) \/ Post(h)

closeRoom(h) == (\E id \in RoomIds : CloseRoom(h, id)) \/ Drop(h)

runTimers ==
    \/ \E ending \in SUBSET RoomIds, gone \in SUBSET RoomIds : Tick(ending, gone)
    \/ \E id \in RoomIds : TimerDrop(id)

ChatNext ==
    \/ \E h \in 1 .. AtOnce :
          \/ sync(h) \/ postChat(h) \/ createRoom(h) \/ joinRoom(h) \/ leaveRoom(h)
          \/ setStatus(h) \/ closeRoom(h)
    \/ runTimers
    \/ \E p \in Players : OpenApp(p)
    \/ Restart

ChatSpec == ChatInit /\ [][ChatNext]_chatVars
--------------------------------------------------------------------------------
\* A channel keeps some messages and no more than it may; a seat is in a room
\* the store has.
ChatTypeOK ==
    /\ DOMAIN channels \subseteq Channels
    /\ \A ch \in DOMAIN channels : Len(channels[ch]) \in 1 .. History
    /\ \A p \in Players : seats[p] # Lobby => rooms[seats[p]] \in {"open", "ended"}

\* What an app shows of a channel is in the order it was said, nothing twice;
\* and, as long as the coordinator has lived, it has everything up to its cursor
\* that the channel still keeps, whatever replies were lost (chat.go, Since:
\* messages newer than a cursor, oldest first; lobby.go, cursorAfter).
ScreensFollowTheBoard ==
    \A p \in Players, ch \in Channels :
        LET c == clients[p]
            Earlier(m, n) == m[1] < n[1] \/ (m[1] = n[1] /\ m[2] < n[2]) IN
        /\ \A i, j \in DOMAIN c.heard[ch] : i < j => Earlier(c.heard[ch][i], c.heard[ch][j])
        /\ c.opened = life =>
              \A m \in Range(Kept(ch)) : m <= c.cursor[ch] => <<life, m>> \in Range(c.heard[ch])
=================================================================================
