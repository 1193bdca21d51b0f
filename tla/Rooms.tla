-------------------------------- MODULE Rooms --------------------------------
(***************************************************************************)
(* The lobby and the matchmaking queue of the multiplayer server.  A client*)
(* is one WebSocket connection with its playerId: it is open, then no      *)
(* longer writable (readyState is not OPEN, the close event is still to    *)
(* come), then closed; a player who reconnects is another client.  The     *)
(* server is one JavaScript process, so every handler is one step.         *)
(*                                                                         *)
(* Room ids count up, and every entry of the queue has a room made for it, *)
(* so the order of the queue is that of its room ids and the queue is a set*)
(* of pairs.  Names, clans, positions and chat are left out.               *)
(***************************************************************************)
EXTENDS Integers

CONSTANTS
  Clients,
  None,
  MaxRooms        \* bound on the room ids

RoomIds == 1..MaxRooms
Room == [host : Clients, players : SUBSET Clients]

ASSUME RoomsAssumption ==
  /\ MaxRooms \in Nat
  /\ None \notin RoomIds \cup Room

VARIABLES
  conn,           \* "open", "closing", "closed"
  authenticated,  \* ws.authenticated
  roomId,         \* ws.roomId
  rooms,          \* None, or [host, players] of a room in the map
  nextRoomId,
  queue,          \* _queue: <<client, room>>
  entered,        \* history: <<client, room>> put into room.players
  waiting,        \* history: clients told to wait, and neither matched,
                  \* cancelled nor sent away since
  matches         \* history: <<room, host, guest>> announced

roomVars == <<conn, authenticated, roomId, rooms, nextRoomId, queue, entered,
              waiting, matches>>

Init ==
  /\ conn = [c \in Clients |-> "open"]
  /\ authenticated = [c \in Clients |-> FALSE]
  /\ roomId = [c \in Clients |-> None]
  /\ rooms = [r \in RoomIds |-> None]
  /\ nextRoomId = 1
  /\ queue = {}
  /\ entered = {}
  /\ waiting = {}
  /\ matches = {}

-----------------------------------------------------------------------------
Open(c) == conn[c] = "open"

\* rooms.get(ws.roomId), as every room handler starts: the room c acts in.
HasRoom(c) == roomId[c] # None /\ rooms[roomId[c]] # None
Host(c) == rooms[roomId[c]].host

AuthVerify(c) ==
  /\ Open(c) /\ ~authenticated[c]
  /\ authenticated' = [authenticated EXCEPT ![c] = TRUE]
  /\ UNCHANGED <<conn, roomId, rooms, nextRoomId, queue, entered, waiting, matches>>

\* A room of c's own, with the next id.
NewRoom(c) ==
  /\ nextRoomId \in RoomIds
  /\ nextRoomId' = nextRoomId + 1
  /\ rooms' = [rooms EXCEPT ![nextRoomId] = [host |-> c, players |-> {c}]]
  /\ roomId' = [roomId EXCEPT ![c] = nextRoomId]
  /\ entered' = entered \cup {<<c, nextRoomId>>}

\* (Mutant of Enter: changing rooms takes the player out of the old one, which
\* is deleted when that leaves it empty.)
EnterAndLeave(c, r) ==
  LET joined == [rooms EXCEPT ![r].players = @ \cup {c}]
      old == roomId[c]
      left == IF old \in RoomIds \ {r} /\ rooms[old] # None
                THEN rooms[old].players \ {c} ELSE {}
  IN /\ rooms' = IF old \notin RoomIds \ {r} \/ rooms[old] = None THEN joined
                 ELSE [joined EXCEPT ![old] = IF left = {} THEN None
                                              ELSE [@ EXCEPT !.players = left]]
     /\ roomId' = [roomId EXCEPT ![c] = r]
     /\ entered' = {e \in entered : e[1] # c} \cup {<<c, r>>}

\* c goes into room r; the room it was in keeps it in its list.
Enter(c, r) ==
  /\ rooms' = [rooms EXCEPT ![r].players = @ \cup {c}]
  /\ roomId' = [roomId EXCEPT ![c] = r]
  /\ entered' = entered \cup {<<c, r>>}

CreateRoom(c) ==
  /\ Open(c) /\ authenticated[c]
  /\ NewRoom(c)
  /\ UNCHANGED <<conn, authenticated, queue, waiting, matches>>

JoinRoom(c, r) ==
  /\ Open(c) /\ authenticated[c]
  /\ rooms[r] # None
  /\ Enter(c, r)
  /\ UNCHANGED <<conn, authenticated, nextRoomId, queue, waiting, matches>>

\* The queue without the connections that are no longer open.
Evicted == {e \in queue : Open(e[1])}

\* The entry that has waited longest.
First(q) == CHOOSE e \in q : \A f \in q : e[2] <= f[2]

\* matchmaking_enqueue, for a client already in the queue: nothing but the
\* eviction of others.
EnqueueAgain(c) ==
  /\ Open(c)
  /\ \E e \in Evicted : e[1] = c
  /\ queue' = Evicted
  /\ UNCHANGED <<conn, authenticated, roomId, rooms, nextRoomId, entered,
                 waiting, matches>>

\* The first in the queue and c are matched in the room made for the first; or
\* the room is gone, and only c is told.
EnqueueAndMatch(c) ==
  /\ Open(c)
  /\ \A e \in Evicted : e[1] # c
  /\ Evicted # {}
  /\ LET e == First(Evicted)  h == e[1]  r == e[2] IN
     /\ queue' = Evicted \ {e}
     /\ IF rooms[r] = None
          THEN UNCHANGED <<roomId, rooms, entered, waiting, matches>>
          ELSE /\ Enter(c, r)
               /\ waiting' = waiting \ {h}
               /\ matches' = matches \cup {<<r, h, c>>}
  /\ UNCHANGED <<conn, authenticated, nextRoomId>>

\* (Mutant of EnqueueAndWait: c waits whoever else does.)
WaitsAnyway(c) ==
  /\ Open(c)
  /\ \A e \in Evicted : e[1] # c
  /\ NewRoom(c)
  /\ queue' = Evicted \cup {<<c, nextRoomId>>}
  /\ waiting' = waiting \cup {c}
  /\ UNCHANGED <<conn, authenticated, matches>>

\* Nobody waits: c gets a room of its own and a place in the queue.
EnqueueAndWait(c) ==
  /\ Open(c)
  /\ Evicted = {}
  /\ NewRoom(c)
  /\ queue' = {<<c, nextRoomId>>}
  /\ waiting' = waiting \cup {c}
  /\ UNCHANGED <<conn, authenticated, matches>>

\* matchmaking_cancel: the room stays.
Cancel(c) ==
  /\ Open(c)
  /\ queue' = {e \in queue : e[1] # c}
  /\ waiting' = waiting \ {c}
  /\ UNCHANGED <<conn, authenticated, roomId, rooms, nextRoomId, entered, matches>>

\* The socket stops being open: the peer is gone, or missed the heartbeat.
Disconnect(c) ==
  /\ Open(c)
  /\ conn' = [conn EXCEPT ![c] = "closing"]
  /\ UNCHANGED <<authenticated, roomId, rooms, nextRoomId, queue, entered,
                 waiting, matches>>

\* (Mutant of WithoutPlayer: a room goes with its host.)
GoneWithHost(room, c) ==
  IF room.host = c THEN None ELSE [room EXCEPT !.players = @ \ {c}]

\* A room once c has left: none when c was the last in it.
WithoutPlayer(room, c) ==
  IF room.players \ {c} = {} THEN None ELSE [room EXCEPT !.players = @ \ {c}]

\* The close event: c leaves the room it is in, and no other, and the queue
\* keeps it.
Close(c) ==
  /\ conn[c] = "closing"
  /\ conn' = [conn EXCEPT ![c] = "closed"]
  /\ rooms' = IF HasRoom(c)
                THEN [rooms EXCEPT ![roomId[c]] = WithoutPlayer(@, c)]
                ELSE rooms
  /\ UNCHANGED <<authenticated, roomId, nextRoomId, queue, entered, waiting,
                 matches>>

RoomNext ==
  \E c \in Clients :
    \/ AuthVerify(c) \/ CreateRoom(c) \/ (\E r \in RoomIds : JoinRoom(c, r))
    \/ EnqueueAgain(c) \/ EnqueueAndMatch(c) \/ EnqueueAndWait(c) \/ Cancel(c)
    \/ Disconnect(c) \/ Close(c)

RoomSpec == Init /\ [][RoomNext]_roomVars

-----------------------------------------------------------------------------
(***************************************************************************)
(* Properties.                                                             *)
(***************************************************************************)

\* Every connection, room and queue entry is well formed.
RoomTypeOK ==
  /\ conn \in [Clients -> {"open", "closing", "closed"}]
  /\ authenticated \in [Clients -> BOOLEAN]
  /\ roomId \in [Clients -> RoomIds \cup {None}]
  /\ rooms \in [RoomIds -> {None} \cup Room]
  /\ nextRoomId \in 1..(MaxRooms + 1)
  /\ queue \subseteq Clients \X RoomIds
  /\ entered \subseteq Clients \X RoomIds
  /\ waiting \subseteq Clients
  /\ matches \subseteq RoomIds \X Clients \X Clients

\* A room is never deleted, and never given to somebody else, under a player who
\* once entered it and is still connected: whatever rooms the player went to
\* since, the room lists it and broadcasts reach it.
EnteredRoomsLive ==
  \A e \in entered :
    Open(e[1]) => rooms[e[2]] # None /\ e[1] \in rooms[e[2]].players

\* Nobody waits in vain: a connected client that was told to wait, and was
\* neither matched nor cancelled, is in the queue, with a room of its own that
\* the next player can be put into, so the answer "Room expired" never comes
\* at a waiter's cost.
NobodyForgotten ==
  \A c \in waiting :
    Open(c) => \E r \in RoomIds : /\ <<c, r>> \in queue
                                  /\ rooms[r] # None /\ rooms[r].host = c

\* Two connected players never wait side by side.
WaitersArePaired ==
  \A e, f \in queue : Open(e[1]) /\ Open(f[1]) => e = f

\* The two players of a match are told one room, of which the one told to be the
\* host is the host, and which reaches both for as long as they are connected.
MatchesShareRoom ==
  \A m \in matches :
    /\ m[2] # m[3]
    /\ Open(m[2]) \/ Open(m[3]) =>
         rooms[m[1]] # None /\ rooms[m[1]].host = m[2]
    /\ Open(m[2]) => m[2] \in rooms[m[1]].players
    /\ Open(m[3]) => m[3] \in rooms[m[1]].players
=============================================================================
