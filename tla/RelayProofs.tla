----------------------------- MODULE RelayProofs -----------------------------
(***************************************************************************)
(* What the lobby and the damage check promise, for any number of clients, *)
(* rooms and rounds.                                                       *)
(*                                                                         *)
(* For the rooms everything rests on IInv: a room id is used once, whoever *)
(* is connected is still listed wherever it entered, an entry of the queue *)
(* is of the host of its room, and at most one connected client is in the  *)
(* queue.                                                                  *)
(***************************************************************************)
EXTENDS DamageConsensus, TLAPS

\* A client is in a room it entered.
InEntered == \A c \in Clients : roomId[c] # None => <<c, roomId[c]>> \in entered

\* Ids from nextRoomId on are unused.
FreshIds ==
  /\ \A r \in RoomIds : r >= nextRoomId => rooms[r] = None
  /\ \A e \in entered : e[2] < nextRoomId

\* Whoever is in the queue entered the room made for it, and hosts it.
QueueHosts ==
  \A e \in queue :
    e \in entered /\ (rooms[e[2]] # None => rooms[e[2]].host = e[1])

\* Whoever waits is in the queue.
WaitersQueued == \A c \in waiting : Open(c) => \E r \in RoomIds : <<c, r>> \in queue

\* The two of a match entered its room, and the first hosts it.
MatchesEntered ==
  \A m \in matches :
    /\ m[2] # m[3]
    /\ <<m[2], m[1]>> \in entered /\ <<m[3], m[1]>> \in entered
    /\ rooms[m[1]] # None => rooms[m[1]].host = m[2]

IInv ==
  /\ RoomTypeOK
  /\ EnteredRoomsLive
  /\ InEntered
  /\ FreshIds
  /\ QueueHosts
  /\ WaitersQueued
  /\ WaitersArePaired
  /\ MatchesEntered

-----------------------------------------------------------------------------
\* The server starts without rooms, queue and matches.
LEMMA InitIInv == Init => IInv
<1> SUFFICES ASSUME Init PROVE IInv
  OBVIOUS
<1> USE RoomsAssumption DEF Init
<1>1. RoomTypeOK
  BY DEF RoomTypeOK, RoomIds
<1>2. EnteredRoomsLive /\ InEntered /\ FreshIds /\ QueueHosts /\ WaitersQueued
        /\ WaitersArePaired /\ MatchesEntered
  BY DEF EnteredRoomsLive, InEntered, FreshIds, QueueHosts, WaitersQueued,
         WaitersArePaired, MatchesEntered
<1> QED BY <1>1, <1>2 DEF IInv

\* The conjuncts that speak of rooms only, for a step that makes a new room.
LEMMA NewRoomKeeps ==
  ASSUME IInv, NEW c \in Clients, Open(c), NewRoom(c), conn' = conn
  PROVE  /\ rooms' \in [RoomIds -> {None} \cup Room]
         /\ roomId' \in [Clients -> RoomIds \cup {None}]
         /\ nextRoomId' \in 1..(MaxRooms + 1)
         /\ entered' \subseteq Clients \X RoomIds
         /\ EnteredRoomsLive' /\ InEntered' /\ FreshIds'
         /\ \A r \in RoomIds : rooms[r] # None => rooms'[r] = rooms[r]
         /\ entered \subseteq entered'
         /\ <<c, nextRoomId>> \in entered'
         /\ rooms'[nextRoomId] = [host |-> c, players |-> {c}]
<1> DEFINE n == nextRoomId
           room == [host |-> c, players |-> {c}]
<1> USE RoomsAssumption
<1>1. /\ n \in RoomIds /\ n \in Int /\ MaxRooms \in Nat
      /\ nextRoomId' = n + 1
      /\ rooms' = [rooms EXCEPT ![n] = room]
      /\ roomId' = [roomId EXCEPT ![c] = n]
      /\ entered' = entered \cup {<<c, n>>}
  BY DEF NewRoom, RoomIds
<1>2. room \in Room /\ room # None
  BY DEF Room
<1>3. /\ rooms \in [RoomIds -> {None} \cup Room]
      /\ roomId \in [Clients -> RoomIds \cup {None}]
      /\ entered \subseteq Clients \X RoomIds
  BY DEF IInv, RoomTypeOK
<1>4. rooms[n] = None /\ \A e \in entered : e[2] # n
  BY <1>1 DEF IInv, FreshIds, RoomIds
<1>5. /\ rooms' \in [RoomIds -> {None} \cup Room]
      /\ roomId' \in [Clients -> RoomIds \cup {None}]
      /\ nextRoomId' \in 1..(MaxRooms + 1)
      /\ entered' \subseteq Clients \X RoomIds
  BY <1>1, <1>2, <1>3 DEF RoomIds
<1>6. EnteredRoomsLive'
  <2> SUFFICES ASSUME NEW e \in entered', Open(e[1])'
               PROVE  rooms'[e[2]] # None /\ e[1] \in rooms'[e[2]].players
    BY DEF EnteredRoomsLive
  <2>1. CASE e = <<c, n>>
    BY <2>1, <1>1, <1>2, <1>3
  <2>2. CASE e \in entered
    <3>1. rooms[e[2]] # None /\ e[1] \in rooms[e[2]].players
      BY <2>2 DEF IInv, EnteredRoomsLive, Open
    <3>2. rooms'[e[2]] = rooms[e[2]]
      BY <2>2, <1>1, <1>3, <1>4
    <3> QED BY <3>1, <3>2
  <2> QED BY <2>1, <2>2, <1>1
<1>7. InEntered'
  BY <1>1, <1>3 DEF IInv, InEntered
<1>8. FreshIds'
  BY <1>1, <1>3 DEF IInv, FreshIds, RoomIds
<1>9. /\ \A r \in RoomIds : rooms[r] # None => rooms'[r] = rooms[r]
      /\ rooms'[n] = room
  BY <1>1, <1>3, <1>4
<1> QED BY <1>1, <1>5, <1>6, <1>7, <1>8, <1>9

\* A new room is none of those entered before.
LEMMA UsedRoomsStay ==
  ASSUME IInv, NEW c \in Clients, NewRoom(c)
  PROVE  \A e \in entered : rooms'[e[2]] = rooms[e[2]]
<1>1. /\ nextRoomId \in RoomIds
      /\ rooms' = [rooms EXCEPT ![nextRoomId] = [host |-> c, players |-> {c}]]
  BY DEF NewRoom
<1>2. /\ rooms \in [RoomIds -> {None} \cup Room]
      /\ entered \subseteq Clients \X RoomIds
      /\ \A e \in entered : e[2] # nextRoomId
  BY <1>1 DEF IInv, RoomTypeOK, FreshIds, RoomIds
<1> QED BY <1>1, <1>2

\* The same for a step that puts a client into a room that exists.
LEMMA EnterKeeps ==
  ASSUME IInv, NEW c \in Clients, Open(c), NEW r \in RoomIds, rooms[r] # None,
         Enter(c, r), conn' = conn, nextRoomId' = nextRoomId
  PROVE  /\ rooms' \in [RoomIds -> {None} \cup Room]
         /\ roomId' \in [Clients -> RoomIds \cup {None}]
         /\ entered' \subseteq Clients \X RoomIds
         /\ EnteredRoomsLive' /\ InEntered' /\ FreshIds'
         /\ \A s \in RoomIds :
              /\ rooms'[s] = None <=> rooms[s] = None
              /\ rooms[s] # None => rooms'[s].host = rooms[s].host
         /\ entered' = entered \cup {<<c, r>>}
<1> USE RoomsAssumption
<1> DEFINE room == [rooms[r] EXCEPT !.players = @ \cup {c}]
<1>1. /\ rooms' = [rooms EXCEPT ![r] = room]
      /\ roomId' = [roomId EXCEPT ![c] = r]
      /\ entered' = entered \cup {<<c, r>>}
  BY DEF Enter
<1>2. /\ rooms \in [RoomIds -> {None} \cup Room]
      /\ roomId \in [Clients -> RoomIds \cup {None}]
      /\ entered \subseteq Clients \X RoomIds
  BY DEF IInv, RoomTypeOK
<1>3. /\ room \in Room /\ room # None
      /\ room.host = rooms[r].host
      /\ room.players = rooms[r].players \cup {c}
  <2>1. rooms[r] \in Room
    BY <1>2
  <2>2. room \in Room
    BY <2>1 DEF Room
  <2> QED BY <2>1, <2>2 DEF Room
<1>4. \A s \in RoomIds : rooms'[s] = IF s = r THEN room ELSE rooms[s]
  BY <1>1, <1>2
<1> HIDE DEF room
<1>5. rooms' \in [RoomIds -> {None} \cup Room]
  BY <1>1, <1>2, <1>3
<1>6. /\ roomId' \in [Clients -> RoomIds \cup {None}]
      /\ entered' \subseteq Clients \X RoomIds
  BY <1>1, <1>2
<1>7. EnteredRoomsLive'
  <2> SUFFICES ASSUME NEW e \in entered', Open(e[1])'
               PROVE  rooms'[e[2]] # None /\ e[1] \in rooms'[e[2]].players
    BY DEF EnteredRoomsLive
  <2>1. CASE e = <<c, r>>
    BY <2>1, <1>3, <1>4
  <2>2. CASE e \in entered
    <3>1. rooms[e[2]] # None /\ e[1] \in rooms[e[2]].players
      BY <2>2 DEF IInv, EnteredRoomsLive, Open
    <3>2. e[2] \in RoomIds
      BY <2>2, <1>2
    <3> QED BY <3>1, <3>2, <1>3, <1>4
  <2> QED BY <2>1, <2>2, <1>1
<1>8. InEntered'
  BY <1>1, <1>2 DEF IInv, InEntered
<1>9. FreshIds'
  <2>1. nextRoomId \in Int /\ r \in Int
    BY DEF IInv, RoomTypeOK, RoomIds
  <2>2. r < nextRoomId
    BY <2>1 DEF IInv, FreshIds
  <2>3. \A s \in RoomIds : s >= nextRoomId => rooms'[s] = None
    BY <2>1, <2>2, <1>4 DEF IInv, FreshIds
  <2>4. \A e \in entered' : e[2] < nextRoomId
    BY <2>2, <1>1 DEF IInv, FreshIds
  <2> QED BY <2>3, <2>4 DEF FreshIds
<1>10. \A s \in RoomIds :
              /\ rooms'[s] = None <=> rooms[s] = None
              /\ rooms[s] # None => rooms'[s].host = rooms[s].host
  BY <1>3, <1>4
<1> QED BY <1>1, <1>5, <1>6, <1>7, <1>8, <1>9, <1>10

\* The queue and the matches keep their hosts as long as rooms keep theirs.
LEMMA HostsStay ==
  ASSUME IInv, entered \subseteq entered',
         \A e \in entered : \/ rooms'[e[2]] = None
                            \/ rooms[e[2]] # None /\ rooms'[e[2]].host = rooms[e[2]].host
  PROVE  /\ queue' \subseteq queue => QueueHosts'
         /\ matches' = matches => MatchesEntered'
<1>1. ASSUME queue' \subseteq queue PROVE QueueHosts'
  BY <1>1 DEF IInv, QueueHosts
<1>2. ASSUME matches' = matches PROVE MatchesEntered'
  <2> SUFFICES ASSUME NEW m \in matches
               PROVE  /\ m[2] # m[3]
                      /\ <<m[2], m[1]>> \in entered' /\ <<m[3], m[1]>> \in entered'
                      /\ rooms'[m[1]] # None => rooms'[m[1]].host = m[2]
    BY <1>2 DEF MatchesEntered
  <2>1. /\ m[2] # m[3]
        /\ <<m[2], m[1]>> \in entered /\ <<m[3], m[1]>> \in entered
        /\ rooms[m[1]] # None => rooms[m[1]].host = m[2]
    BY DEF IInv, MatchesEntered
  <2>2. \/ rooms'[m[1]] = None
        \/ rooms[m[1]] # None /\ rooms'[m[1]].host = rooms[m[1]].host
    BY <2>1
  <2> QED BY <2>1, <2>2
<1> QED BY <1>1, <1>2

\* The open entries of the queue are one at most.
LEMMA OneEvicted ==
  ASSUME IInv, NEW e \in Evicted
  PROVE  Evicted = {e} /\ First(Evicted) = e /\ e \in queue /\ Open(e[1])
<1>1. \A f \in Evicted : f = e
  BY DEF Evicted, IInv, WaitersArePaired
<1>2. Evicted = {e}
  BY <1>1
<1>3. e \in queue /\ e \in Clients \X RoomIds
  BY DEF Evicted, IInv, RoomTypeOK
<1>4. e[2] \in Int
  BY <1>3 DEF RoomIds
<1>5. First({e}) = e
  <2>1. \A g \in {e} : (\A f \in {e} : g[2] <= f[2]) <=> g = e
    BY <1>4
  <2> QED BY <2>1 DEF First
<1> QED BY <1>2, <1>3, <1>5 DEF Evicted

-----------------------------------------------------------------------------
\* One lemma per action.
LEMMA AuthVerifyKeeps ==
  ASSUME IInv, NEW c \in Clients, AuthVerify(c)
  PROVE  IInv'
<1>1. /\ UNCHANGED <<conn, roomId, rooms, nextRoomId, queue, entered, waiting, matches>>
      /\ authenticated' = [authenticated EXCEPT ![c] = TRUE]
  BY DEF AuthVerify
<1>2. RoomTypeOK'
  BY <1>1 DEF IInv, RoomTypeOK
<1> QED
  BY <1>1, <1>2 DEF IInv, EnteredRoomsLive, InEntered, FreshIds, QueueHosts,
    WaitersQueued, WaitersArePaired, MatchesEntered, Open

LEMMA CreateRoomKeeps ==
  ASSUME IInv, NEW c \in Clients, CreateRoom(c)
  PROVE  IInv'
<1>1. /\ Open(c) /\ NewRoom(c)
      /\ UNCHANGED <<conn, authenticated, queue, waiting, matches>>
  BY DEF CreateRoom
<1>2. /\ rooms' \in [RoomIds -> {None} \cup Room]
      /\ roomId' \in [Clients -> RoomIds \cup {None}]
      /\ nextRoomId' \in 1..(MaxRooms + 1)
      /\ entered' \subseteq Clients \X RoomIds
      /\ EnteredRoomsLive' /\ InEntered' /\ FreshIds'
      /\ entered \subseteq entered'
  BY <1>1, NewRoomKeeps
<1>3. RoomTypeOK'
  BY <1>1, <1>2 DEF IInv, RoomTypeOK
<1>4. \A e \in entered : rooms'[e[2]] = rooms[e[2]]
  BY <1>1, UsedRoomsStay
<1>5. QueueHosts' /\ MatchesEntered'
  BY <1>1, <1>2, <1>4, HostsStay
<1>6. WaitersQueued' /\ WaitersArePaired'
  BY <1>1 DEF IInv, WaitersQueued, WaitersArePaired, Open
<1> QED BY <1>2, <1>3, <1>5, <1>6 DEF IInv

LEMMA JoinRoomKeeps ==
  ASSUME IInv, NEW c \in Clients, NEW r \in RoomIds, JoinRoom(c, r)
  PROVE  IInv'
<1>1. /\ Open(c) /\ rooms[r] # None /\ Enter(c, r)
      /\ UNCHANGED <<conn, authenticated, nextRoomId, queue, waiting, matches>>
  BY DEF JoinRoom
<1>2. /\ rooms' \in [RoomIds -> {None} \cup Room]
      /\ roomId' \in [Clients -> RoomIds \cup {None}]
      /\ entered' \subseteq Clients \X RoomIds
      /\ EnteredRoomsLive' /\ InEntered' /\ FreshIds'
      /\ \A s \in RoomIds :
              /\ rooms'[s] = None <=> rooms[s] = None
              /\ rooms[s] # None => rooms'[s].host = rooms[s].host
      /\ entered' = entered \cup {<<c, r>>}
  BY <1>1, EnterKeeps
<1>3. RoomTypeOK'
  BY <1>1, <1>2 DEF IInv, RoomTypeOK
<1>4. \A e \in entered : \/ rooms'[e[2]] = None
                         \/ rooms[e[2]] # None /\ rooms'[e[2]].host = rooms[e[2]].host
  BY <1>2 DEF IInv, RoomTypeOK
<1>5. QueueHosts' /\ MatchesEntered'
  BY <1>1, <1>2, <1>4, HostsStay
<1>6. WaitersQueued' /\ WaitersArePaired'
  BY <1>1 DEF IInv, WaitersQueued, WaitersArePaired, Open
<1> QED BY <1>2, <1>3, <1>5, <1>6 DEF IInv

LEMMA EnqueueAgainKeeps ==
  ASSUME IInv, NEW c \in Clients, EnqueueAgain(c)
  PROVE  IInv'
<1>1. /\ queue' = Evicted
      /\ UNCHANGED <<conn, authenticated, roomId, rooms, nextRoomId, entered,
                     waiting, matches>>
  BY DEF EnqueueAgain
<1>2. Evicted \subseteq queue
  BY DEF Evicted
<1>3. RoomTypeOK'
  BY <1>1, <1>2 DEF IInv, RoomTypeOK
<1>4. WaitersQueued'
  BY <1>1 DEF IInv, WaitersQueued, Evicted, Open
<1>5. WaitersArePaired'
  BY <1>1, <1>2 DEF IInv, WaitersArePaired, Open
<1> QED
  BY <1>1, <1>2, <1>3, <1>4, <1>5
  DEF IInv, EnteredRoomsLive, InEntered, FreshIds, QueueHosts, MatchesEntered, Open

\* The first in the queue has its room, so the match is announced.
LEMMA EnqueueAndMatchKeeps ==
  ASSUME IInv, NEW c \in Clients, EnqueueAndMatch(c)
  PROVE  IInv'
<1> USE RoomsAssumption
<1>1. PICK e \in Evicted : TRUE
  BY DEF EnqueueAndMatch
<1>2. Evicted = {e} /\ First(Evicted) = e /\ e \in queue /\ Open(e[1])
  BY <1>1, OneEvicted
<1> DEFINE h == e[1]
           r == e[2]
<1>3. h \in Clients /\ r \in RoomIds /\ e = <<h, r>>
  BY <1>2 DEF IInv, RoomTypeOK
<1>4. e \in entered /\ rooms[r] # None /\ rooms[r].host = h
  BY <1>2 DEF IInv, QueueHosts, EnteredRoomsLive
<1>5. /\ Open(c) /\ h # c
      /\ queue' = {}
      /\ Enter(c, r)
      /\ waiting' = waiting \ {h}
      /\ matches' = matches \cup {<<r, h, c>>}
      /\ UNCHANGED <<conn, authenticated, nextRoomId>>
  BY <1>2, <1>4 DEF EnqueueAndMatch
<1>6. /\ rooms' \in [RoomIds -> {None} \cup Room]
      /\ roomId' \in [Clients -> RoomIds \cup {None}]
      /\ entered' \subseteq Clients \X RoomIds
      /\ EnteredRoomsLive' /\ InEntered' /\ FreshIds'
      /\ \A s \in RoomIds :
              /\ rooms'[s] = None <=> rooms[s] = None
              /\ rooms[s] # None => rooms'[s].host = rooms[s].host
      /\ entered' = entered \cup {<<c, r>>}
  BY <1>3, <1>4, <1>5, EnterKeeps
<1>7. RoomTypeOK'
  BY <1>3, <1>5, <1>6 DEF IInv, RoomTypeOK
<1>8. QueueHosts' /\ WaitersArePaired'
  BY <1>5 DEF QueueHosts, WaitersArePaired
<1>9. WaitersQueued'
  <2> SUFFICES ASSUME NEW d \in waiting', Open(d)' PROVE FALSE
    BY DEF WaitersQueued
  <2>1. d \in waiting /\ d # h /\ Open(d)
    BY <1>5 DEF Open
  <2>2. PICK s \in RoomIds : <<d, s>> \in queue
    BY <2>1 DEF IInv, WaitersQueued
  <2>3. <<d, s>> \in Evicted
    BY <2>1, <2>2 DEF Evicted
  <2> QED BY <2>1, <2>3, <1>2
<1>10. MatchesEntered'
  <2> SUFFICES ASSUME NEW m \in matches'
               PROVE  /\ m[2] # m[3]
                      /\ <<m[2], m[1]>> \in entered' /\ <<m[3], m[1]>> \in entered'
                      /\ rooms'[m[1]] # None => rooms'[m[1]].host = m[2]
    BY DEF MatchesEntered
  <2>1. CASE m = <<r, h, c>>
    BY <2>1, <1>3, <1>4, <1>5, <1>6
  <2>2. CASE m \in matches
    <3>1. /\ m[2] # m[3]
          /\ <<m[2], m[1]>> \in entered /\ <<m[3], m[1]>> \in entered
          /\ rooms[m[1]] # None => rooms[m[1]].host = m[2]
      BY <2>2 DEF IInv, MatchesEntered
    <3>2. m[1] \in RoomIds
      BY <2>2 DEF IInv, RoomTypeOK
    <3> QED BY <3>1, <3>2, <1>6
  <2> QED BY <2>1, <2>2, <1>5
<1> QED BY <1>6, <1>7, <1>8, <1>9, <1>10 DEF IInv

\* Nobody open was in the queue, so nobody else was waiting.
LEMMA EnqueueAndWaitKeeps ==
  ASSUME IInv, NEW c \in Clients, EnqueueAndWait(c)
  PROVE  IInv'
<1>1. /\ Open(c) /\ Evicted = {} /\ NewRoom(c)
      /\ queue' = {<<c, nextRoomId>>}
      /\ waiting' = waiting \cup {c}
      /\ UNCHANGED <<conn, authenticated, matches>>
  BY DEF EnqueueAndWait
<1>2. /\ rooms' \in [RoomIds -> {None} \cup Room]
      /\ roomId' \in [Clients -> RoomIds \cup {None}]
      /\ nextRoomId' \in 1..(MaxRooms + 1)
      /\ entered' \subseteq Clients \X RoomIds
      /\ EnteredRoomsLive' /\ InEntered' /\ FreshIds'
      /\ entered \subseteq entered'
      /\ <<c, nextRoomId>> \in entered'
      /\ rooms'[nextRoomId] = [host |-> c, players |-> {c}]
  BY <1>1, NewRoomKeeps
<1>3. nextRoomId \in RoomIds
  BY <1>1 DEF NewRoom
<1>4. RoomTypeOK'
  BY <1>1, <1>2, <1>3 DEF IInv, RoomTypeOK
<1>5. QueueHosts'
  BY <1>1, <1>2 DEF QueueHosts
<1>6. MatchesEntered'
  BY <1>1, <1>2, UsedRoomsStay, HostsStay
<1>7. WaitersQueued'
  <2> SUFFICES ASSUME NEW d \in waiting', Open(d)'
               PROVE  \E r \in RoomIds : <<d, r>> \in queue'
    BY DEF WaitersQueued
  <2>1. ASSUME d # c PROVE FALSE
    <3>1. d \in waiting /\ Open(d)
      BY <2>1, <1>1 DEF Open
    <3>2. PICK s \in RoomIds : <<d, s>> \in queue
      BY <3>1 DEF IInv, WaitersQueued
    <3>3. <<d, s>> \in Evicted
      BY <3>1, <3>2 DEF Evicted
    <3> QED BY <3>3, <1>1
  <2> QED BY <2>1, <1>1, <1>3
<1>8. WaitersArePaired'
  BY <1>1 DEF WaitersArePaired
<1> QED BY <1>2, <1>4, <1>5, <1>6, <1>7, <1>8 DEF IInv

LEMMA CancelKeeps ==
  ASSUME IInv, NEW c \in Clients, Cancel(c)
  PROVE  IInv'
<1>1. /\ queue' = {e \in queue : e[1] # c}
      /\ waiting' = waiting \ {c}
      /\ UNCHANGED <<conn, authenticated, roomId, rooms, nextRoomId, entered, matches>>
  BY DEF Cancel
<1>2. RoomTypeOK'
  BY <1>1 DEF IInv, RoomTypeOK
<1>3. WaitersQueued'
  <2> SUFFICES ASSUME NEW d \in waiting', Open(d)'
               PROVE  \E r \in RoomIds : <<d, r>> \in queue'
    BY DEF WaitersQueued
  <2>1. d \in waiting /\ d # c /\ Open(d)
    BY <1>1 DEF Open
  <2>2. PICK s \in RoomIds : <<d, s>> \in queue
    BY <2>1 DEF IInv, WaitersQueued
  <2> QED BY <2>1, <2>2, <1>1
<1> QED
  BY <1>1, <1>2, <1>3 DEF IInv, EnteredRoomsLive, InEntered, FreshIds,
    QueueHosts, WaitersArePaired, MatchesEntered, Open

LEMMA DisconnectKeeps ==
  ASSUME IInv, NEW c \in Clients, Disconnect(c)
  PROVE  IInv'
<1>1. /\ conn' = [conn EXCEPT ![c] = "closing"]
      /\ UNCHANGED <<authenticated, roomId, rooms, nextRoomId, queue, entered,
                     waiting, matches>>
  BY DEF Disconnect
<1>2. RoomTypeOK'
  BY <1>1 DEF IInv, RoomTypeOK
<1>3. \A d \in Clients : Open(d)' => Open(d)
  BY <1>1 DEF Open, IInv, RoomTypeOK
<1>4. EnteredRoomsLive' /\ WaitersQueued' /\ WaitersArePaired'
  BY <1>1, <1>3 DEF IInv, RoomTypeOK, EnteredRoomsLive, WaitersQueued, WaitersArePaired
<1> QED
  BY <1>1, <1>2, <1>4 DEF IInv, InEntered, FreshIds, QueueHosts, MatchesEntered

\* The closing player leaves one room, which is deleted only if it is empty then.
LEMMA CloseKeeps ==
  ASSUME IInv, NEW c \in Clients, Close(c)
  PROVE  IInv'
<1> USE RoomsAssumption
<1>1. /\ conn[c] = "closing"
      /\ conn' = [conn EXCEPT ![c] = "closed"]
      /\ rooms' = IF HasRoom(c)
                    THEN [rooms EXCEPT ![roomId[c]] = WithoutPlayer(@, c)]
                    ELSE rooms
      /\ UNCHANGED <<authenticated, roomId, nextRoomId, queue, entered, waiting,
                     matches>>
  BY DEF Close
<1>2. /\ rooms \in [RoomIds -> {None} \cup Room]
      /\ roomId \in [Clients -> RoomIds \cup {None}]
      /\ conn \in [Clients -> {"open", "closing", "closed"}]
      /\ entered \subseteq Clients \X RoomIds
      /\ queue \subseteq Clients \X RoomIds
      /\ waiting \subseteq Clients
  BY DEF IInv, RoomTypeOK
<1>3. ASSUME NEW room \in Room
      PROVE  /\ WithoutPlayer(room, c) \in {None} \cup Room
             /\ \A d \in room.players \ {c} :
                  /\ WithoutPlayer(room, c) # None
                  /\ d \in WithoutPlayer(room, c).players
             /\ WithoutPlayer(room, c) # None =>
                  WithoutPlayer(room, c).host = room.host
  BY <1>3 DEF WithoutPlayer, Room
<1>4. \A r \in RoomIds :
        rooms'[r] = rooms[r] \/ (rooms[r] \in Room /\ rooms'[r] = WithoutPlayer(rooms[r], c))
  BY <1>1, <1>2 DEF HasRoom
<1>5. rooms' \in [RoomIds -> {None} \cup Room]
  <2>1. CASE HasRoom(c)
    <3>1. rooms[roomId[c]] \in Room /\ roomId[c] \in RoomIds
      BY <2>1, <1>2 DEF HasRoom
    <3> QED BY <2>1, <3>1, <1>1, <1>2, <1>3
  <2>2. CASE ~HasRoom(c)
    BY <2>2, <1>1, <1>2
  <2> QED BY <2>1, <2>2
<1>6. RoomTypeOK'
  BY <1>1, <1>2, <1>5 DEF IInv, RoomTypeOK
<1>7. \A d \in Clients : Open(d)' => Open(d) /\ d # c
  BY <1>1, <1>2 DEF Open
<1>8. EnteredRoomsLive'
  <2> SUFFICES ASSUME NEW e \in entered, Open(e[1])'
               PROVE  rooms'[e[2]] # None /\ e[1] \in rooms'[e[2]].players
    BY <1>1 DEF EnteredRoomsLive
  <2>1. Open(e[1]) /\ e[1] # c /\ e[2] \in RoomIds
    BY <1>2, <1>7
  <2>2. rooms[e[2]] # None /\ e[1] \in rooms[e[2]].players
    BY <2>1 DEF IInv, EnteredRoomsLive
  <2> QED BY <2>1, <2>2, <1>3, <1>4
<1>9. InEntered' /\ WaitersQueued' /\ WaitersArePaired'
  BY <1>1, <1>2, <1>7 DEF IInv, InEntered, WaitersQueued, WaitersArePaired
<1>10. FreshIds'
  <2>1. \A r \in RoomIds : rooms[r] = None => rooms'[r] = None
    BY <1>4
  <2> QED BY <2>1, <1>1 DEF IInv, FreshIds
<1>11. \A e \in entered : \/ rooms'[e[2]] = None
                          \/ rooms[e[2]] # None /\ rooms'[e[2]].host = rooms[e[2]].host
  BY <1>2, <1>3, <1>4
<1>12. QueueHosts' /\ MatchesEntered'
  BY <1>1, <1>11, HostsStay
<1> QED BY <1>6, <1>8, <1>9, <1>10, <1>12 DEF IInv

LEMMA UnchangedKeeps ==
  ASSUME IInv, UNCHANGED roomVars
  PROVE  IInv'
BY DEF IInv, roomVars, RoomTypeOK, EnteredRoomsLive, InEntered, FreshIds,
   QueueHosts, WaitersQueued, WaitersArePaired, MatchesEntered, Open

LEMMA RoomStep == IInv /\ [RoomNext]_roomVars => IInv'
<1> SUFFICES ASSUME IInv, [RoomNext]_roomVars PROVE IInv'
  OBVIOUS
<1>1. ASSUME NEW c \in Clients, AuthVerify(c) PROVE IInv'
  BY <1>1, AuthVerifyKeeps
<1>2. ASSUME NEW c \in Clients, CreateRoom(c) PROVE IInv'
  BY <1>2, CreateRoomKeeps
<1>3. ASSUME NEW c \in Clients, NEW r \in RoomIds, JoinRoom(c, r) PROVE IInv'
  BY <1>3, JoinRoomKeeps
<1>4. ASSUME NEW c \in Clients, EnqueueAgain(c) PROVE IInv'
  BY <1>4, EnqueueAgainKeeps
<1>5. ASSUME NEW c \in Clients, EnqueueAndMatch(c) PROVE IInv'
  BY <1>5, EnqueueAndMatchKeeps
<1>6. ASSUME NEW c \in Clients, EnqueueAndWait(c) PROVE IInv'
  BY <1>6, EnqueueAndWaitKeeps
<1>7. ASSUME NEW c \in Clients, Cancel(c) PROVE IInv'
  BY <1>7, CancelKeeps
<1>8. ASSUME NEW c \in Clients, Disconnect(c) PROVE IInv'
  BY <1>8, DisconnectKeeps
<1>9. ASSUME NEW c \in Clients, Close(c) PROVE IInv'
  BY <1>9, CloseKeeps
<1>10. ASSUME UNCHANGED roomVars PROVE IInv'
  BY <1>10, UnchangedKeeps
<1> QED
  BY <1>1, <1>2, <1>3, <1>4, <1>5, <1>6, <1>7, <1>8, <1>9, <1>10 DEF RoomNext

-----------------------------------------------------------------------------
\* IInv is an invariant.
THEOREM RoomInvariance == RoomSpec => []IInv
BY InitIInv, RoomStep, PTL DEF RoomSpec

\* No room goes away under a connected player who entered it (the close event
\* and the room handlers).
THEOREM RoomsStayWithTheirPlayers == RoomSpec => []EnteredRoomsLive
<1>1. IInv => EnteredRoomsLive
  BY DEF IInv
<1> QED BY <1>1, RoomInvariance, PTL

\* Whoever waits keeps its place and its room (matchmaking_enqueue).
THEOREM WaitersAreKept == RoomSpec => []NobodyForgotten
<1>1. IInv => NobodyForgotten
  <2> SUFFICES ASSUME IInv, NEW c \in waiting, Open(c)
               PROVE  \E r \in RoomIds : /\ <<c, r>> \in queue
                                         /\ rooms[r] # None /\ rooms[r].host = c
    BY DEF NobodyForgotten
  <2>1. PICK r \in RoomIds : <<c, r>> \in queue
    BY DEF IInv, WaitersQueued
  <2>2. <<c, r>> \in entered /\ (rooms[r] # None => rooms[r].host = c)
    BY <2>1 DEF IInv, QueueHosts
  <2>3. rooms[r] # None
    BY <2>2 DEF IInv, EnteredRoomsLive
  <2> QED BY <2>1, <2>2, <2>3
<1> QED BY <1>1, RoomInvariance, PTL

\* Two connected players never wait at once (matchmaking_enqueue).
THEOREM WaitersAreMatched == RoomSpec => []WaitersArePaired
<1>1. IInv => WaitersArePaired
  BY DEF IInv
<1> QED BY <1>1, RoomInvariance, PTL

\* Matched players stay in reach of the room they were told
\* (matchmaking_matched).
THEOREM MatchedPlayersMeet == RoomSpec => []MatchesShareRoom
<1>1. IInv => MatchesShareRoom
  <2> SUFFICES ASSUME IInv, NEW m \in matches
               PROVE  /\ m[2] # m[3]
                      /\ Open(m[2]) \/ Open(m[3]) =>
                           rooms[m[1]] # None /\ rooms[m[1]].host = m[2]
                      /\ Open(m[2]) => m[2] \in rooms[m[1]].players
                      /\ Open(m[3]) => m[3] \in rooms[m[1]].players
    BY DEF MatchesShareRoom
  <2>1. /\ m[2] # m[3]
        /\ <<m[2], m[1]>> \in entered /\ <<m[3], m[1]>> \in entered
        /\ rooms[m[1]] # None => rooms[m[1]].host = m[2]
    BY DEF IInv, MatchesEntered
  <2>2. ASSUME Open(m[2]) PROVE rooms[m[1]] # None /\ m[2] \in rooms[m[1]].players
    BY <2>1, <2>2 DEF IInv, EnteredRoomsLive
  <2>3. ASSUME Open(m[3]) PROVE rooms[m[1]] # None /\ m[3] \in rooms[m[1]].players
    BY <2>1, <2>3 DEF IInv, EnteredRoomsLive
  <2> QED BY <2>1, <2>2, <2>3
<1> QED BY <1>1, RoomInvariance, PTL

-----------------------------------------------------------------------------
(***************************************************************************)
(* The damage check.  That every disagreement is logged is inductive by    *)
(* itself, given the types: whoever comes second, the host with a report   *)
(* or another with a claim, finds the entry of the first, and only the     *)
(* collection of a round's claims takes an entry away.  Which room the two *)
(* are in now does not matter, for a claim keeps the host it was sent to.  *)
(***************************************************************************)

ClaimsTypeOK ==
  /\ claims \in [Keys -> [Clients -> {None} \cup Claim]]
  /\ violations \subseteq Keys \X Clients \X Deltas

\* The host of the room a player acts in is a client.
LEMMA HostIsClient ==
  ASSUME RoomTypeOK, NEW c \in Clients, HasRoom(c)
  PROVE  Host(c) \in Clients
<1>1. roomId[c] \in RoomIds /\ rooms[roomId[c]] \in Room
  BY DEF RoomTypeOK, HasRoom
<1> QED BY <1>1 DEF Room, Host

\* What Store leaves in the claims.
LEMMA StoreEffect ==
  ASSUME ClaimsTypeOK, NEW c \in Clients, NEW k \in Keys, NEW d \in Deltas,
         Host(c) \in Clients, Store(k, c, d)
  PROVE  /\ claims' \in [Keys -> [Clients -> {None} \cup Claim]]
         /\ claims'[k][c] = [delta |-> d, host |-> Host(c)]
         /\ \A l \in Keys, x \in Clients :
              l # k \/ x # c => claims'[l][x] = claims[l][x]
<1>1. [delta |-> d, host |-> Host(c)] \in Claim
  BY DEF Claim
<1> QED BY <1>1 DEF Store, ClaimsTypeOK

\* Steps of the rooms touch neither the claims nor the log.
LEMMA ClaimsUnchanged ==
  ASSUME ClaimsTypeOK, MismatchIsLogged, UNCHANGED claimVars
  PROVE  ClaimsTypeOK' /\ MismatchIsLogged'
BY DEF ClaimsTypeOK, MismatchIsLogged, claimVars

\* A claim of a guest: it finds the report of the host of its room.
LEMMA ClaimKeeps ==
  ASSUME RoomTypeOK, ClaimsTypeOK, MismatchIsLogged,
         NEW c \in Clients, NEW k \in Keys, NEW d \in Deltas,
         DuelDamageClaim(c, k, d)
  PROVE  ClaimsTypeOK' /\ MismatchIsLogged'
<1> DEFINE g == Host(c)
<1>1. g \in Clients /\ g # c /\ Store(k, c, d)
  BY HostIsClient DEF DuelDamageClaim
<1>2. /\ claims' \in [Keys -> [Clients -> {None} \cup Claim]]
      /\ claims'[k][c] = [delta |-> d, host |-> g]
      /\ \A l \in Keys, x \in Clients :
           l # k \/ x # c => claims'[l][x] = claims[l][x]
  BY <1>1, StoreEffect
<1>3. violations' = IF claims[k][g] # None /\ claims[k][g].delta # d
                      THEN violations \cup {<<k, g, claims[k][g].delta>>}
                      ELSE violations
  BY DEF DuelDamageClaim
<1>4. claims[k][g] # None => claims[k][g].delta \in Deltas
  BY <1>1 DEF ClaimsTypeOK, Claim
<1>5. ClaimsTypeOK'
  BY <1>1, <1>2, <1>3, <1>4 DEF ClaimsTypeOK
<1>6. violations \subseteq violations'
  BY <1>3
<1>7. ASSUME NEW l \in Keys, NEW h \in Clients, NEW x \in Clients,
             claims'[l][h] # None, claims'[l][h].host = h,
             claims'[l][x] # None, claims'[l][x].host = h,
             claims'[l][x].delta # claims'[l][h].delta
      PROVE  <<l, h, claims'[l][h].delta>> \in violations'
  <2>1. CASE l # k
    BY <1>2, <1>6, <1>7, <2>1 DEF MismatchIsLogged
  <2>2. CASE l = k /\ x = c
    <3>1. h = g /\ claims'[l][x].delta = d
      BY <1>2, <1>7, <2>2
    <3>2. claims'[l][h] = claims[k][g]
      BY <1>1, <1>2, <2>2, <3>1
    <3> QED BY <1>3, <1>7, <2>2, <3>1, <3>2
  <2>3. CASE l = k /\ h = c
    \* the entry of the claimant carries another's name
    BY <1>1, <1>2, <1>7, <2>3
  <2>4. CASE x # c /\ h # c
    BY <1>2, <1>6, <1>7, <2>4 DEF MismatchIsLogged
  <2> QED BY <2>1, <2>2, <2>3, <2>4
<1>8. MismatchIsLogged'
  BY <1>7 DEF MismatchIsLogged
<1> QED BY <1>5, <1>8

\* A report of the host: it finds every claim of the round.
LEMMA ReportKeeps ==
  ASSUME RoomTypeOK, ClaimsTypeOK, MismatchIsLogged,
         NEW c \in Clients, NEW k \in Keys, NEW d \in Deltas,
         DuelBattleResolved(c, k, d)
  PROVE  ClaimsTypeOK' /\ MismatchIsLogged'
<1>1. Host(c) = c /\ Store(k, c, d)
  BY DEF DuelBattleResolved
<1>2. /\ claims' \in [Keys -> [Clients -> {None} \cup Claim]]
      /\ claims'[k][c] = [delta |-> d, host |-> c]
      /\ \A l \in Keys, x \in Clients :
           l # k \/ x # c => claims'[l][x] = claims[l][x]
  BY <1>1, StoreEffect
<1>3. violations' = IF Disagrees(d, Others(k, c))
                      THEN violations \cup {<<k, c, d>>} ELSE violations
  BY DEF DuelBattleResolved
<1>4. ClaimsTypeOK'
  BY <1>2, <1>3 DEF ClaimsTypeOK
<1>5. violations \subseteq violations'
  BY <1>3
<1>6. ASSUME NEW l \in Keys, NEW h \in Clients, NEW x \in Clients,
             claims'[l][h] # None, claims'[l][h].host = h,
             claims'[l][x] # None, claims'[l][x].host = h,
             claims'[l][x].delta # claims'[l][h].delta
      PROVE  <<l, h, claims'[l][h].delta>> \in violations'
  <2>1. CASE l # k
    BY <1>2, <1>5, <1>6, <2>1 DEF MismatchIsLogged
  <2>2. CASE l = k /\ h = c
    <3>1. x # c /\ claims'[l][h].delta = d
      BY <1>2, <1>6, <2>2
    <3>2. claims[k][x] \in Others(k, c) /\ claims[k][x] = claims'[l][x]
      BY <1>2, <2>2, <3>1 DEF Others
    <3>3. Disagrees(d, Others(k, c))
      BY <1>6, <3>1, <3>2 DEF Disagrees
    <3> QED BY <1>3, <2>2, <3>1, <3>3
  <2>3. CASE l = k /\ x = c
    \* the host's own entry names the host, so h is the host
    <3>1. h = c
      BY <1>2, <1>6, <2>3
    <3> QED BY <1>6, <2>3, <3>1
  <2>4. CASE x # c /\ h # c
    BY <1>2, <1>5, <1>6, <2>4 DEF MismatchIsLogged
  <2> QED BY <2>1, <2>2, <2>3, <2>4
<1>7. MismatchIsLogged'
  BY <1>6 DEF MismatchIsLogged
<1> QED BY <1>4, <1>7

\* The collection forgets a whole round.
LEMMA GcKeeps ==
  ASSUME ClaimsTypeOK, MismatchIsLogged, NEW k \in Keys, GcRoundClaims(k)
  PROVE  ClaimsTypeOK' /\ MismatchIsLogged'
<1>1. /\ claims' = [claims EXCEPT ![k] = NoClaims]
      /\ violations' = violations
  BY DEF GcRoundClaims
<1>2. NoClaims \in [Clients -> {None} \cup Claim]
  BY DEF NoClaims
<1>3. \A x \in Clients : claims'[k][x] = None
  BY <1>1 DEF NoClaims, ClaimsTypeOK
<1>4. \A l \in Keys : l # k => claims'[l] = claims[l]
  BY <1>1 DEF ClaimsTypeOK
<1>5. ClaimsTypeOK'
  BY <1>1, <1>2 DEF ClaimsTypeOK
<1>6. MismatchIsLogged'
  BY <1>1, <1>3, <1>4 DEF MismatchIsLogged
<1> QED BY <1>5, <1>6

-----------------------------------------------------------------------------
\* The damage check implements the rooms it is built on: claims and reports
\* (sync.js) read the room of a player and change none, so what is proved of the
\* lobby and the queue holds of the composition.
THEOREM ConsensusKeepsRooms == Spec => RoomSpec
<1>1. ConsensusInit => Init
  BY DEF ConsensusInit
<1>2. [Next]_vars => [RoomNext]_roomVars
  BY DEF Next, vars, DuelDamageClaim, DuelBattleResolved, GcRoundClaims, roomVars
<1> QED BY <1>1, <1>2, PTL DEF Spec, RoomSpec

\* sync.js _checkConsensus: a report of a host and a claim sent to that host's
\* room that disagree are in the log for as long as both are remembered, for any
\* number of players, rounds and rooms, and whichever came first.
THEOREM MismatchesAreLogged == Spec => []MismatchIsLogged
<1>1. Spec => []RoomTypeOK
  <2>1. IInv => RoomTypeOK
    BY DEF IInv
  <2> QED BY <2>1, ConsensusKeepsRooms, RoomInvariance, PTL
<1>2. ConsensusInit => ClaimsTypeOK /\ MismatchIsLogged
  BY DEF ConsensusInit, NoClaims, ClaimsTypeOK, MismatchIsLogged
<1>3. RoomTypeOK /\ ClaimsTypeOK /\ MismatchIsLogged /\ [Next]_vars
        => ClaimsTypeOK' /\ MismatchIsLogged'
  BY ClaimsUnchanged, ClaimKeeps, ReportKeeps, GcKeeps DEF Next, vars, claimVars
<1> QED BY <1>1, <1>2, <1>3, PTL DEF Spec
=============================================================================
