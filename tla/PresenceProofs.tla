--------------------------- MODULE PresenceProofs ---------------------------
(***************************************************************************)
(* Proofs about Presence, for any number of users, tabs, rooms and         *)
(* connections.                                                            *)
(***************************************************************************)
EXTENDS Presence, WellFoundedInduction, TLAPS

(* the named parts of the handlers, expanded everywhere *)
USE DEF LeaveKey, LeavePending, CancelLeave, DeferLeave, CancelTranscriptExpiry,
        ExpireIfEmpty, Unindex

(* What addUser does to a room's Map: its keys gain the socket.             *)
LEMMA AddUserEntries ==
  ASSUME NEW S, NEW q \in Seq(S), NEW s \in S, NoRepeats(q)
  PROVE  /\ AddUser(q, s) \in Seq(S)
         /\ Entries(AddUser(q, s)) = Entries(q) \cup {s}
         /\ NoRepeats(AddUser(q, s))
         /\ AddUser(q, s) # <<>>
<1>1. CASE s \in Entries(q)
  BY <1>1 DEF AddUser, Entries
<1>2. CASE s \notin Entries(q)
  <2>1. AddUser(q, s) = Append(q, s)
    BY <1>2 DEF AddUser
  <2>2. /\ Append(q, s) \in Seq(S)
        /\ DOMAIN Append(q, s) = 1..(Len(q) + 1)
        /\ Append(q, s)[Len(q) + 1] = s
        /\ \A i \in 1..Len(q) : Append(q, s)[i] = q[i]
        /\ DOMAIN q = 1..Len(q) /\ Len(q) \in Nat
    OBVIOUS
  <2>3. Entries(Append(q, s)) = Entries(q) \cup {s}
    BY <2>2 DEF Entries
  <2>4. NoRepeats(Append(q, s))
    BY <1>2, <2>2 DEF NoRepeats, Entries
  <2> QED BY <2>1, <2>2, <2>3, <2>4
<1> QED BY <1>1, <1>2

(* What removeUser does to it: exactly that socket goes.                    *)
LEMMA RemoveUserEntries ==
  ASSUME NEW S, NEW q \in Seq(S), NEW s \in Entries(q), NoRepeats(q)
  PROVE  /\ RemoveUser(q, s) \in Seq(S)
         /\ Entries(RemoveUser(q, s)) = Entries(q) \ {s}
         /\ NoRepeats(RemoveUser(q, s))
<1> DEFINE at == CHOOSE i \in DOMAIN q : q[i] = s
           n  == Len(q)
           p  == RemoveUser(q, s)
<1>1. at \in 1..n /\ q[at] = s /\ n \in Nat /\ DOMAIN q = 1..n
  BY DEF Entries
<1>2. p = [i \in 1..(n - 1) |-> IF i < at THEN q[i] ELSE q[i + 1]]
  BY DEF RemoveUser
<1> HIDE DEF at, p, n
<1>3. p \in Seq(S) /\ DOMAIN p = 1..(n - 1)
  <2>1. n - 1 \in Nat
    BY <1>1
  <2>2. \A i \in 1..(n - 1) : p[i] \in S
    BY <1>1, <1>2 DEF n
  <2> QED BY <1>2, <2>1, <2>2
<1>4. NoRepeats(p)
  <2>1. SUFFICES ASSUME NEW i \in 1..(n - 1), NEW j \in 1..(n - 1), p[i] = p[j]
                 PROVE  i = j
    BY <1>3 DEF NoRepeats
  <2> DEFINE old(k) == IF k < at THEN k ELSE k + 1
  <2>2. /\ old(i) \in 1..n /\ p[i] = q[old(i)]
        /\ old(j) \in 1..n /\ p[j] = q[old(j)]
    BY <1>1, <1>2
  <2>3. \A k, l \in 1..n : q[k] = q[l] => k = l
    BY <1>1 DEF NoRepeats
  <2>4. old(i) = old(j)
    BY <2>1, <2>2, <2>3
  <2> QED BY <1>1, <2>4
<1>5. ASSUME NEW x \in Entries(p) PROVE x \in Entries(q) /\ x # s
  BY <1>1, <1>2, <1>3 DEF NoRepeats, Entries
<1>6. ASSUME NEW x \in Entries(q), x # s PROVE x \in Entries(p)
  <2>1. PICK i \in 1..n : q[i] = x /\ i # at
    BY <1>1, <1>6 DEF Entries
  <2>2. CASE i < at
    <3>1. i \in 1..(n - 1) /\ p[i] = x
      BY <1>1, <1>2, <2>1, <2>2
    <3> QED BY <1>3, <3>1 DEF Entries
  <2>3. CASE i > at
    <3>1. i - 1 \in 1..(n - 1) /\ p[i - 1] = x
      BY <1>1, <1>2, <2>1, <2>3
    <3> QED BY <1>3, <3>1 DEF Entries
  <2> QED BY <1>1, <2>1, <2>2, <2>3
<1> QED BY <1>3, <1>4, <1>5, <1>6 DEF p

LEMMA InRoomBySocket ==
  ASSUME NEW q, NEW u
  PROVE  IsUserInRoom(q, u) <=> \E s \in Entries(q) : SocketUser(s) = u
BY DEF IsUserInRoom, Entries

(* A list sent to a client is well formed.                                  *)
LEMMA GetRoomUsersType ==
  ASSUME NEW q \in Seq(Sockets)
  PROVE  GetRoomUsers(q) \in Row
<1> SUFFICES ASSUME NEW u \in Users
             PROVE  GetRoomUsers(q)[u] \in Sockets \cup {NoSocket}
  BY DEF GetRoomUsers, Row
<1> DEFINE last == {i \in DOMAIN q : /\ SocketUser(q[i]) = u
                                   /\ \A j \in DOMAIN q : j > i => SocketUser(q[j]) # u}
<1>1. CASE last = {}
  BY <1>1 DEF GetRoomUsers
<1>2. CASE last # {}
  <2>1. PICK i \in last : i = CHOOSE k \in last : TRUE
    BY <1>2
  <2>2. q[i] \in Sockets
    OBVIOUS
  <2>3. GetRoomUsers(q)[u] = q[i]
    BY <1>2, <2>1 DEF GetRoomUsers
  <2> QED BY <2>2, <2>3
<1> QED BY <1>1, <1>2

-----------------------------------------------------------------------------
(* Type correctness.                                                        *)
LEMMA TypeInit == Init => TypeOK
BY PresenceConstants DEF Init, TypeOK, server, browser, Nobody, Row

LEMMA TypeBrowser ==
  ASSUME TypeOK, Browser
  PROVE  TypeOK'
<1> USE PresenceConstants
<1>1. PICK t \in Tabs :
        \/ \E r \in Rooms : OpenPage(t, r)
        \/ \E s \in Sockets : Connect(t, s)
        \/ LoseConnection(t) \/ LeaveCall(t) \/ CloseTab(t) \/ Receive(t)
  BY DEF Browser
<1> USE DEF server
<1>2. ASSUME NEW r \in Rooms, OpenPage(t, r) PROVE TypeOK'
  BY <1>2 DEF TypeOK, OpenPage
<1>3. ASSUME NEW s \in Sockets, Connect(t, s) PROVE TypeOK'
  <2>1. /\ <<[type |-> "join-room", room |-> page[t]]>> \in Seq(Packet)
        /\ <<[type |-> "leave-room"], [type |-> "join-room", room |-> page[t]]>> \in Seq(Packet)
    BY <1>3 DEF Connect, TypeOK, Packet
  <2> QED BY <1>3, <2>1 DEF TypeOK, Connect
<1>4. CASE LoseConnection(t)
  BY <1>4 DEF TypeOK, LoseConnection
<1>5. CASE LeaveCall(t)
  <2>1. \A q \in Seq(Packet) : Append(q, [type |-> "leave-room"]) \in Seq(Packet)
    BY DEF Packet
  <2>2. up' \in [Sockets -> Seq(Packet)] /\ down' \in [Sockets -> Seq(Message)]
    <3>1. CASE sock[t] = NoSocket
      BY <1>5, <3>1 DEF TypeOK, LeaveCall
    <3>2. CASE sock[t] # NoSocket
      <4>1. sock[t] \in Sockets /\ up[sock[t]] \in Seq(Packet)
        BY <3>2 DEF TypeOK
      <4>2. /\ up' = [up EXCEPT ![sock[t]] = Append(@, [type |-> "leave-room"])]
            /\ down' = [down EXCEPT ![sock[t]] = <<>>]
        BY <1>5, <3>2 DEF LeaveCall
      <4>3. Append(up[sock[t]], [type |-> "leave-room"]) \in Seq(Packet)
        BY <2>1, <4>1
      <4> QED BY <4>1, <4>2, <4>3 DEF TypeOK
    <3> QED BY <3>1, <3>2
  <2>3. Nobody \in Row
    BY DEF Nobody, Row
  <2> QED BY <1>5, <2>2, <2>3 DEF TypeOK, LeaveCall
<1>6. CASE CloseTab(t)
  <2>1. Nobody \in Row
    BY DEF Nobody, Row
  <2> QED BY <1>6, <2>1 DEF TypeOK, CloseTab
<1>7. CASE Receive(t)
  <2>1. Head(down[sock[t]]) \in Message /\ Tail(down[sock[t]]) \in Seq(Message)
    BY <1>7 DEF TypeOK, Receive
  <2>2. ASSUME NEW list \in Row, NEW m \in Message
        PROVE  UpdatedRoster(list, m) \in Row
    BY DEF UpdatedRoster, Message, Row
  <2>3. roster' \in [Tabs -> Row]
    BY <1>7, <2>1, <2>2 DEF TypeOK, Receive
  <2>4. down' \in [Sockets -> Seq(Message)]
    BY <1>7, <2>1 DEF TypeOK, Receive
  <2> QED BY <1>7, <2>3, <2>4 DEF TypeOK, Receive
<1> QED BY <1>1, <1>2, <1>3, <1>4, <1>5, <1>6, <1>7

LEMMA EmitToType ==
  ASSUME TypeOK, NEW ss, NEW m \in Message
  PROVE  EmitTo(ss, m) \in [Sockets -> Seq(Message)]
BY DEF TypeOK, EmitTo

LEMMA TypeServer ==
  ASSUME TypeOK, RegistryAgrees, Server
  PROVE  TypeOK'
<1> USE PresenceConstants
<1>1. ASSUME NEW s \in Sockets, JoinRoom(s) PROVE TypeOK'
  <2> DEFINE r    == Head(up[s]).room
             u    == SocketUser(s)
             list == GetRoomUsers(AddUser(rooms[r], s))
  <2>1. /\ up[s] \in Seq(Packet) /\ up[s] # <<>>
        /\ Head(up[s]).type = "join-room"
    BY <1>1 DEF JoinRoom, Arrived, TypeOK
  <2>2. r \in Rooms /\ Tail(up[s]) \in Seq(Packet)
    BY <2>1 DEF Packet
  <2>3. u \in Users
    BY DEF SocketUser
  <2>4. AddUser(rooms[r], s) \in Seq(Sockets)
    BY <2>2, AddUserEntries DEF TypeOK, RegistryAgrees
  <2>5. list \in Row
    BY <2>4, GetRoomUsersType
  <2>6. /\ [type |-> "room-users", list |-> list] \in Message
        /\ [type |-> "user-joined", user |-> u, socket |-> s] \in Message
    BY <2>3, <2>5 DEF Message
  <2>7. down' \in [Sockets -> Seq(Message)]
    <3> HIDE DEF list, u, r
    <3>1. ASSUME NEW m \in Message, NEW q \in Sockets
          PROVE  down[q] \o <<m>> \in Seq(Message) /\ down[q] \o <<>> \in Seq(Message)
      BY DEF TypeOK
    <3> QED BY <1>1, <2>6, <3>1 DEF JoinRoom, JoinNews, TypeOK, list, u, r
  <2>8. rooms' = [rooms EXCEPT ![r] = AddUser(@, s)]
    BY <1>1 DEF JoinRoom
  <2>9. /\ pendingLeaves' = pendingLeaves \ {<<r, u>>}
        /\ ioRoom' = [ioRoom EXCEPT ![r] = @ \cup {s}]
        /\ socketRoom' = [socketRoom EXCEPT ![s] = r]
        /\ expiryTimers' = expiryTimers \ {r}
        /\ stored' = stored \cup {r}
        /\ up' = [up EXCEPT ![s] = Tail(@)]
        /\ UNCHANGED <<opened, live, browser>>
    BY <1>1 DEF JoinRoom
  <2> HIDE DEF r, u, list
  <2> QED BY <2>2, <2>4, <2>7, <2>8, <2>9 DEF TypeOK, browser
<1>2. ASSUME NEW s \in Sockets, LeaveRoomUnknown(s) PROVE TypeOK'
  BY <1>2 DEF LeaveRoomUnknown, Arrived, TypeOK, server, browser
<1>3. ASSUME NEW s \in Sockets, LeaveRoom(s) PROVE TypeOK'
  <2> DEFINE r    == socketRoom[s]
             u    == SocketUser(s)
             rest == RemoveUser(rooms[r], s)
  <2>1. r \in Rooms /\ u \in Users
    BY <1>3 DEF LeaveRoom, TypeOK, SocketUser
  <2>2. rest \in Seq(Sockets)
    BY <2>1, RemoveUserEntries DEF TypeOK, RegistryAgrees
  <2>3. Tail(up[s]) \in Seq(Packet)
    BY <1>3 DEF LeaveRoom, Arrived, TypeOK
  <2>4. [type |-> "user-left", user |-> u] \in Message
    BY <2>1 DEF Message
  <2>5. down' \in [Sockets -> Seq(Message)]
    BY <1>3, <2>4, EmitToType DEF LeaveRoom, LeaveNews, TypeOK
  <2>6. /\ rooms' = [rooms EXCEPT ![r] = rest]
        /\ socketRoom' = [socketRoom EXCEPT ![s] = NoRoom]
        /\ pendingLeaves' = pendingLeaves \ {<<r, u>>}
        /\ ioRoom' = [ioRoom EXCEPT ![r] = @ \ {s}]
        /\ expiryTimers' \subseteq expiryTimers \cup {r}
        /\ up' = [up EXCEPT ![s] = Tail(@)]
        /\ UNCHANGED <<stored, opened, live, browser>>
    BY <1>3 DEF LeaveRoom
  <2> HIDE DEF r, u, rest
  <2> QED BY <2>1, <2>2, <2>3, <2>5, <2>6 DEF TypeOK, browser
<1>4. ASSUME NEW s \in Sockets, Disconnect(s) PROVE TypeOK'
  <2> DEFINE r    == socketRoom[s]
             u    == SocketUser(s)
             rest == RemoveUser(rooms[r], s)
  <2>1. rooms' \in [Rooms -> Seq(Sockets)] /\ pendingLeaves' \subseteq Rooms \X Users
    <3>1. CASE r = NoRoom
      BY <1>4, <3>1 DEF Disconnect, TypeOK
    <3>2. CASE r # NoRoom
      <4>1. r \in Rooms /\ u \in Users
        BY <3>2 DEF TypeOK, SocketUser
      <4>2. rest \in Seq(Sockets)
        BY <4>1, RemoveUserEntries DEF TypeOK, RegistryAgrees
      <4> HIDE DEF rest
      <4>3. /\ rooms' = [rooms EXCEPT ![r] = rest]
            /\ pendingLeaves' \subseteq pendingLeaves \cup {<<r, u>>}
        BY <1>4, <3>2 DEF Disconnect, rest
      <4> QED BY <4>1, <4>2, <4>3 DEF TypeOK
    <3> QED BY <3>1, <3>2
  <2>2. socketRoom' \in [Sockets -> Rooms \cup {NoRoom}]
    BY <1>4 DEF Disconnect, TypeOK
  <2>3. /\ live' \subseteq live /\ up' = [up EXCEPT ![s] = <<>>]
        /\ ioRoom' = [q \in Rooms |-> ioRoom[q] \ {s}]
        /\ UNCHANGED <<stored, expiryTimers, opened, down, browser>>
    BY <1>4 DEF Disconnect
  <2> QED BY <2>1, <2>2, <2>3 DEF TypeOK, browser
<1>5. ASSUME NEW r \in Rooms, ExpireTranscript(r) PROVE TypeOK'
  BY <1>5 DEF ExpireTranscript, TypeOK, browser
<1>6. ASSUME NEW r \in Rooms, NEW u \in Users, LeaveTimer(r, u) PROVE TypeOK'
  <2>1. [type |-> "user-left", user |-> u] \in Message
    BY DEF Message
  <2>2. down' \in [Sockets -> Seq(Message)]
    BY <1>6, <2>1, EmitToType DEF LeaveTimer, TypeOK
  <2> QED BY <1>6, <2>2 DEF LeaveTimer, TypeOK, browser
<1> QED BY <1>1, <1>2, <1>3, <1>4, <1>5, <1>6 DEF Server

-----------------------------------------------------------------------------
(* The inductive invariant.  A socket sends join-room once, so the handler   *)
(* runs for a socket that is in no room.                                    *)
JoinOnce ==
  \A s \in Sockets : \A i \in DOMAIN up[s] :
    up[s][i].type = "join-room" =>
      /\ socketRoom[s] = NoRoom
      /\ \A j \in DOMAIN up[s] : up[s][j].type = "join-room" => j = i

IInv == /\ TypeOK /\ RegistryAgrees /\ JoinOnce
        /\ PendingLeaveMeansAbsent /\ TranscriptLifetime

LEMMA InvInit == Init => IInv
<1> SUFFICES ASSUME Init PROVE IInv
  OBVIOUS
<1>1. TypeOK
  BY TypeInit
<1>2. RegistryAgrees
  BY PresenceConstants DEF Init, RegistryAgrees, Entries, NoRepeats
<1>3. JoinOnce /\ PendingLeaveMeansAbsent /\ TranscriptLifetime
  BY DEF Init, JoinOnce, PendingLeaveMeansAbsent, TranscriptLifetime
<1> QED BY <1>1, <1>2, <1>3 DEF IInv

LEMMA InvBrowser ==
  ASSUME IInv, Browser
  PROVE  IInv'
<1> USE DEF server
<1>1. TypeOK'
  BY TypeBrowser DEF IInv
<1>2. /\ UNCHANGED <<rooms, socketRoom, pendingLeaves, stored, expiryTimers, ioRoom>>
      /\ live \subseteq live'
  BY DEF Browser, OpenPage, Connect, LoseConnection, LeaveCall, CloseTab, Receive
<1>3. RegistryAgrees'
  BY <1>2 DEF IInv, RegistryAgrees, Entries, NoRepeats
<1>4. PendingLeaveMeansAbsent' /\ TranscriptLifetime'
  BY <1>2 DEF IInv, PendingLeaveMeansAbsent, TranscriptLifetime, IsUserInRoom, SocketUser
<1>5. JoinOnce'
  <2>1. ASSUME NEW t \in Tabs, NEW s \in Sockets, Connect(t, s) PROVE JoinOnce'
    <3>1. socketRoom[s] = NoRoom
      BY <2>1 DEF Connect, IInv, TypeOK, RegistryAgrees
    <3>2. /\ \/ up'[s] = <<[type |-> "join-room", room |-> page[t]]>>
             \/ up'[s] = <<[type |-> "leave-room"], [type |-> "join-room", room |-> page[t]]>>
          /\ \A q \in Sockets \ {s} : up'[q] = up[q]
      BY <2>1 DEF Connect, IInv, TypeOK
    <3>3. ASSUME NEW i \in DOMAIN up'[s], NEW j \in DOMAIN up'[s],
                 up'[s][i].type = "join-room", up'[s][j].type = "join-room"
          PROVE  i = j
      BY <3>2, <3>3
    <3> QED BY <3>1, <3>2, <3>3, <1>2 DEF IInv, JoinOnce
  <2>2. ASSUME NEW t \in Tabs, LeaveCall(t) PROVE JoinOnce'
    <3>1. CASE sock[t] = NoSocket
      BY <2>2, <3>1 DEF LeaveCall, IInv, JoinOnce
    <3>2. CASE sock[t] # NoSocket
      <4>1. up' = [up EXCEPT ![sock[t]] = Append(@, [type |-> "leave-room"])]
        BY <2>2, <3>2 DEF LeaveCall
      <4>2. sock[t] \in Sockets /\ up \in [Sockets -> Seq(Packet)]
        BY <3>2 DEF IInv, TypeOK
      <4>3. ASSUME NEW s \in Sockets, NEW i \in DOMAIN up'[s], up'[s][i].type = "join-room"
            PROVE  i \in DOMAIN up[s] /\ up[s][i].type = "join-room"
        BY <4>1, <4>2, <4>3
      <4> QED BY <4>3, <1>2 DEF IInv, JoinOnce
    <3> QED BY <3>1, <3>2
  <2>3. ASSUME UNCHANGED up PROVE JoinOnce'
    BY <1>2, <2>3 DEF IInv, JoinOnce
  <2> QED BY <2>1, <2>2, <2>3
        DEF Browser, OpenPage, LoseConnection, CloseTab, Receive
<1> QED BY <1>1, <1>3, <1>4, <1>5 DEF IInv

(* A socket leaves the registry: what LeaveRoom and Disconnect share.       *)
LEMMA SocketGone ==
  ASSUME TypeOK, RegistryAgrees, NEW s \in Sockets,
         NEW r \in Rooms, socketRoom[s] = r,
         rooms' = [rooms EXCEPT ![r] = RemoveUser(@, s)],
         socketRoom' = [socketRoom EXCEPT ![s] = NoRoom],
         \A q \in Rooms : ioRoom'[q] = ioRoom[q] \ {s},
         live \ {s} \subseteq live'
  PROVE  /\ RegistryAgrees'
         /\ rooms'[r] \in Seq(Sockets)
         /\ Entries(rooms'[r]) = Entries(rooms[r]) \ {s}
         /\ \A q \in Rooms \ {r} : rooms'[q] = rooms[q]
<1>1. s \in Entries(rooms[r]) /\ NoRepeats(rooms[r]) /\ rooms[r] \in Seq(Sockets)
  BY DEF RegistryAgrees, TypeOK
<1>2. /\ Entries(rooms'[r]) = Entries(rooms[r]) \ {s}
      /\ NoRepeats(rooms'[r])
      /\ rooms'[r] \in Seq(Sockets)
  BY <1>1, RemoveUserEntries DEF TypeOK
<1>3. \A q \in Rooms \ {r} : rooms'[q] = rooms[q]
  BY DEF TypeOK
<1>4. ASSUME NEW q \in Rooms
      PROVE  /\ Entries(rooms'[q]) = {x \in Sockets : socketRoom'[x] = q}
             /\ Entries(rooms'[q]) = ioRoom'[q]
             /\ ioRoom'[q] \subseteq live'
             /\ NoRepeats(rooms'[q])
  <2>1. {x \in Sockets : socketRoom'[x] = q} = {x \in Sockets : socketRoom[x] = q} \ {s}
    BY PresenceConstants DEF TypeOK
  <2>2. Entries(rooms'[q]) = Entries(rooms[q]) \ {s} /\ NoRepeats(rooms'[q])
    BY <1>2, <1>3 DEF RegistryAgrees
  <2> QED BY <2>1, <2>2 DEF RegistryAgrees
<1> QED BY <1>2, <1>3, <1>4 DEF RegistryAgrees, Entries, NoRepeats

LEMMA TailElements ==
  ASSUME NEW S, NEW q \in Seq(S), q # <<>>
  PROVE  \A i \in DOMAIN Tail(q) : /\ i \in Nat /\ i + 1 \in DOMAIN q /\ i + 1 # 1
                                   /\ Tail(q)[i] = q[i + 1]
<1>1. /\ Len(q) \in Nat /\ DOMAIN q = 1..Len(q) /\ DOMAIN Tail(q) = 1..(Len(q) - 1)
      /\ \A i \in 1..(Len(q) - 1) : Tail(q)[i] = q[i + 1]
  OBVIOUS
<1> QED BY <1>1

(* The packets still queued after one was handled carry no join-room.       *)
LEMMA JoinOnceTail ==
  ASSUME TypeOK, JoinOnce, NEW s \in Sockets, up[s] # <<>>,
         up' = [up EXCEPT ![s] = Tail(@)],
         \A q \in Sockets \ {s} : socketRoom'[q] = socketRoom[q],
         socketRoom'[s] \in {socketRoom[s], NoRoom} \/ up[s][1].type = "join-room"
  PROVE  JoinOnce'
<1>1. up[s] \in Seq(Packet) /\ up'[s] = Tail(up[s]) /\ \A q \in Sockets \ {s} : up'[q] = up[q]
  BY DEF TypeOK
<1>2. \A i \in DOMAIN up'[s] : /\ i \in Nat /\ i + 1 \in DOMAIN up[s] /\ i + 1 # 1
                              /\ up'[s][i] = up[s][i + 1]
  <2>1. \A i \in DOMAIN Tail(up[s]) : /\ i \in Nat /\ i + 1 \in DOMAIN up[s] /\ i + 1 # 1
                                     /\ Tail(up[s])[i] = up[s][i + 1]
    BY <1>1, TailElements
  <2> QED BY <1>1, <2>1
<1>3. ASSUME NEW q \in Sockets, NEW i \in DOMAIN up'[q], up'[q][i].type = "join-room"
      PROVE  /\ socketRoom'[q] = NoRoom
             /\ \A j \in DOMAIN up'[q] : up'[q][j].type = "join-room" => j = i
  <2>1. CASE q # s
    BY <1>1, <1>3, <2>1 DEF JoinOnce
  <2>2. CASE q = s
    <3>1. /\ socketRoom[s] = NoRoom
          /\ \A k \in DOMAIN up[s] : up[s][k].type = "join-room" => k = i + 1
      BY <1>2, <1>3, <2>2 DEF JoinOnce
    <3>2. 1 \in DOMAIN up[s] /\ i + 1 # 1
      BY <1>1, <1>2, <1>3, <2>2
    <3>3. socketRoom'[s] = NoRoom
      BY <3>1, <3>2
    <3>4. ASSUME NEW j \in DOMAIN up'[s], up'[s][j].type = "join-room" PROVE j = i
      <4>1. j + 1 = i + 1
        BY <1>2, <3>1, <3>4
      <4> QED BY <1>2, <1>3, <2>2, <4>1
    <3> QED BY <2>2, <3>3, <3>4
  <2> QED BY <2>1, <2>2
<1> QED BY <1>3 DEF JoinOnce

LEMMA InvJoinRoom ==
  ASSUME IInv, NEW s \in Sockets, JoinRoom(s)
  PROVE  RegistryAgrees' /\ JoinOnce' /\ PendingLeaveMeansAbsent' /\ TranscriptLifetime'
<1> DEFINE r == Head(up[s]).room
           u == SocketUser(s)
<1>1. /\ up[s] \in Seq(Packet) /\ up[s] # <<>> /\ Head(up[s]).type = "join-room"
      /\ s \in live
  BY DEF JoinRoom, Arrived, IInv, TypeOK
<1>2. r \in Rooms /\ socketRoom[s] = NoRoom
  BY <1>1 DEF Packet, IInv, JoinOnce
<1>3. /\ pendingLeaves' = pendingLeaves \ {<<r, u>>}
      /\ ioRoom' = [ioRoom EXCEPT ![r] = @ \cup {s}]
      /\ socketRoom' = [socketRoom EXCEPT ![s] = r]
      /\ rooms' = [rooms EXCEPT ![r] = AddUser(@, s)]
      /\ expiryTimers' = expiryTimers \ {r}
      /\ stored' = stored \cup {r}
      /\ up' = [up EXCEPT ![s] = Tail(@)]
      /\ live' = live
  BY DEF JoinRoom
<1> HIDE DEF r, u
<1>4. /\ Entries(rooms'[r]) = Entries(rooms[r]) \cup {s}
      /\ NoRepeats(rooms'[r]) /\ rooms'[r] # <<>>
      /\ \A q \in Rooms \ {r} : rooms'[q] = rooms[q]
  <2>1. rooms[r] \in Seq(Sockets) /\ NoRepeats(rooms[r])
    BY <1>2 DEF IInv, TypeOK, RegistryAgrees
  <2>2. rooms'[r] = AddUser(rooms[r], s) /\ \A q \in Rooms \ {r} : rooms'[q] = rooms[q]
    BY <1>2, <1>3 DEF IInv, TypeOK
  <2>3. /\ Entries(AddUser(rooms[r], s)) = Entries(rooms[r]) \cup {s}
        /\ NoRepeats(AddUser(rooms[r], s)) /\ AddUser(rooms[r], s) # <<>>
    BY <2>1, AddUserEntries
  <2> QED BY <2>2, <2>3
<1>5. RegistryAgrees'
  <2>1. ASSUME NEW q \in Rooms
        PROVE  /\ Entries(rooms'[q]) = {x \in Sockets : socketRoom'[x] = q}
               /\ Entries(rooms'[q]) = ioRoom'[q]
               /\ ioRoom'[q] \subseteq live'
               /\ NoRepeats(rooms'[q])
    <3>1. CASE q = r
      <4>1. {x \in Sockets : socketRoom'[x] = r} = {x \in Sockets : socketRoom[x] = r} \cup {s}
        BY <1>3 DEF IInv, TypeOK
      <4>2. ioRoom'[r] = ioRoom[r] \cup {s}
        BY <1>2, <1>3 DEF IInv, TypeOK
      <4> QED BY <1>1, <1>2, <1>3, <1>4, <3>1, <4>1, <4>2 DEF IInv, RegistryAgrees
    <3>2. CASE q # r
      <4>1. {x \in Sockets : socketRoom'[x] = q} = {x \in Sockets : socketRoom[x] = q}
        BY <1>2, <1>3, <3>2, PresenceConstants DEF IInv, TypeOK
      <4>2. ioRoom'[q] = ioRoom[q] /\ rooms'[q] = rooms[q]
        BY <1>3, <1>4, <3>2 DEF IInv, TypeOK
      <4> QED BY <1>3, <4>1, <4>2 DEF IInv, RegistryAgrees
    <3> QED BY <3>1, <3>2
  <2> QED BY <2>1 DEF RegistryAgrees, Entries, NoRepeats
<1>6. JoinOnce'
  <2>1. \A q \in Sockets \ {s} : socketRoom'[q] = socketRoom[q]
    BY <1>3 DEF IInv, TypeOK
  <2>2. up[s][1].type = "join-room"
    BY <1>1
  <2> QED BY <1>1, <1>3, <2>1, <2>2, JoinOnceTail DEF IInv
<1>7. PendingLeaveMeansAbsent'
  <2>1. SUFFICES ASSUME NEW q \in Rooms, NEW v \in Users, <<q, v>> \in pendingLeaves',
                        NEW x \in Entries(rooms'[q]), SocketUser(x) = v
                 PROVE  FALSE
    BY DEF PendingLeaveMeansAbsent, IsUserInRoom, Entries, SocketUser
  <2>2. <<q, v>> \in pendingLeaves /\ <<q, v>> # <<r, u>>
    BY <1>3, <2>1
  <2>3. x \in Entries(rooms[q])
    BY <1>4, <2>1, <2>2 DEF u
  <2> QED BY <2>1, <2>2, <2>3, InRoomBySocket DEF IInv, PendingLeaveMeansAbsent
<1>8. TranscriptLifetime'
  BY <1>3, <1>4 DEF IInv, TranscriptLifetime
<1> QED BY <1>5, <1>6, <1>7, <1>8

LEMMA InvLeaveRoom ==
  ASSUME IInv, NEW s \in Sockets, LeaveRoom(s)
  PROVE  RegistryAgrees' /\ JoinOnce' /\ PendingLeaveMeansAbsent' /\ TranscriptLifetime'
<1> DEFINE r == socketRoom[s]
           u == SocketUser(s)
<1>1. r \in Rooms /\ up[s] # <<>>
  BY DEF LeaveRoom, Arrived, IInv, TypeOK
<1>2. /\ rooms' = [rooms EXCEPT ![r] = RemoveUser(@, s)]
      /\ socketRoom' = [socketRoom EXCEPT ![s] = NoRoom]
      /\ pendingLeaves' = pendingLeaves \ {<<r, u>>}
      /\ ioRoom' = [ioRoom EXCEPT ![r] = @ \ {s}]
      /\ expiryTimers' = IF rooms'[r] = <<>> THEN expiryTimers \cup {r} ELSE expiryTimers
      /\ up' = [up EXCEPT ![s] = Tail(@)]
      /\ stored' = stored /\ live' = live
  BY <1>1 DEF LeaveRoom, IInv, TypeOK
<1>3. \A q \in Rooms : ioRoom'[q] = ioRoom[q] \ {s}
  BY <1>1, <1>2 DEF IInv, TypeOK, RegistryAgrees
<1>4. /\ RegistryAgrees'
      /\ rooms'[r] \in Seq(Sockets)
      /\ Entries(rooms'[r]) = Entries(rooms[r]) \ {s}
      /\ \A q \in Rooms \ {r} : rooms'[q] = rooms[q]
  BY <1>1, <1>2, <1>3, SocketGone DEF IInv
<1> HIDE DEF r, u
<1>5. JoinOnce'
  <2>1. \A q \in Sockets \ {s} : socketRoom'[q] = socketRoom[q]
    BY <1>2 DEF IInv, TypeOK
  <2>2. socketRoom'[s] = NoRoom
    BY <1>2 DEF IInv, TypeOK
  <2> QED BY <1>1, <1>2, <2>1, <2>2, JoinOnceTail DEF IInv
<1>6. PendingLeaveMeansAbsent'
  <2>1. SUFFICES ASSUME NEW q \in Rooms, NEW v \in Users, <<q, v>> \in pendingLeaves',
                        NEW x \in Entries(rooms'[q]), SocketUser(x) = v
                 PROVE  FALSE
    BY DEF PendingLeaveMeansAbsent, IsUserInRoom, Entries, SocketUser
  <2>2. <<q, v>> \in pendingLeaves /\ x \in Entries(rooms[q])
    BY <1>2, <1>4, <2>1
  <2> QED BY <2>1, <2>2, InRoomBySocket DEF IInv, PendingLeaveMeansAbsent
<1>7. TranscriptLifetime'
  <2>1. rooms[r] # <<>>
    BY DEF r, LeaveRoom, IInv, TypeOK, RegistryAgrees, Entries
  <2> QED BY <1>2, <1>4, <2>1 DEF IInv, TranscriptLifetime
<1> QED BY <1>4, <1>5, <1>6, <1>7

LEMMA InvDisconnect ==
  ASSUME IInv, NEW s \in Sockets, Disconnect(s)
  PROVE  RegistryAgrees' /\ JoinOnce' /\ PendingLeaveMeansAbsent' /\ TranscriptLifetime'
<1> DEFINE r == socketRoom[s]
           u == SocketUser(s)
<1>1. /\ socketRoom' = [socketRoom EXCEPT ![s] = NoRoom]
      /\ \A q \in Rooms : ioRoom'[q] = ioRoom[q] \ {s}
      /\ live' = live \ {s}
      /\ up' = [up EXCEPT ![s] = <<>>]
      /\ stored' = stored /\ expiryTimers' = expiryTimers
  <2>1. socketRoom \in [Sockets -> Rooms \cup {NoRoom}]
    BY DEF IInv, TypeOK
  <2>2. socketRoom' = [socketRoom EXCEPT ![s] = NoRoom]
    BY <2>1 DEF Disconnect
  <2> QED BY <2>2 DEF Disconnect
<1>2. JoinOnce'
  BY <1>1 DEF IInv, TypeOK, JoinOnce
<1>3. CASE r = NoRoom
  <2>1. rooms' = rooms /\ pendingLeaves' = pendingLeaves /\ socketRoom' = socketRoom
    BY <1>1, <1>3 DEF Disconnect, IInv, TypeOK
  <2>2. RegistryAgrees'
    <3>1. ASSUME NEW q \in Rooms PROVE s \notin Entries(rooms[q])
      BY <1>3, PresenceConstants DEF IInv, RegistryAgrees
    <3>2. \A q \in Rooms : Entries(rooms'[q]) = Entries(rooms[q])
                           /\ (NoRepeats(rooms[q]) => NoRepeats(rooms'[q]))
      BY <2>1
    <3> QED BY <1>1, <2>1, <3>1, <3>2 DEF IInv, RegistryAgrees, Entries, NoRepeats
  <2>3. PendingLeaveMeansAbsent'
    BY <2>1 DEF IInv, PendingLeaveMeansAbsent, IsUserInRoom, SocketUser
  <2>4. TranscriptLifetime'
    BY <1>1, <2>1 DEF IInv, TranscriptLifetime
  <2> QED BY <1>2, <2>2, <2>3, <2>4
<1>4. CASE r # NoRoom
  <2>1. r \in Rooms
    BY <1>4 DEF IInv, TypeOK
  <2>2. /\ rooms' = [rooms EXCEPT ![r] = RemoveUser(@, s)]
        /\ pendingLeaves' = IF IsUserInRoom(rooms'[r], u) THEN pendingLeaves
                            ELSE pendingLeaves \cup {<<r, u>>}
    BY <1>4, <2>1 DEF Disconnect, IInv, TypeOK
  <2>3. /\ RegistryAgrees'
        /\ rooms'[r] \in Seq(Sockets)
        /\ Entries(rooms'[r]) = Entries(rooms[r]) \ {s}
        /\ \A q \in Rooms \ {r} : rooms'[q] = rooms[q]
    BY <1>1, <2>1, <2>2, SocketGone DEF IInv
  <2>4. rooms[r] # <<>>
    BY <2>1 DEF IInv, RegistryAgrees, Entries
  <2> HIDE DEF r, u
  <2>5. PendingLeaveMeansAbsent'
    <3>1. SUFFICES ASSUME NEW q \in Rooms, NEW v \in Users, <<q, v>> \in pendingLeaves',
                          IsUserInRoom(rooms'[q], v)
                   PROVE  FALSE
      BY DEF PendingLeaveMeansAbsent, IsUserInRoom, SocketUser
    <3>2. PICK x \in Entries(rooms'[q]) : SocketUser(x) = v
      BY <3>1, InRoomBySocket
    <3>3. x \in Entries(rooms[q])
      BY <2>3, <3>2
    <3>4. <<q, v>> \notin pendingLeaves
      BY <3>2, <3>3, InRoomBySocket DEF IInv, PendingLeaveMeansAbsent
    <3>5. q = r /\ v = u /\ ~IsUserInRoom(rooms'[r], u)
      BY <2>2, <3>1, <3>4
    <3> QED BY <3>1, <3>5
  <2>6. TranscriptLifetime'
    <3>1. rooms'[r] = <<>> => \E v \in Users : <<r, v>> \in pendingLeaves'
      <4>1. rooms'[r] = <<>> => ~IsUserInRoom(rooms'[r], u)
        BY DEF IsUserInRoom
      <4> QED BY <2>2, <4>1, PresenceConstants DEF u, SocketUser
    <3>2. pendingLeaves \subseteq pendingLeaves'
      BY <2>2
    <3> QED BY <1>1, <2>3, <2>4, <3>1, <3>2 DEF IInv, TranscriptLifetime
  <2> QED BY <1>2, <2>3, <2>5, <2>6
<1> QED BY <1>3, <1>4

LEMMA InvOther ==
  ASSUME IInv,
         \/ \E s \in Sockets : LeaveRoomUnknown(s)
         \/ \E r \in Rooms : ExpireTranscript(r) \/ \E u \in Users : LeaveTimer(r, u)
  PROVE  RegistryAgrees' /\ JoinOnce' /\ PendingLeaveMeansAbsent' /\ TranscriptLifetime'
<1>1. /\ UNCHANGED <<rooms, socketRoom, ioRoom, live>>
      /\ pendingLeaves' \subseteq pendingLeaves
  BY DEF LeaveRoomUnknown, ExpireTranscript, LeaveTimer, server
<1>2. RegistryAgrees' /\ PendingLeaveMeansAbsent'
  BY <1>1 DEF IInv, RegistryAgrees, Entries, NoRepeats, PendingLeaveMeansAbsent,
              IsUserInRoom, SocketUser
<1>3. JoinOnce'
  <2>1. ASSUME NEW s \in Sockets, LeaveRoomUnknown(s) PROVE JoinOnce'
    BY <1>1, <2>1, JoinOnceTail DEF LeaveRoomUnknown, Arrived, IInv
  <2>2. ASSUME UNCHANGED up PROVE JoinOnce'
    BY <1>1, <2>2 DEF IInv, JoinOnce
  <2> QED BY <2>1, <2>2 DEF ExpireTranscript, LeaveTimer
<1>4. TranscriptLifetime'
  <2>1. ASSUME NEW s \in Sockets, LeaveRoomUnknown(s) PROVE TranscriptLifetime'
    BY <2>1 DEF LeaveRoomUnknown, server, IInv, TranscriptLifetime
  <2>2. ASSUME NEW r \in Rooms, ExpireTranscript(r) PROVE TranscriptLifetime'
    BY <2>2 DEF ExpireTranscript, IInv, TranscriptLifetime
  <2>3. ASSUME NEW r \in Rooms, NEW u \in Users, LeaveTimer(r, u) PROVE TranscriptLifetime'
    BY <2>3 DEF LeaveTimer, IInv, TranscriptLifetime
  <2> QED BY <2>1, <2>2, <2>3
<1> QED BY <1>2, <1>3, <1>4

LEMMA InvNext == IInv /\ [Next]_vars => IInv'
<1> SUFFICES ASSUME IInv, [Next]_vars PROVE IInv'
  OBVIOUS
<1>1. CASE Browser
  BY <1>1, InvBrowser
<1>2. CASE Server
  <2>1. TypeOK'
    BY <1>2, TypeServer DEF IInv
  <2> QED BY <1>2, <2>1, InvJoinRoom, InvLeaveRoom, InvDisconnect, InvOther DEF Server, IInv
<1>3. CASE UNCHANGED vars
  <2> USE <1>3 DEF vars, server, browser, IInv
  <2>1. TypeOK'
    BY DEF TypeOK
  <2>2. RegistryAgrees'
    BY DEF RegistryAgrees, Entries, NoRepeats
  <2>3. JoinOnce'
    BY DEF JoinOnce
  <2>4. PendingLeaveMeansAbsent'
    BY DEF PendingLeaveMeansAbsent, IsUserInRoom, SocketUser
  <2>5. TranscriptLifetime'
    BY DEF TranscriptLifetime
  <2> QED BY <2>1, <2>2, <2>3, <2>4, <2>5
<1> QED BY <1>1, <1>2, <1>3 DEF Next

LEMMA InvAlways == Spec => []IInv
BY InvInit, InvNext, PTL DEF Spec

(* Every variable keeps its type.                                           *)
THEOREM PresenceTypes == Spec => []TypeOK
<1>1. IInv => TypeOK
  BY DEF IInv
<1> QED BY <1>1, InvAlways, PTL

(* The room registry, its reverse index and Socket.IO's rooms agree, and    *)
(* keep no closed socket (room-manager.ts, handlers.ts).                    *)
THEOREM RegistryAlwaysAgrees == Spec => []RegistryAgrees
<1>1. IInv => RegistryAgrees
  BY DEF IInv
<1> QED BY <1>1, InvAlways, PTL

(* No leave timer runs for a user who is present (handlers.ts:65-70).       *)
THEOREM PendingLeaveIsAbsent == Spec => []PendingLeaveMeansAbsent
<1>1. IInv => PendingLeaveMeansAbsent
  BY DEF IInv
<1> QED BY <1>1, InvAlways, PTL

(* A room's transcript expires exactly when the room stays empty.           *)
THEOREM TranscriptKeptWhileOccupied == Spec => []TranscriptLifetime
<1>1. IInv => TranscriptLifetime
  BY DEF IInv
<1> QED BY <1>1, InvAlways, PTL

-----------------------------------------------------------------------------
(* What the others are told.  A list of users has a place for each who is   *)
(* in the room, and the last of several sockets of one user is among them.  *)
LEMMA LastIndex ==
  ASSUME NEW n \in Nat, NEW I, I \subseteq 1..n, I # {}
  PROVE  \E i \in I : \A j \in I : j <= i
<1> DEFINE Back == {n - i : i \in I}
           less == OpToRel(<, Nat)
<1>1. Back \subseteq Nat /\ Back # {}
  OBVIOUS
<1>2. IsWellFoundedOn(less, Nat)
  BY NatLessThanWellFounded
<1> HIDE DEF Back, less
<1>3. PICK x \in Back : \A y \in Back : ~(<<y, x>> \in less)
  BY <1>1, <1>2, WFMin
<1> USE DEF Back
<1>4. PICK i \in I : x = n - i
  OBVIOUS
<1>5. ASSUME NEW j \in I PROVE j <= i
  <2>1. n - j \in Back /\ n - j \in Nat /\ n - i \in Nat /\ i \in Nat /\ j \in Nat
    BY <1>1
  <2>2. ~(n - j < n - i)
    BY <1>3, <1>4, <2>1 DEF less, OpToRel
  <2> QED BY <2>1, <2>2
<1> QED BY <1>5

LEMMA GetRoomUsersShows ==
  ASSUME NEW q \in Seq(Sockets), NEW u \in Users
  PROVE  GetRoomUsers(q)[u] # NoSocket <=> IsUserInRoom(q, u)
<1> DEFINE mine == {i \in DOMAIN q : SocketUser(q[i]) = u}
           last == {i \in DOMAIN q : /\ SocketUser(q[i]) = u
                                   /\ \A j \in DOMAIN q : j > i => SocketUser(q[j]) # u}
<1>1. last = {} <=> mine = {}
  <2>1. ASSUME mine # {} PROVE last # {}
    <3>1. DOMAIN q = 1..Len(q) /\ Len(q) \in Nat
      OBVIOUS
    <3>2. mine \subseteq 1..Len(q)
      BY <3>1
    <3> HIDE DEF mine
    <3>3. PICK i \in mine : \A j \in mine : j <= i
      BY <2>1, <3>1, <3>2, LastIndex
    <3>4. \A j \in DOMAIN q : j > i => j \notin mine
      BY <3>1, <3>2, <3>3
    <3>5. i \in last
      BY <3>4 DEF mine
    <3> QED BY <3>5
  <2>2. last \subseteq mine
    OBVIOUS
  <2> QED BY <2>1, <2>2
<1>2. GetRoomUsers(q)[u] = IF last = {} THEN NoSocket ELSE q[CHOOSE i \in last : TRUE]
  BY DEF GetRoomUsers
<1>3. last # {} => q[CHOOSE i \in last : TRUE] \in Sockets
  OBVIOUS
<1>4. IsUserInRoom(q, u) <=> mine # {}
  BY DEF IsUserInRoom
<1> HIDE DEF last, mine
<1> QED BY <1>1, <1>2, <1>3, <1>4, PresenceConstants

(* Of the messages on their way, the latest that is in A is in G.           *)
NoneOf(q, A) == \A i \in DOMAIN q : q[i] \notin A
LatestOf(q, A, G) ==
  \A i \in DOMAIN q :
    q[i] \in A /\ (\A j \in DOMAIN q : j > i => q[j] \notin A) => q[i] \in G

About(u)   == {m \in Message : m.type # "room-users" => m.user = u}
Showing(u) == {m \in Message : m.type = "user-joined" \/ (m.type = "room-users" /\ m.list[u] # NoSocket)}
Hiding(u)  == Message \ Showing(u)

(* With nothing about the user on its way, the tab shows what R allows.     *)
Known(q, row, u, G, R) ==
  /\ LatestOf(q, About(u), G)
  /\ NoneOf(q, About(u)) => row[u] \in R

(* A tab that is in its room will show each user who is in it and none whom *)
(* the others no longer see; about those in grace it may have heard either. *)
Present(r) == {u \in Users : IsUserInRoom(rooms[r], u)}
Told(t, u) ==
  /\ u \in Present(page[t]) => Known(down[sock[t]], roster[t], u, Showing(u), Sockets)
  /\ u \notin Visible(page[t]) => Known(down[sock[t]], roster[t], u, Hiding(u), {NoSocket})

(* A connected tab shows a page, and joins the room of that page only.      *)
TabsJoinTheirPage ==
  \A t \in Tabs : sock[t] # NoSocket =>
    /\ TabOf[sock[t]] = t /\ page[t] # NoRoom
    /\ socketRoom[sock[t]] \in {NoRoom, page[t]}
    /\ \A i \in DOMAIN up[sock[t]] :
         up[sock[t]][i].type = "join-room" => up[sock[t]][i].room = page[t]
TabsToldTheirRoom == \A t \in Tabs : InRoom(t) => \A u \in Users : Told(t, u)

PeersInv == IInv /\ TabsJoinTheirPage /\ TabsToldTheirRoom

(* One more message, and one fewer.                                         *)
LEMMA KnownAppended ==
  ASSUME NEW q \in Seq(Message), NEW m \in Message, NEW row, NEW u, NEW G, NEW R,
         m \in About(u) => m \in G,
         m \in About(u) \/ Known(q, row, u, G, R)
  PROVE  Known(Append(q, m), row, u, G, R)
<1> DEFINE p == Append(q, m)
           n == Len(q) + 1
<1>1. /\ n \in Nat /\ 1 <= n /\ DOMAIN p = 1..n /\ DOMAIN q = 1..(n - 1) /\ p[n] = m
      /\ \A i \in DOMAIN q : i \in DOMAIN p /\ i < n /\ p[i] = q[i]
      /\ \A i \in DOMAIN p : i = n \/ i \in DOMAIN q
  OBVIOUS
<1> HIDE DEF p, n
<1>2. LatestOf(p, About(u), G)
  <2> SUFFICES ASSUME NEW i \in DOMAIN p, p[i] \in About(u),
                      \A j \in DOMAIN p : j > i => p[j] \notin About(u)
               PROVE  p[i] \in G
    BY DEF LatestOf
  <2>1. CASE i = n
    BY <1>1, <2>1
  <2>2. CASE i \in DOMAIN q
    <3>1. n \in DOMAIN p /\ n > i
      BY <1>1, <2>2
    <3>2. LatestOf(q, About(u), G)
      BY <1>1, <3>1 DEF Known
    <3>3. q[i] \in About(u) /\ \A j \in DOMAIN q : j > i => q[j] \notin About(u)
      BY <1>1, <2>2
    <3> QED BY <1>1, <2>2, <3>2, <3>3 DEF LatestOf
  <2> QED BY <1>1, <2>1, <2>2
<1>3. ASSUME NoneOf(p, About(u)) PROVE row[u] \in R
  <2>1. n \in DOMAIN p
    BY <1>1
  <2>2. m \notin About(u)
    BY <1>1, <1>3, <2>1 DEF NoneOf
  <2>3. NoneOf(q, About(u))
    BY <1>1, <1>3 DEF NoneOf
  <2> QED BY <2>2, <2>3 DEF Known
<1> QED BY <1>2, <1>3 DEF Known, p

LEMMA KnownReceived ==
  ASSUME NEW q \in Seq(Message), q # <<>>, NEW row, NEW new, NEW u, NEW G, NEW R,
         Known(q, row, u, G, R),
         Head(q) \in About(u) \cap G => new[u] \in R,
         Head(q) \notin About(u) => new[u] = row[u]
  PROVE  Known(Tail(q), new, u, G, R)
<1> DEFINE p == Tail(q)
<1>1. /\ Len(q) \in Nat /\ DOMAIN q = 1..Len(q) /\ 1 \in DOMAIN q /\ Head(q) = q[1]
      /\ \A i \in DOMAIN p : i \in Nat /\ i + 1 \in DOMAIN q /\ p[i] = q[i + 1]
      /\ \A j \in DOMAIN q : j = 1 \/ (j > 1 /\ j - 1 \in DOMAIN p /\ p[j - 1] = q[j])
  OBVIOUS
<1> HIDE DEF p
<1>2. LatestOf(p, About(u), G)
  <2> SUFFICES ASSUME NEW i \in DOMAIN p, p[i] \in About(u),
                      \A j \in DOMAIN p : j > i => p[j] \notin About(u)
               PROVE  p[i] \in G
    BY DEF LatestOf
  <2>1. ASSUME NEW j \in DOMAIN q, j > i + 1 PROVE q[j] \notin About(u)
    <3>1. j \in Nat /\ i \in Nat /\ j # 1 /\ j - 1 > i
      BY <1>1, <2>1
    <3> QED BY <1>1, <2>1, <3>1
  <2> QED BY <1>1, <2>1 DEF Known, LatestOf
<1>3. ASSUME NoneOf(p, About(u)) PROVE new[u] \in R
  <2>1. \A j \in DOMAIN q : j > 1 => q[j] \notin About(u)
    BY <1>1, <1>3 DEF NoneOf
  <2>2. CASE Head(q) \in About(u)
    BY <1>1, <2>1, <2>2 DEF Known, LatestOf
  <2>3. CASE Head(q) \notin About(u)
    <3>1. NoneOf(q, About(u))
      BY <1>1, <2>1, <2>3 DEF NoneOf
    <3> QED BY <2>3, <3>1 DEF Known
  <2> QED BY <2>2, <2>3
<1> QED BY <1>2, <1>3 DEF Known, p

-----------------------------------------------------------------------------
(* What a step of the server does to a room, and what it tells a connected  *)
(* tab that stays in it: nothing, the whole list, or who came or went.      *)
ListOf(list)    == [type |-> "room-users", list |-> list]
Joined(u, x)    == [type |-> "user-joined", user |-> u, socket |-> x]
Left(u)         == [type |-> "user-left", user |-> u]

Untold(s, r) == down'[s] = down[s] /\ Present(r)' \subseteq Present(r) /\ Visible(r)' = Visible(r)
ToldAll(s, r) ==
  \E list \in Row :
    /\ down'[s] = Append(down[s], ListOf(list))
    /\ \A u \in Users : list[u] # NoSocket <=> u \in Present(r)'
ToldJoined(s, r) ==
  \E u \in Users, x \in Sockets :
    /\ down'[s] = Append(down[s], Joined(u, x))
    /\ u \notin Visible(r) /\ Visible(r)' = Visible(r) \cup {u}
    /\ u \in Present(r)' /\ Present(r)' \subseteq Present(r) \cup {u}
ToldLeft(s, r) ==
  \E u \in Users :
    /\ down'[s] = Append(down[s], Left(u))
    /\ u \in Visible(r) /\ Visible(r)' = Visible(r) \ {u}
    /\ Present(r)' \subseteq Present(r)

News(s, r) ==
  \/ Untold(s, r)
  \/ ToldAll(s, r) /\ Visible(r)' = Visible(r)
  \/ ToldJoined(s, r) \/ ToldLeft(s, r)

LEMMA MessageKinds ==
  /\ \A list \in Row : /\ ListOf(list) \in Message
                       /\ \A u \in Users :
                            /\ ListOf(list) \in About(u)
                            /\ ListOf(list) \in Showing(u) <=> list[u] # NoSocket
  /\ \A u \in Users, x \in Sockets :
       /\ Joined(u, x) \in Message
       /\ \A v \in Users : Joined(u, x) \in About(v) <=> v = u
       /\ Joined(u, x) \in Showing(u)
  /\ \A u \in Users :
       /\ Left(u) \in Message
       /\ \A v \in Users : Left(u) \in About(v) <=> v = u
       /\ Left(u) \in Hiding(u)
BY DEF ListOf, Joined, Left, Message, About, Showing, Hiding

LEMMA VisibleParts ==
  ASSUME NEW r PROVE Visible(r) = Present(r) \cup {u \in Users : <<r, u>> \in pendingLeaves}
BY DEF Visible, Present

(* A tab that is told the news keeps what it will show right.               *)
LEMMA ToldOfAll ==
  ASSUME TypeOK, NEW t \in Tabs, NEW s \in Sockets, NEW r,
         sock'[t] = s, page'[t] = r, ToldAll(s, r), NEW u \in Users
  PROVE  Told(t, u)'
<1>1. PICK list \in Row :
        /\ down'[s] = Append(down[s], ListOf(list))
        /\ \A v \in Users : list[v] # NoSocket <=> v \in Present(r)'
  BY DEF ToldAll
<1>2. /\ ListOf(list) \in Message /\ ListOf(list) \in About(u)
      /\ ListOf(list) \in Showing(u) <=> u \in Present(r)'
  BY <1>1, MessageKinds
<1>3. down[s] \in Seq(Message)
  BY DEF TypeOK
<1>4. u \in Present(r)' => Known(down'[s], roster'[t], u, Showing(u), Sockets)
  BY <1>1, <1>2, <1>3, KnownAppended
<1>5. u \notin Present(r)' => Known(down'[s], roster'[t], u, Hiding(u), {NoSocket})
  <2>1. u \notin Present(r)' => ListOf(list) \in Hiding(u)
    BY <1>2 DEF Hiding
  <2> QED BY <1>1, <1>2, <1>3, <2>1, KnownAppended
<1>6. u \notin Visible(r)' => u \notin Present(r)'
  BY DEF Visible, Present
<1> QED BY <1>4, <1>5, <1>6 DEF Told

LEMMA ToldOfNews ==
  ASSUME TypeOK, NEW t \in Tabs, NEW s \in Sockets, NEW r,
         sock[t] = s, sock'[t] = s, page[t] = r, page'[t] = r, roster'[t] = roster[t],
         News(s, r), NEW u \in Users, Told(t, u)
  PROVE  Told(t, u)'
<1> DEFINE Shows(q) == Known(q, roster[t], u, Showing(u), Sockets)
           Hides(q) == Known(q, roster[t], u, Hiding(u), {NoSocket})
<1>0. down[s] \in Seq(Message)
  BY DEF TypeOK
<1>1. /\ u \in Present(r) => Shows(down[s])
      /\ u \notin Visible(r) => Hides(down[s])
  BY DEF Told
<1>2. SUFFICES /\ u \in Present(r)' => Shows(down'[s])
               /\ u \notin Visible(r)' => Hides(down'[s])
  BY DEF Told
<1>3. CASE Untold(s, r)
  BY <1>1, <1>3 DEF Untold
<1>4. CASE ToldAll(s, r)
  <2>1. Told(t, u)'
    BY <1>4, ToldOfAll
  <2> QED BY <2>1 DEF Told
<1>5. CASE ToldJoined(s, r)
  <2>1. PICK v \in Users, x \in Sockets :
          /\ down'[s] = Append(down[s], Joined(v, x))
          /\ v \notin Visible(r) /\ Visible(r)' = Visible(r) \cup {v}
          /\ v \in Present(r)' /\ Present(r)' \subseteq Present(r) \cup {v}
    BY <1>5 DEF ToldJoined
  <2>2. /\ Joined(v, x) \in Message /\ (Joined(v, x) \in About(u) <=> u = v)
        /\ Joined(v, x) \in Showing(v)
    BY MessageKinds
  <2>3. u \in Present(r)' => Shows(down'[s])
    <3>1. u \in Present(r)' => u = v \/ Shows(down[s])
      BY <1>1, <2>1
    <3> QED BY <1>0, <2>1, <2>2, <3>1, KnownAppended
  <2>4. u \notin Visible(r)' => Hides(down'[s])
    <3>1. u \notin Visible(r)' => u # v /\ Hides(down[s])
      BY <1>1, <2>1
    <3> QED BY <1>0, <2>1, <2>2, <3>1, KnownAppended
  <2> QED BY <2>3, <2>4
<1>6. CASE ToldLeft(s, r)
  <2>1. PICK v \in Users :
          /\ down'[s] = Append(down[s], Left(v))
          /\ v \in Visible(r) /\ Visible(r)' = Visible(r) \ {v}
          /\ Present(r)' \subseteq Present(r)
    BY <1>6 DEF ToldLeft
  <2>2. /\ Left(v) \in Message /\ (Left(v) \in About(u) <=> u = v) /\ Left(v) \in Hiding(v)
    BY MessageKinds
  <2>3. u \in Present(r)' => Shows(down'[s])
    <3>1. v \notin Present(r)'
      BY <2>1 DEF Visible, Present
    <3>2. u \in Present(r)' => u # v /\ Shows(down[s])
      BY <1>1, <2>1, <3>1
    <3> QED BY <1>0, <2>1, <2>2, <3>2, KnownAppended
  <2>4. u \notin Visible(r)' => Hides(down'[s])
    <3>1. u \notin Visible(r)' => u = v \/ Hides(down[s])
      BY <1>1, <2>1
    <3> QED BY <1>0, <2>1, <2>2, <3>1, KnownAppended
  <2> QED BY <2>3, <2>4
<1> QED BY <1>3, <1>4, <1>5, <1>6 DEF News

(* The announcements AnnouncedOnce asks for are those of the news.          *)
Announced(s, r, u) ==
  /\ Heard(s, "user-joined", u) <=> u \in Visible(r)' \ Visible(r)
  /\ Heard(s, "user-left", u) <=> u \in Visible(r) \ Visible(r)'

LEMMA HeardOne ==
  ASSUME TypeOK, NEW s \in Sockets, NEW m \in Message, down'[s] = Append(down[s], m),
         NEW type, NEW u
  PROVE  Heard(s, type, u) <=> m.type = type /\ m.user = u
<1>1. /\ down[s] \in Seq(Message) /\ Len(down[s]) \in Nat
      /\ Len(down'[s]) = Len(down[s]) + 1 /\ down'[s][Len(down[s]) + 1] = m
  BY DEF TypeOK
<1>2. \A i \in Len(down[s]) + 1 .. Len(down'[s]) : i = Len(down[s]) + 1
  BY <1>1
<1>3. Len(down[s]) + 1 \in Len(down[s]) + 1 .. Len(down'[s])
  BY <1>1
<1> QED BY <1>1, <1>2, <1>3 DEF Heard

LEMMA HeardNone ==
  ASSUME TypeOK, NEW s \in Sockets, down'[s] = down[s], NEW type, NEW u
  PROVE  ~Heard(s, type, u)
<1>1. Len(down[s]) \in Nat
  BY DEF TypeOK
<1>2. Len(down[s]) + 1 .. Len(down'[s]) = {}
  BY <1>1
<1> QED BY <1>2 DEF Heard

LEMMA NewsAnnounced ==
  ASSUME TypeOK, NEW s \in Sockets, NEW r, News(s, r), NEW u \in Users
  PROVE  Announced(s, r, u)
<1>1. CASE Untold(s, r)
  BY <1>1, HeardNone DEF Untold, Announced
<1>2. CASE ToldAll(s, r) /\ Visible(r)' = Visible(r)
  <2>1. PICK list \in Row : down'[s] = Append(down[s], ListOf(list))
    BY <1>2 DEF ToldAll
  <2>2. ListOf(list) \in Message /\ ListOf(list).type = "room-users"
    BY MessageKinds DEF ListOf
  <2>3. ~Heard(s, "user-joined", u) /\ ~Heard(s, "user-left", u)
    BY <2>1, <2>2, HeardOne
  <2> QED BY <1>2, <2>3 DEF Announced
<1>3. CASE ToldJoined(s, r)
  <2>1. PICK v \in Users, x \in Sockets :
          /\ down'[s] = Append(down[s], Joined(v, x))
          /\ v \notin Visible(r) /\ Visible(r)' = Visible(r) \cup {v}
    BY <1>3 DEF ToldJoined
  <2>2. Joined(v, x) \in Message /\ Joined(v, x).type = "user-joined" /\ Joined(v, x).user = v
    BY MessageKinds DEF Joined
  <2>3. (Heard(s, "user-joined", u) <=> u = v) /\ ~Heard(s, "user-left", u)
    BY <2>1, <2>2, HeardOne
  <2> QED BY <2>1, <2>3 DEF Announced
<1>4. CASE ToldLeft(s, r)
  <2>1. PICK v \in Users :
          /\ down'[s] = Append(down[s], Left(v))
          /\ v \in Visible(r) /\ Visible(r)' = Visible(r) \ {v}
    BY <1>4 DEF ToldLeft
  <2>2. Left(v) \in Message /\ Left(v).type = "user-left" /\ Left(v).user = v
    BY MessageKinds DEF Left
  <2>3. (Heard(s, "user-left", u) <=> u = v) /\ ~Heard(s, "user-joined", u)
    BY <2>1, <2>2, HeardOne
  <2> QED BY <2>1, <2>3 DEF Announced
<1> QED BY <1>1, <1>2, <1>3, <1>4 DEF News

-----------------------------------------------------------------------------
(* the news of each handler *)

LEMMA PresentBySocket ==
  ASSUME NEW r
  PROVE  /\ Present(r) = {u \in Users : \E x \in Entries(rooms[r]) : SocketUser(x) = u}
         /\ Present(r)' = {u \in Users : \E x \in Entries(rooms'[r]) : SocketUser(x) = u}
BY InRoomBySocket DEF Present, IsUserInRoom, Entries, SocketUser

LEMMA JoinFacts ==
  ASSUME IInv, NEW s \in Sockets, JoinRoom(s),
         NEW r, r = Head(up[s]).room, NEW u, u = SocketUser(s)
  PROVE  /\ r \in Rooms /\ u \in Users /\ up[s] # <<>>
         /\ up[s][1].type = "join-room" /\ up[s][1].room = r
         /\ socketRoom[s] = NoRoom /\ socketRoom' = [socketRoom EXCEPT ![s] = r]
         /\ rooms'[r] \in Seq(Sockets)
         /\ Present(r)' = Present(r) \cup {u}
         /\ \A q \in Rooms \ {r} : rooms'[q] = rooms[q] /\ Present(q)' = Present(q)
         /\ pendingLeaves' = pendingLeaves \ {<<r, u>>}
         /\ UNCHANGED browser /\ live' = live /\ up' = [up EXCEPT ![s] = Tail(@)]
<1>1. up[s] \in Seq(Packet) /\ up[s] # <<>> /\ Head(up[s]).type = "join-room"
  BY DEF JoinRoom, Arrived, IInv, TypeOK
<1>2. r \in Rooms /\ socketRoom[s] = NoRoom /\ Head(up[s]) = up[s][1]
  BY <1>1 DEF Packet, IInv, JoinOnce
<1>3. rooms[r] \in Seq(Sockets) /\ NoRepeats(rooms[r])
  BY <1>2 DEF IInv, TypeOK, RegistryAgrees
<1>4. rooms' = [rooms EXCEPT ![r] = AddUser(@, s)]
  BY DEF JoinRoom
<1>5. rooms'[r] = AddUser(rooms[r], s) /\ \A q \in Rooms \ {r} : rooms'[q] = rooms[q]
  BY <1>2, <1>4 DEF IInv, TypeOK
<1>6. rooms'[r] \in Seq(Sockets) /\ Entries(rooms'[r]) = Entries(rooms[r]) \cup {s}
  <2>1. /\ AddUser(rooms[r], s) \in Seq(Sockets)
        /\ Entries(AddUser(rooms[r], s)) = Entries(rooms[r]) \cup {s}
    BY <1>3, AddUserEntries
  <2> QED BY <1>5, <2>1
<1>7. u \in Users
  BY PresenceConstants DEF SocketUser
<1>8. Present(r)' = Present(r) \cup {u}
  BY <1>6, <1>7, PresentBySocket
<1>9. \A q \in Rooms \ {r} : Present(q)' = Present(q)
  BY <1>5, PresentBySocket
<1>10. /\ socketRoom' = [socketRoom EXCEPT ![s] = r]
       /\ pendingLeaves' = pendingLeaves \ {<<r, u>>}
       /\ UNCHANGED browser /\ live' = live /\ up' = [up EXCEPT ![s] = Tail(@)]
  BY DEF JoinRoom
<1> QED BY <1>1, <1>2, <1>5, <1>6, <1>7, <1>8, <1>9, <1>10

LEMMA JoinSends ==
  ASSUME IInv, NEW s \in Sockets, JoinRoom(s),
         NEW r, r = Head(up[s]).room, NEW u, u = SocketUser(s),
         NEW q \in Sockets, Attached(q)
  PROVE  /\ q = s \/ (q \in ioRoom[r] /\ <<r, u>> \in pendingLeaves) => ToldAll(q, r)
         /\ q # s /\ q \in ioRoom[r] /\ <<r, u>> \notin pendingLeaves =>
              IF u \in Present(r) THEN down'[q] = down[q]
              ELSE down'[q] = Append(down[q], Joined(u, s))
         /\ q # s /\ q \notin ioRoom[r] => down'[q] = down[q]
<1> DEFINE list == GetRoomUsers(AddUser(rooms[r], s))
<1>1. /\ r \in Rooms /\ u \in Users /\ rooms'[r] \in Seq(Sockets)
  BY JoinFacts
<1>2. rooms'[r] = AddUser(rooms[r], s)
  <2>1. rooms' = [rooms EXCEPT ![r] = AddUser(@, s)]
    BY DEF JoinRoom
  <2> QED BY <1>1, <2>1 DEF IInv, TypeOK
<1>3. list = GetRoomUsers(rooms'[r])
  BY <1>2
<1>4. list \in Row
  BY <1>1, <1>3, GetRoomUsersType
<1>5. \A v \in Users : list[v] # NoSocket <=> v \in Present(r)'
  <2>1. \A v \in Users : v \in Present(r)' <=> IsUserInRoom(rooms'[r], v)
    BY DEF Present, IsUserInRoom, SocketUser
  <2> HIDE DEF list
  <2> QED BY <1>1, <1>3, <2>1, GetRoomUsersShows
<1>6. down'[q] = down[q] \o JoinNews(s, r, u, list)[q] /\ down[q] \in Seq(Message)
  BY DEF JoinRoom, IInv, TypeOK
<1>7. \A m : down[q] \o <<m>> = Append(down[q], m)
  BY <1>6
<1>8. down[q] \o <<>> = down[q]
  BY <1>6
<1> HIDE DEF list
<1>9. IsUserInRoom(rooms[r], u) <=> u \in Present(r)
  BY <1>1 DEF Present
<1>10. ASSUME q = s \/ (q \in ioRoom[r] /\ <<r, u>> \in pendingLeaves)
       PROVE  ToldAll(q, r)
  <2>1. JoinNews(s, r, u, list)[q] = <<ListOf(list)>>
    BY <1>10 DEF JoinNews, ListOf
  <2>2. down'[q] = Append(down[q], ListOf(list))
    BY <1>6, <1>7, <2>1
  <2> QED BY <1>4, <1>5, <2>2 DEF ToldAll
<1>11. ASSUME q # s, q \in ioRoom[r], <<r, u>> \notin pendingLeaves
       PROVE  IF u \in Present(r) THEN down'[q] = down[q]
              ELSE down'[q] = Append(down[q], Joined(u, s))
  <2>1. JoinNews(s, r, u, list)[q] = IF u \in Present(r) THEN <<>> ELSE <<Joined(u, s)>>
    BY <1>9, <1>11 DEF JoinNews, Joined
  <2> QED BY <1>6, <1>7, <1>8, <2>1
<1>12. ASSUME q # s, q \notin ioRoom[r] PROVE down'[q] = down[q]
  <2>1. JoinNews(s, r, u, list)[q] = <<>>
    BY <1>12 DEF JoinNews
  <2> QED BY <1>6, <1>8, <2>1
<1> QED BY <1>10, <1>11, <1>12

LEMMA JoinRoomNews ==
  ASSUME IInv, NEW s \in Sockets, JoinRoom(s),
         NEW q \in Sockets, NEW r \in Rooms, q \in ioRoom[r], Attached(q)
  PROVE  q # s /\ News(q, r)
<1>0. PICK j, u : j = Head(up[s]).room /\ u = SocketUser(s)
  OBVIOUS
<1>1. /\ j \in Rooms /\ u \in Users /\ socketRoom[s] = NoRoom
      /\ Present(j)' = Present(j) \cup {u}
      /\ \A k \in Rooms \ {j} : Present(k)' = Present(k)
      /\ pendingLeaves' = pendingLeaves \ {<<j, u>>}
  <2>1. j \in Rooms /\ u \in Users /\ socketRoom[s] = NoRoom
    BY <1>0, JoinFacts
  <2>2. Present(j)' = Present(j) \cup {u}
    BY <1>0, JoinFacts
  <2>3. pendingLeaves' = pendingLeaves \ {<<j, u>>}
    BY <1>0, JoinFacts
  <2>4. \A k \in Rooms \ {j} : rooms'[k] = rooms[k] /\ Present(k)' = Present(k)
    BY <1>0, JoinFacts
  <2> QED BY <2>1, <2>2, <2>3, <2>4
<1>2. socketRoom[q] = r
  BY DEF IInv, RegistryAgrees
<1>3. q # s
  BY <1>1, <1>2, PresenceConstants
<1>4. r # j => q \notin ioRoom[j]
  BY <1>1, <1>2 DEF IInv, RegistryAgrees
<1>5. /\ q \in ioRoom[j] /\ <<j, u>> \in pendingLeaves => ToldAll(q, j)
      /\ q \in ioRoom[j] /\ <<j, u>> \notin pendingLeaves =>
           IF u \in Present(j) THEN down'[q] = down[q]
           ELSE down'[q] = Append(down[q], Joined(u, s))
      /\ q \notin ioRoom[j] => down'[q] = down[q]
  BY <1>0, <1>3, JoinSends
<1>6. \A k : /\ Visible(k) = Present(k) \cup {v \in Users : <<k, v>> \in pendingLeaves}
             /\ Visible(k)' = Present(k)' \cup {v \in Users : <<k, v>> \in pendingLeaves'}
  BY DEF Visible, Present
<1>7. CASE r # j
  <2>1. Visible(r)' = Visible(r) /\ Present(r)' = Present(r)
    BY <1>1, <1>6, <1>7
  <2> QED BY <1>3, <1>4, <1>5, <1>7, <2>1 DEF News, Untold
<1>8. CASE r = j /\ <<j, u>> \in pendingLeaves
  <2>1. Visible(j)' = Visible(j)
    BY <1>1, <1>6, <1>8
  <2> QED BY <1>3, <1>5, <1>8, <2>1 DEF News
<1>9. CASE r = j /\ <<j, u>> \notin pendingLeaves
  <2>1. Visible(j)' = Visible(j) \cup {u} /\ (u \in Visible(j) <=> u \in Present(j))
    BY <1>1, <1>6, <1>9
  <2>2. CASE u \in Present(j)
    <3>1. Visible(j)' = Visible(j) /\ Present(j)' = Present(j)
      BY <1>1, <2>1, <2>2
    <3> QED BY <1>3, <1>5, <1>9, <2>2, <3>1 DEF News, Untold
  <2>3. CASE u \notin Present(j)
    <3>1. ToldJoined(q, j)
      BY <1>1, <1>5, <1>9, <2>1, <2>3 DEF ToldJoined
    <3> QED BY <1>3, <1>9, <3>1 DEF News
  <2> QED BY <2>2, <2>3
<1> QED BY <1>7, <1>8, <1>9

(* A socket leaves the room it is in.                                       *)
LEMMA GoneFacts ==
  ASSUME IInv, NEW s \in Sockets, LeaveRoom(s) \/ Disconnect(s),
         NEW r, r = socketRoom[s], r # NoRoom, NEW u, u = SocketUser(s)
  PROVE  /\ r \in Rooms /\ u \in Users /\ u \in Present(r) /\ <<r, u>> \notin pendingLeaves
         /\ Present(r) = Present(r)' \cup {u}
         /\ \A k \in Rooms \ {r} : Present(k)' = Present(k)
         /\ rooms' = [rooms EXCEPT ![r] = RemoveUser(@, s)]
         /\ rooms'[r] = RemoveUser(rooms[r], s)
<1>1. r \in Rooms /\ s \in Entries(rooms[r])
  BY DEF IInv, TypeOK, RegistryAgrees
<1>2. /\ rooms' = [rooms EXCEPT ![r] = RemoveUser(@, s)]
      /\ socketRoom' = [socketRoom EXCEPT ![s] = NoRoom]
      /\ live \ {s} \subseteq live'
  BY DEF LeaveRoom, Disconnect, IInv, TypeOK
<1>3. \A k \in Rooms : ioRoom'[k] = ioRoom[k] \ {s}
  <2>1. CASE LeaveRoom(s)
    <3>1. ioRoom' = [ioRoom EXCEPT ![r] = @ \ {s}]
      BY <2>1 DEF LeaveRoom
    <3>2. \A k \in Rooms \ {r} : s \notin ioRoom[k]
      BY DEF IInv, RegistryAgrees
    <3> QED BY <1>1, <3>1, <3>2 DEF IInv, TypeOK
  <2>2. CASE Disconnect(s)
    BY <2>2 DEF Disconnect
  <2> QED BY <2>1, <2>2
<1>4. /\ Entries(rooms'[r]) = Entries(rooms[r]) \ {s}
      /\ \A k \in Rooms \ {r} : rooms'[k] = rooms[k]
  BY <1>1, <1>2, <1>3, SocketGone DEF IInv
<1>5. u \in Users
  BY PresenceConstants DEF SocketUser
<1>6. u \in Present(r) /\ Present(r) = Present(r)' \cup {u}
  BY <1>1, <1>4, <1>5, PresentBySocket
<1>7. <<r, u>> \notin pendingLeaves
  BY <1>1, <1>5, <1>6 DEF IInv, PendingLeaveMeansAbsent, Present
<1>8. \A k \in Rooms \ {r} : Present(k)' = Present(k)
  BY <1>4, PresentBySocket
<1>9. rooms'[r] = RemoveUser(rooms[r], s)
  BY <1>1, <1>2 DEF IInv, TypeOK
<1> QED BY <1>1, <1>2, <1>5, <1>6, <1>7, <1>8, <1>9

LEMMA EmitToOne ==
  ASSUME NEW ss, NEW m, NEW q \in Sockets, Attached(q)
  PROVE  EmitTo(ss, m)[q] = IF q \in ss THEN Append(down[q], m) ELSE down[q]
BY DEF EmitTo

LEMMA LeaveRoomNews ==
  ASSUME IInv, NEW s \in Sockets, LeaveRoom(s),
         NEW q \in Sockets, NEW r \in Rooms, q \in ioRoom[r], q # s, Attached(q)
  PROVE  News(q, r)
<1>0. PICK j, u : j = socketRoom[s] /\ u = SocketUser(s)
  OBVIOUS
<1>1. /\ j \in Rooms /\ u \in Users /\ u \in Present(j) /\ <<j, u>> \notin pendingLeaves
      /\ Present(j) = Present(j)' \cup {u}
      /\ \A k \in Rooms \ {j} : Present(k)' = Present(k)
      /\ rooms'[j] = RemoveUser(rooms[j], s)
  BY <1>0, GoneFacts DEF LeaveRoom
<1>2. pendingLeaves' = pendingLeaves
  BY <1>0, <1>1 DEF LeaveRoom
<1>3. down' = IF u \in Present(j)' THEN down ELSE EmitTo(ioRoom[j] \ {s}, Left(u))
  <2>1. u \in Present(j)' <=> IsUserInRoom(RemoveUser(rooms[j], s), u)
    BY <1>1 DEF Present, IsUserInRoom, SocketUser
  <2> QED BY <1>0, <2>1 DEF LeaveRoom, LeaveNews, Left
<1>4. r # j => q \notin ioRoom[j]
  BY <1>1 DEF IInv, RegistryAgrees
<1>5. \A k : /\ Visible(k) = Present(k) \cup {v \in Users : <<k, v>> \in pendingLeaves}
             /\ Visible(k)' = Present(k)' \cup {v \in Users : <<k, v>> \in pendingLeaves'}
  BY DEF Visible, Present
<1>6. down'[q] = IF u \notin Present(j)' /\ q \in ioRoom[j] THEN Append(down[q], Left(u)) ELSE down[q]
  BY <1>3, EmitToOne
<1>7. CASE r # j
  <2>1. Visible(r)' = Visible(r) /\ Present(r)' = Present(r)
    BY <1>1, <1>2, <1>5, <1>7
  <2> QED BY <1>4, <1>6, <1>7, <2>1 DEF News, Untold
<1>8. CASE r = j /\ u \in Present(j)'
  <2>1. Present(r)' = Present(r) /\ Visible(r)' = Visible(r)
    BY <1>1, <1>2, <1>5, <1>8
  <2> QED BY <1>6, <1>8, <2>1 DEF News, Untold
<1>9. CASE r = j /\ u \notin Present(j)'
  <2>1. u \in Visible(r) /\ Visible(r)' = Visible(r) \ {u} /\ Present(r)' \subseteq Present(r)
    BY <1>1, <1>2, <1>5, <1>9
  <2>2. ToldLeft(q, r)
    BY <1>1, <1>6, <1>9, <2>1 DEF ToldLeft
  <2> QED BY <2>2 DEF News
<1> QED BY <1>7, <1>8, <1>9

LEMMA DisconnectNews ==
  ASSUME IInv, NEW s \in Sockets, Disconnect(s),
         NEW q \in Sockets, NEW r \in Rooms
  PROVE  News(q, r)
<1>0. PICK j, u : j = socketRoom[s] /\ u = SocketUser(s)
  OBVIOUS
<1>1. \A k : /\ Visible(k) = Present(k) \cup {v \in Users : <<k, v>> \in pendingLeaves}
             /\ Visible(k)' = Present(k)' \cup {v \in Users : <<k, v>> \in pendingLeaves'}
  BY DEF Visible, Present
<1>2. down' = down
  BY DEF Disconnect
<1>3. CASE j = NoRoom
  <2>1. rooms' = rooms /\ pendingLeaves' = pendingLeaves
    BY <1>0, <1>3 DEF Disconnect
  <2>2. Present(r)' = Present(r)
    BY <2>1, PresentBySocket
  <2> QED BY <1>1, <1>2, <2>1, <2>2 DEF News, Untold
<1>4. CASE j # NoRoom
  <2>1. /\ j \in Rooms /\ u \in Users
        /\ Present(j) = Present(j)' \cup {u}
        /\ \A k \in Rooms \ {j} : Present(k)' = Present(k)
        /\ rooms'[j] = RemoveUser(rooms[j], s)
    BY <1>0, <1>4, GoneFacts
  <2>2. pendingLeaves' = IF u \in Present(j)' THEN pendingLeaves ELSE pendingLeaves \cup {<<j, u>>}
    <3>1. u \in Present(j)' <=> IsUserInRoom(RemoveUser(rooms[j], s), u)
      BY <2>1 DEF Present, IsUserInRoom, SocketUser
    <3> QED BY <1>0, <1>4, <3>1 DEF Disconnect
  <2>3. Visible(r)' = Visible(r) /\ Present(r)' \subseteq Present(r)
    <3>1. CASE r = j
      BY <1>1, <2>1, <2>2, <3>1
    <3>2. CASE r # j
      BY <1>1, <2>1, <2>2, <3>2
    <3> QED BY <3>1, <3>2
  <2> QED BY <1>2, <2>3 DEF News, Untold
<1> QED BY <1>3, <1>4

LEMMA LeaveTimerNews ==
  ASSUME IInv, NEW j \in Rooms, NEW u \in Users, LeaveTimer(j, u),
         NEW q \in Sockets, NEW r \in Rooms, q \in ioRoom[r], Attached(q)
  PROVE  News(q, r)
<1>1. /\ <<j, u>> \in pendingLeaves /\ pendingLeaves' = pendingLeaves \ {<<j, u>>}
      /\ rooms' = rooms
  BY DEF LeaveTimer
<1>2. u \notin Present(j)
  BY <1>1 DEF IInv, PendingLeaveMeansAbsent, Present
<1>3. Present(r)' = Present(r)
  BY <1>1, PresentBySocket
<1>4. down'[q] = IF q \in ioRoom[j] THEN Append(down[q], Left(u)) ELSE down[q]
  <2>1. ~IsUserInRoom(rooms[j], u)
    BY <1>2 DEF Present
  <2>2. down' = EmitTo(ioRoom[j], Left(u))
    BY <2>1 DEF LeaveTimer, Left
  <2> QED BY <2>2, EmitToOne
<1>5. /\ Visible(r) = Present(r) \cup {v \in Users : <<r, v>> \in pendingLeaves}
      /\ Visible(r)' = Present(r)' \cup {v \in Users : <<r, v>> \in pendingLeaves'}
  BY DEF Visible, Present
<1>6. CASE r = j
  <2>1. u \in Visible(r) /\ Visible(r)' = Visible(r) \ {u}
    BY <1>1, <1>2, <1>3, <1>5, <1>6
  <2>2. ToldLeft(q, r)
    BY <1>3, <1>4, <1>6, <2>1 DEF ToldLeft
  <2> QED BY <2>2 DEF News
<1>7. CASE r # j
  <2>1. q \notin ioRoom[j]
    BY <1>7 DEF IInv, RegistryAgrees
  <2>2. Visible(r)' = Visible(r)
    BY <1>1, <1>3, <1>5, <1>7
  <2> QED BY <1>3, <1>4, <2>1, <2>2 DEF News, Untold
<1> QED BY <1>6, <1>7

LEMMA QuietNews ==
  ASSUME UNCHANGED <<rooms, pendingLeaves, down>>, NEW q \in Sockets, NEW r \in Rooms
  PROVE  News(q, r)
<1>1. Present(r)' = Present(r)
  BY PresentBySocket
<1>2. Visible(r)' = Visible(r)
  BY <1>1 DEF Visible, Present
<1> QED BY <1>1, <1>2 DEF News, Untold

LEMMA ServerNews ==
  ASSUME IInv, Server, NEW q \in Sockets, NEW r \in Rooms,
         q \in ioRoom[r], q \in ioRoom'[r], Attached(q)
  PROVE  News(q, r)
<1>1. ASSUME NEW s \in Sockets, JoinRoom(s) PROVE News(q, r)
  BY <1>1, JoinRoomNews
<1>2. ASSUME NEW s \in Sockets, LeaveRoom(s) PROVE News(q, r)
  <2>1. socketRoom[s] \in Rooms /\ ioRoom' = [ioRoom EXCEPT ![socketRoom[s]] = @ \ {s}]
    BY <1>2 DEF LeaveRoom, IInv, TypeOK
  <2>2. q # s
    BY <2>1 DEF IInv, TypeOK, RegistryAgrees
  <2> QED BY <1>2, <2>2, LeaveRoomNews
<1>3. ASSUME NEW s \in Sockets, Disconnect(s) PROVE News(q, r)
  BY <1>3, DisconnectNews
<1>4. ASSUME NEW j \in Rooms, NEW u \in Users, LeaveTimer(j, u) PROVE News(q, r)
  BY <1>4, LeaveTimerNews
<1>5. ASSUME NEW s \in Sockets, LeaveRoomUnknown(s) PROVE News(q, r)
  BY <1>5, QuietNews DEF LeaveRoomUnknown, server
<1>6. ASSUME NEW j \in Rooms, ExpireTranscript(j) PROVE News(q, r)
  BY <1>6, QuietNews DEF ExpireTranscript
<1> QED BY <1>1, <1>2, <1>3, <1>4, <1>5, <1>6 DEF Server

-----------------------------------------------------------------------------
(* connected tabs, their packets and their rooms *)

LEMMA PacketsTaken ==
  ASSUME TypeOK, TabsJoinTheirPage, UNCHANGED <<page, sock>>,
         \A s \in Sockets : \/ up'[s] \in {up[s], <<>>}
                            \/ up[s] # <<>> /\ up'[s] = Tail(up[s]),
         \A s \in Sockets : \/ socketRoom'[s] \in {socketRoom[s], NoRoom}
                            \/ /\ up[s] # <<>> /\ up[s][1].type = "join-room"
                               /\ socketRoom'[s] = up[s][1].room
  PROVE  TabsJoinTheirPage'
<1> SUFFICES ASSUME NEW t \in Tabs, sock[t] # NoSocket
             PROVE  /\ TabOf[sock[t]] = t /\ page[t] # NoRoom
                    /\ socketRoom'[sock[t]] \in {NoRoom, page[t]}
                    /\ \A i \in DOMAIN up'[sock[t]] :
                         up'[sock[t]][i].type = "join-room" => up'[sock[t]][i].room = page[t]
  BY DEF TabsJoinTheirPage
<1> DEFINE s == sock[t]
<1>1. s \in Sockets /\ up[s] \in Seq(Packet)
  BY DEF TypeOK
<1>2. /\ TabOf[s] = t /\ page[t] # NoRoom
      /\ socketRoom[s] \in {NoRoom, page[t]}
      /\ \A i \in DOMAIN up[s] : up[s][i].type = "join-room" => up[s][i].room = page[t]
  BY DEF TabsJoinTheirPage
<1> HIDE DEF s
<1>3. up[s] # <<>> => 1 \in DOMAIN up[s]
  BY <1>1
<1>4. socketRoom'[s] \in {NoRoom, page[t]}
  BY <1>1, <1>2, <1>3
<1>5. ASSUME NEW i \in DOMAIN up'[s], up'[s][i].type = "join-room"
      PROVE  up'[s][i].room = page[t]
  <2>1. CASE up'[s] = up[s]
    BY <1>2, <1>5, <2>1
  <2>2. CASE up'[s] = <<>>
    BY <1>5, <2>2
  <2>3. CASE up[s] # <<>> /\ up'[s] = Tail(up[s])
    <3>1. i + 1 \in DOMAIN up[s] /\ up'[s][i] = up[s][i + 1]
      BY <1>1, <1>5, <2>3, TailElements
    <3> QED BY <1>2, <1>5, <3>1
  <2> QED BY <1>1, <2>1, <2>2, <2>3
<1> QED BY <1>2, <1>4, <1>5 DEF s

LEMMA TabsJoinServer ==
  ASSUME IInv, TabsJoinTheirPage, Server
  PROVE  TabsJoinTheirPage'
<1> USE DEF browser, server
<1>0. TypeOK
  BY DEF IInv
<1>1. ASSUME NEW s \in Sockets, JoinRoom(s) PROVE TabsJoinTheirPage'
  <2> DEFINE r == Head(up[s]).room
  <2>1. /\ up[s] # <<>> /\ up[s][1].type = "join-room" /\ up[s][1].room = r
        /\ socketRoom' = [socketRoom EXCEPT ![s] = r]
        /\ up' = [up EXCEPT ![s] = Tail(@)]
        /\ UNCHANGED <<page, sock>>
    BY <1>1, JoinFacts
  <2> HIDE DEF r
  <2> QED BY <1>0, <2>1, PacketsTaken DEF TypeOK
<1>2. ASSUME NEW s \in Sockets, LeaveRoom(s) \/ LeaveRoomUnknown(s) PROVE TabsJoinTheirPage'
  <2>1. /\ up[s] # <<>> /\ up' = [up EXCEPT ![s] = Tail(@)] /\ UNCHANGED <<page, sock>>
        /\ socketRoom' \in {socketRoom, [socketRoom EXCEPT ![s] = NoRoom]}
    BY <1>2 DEF LeaveRoom, LeaveRoomUnknown, Arrived
  <2> QED BY <1>0, <2>1, PacketsTaken DEF TypeOK
<1>3. ASSUME NEW s \in Sockets, Disconnect(s) PROVE TabsJoinTheirPage'
  <2>1. /\ up' = [up EXCEPT ![s] = <<>>] /\ UNCHANGED <<page, sock>>
        /\ socketRoom' \in {socketRoom, [socketRoom EXCEPT ![s] = NoRoom]}
    BY <1>3 DEF Disconnect
  <2> QED BY <1>0, <2>1, PacketsTaken DEF TypeOK
<1>4. ASSUME UNCHANGED <<up, socketRoom, page, sock>> PROVE TabsJoinTheirPage'
  BY <1>4 DEF TabsJoinTheirPage
<1> QED BY <1>1, <1>2, <1>3, <1>4 DEF Server, LeaveTimer, ExpireTranscript

(* What the browser does to the other tabs: nothing; and a tab that stays   *)
(* connected keeps its page.                                                *)
LEMMA TabsOfBrowser ==
  ASSUME IInv, TabsJoinTheirPage, NEW c \in Tabs,
         \/ \E r \in Rooms : OpenPage(c, r)
         \/ \E s \in Sockets : Connect(c, s)
         \/ LoseConnection(c) \/ LeaveCall(c) \/ CloseTab(c) \/ Receive(c)
  PROVE  /\ UNCHANGED <<rooms, socketRoom, pendingLeaves, ioRoom>>
         /\ \A t \in Tabs \ {c} :
              /\ page'[t] = page[t] /\ sock'[t] = sock[t] /\ roster'[t] = roster[t]
              /\ sock[t] # NoSocket =>
                   up'[sock[t]] = up[sock[t]] /\ down'[sock[t]] = down[sock[t]]
         /\ \/ sock'[c] = NoSocket
            \/ \E s \in Sockets : Connect(c, s)
            \/ Receive(c)
<1> USE DEF server
<1>0. /\ page \in [Tabs -> Rooms \cup {NoRoom}] /\ sock \in [Tabs -> Sockets \cup {NoSocket}]
      /\ roster \in [Tabs -> Row]
      /\ up \in [Sockets -> Seq(Packet)] /\ down \in [Sockets -> Seq(Message)]
  BY DEF IInv, TypeOK
<1>1. \A t \in Tabs \ {c} : sock[t] # NoSocket => sock[t] # sock[c] /\ TabOf[sock[t]] # c
  BY DEF TabsJoinTheirPage
<1>2. ASSUME NEW r \in Rooms, OpenPage(c, r)
      PROVE  /\ sock'[c] = NoSocket /\ UNCHANGED <<up, down, sock, roster>>
             /\ \A t \in Tabs \ {c} : page'[t] = page[t]
  BY <1>0, <1>2 DEF OpenPage, TabsJoinTheirPage
<1>3. ASSUME NEW s \in Sockets, Connect(c, s)
      PROVE  /\ UNCHANGED <<page, down, roster>>
             /\ \A t \in Tabs \ {c} : /\ sock'[t] = sock[t]
                                      /\ sock[t] # NoSocket => up'[sock[t]] = up[sock[t]]
  <2>1. \A x \in Sockets \ {s} : up'[x] = up[x]
    BY <1>0, <1>3 DEF Connect
  <2>2. \A t \in Tabs \ {c} : sock'[t] = sock[t]
    BY <1>0, <1>3 DEF Connect
  <2>3. \A t \in Tabs \ {c} : sock[t] # NoSocket => sock[t] \in Sockets \ {s}
    BY <1>0, <1>1, <1>3 DEF Connect
  <2> QED BY <1>3, <2>1, <2>2, <2>3 DEF Connect
<1>4. CASE LoseConnection(c) \/ LeaveCall(c) \/ CloseTab(c)
  <2>1. /\ sock' = [sock EXCEPT ![c] = NoSocket]
        /\ page' \in {page, [page EXCEPT ![c] = NoRoom]}
        /\ roster' \in {roster, [roster EXCEPT ![c] = Nobody]}
    BY <1>4 DEF LoseConnection, LeaveCall, CloseTab
  <2>2. \A x \in Sockets : x # sock[c] => up'[x] = up[x] /\ down'[x] = down[x]
    <3>1. \/ up' = up
          \/ up' = [up EXCEPT ![sock[c]] = Append(@, [type |-> "leave-room"])]
      BY <1>4 DEF LoseConnection, LeaveCall, CloseTab
    <3>2. down' = down \/ down' = [down EXCEPT ![sock[c]] = <<>>]
      BY <1>4 DEF LoseConnection, LeaveCall, CloseTab
    <3> QED BY <1>0, <3>1, <3>2
  <2>3. \A t \in Tabs \ {c} : sock[t] # NoSocket => sock[t] \in Sockets
    BY <1>0
  <2>4. UNCHANGED <<rooms, socketRoom, pendingLeaves, ioRoom>>
    BY <1>4 DEF LoseConnection, LeaveCall, CloseTab
  <2>5. sock'[c] = NoSocket
    BY <1>0, <2>1
  <2>6. \A t \in Tabs \ {c} : page'[t] = page[t] /\ sock'[t] = sock[t] /\ roster'[t] = roster[t]
    BY <1>0, <2>1
  <2> QED BY <1>1, <2>2, <2>3, <2>4, <2>5, <2>6
<1>5. CASE Receive(c)
  <2>1. /\ UNCHANGED <<rooms, socketRoom, pendingLeaves, ioRoom, up, page, sock>>
        /\ roster' = [roster EXCEPT ![c] = UpdatedRoster(@, Head(down[sock[c]]))]
        /\ down' = [down EXCEPT ![sock[c]] = Tail(@)]
    BY <1>5 DEF Receive
  <2>2. \A t \in Tabs \ {c} : roster'[t] = roster[t]
    BY <1>0, <2>1
  <2>3. \A t \in Tabs \ {c} : sock[t] # NoSocket => down'[sock[t]] = down[sock[t]]
    BY <1>0, <1>1, <2>1
  <2> QED BY <1>5, <2>1, <2>2, <2>3
<1>6. UNCHANGED <<rooms, socketRoom, pendingLeaves, ioRoom>>
  BY DEF OpenPage, Connect, LoseConnection, LeaveCall, CloseTab, Receive
<1> QED BY <1>2, <1>3, <1>4, <1>5, <1>6

LEMMA TabsJoinBrowser ==
  ASSUME IInv, TabsJoinTheirPage, Browser
  PROVE  TabsJoinTheirPage'
<1>1. PICK c \in Tabs :
        \/ \E r \in Rooms : OpenPage(c, r)
        \/ \E s \in Sockets : Connect(c, s)
        \/ LoseConnection(c) \/ LeaveCall(c) \/ CloseTab(c) \/ Receive(c)
  BY DEF Browser
<1>2. /\ socketRoom' = socketRoom
      /\ \A t \in Tabs \ {c} :
           /\ page'[t] = page[t] /\ sock'[t] = sock[t]
           /\ sock[t] # NoSocket => up'[sock[t]] = up[sock[t]]
      /\ \/ sock'[c] = NoSocket
         \/ \E s \in Sockets : Connect(c, s)
         \/ Receive(c)
  BY <1>1, TabsOfBrowser
<1> SUFFICES ASSUME NEW t \in Tabs, sock'[t] # NoSocket
             PROVE  /\ TabOf[sock'[t]] = t /\ page'[t] # NoRoom
                    /\ socketRoom'[sock'[t]] \in {NoRoom, page'[t]}
                    /\ \A i \in DOMAIN up'[sock'[t]] :
                         up'[sock'[t]][i].type = "join-room" => up'[sock'[t]][i].room = page'[t]
  BY DEF TabsJoinTheirPage
<1>3. CASE t # c
  BY <1>2, <1>3 DEF TabsJoinTheirPage
<1>4. CASE t = c
  <2>1. ASSUME NEW s \in Sockets, Connect(c, s)
        PROVE  /\ TabOf[s] = c /\ sock'[c] = s /\ page'[c] = page[c] /\ page[c] # NoRoom
               /\ socketRoom[s] = NoRoom
               /\ \A i \in DOMAIN up'[s] : up'[s][i].type = "join-room" => up'[s][i].room = page[c]
    <3>1. /\ TabOf[s] = c /\ sock'[c] = s /\ page'[c] = page[c] /\ page[c] # NoRoom
          /\ s \notin opened
      BY <2>1 DEF Connect, IInv, TypeOK
    <3>2. socketRoom[s] = NoRoom
      BY <3>1 DEF IInv, TypeOK, RegistryAgrees
    <3>3. \/ up'[s] = <<[type |-> "join-room", room |-> page[c]]>>
          \/ up'[s] = <<[type |-> "leave-room"], [type |-> "join-room", room |-> page[c]]>>
      BY <2>1 DEF Connect, IInv, TypeOK
    <3> QED BY <3>1, <3>2, <3>3
  <2>2. ASSUME Receive(c)
        PROVE  UNCHANGED <<up, page, sock>>
    BY <2>2 DEF Receive
  <2> QED BY <1>2, <1>4, <2>1, <2>2 DEF TabsJoinTheirPage
<1> QED BY <1>3, <1>4

-----------------------------------------------------------------------------
(* what the tabs have been told *)

LEMMA ToldKept ==
  ASSUME NEW t \in Tabs, NEW u \in Users, Told(t, u),
         page'[t] = page[t], sock'[t] = sock[t], roster'[t] = roster[t],
         down'[sock[t]] = down[sock[t]], UNCHANGED <<rooms, pendingLeaves>>
  PROVE  Told(t, u)'
<1>1. PICK r : r = page[t]
  OBVIOUS
<1>2. Present(r)' = Present(r) /\ Visible(r)' = Visible(r)
  BY DEF Present, Visible, IsUserInRoom, SocketUser
<1> QED BY <1>1, <1>2 DEF Told

LEMMA ToldReceived ==
  ASSUME TypeOK, NEW t \in Tabs, Receive(t), NEW u \in Users, Told(t, u)
  PROVE  Told(t, u)'
<1> DEFINE s == sock[t]
           m == Head(down[s])
           new == UpdatedRoster(roster[t], m)
<1>1. s \in Sockets /\ down[s] \in Seq(Message) /\ down[s] # <<>>
  BY DEF Receive, TypeOK
<1>2. m \in Message /\ roster[t] \in Row
  BY <1>1 DEF TypeOK
<1>3. /\ down'[s] = Tail(down[s]) /\ roster'[t] = new
      /\ UNCHANGED <<page, sock, rooms, pendingLeaves>>
  BY <1>1 DEF Receive, TypeOK, server
<1>r. PICK r : r = page[t]
  OBVIOUS
<1>4. Present(r)' = Present(r) /\ Visible(r)' = Visible(r)
  BY <1>3 DEF Present, Visible, IsUserInRoom, SocketUser
<1>5. new \in Row
  BY <1>2 DEF UpdatedRoster, Message, Row
<1>6. m \notin About(u) => new[u] = roster[t][u]
  BY <1>2 DEF UpdatedRoster, About, Message, Row
<1>7. m \in About(u) \cap Showing(u) => new[u] \in Sockets
  <2>1. m \in About(u) \cap Showing(u) => new[u] # NoSocket
    BY <1>2, PresenceConstants DEF UpdatedRoster, About, Showing, Message, Row
  <2>2. new[u] \in Sockets \cup {NoSocket}
    BY <1>5 DEF Row
  <2> QED BY <2>1, <2>2
<1>8. m \in About(u) \cap Hiding(u) => new[u] \in {NoSocket}
  BY <1>2 DEF UpdatedRoster, About, Hiding, Showing, Message, Row
<1> HIDE DEF s, m, new
<1>9. u \in Present(r) => Known(down[s], roster[t], u, Showing(u), Sockets)
  BY <1>r DEF Told, s
<1>10. u \notin Visible(r) => Known(down[s], roster[t], u, Hiding(u), {NoSocket})
  BY <1>r DEF Told, s
<1>11. u \in Present(r) => Known(Tail(down[s]), new, u, Showing(u), Sockets)
  BY <1>1, <1>6, <1>7, <1>9, KnownReceived DEF m
<1>12. u \notin Visible(r) => Known(Tail(down[s]), new, u, Hiding(u), {NoSocket})
  BY <1>1, <1>6, <1>8, <1>10, KnownReceived DEF m
<1> QED BY <1>3, <1>4, <1>11, <1>12, <1>r DEF Told, s

LEMMA TabsToldBrowser ==
  ASSUME PeersInv, Browser
  PROVE  TabsToldTheirRoom'
<1> USE DEF PeersInv
<1>1. PICK c \in Tabs :
        \/ \E r \in Rooms : OpenPage(c, r)
        \/ \E s \in Sockets : Connect(c, s)
        \/ LoseConnection(c) \/ LeaveCall(c) \/ CloseTab(c) \/ Receive(c)
  BY DEF Browser
<1>2. /\ UNCHANGED <<rooms, socketRoom, pendingLeaves>>
      /\ \A t \in Tabs \ {c} :
           /\ page'[t] = page[t] /\ sock'[t] = sock[t] /\ roster'[t] = roster[t]
           /\ sock[t] # NoSocket => down'[sock[t]] = down[sock[t]]
      /\ \/ sock'[c] = NoSocket
         \/ \E s \in Sockets : Connect(c, s)
         \/ Receive(c)
  BY <1>1, TabsOfBrowser
<1> SUFFICES ASSUME NEW t \in Tabs, InRoom(t)', NEW u \in Users PROVE Told(t, u)'
  BY DEF TabsToldTheirRoom
<1>3. sock'[t] # NoSocket /\ sock'[t] \in live' /\ socketRoom[sock'[t]] # NoRoom
  BY <1>2 DEF InRoom
<1>5. sock'[t] \in Sockets
  <2>1. TypeOK'
    BY TypeBrowser DEF IInv
  <2> QED BY <1>3, <2>1 DEF TypeOK
<1>6. socketRoom[sock'[t]] \in Rooms /\ sock'[t] \in live
  <2>1. socketRoom[sock'[t]] \in Rooms
    BY <1>3, <1>5 DEF IInv, TypeOK
  <2>2. sock'[t] \in Entries(rooms[socketRoom[sock'[t]]])
    BY <1>5, <2>1 DEF IInv, RegistryAgrees
  <2> QED BY <2>1, <2>2 DEF IInv, RegistryAgrees
<1>7. CASE t # c
  <2>1. InRoom(t)
    BY <1>2, <1>3, <1>6, <1>7 DEF InRoom
  <2> QED BY <1>2, <1>3, <1>7, <2>1, ToldKept DEF TabsToldTheirRoom
<1>8. CASE t = c
  <2>1. ASSUME NEW s \in Sockets, Connect(c, s) PROVE FALSE
    <3>1. sock'[c] = s /\ s \notin opened
      BY <2>1 DEF Connect, IInv, TypeOK
    <3> QED BY <1>6, <1>8, <3>1 DEF IInv, TypeOK
  <2>2. ASSUME Receive(c) PROVE Told(t, u)'
    <3>1. sock'[t] = sock[t]
      BY <2>2 DEF Receive
    <3>2. InRoom(t)
      BY <1>3, <1>6, <3>1 DEF InRoom
    <3> QED BY <1>8, <2>2, <3>2, ToldReceived DEF TabsToldTheirRoom, IInv
  <2> QED BY <1>2, <1>3, <1>8, <2>1, <2>2
<1> QED BY <1>7, <1>8

LEMMA TabsToldServer ==
  ASSUME PeersInv, Server
  PROVE  TabsToldTheirRoom'
<1> USE DEF PeersInv
<1>1. UNCHANGED <<page, sock, buffered, roster>>
  BY DEF Server, JoinRoom, LeaveRoom, LeaveRoomUnknown, Disconnect, ExpireTranscript, LeaveTimer, browser
<1>2. RegistryAgrees' /\ TabsJoinTheirPage' /\ live' \subseteq live
  <2>1. IInv'
    <3>1. TypeOK'
      BY TypeServer DEF IInv
    <3> QED BY <3>1, InvJoinRoom, InvLeaveRoom, InvDisconnect, InvOther DEF Server, IInv
  <2>2. live' \subseteq live
    BY DEF Server, JoinRoom, LeaveRoom, LeaveRoomUnknown, Disconnect, ExpireTranscript, LeaveTimer
  <2> QED BY <2>1, <2>2, TabsJoinServer DEF IInv
<1> SUFFICES ASSUME NEW t \in Tabs, InRoom(t)', NEW u \in Users PROVE Told(t, u)'
  BY DEF TabsToldTheirRoom
<1>c. PICK s, r : s = sock[t] /\ r = page[t]
  OBVIOUS
<1>3. /\ s \in Sockets /\ s # NoSocket /\ s \in live /\ socketRoom'[s] # NoRoom
      /\ sock'[t] = s /\ page'[t] = r /\ roster'[t] = roster[t]
  BY <1>1, <1>2, <1>c DEF InRoom, IInv, TypeOK
<1>4. Attached(s) /\ r \in Rooms /\ socketRoom'[s] = r
  <2>1. TabOf[s] = t /\ r # NoRoom /\ socketRoom'[s] \in {NoRoom, r}
    BY <1>1, <1>2, <1>3 DEF TabsJoinTheirPage
  <2> QED BY <1>3, <1>c, <2>1 DEF Attached, IInv, TypeOK
<1>5. s \in ioRoom'[r]
  BY <1>2, <1>3, <1>4 DEF RegistryAgrees
<1>6. CASE s \in ioRoom[r]
  <2>1. socketRoom[s] = r
    BY <1>4, <1>6 DEF IInv, RegistryAgrees
  <2>2. Told(t, u)
    BY <1>3, <1>4, <2>1, <1>c, PresenceConstants DEF TabsToldTheirRoom, InRoom
  <2>3. News(s, r)
    BY <1>3, <1>4, <1>5, <1>6, ServerNews
  <2> QED BY <1>3, <2>2, <2>3, <1>c, ToldOfNews DEF IInv
<1>7. CASE s \notin ioRoom[r]
  <2>1. JoinRoom(s) /\ r = Head(up[s]).room
    <3>1. ASSUME NEW x \in Sockets, JoinRoom(x)
          PROVE  x = s /\ r = Head(up[x]).room
      <4>1. ioRoom' = [ioRoom EXCEPT ![Head(up[x]).room] = @ \cup {x}]
        BY <3>1 DEF JoinRoom
      <4> QED BY <1>4, <1>5, <1>7, <4>1 DEF IInv, TypeOK
    <3>2. ASSUME NEW x \in Sockets, LeaveRoom(x) PROVE FALSE
      <4>1. ioRoom' = [ioRoom EXCEPT ![socketRoom[x]] = @ \ {x}]
        BY <3>2 DEF LeaveRoom
      <4> QED BY <1>4, <1>5, <1>7, <4>1 DEF IInv, TypeOK
    <3>3. ASSUME NEW x \in Sockets, Disconnect(x) PROVE FALSE
      BY <1>4, <1>5, <1>7, <3>3 DEF Disconnect
    <3>4. ASSUME UNCHANGED ioRoom PROVE FALSE
      BY <1>5, <1>7, <3>4
    <3> QED BY <3>1, <3>2, <3>3, <3>4 DEF Server, LeaveRoomUnknown, ExpireTranscript, LeaveTimer
  <2>2. ToldAll(s, r)
    BY <1>3, <1>4, <2>1, JoinSends
  <2> QED BY <1>3, <2>2, ToldOfAll DEF IInv
<1> QED BY <1>6, <1>7

LEMMA PeersInit == Init => PeersInv
<1> SUFFICES ASSUME Init PROVE TabsJoinTheirPage /\ TabsToldTheirRoom
  BY InvInit DEF PeersInv
<1>1. \A t \in Tabs : sock[t] = NoSocket
  BY DEF Init
<1> QED BY <1>1 DEF TabsJoinTheirPage, TabsToldTheirRoom, InRoom

LEMMA PeersStep == PeersInv /\ [Next]_vars => PeersInv'
<1> SUFFICES ASSUME PeersInv, [Next]_vars PROVE PeersInv'
  OBVIOUS
<1>1. IInv'
  BY InvNext DEF PeersInv
<1>2. CASE Browser
  BY <1>1, <1>2, TabsJoinBrowser, TabsToldBrowser DEF PeersInv
<1>3. CASE Server
  BY <1>1, <1>3, TabsJoinServer, TabsToldServer DEF PeersInv
<1>4. CASE UNCHANGED vars
  <2> USE <1>4 DEF vars, server, browser, PeersInv
  <2>1. TabsJoinTheirPage'
    BY DEF TabsJoinTheirPage
  <2>2. TabsToldTheirRoom'
    <3> SUFFICES ASSUME NEW t \in Tabs, InRoom(t)', NEW u \in Users PROVE Told(t, u)'
      BY DEF TabsToldTheirRoom
    <3>1. InRoom(t)
      BY DEF InRoom
    <3> QED BY <3>1, ToldKept DEF TabsToldTheirRoom
  <2> QED BY <1>1, <2>1, <2>2
<1> QED BY <1>2, <1>3, <1>4 DEF Next

LEMMA Converges == PeersInv => RosterConverges
<1> SUFFICES ASSUME PeersInv, NEW t \in Tabs, InRoom(t), Settled(page[t]), NEW u \in Users
             PROVE  roster[t][u] # NoSocket <=> IsUserInRoom(rooms[page[t]], u)
  BY DEF RosterConverges
<1>1. sock[t] \in Sockets /\ down[sock[t]] = <<>> /\ <<page[t], u>> \notin pendingLeaves
  BY DEF InRoom, Settled, PeersInv, IInv, TypeOK
<1>2. NoneOf(down[sock[t]], About(u))
  BY <1>1 DEF NoneOf
<1>3. Told(t, u)
  BY DEF PeersInv, TabsToldTheirRoom
<1> QED BY <1>1, <1>2, <1>3, PresenceConstants DEF Told, Known, Present, Visible

LEMMA NothingHeard ==
  ASSUME TypeOK, NEW s \in Sockets, down'[s] = down[s] \/ (down[s] # <<>> /\ down'[s] = Tail(down[s])),
         NEW type, NEW u
  PROVE  ~Heard(s, type, u)
<1>1. Len(down[s]) \in Nat /\ Len(down'[s]) \in Nat /\ Len(down'[s]) <= Len(down[s])
  BY DEF TypeOK
<1>2. Len(down[s]) + 1 .. Len(down'[s]) = {}
  BY <1>1
<1> QED BY <1>2 DEF Heard

LEMMA AnnouncedStep ==
  ASSUME PeersInv, [Next]_vars, NEW r \in Rooms, NEW u \in Users,
         NEW s \in ioRoom[r] \cap ioRoom[r]', Attached(s), Attached(s)'
  PROVE  Announced(s, r, u)
<1> USE DEF PeersInv
<1>0. s \in Sockets /\ TypeOK
  BY DEF IInv, TypeOK
<1>1. CASE Browser
  <2>1. PICK c \in Tabs :
          \/ \E q \in Rooms : OpenPage(c, q)
          \/ \E x \in Sockets : Connect(c, x)
          \/ LoseConnection(c) \/ LeaveCall(c) \/ CloseTab(c) \/ Receive(c)
    BY <1>1 DEF Browser
  <2>2. /\ UNCHANGED <<rooms, pendingLeaves>>
        /\ \A t \in Tabs \ {c} : sock[t] # NoSocket => down'[sock[t]] = down[sock[t]]
        /\ \/ sock'[c] = NoSocket
           \/ \E x \in Sockets : Connect(c, x)
           \/ Receive(c)
    BY <2>1, TabsOfBrowser
  <2>3. sock[TabOf[s]] = s /\ sock'[TabOf[s]] = s /\ TabOf[s] \in Tabs
    BY <1>0, PresenceConstants DEF Attached
  <2>4. down'[s] = down[s] \/ (down[s] # <<>> /\ down'[s] = Tail(down[s]))
    <3>1. CASE TabOf[s] # c
      BY <1>0, <2>2, <2>3, <3>1, PresenceConstants
    <3>2. CASE TabOf[s] = c /\ Receive(c)
      BY <1>0, <2>3, <3>2 DEF Receive, TypeOK
    <3>3. CASE \E x \in Sockets : Connect(c, x)
      BY <3>3 DEF Connect
    <3> QED BY <1>0, <2>2, <2>3, <3>1, <3>2, <3>3, PresenceConstants
  <2>5. ~Heard(s, "user-joined", u) /\ ~Heard(s, "user-left", u)
    BY <1>0, <2>4, NothingHeard
  <2>6. Visible(r)' = Visible(r)
    BY <2>2 DEF Visible, IsUserInRoom, SocketUser
  <2> QED BY <2>5, <2>6 DEF Announced
<1>2. CASE Server
  <2>1. News(s, r)
    BY <1>0, <1>2, ServerNews
  <2> QED BY <1>0, <2>1, NewsAnnounced
<1>3. CASE UNCHANGED vars
  <2>1. News(s, r)
    BY <1>0, <1>3, QuietNews DEF vars, server
  <2> QED BY <1>0, <2>1, NewsAnnounced
<1> QED BY <1>1, <1>2, <1>3 DEF Next

(* What the others are told and shown of a user's coming and going is       *)
(* right (handlers.ts:34-46, 84-95): a list that settles is the list of who *)
(* is there, and each visit is announced once.                              *)
THEOREM PeersAlwaysKeepUp == Spec => PeersKeepUp
<1> DEFINE Once ==
      \A r \in Rooms, u \in Users : \A s \in ioRoom[r] \cap ioRoom[r]' :
        Attached(s) /\ Attached(s)' =>
          /\ Heard(s, "user-joined", u) <=> u \in Visible(r)' \ Visible(r)
          /\ Heard(s, "user-left", u) <=> u \in Visible(r) \ Visible(r)'
<1>1. Spec => []PeersInv
  BY PeersInit, PeersStep, PTL DEF Spec
<1>2. PeersInv => RosterConverges
  BY Converges
<1>3. PeersInv /\ [Next]_vars => [Once]_vars
  BY AnnouncedStep DEF Announced
<1>4. Spec => [][Once]_vars
  BY <1>1, <1>3, PTL DEF Spec
<1>5. [][Once]_vars <=> AnnouncedOnce
  BY DEF AnnouncedOnce
<1>6. Spec => []RosterConverges
  BY <1>1, <1>2, PTL
<1> QED BY <1>4, <1>5, <1>6 DEF PeersKeepUp
=============================================================================
