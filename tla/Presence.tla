------------------------------ MODULE Presence ------------------------------
(***************************************************************************)
(* Presence in a meeting room: the server's registry of who is in which    *)
(* room (room-manager.ts), the join / leave / disconnect handlers with the *)
(* leave grace window (handlers.ts), the timer that drops the transcript   *)
(* of an empty room (transcript-manager.ts), and the participant list each *)
(* browser tab keeps (RoomPage.tsx).                                       *)
(*                                                                         *)
(* Node runs one handler at a time, so a synchronous handler is one action.*)
(* A socket is one Socket.IO connection.  Its packets are ordered in each  *)
(* direction; the two ends learn of its end at different times, and what   *)
(* was in flight then is lost.                                             *)
(***************************************************************************)
EXTENDS Integers, Sequences

CONSTANTS
  Users, Rooms,
  Tabs,              \* browser tabs that may show RoomPage
  Sockets,           \* connection ids; each is used once
  UserOf,            \* the signed-in user of a tab
  TabOf,             \* the tab that opens a connection (bounds its reconnects)
  NoRoom, NoSocket

ASSUME PresenceConstants ==
  /\ UserOf \in [Tabs -> Users]
  /\ TabOf \in [Sockets -> Tabs]
  /\ NoRoom \notin Rooms /\ NoSocket \notin Sockets

VARIABLES
  (* server *)
  rooms,             \* room |-> its sockets, in Map insertion order
  socketRoom,        \* the reverse index
  pendingLeaves,     \* <<room, user>> with a leave timer running
  stored,            \* rooms with a transcript session
  expiryTimers,      \* rooms whose transcript expiry timer runs
  (* Socket.IO *)
  opened,            \* sockets whose id has been handed out
  live,              \* sockets the server holds open
  ioRoom,            \* room |-> sockets a room broadcast reaches
  up, down,          \* packets on their way to the server / to the tab
  (* browser *)
  page,              \* the room a tab shows
  sock,              \* the socket a tab is connected with
  buffered,          \* tabs whose client holds a leave-room it could not send
  roster             \* tab |-> user |-> socket id shown for that user

server  == <<rooms, socketRoom, pendingLeaves, stored, expiryTimers>>
browser == <<page, sock, buffered, roster>>
vars    == <<server, opened, live, ioRoom, up, down, browser>>

Row     == [Users -> Sockets \cup {NoSocket}]
Packet  == [type : {"join-room"}, room : Rooms] \cup [type : {"leave-room"}]
Message == [type : {"room-users"}, list : Row]
      \cup [type : {"user-joined"}, user : Users, socket : Sockets]
      \cup [type : {"user-left"}, user : Users]

Nobody  == [u \in Users |-> NoSocket]

-----------------------------------------------------------------------------
(* room-manager.ts *)

Entries(q)    == {q[i] : i \in DOMAIN q}
NoRepeats(q)  == \A i, j \in DOMAIN q : q[i] = q[j] => i = j
SocketUser(s) == UserOf[TabOf[s]]

(* Map.set keeps the place of a key that is already there *)
AddUser(q, s) == IF s \in Entries(q) THEN q ELSE Append(q, s)

(* Map.delete *)
RemoveUser(q, s) ==
  LET at == CHOOSE i \in DOMAIN q : q[i] = s
  IN  [i \in 1..(Len(q) - 1) |-> IF i < at THEN q[i] ELSE q[i + 1]]

IsUserInRoom(q, u) == \E i \in DOMAIN q : SocketUser(q[i]) = u

(* one row per user, at the socket that comes last in the Map *)
GetRoomUsers(q) ==
  [u \in Users |->
     LET last == {i \in DOMAIN q : /\ SocketUser(q[i]) = u
                                   /\ \A j \in DOMAIN q : j > i => SocketUser(q[j]) # u}
     IN  IF last = {} THEN NoSocket ELSE q[CHOOSE i \in last : TRUE]]

-----------------------------------------------------------------------------
(* The two families of timers, keyed by room and user, and by room *)

LeaveKey(r, u) == <<r, u>>

LeavePending(r, u) == LeaveKey(r, u) \in pendingLeaves

CancelLeaveNever(r, u) == pendingLeaves
CancelLeave(r, u) == pendingLeaves \ {LeaveKey(r, u)}

(* a leave is deferred unless another socket of the user is still there *)
DeferLeaveTooEarly(r, u, rest) == IF IsUserInRoom(rooms[r], u) THEN pendingLeaves
                                  ELSE pendingLeaves \cup {LeaveKey(r, u)}
DeferLeave(r, u, rest) == IF IsUserInRoom(rest, u) THEN pendingLeaves
                          ELSE pendingLeaves \cup {LeaveKey(r, u)}

CancelTranscriptExpiryNever(r) == expiryTimers
CancelTranscriptExpiry(r) == expiryTimers \ {r}

(* scheduleTranscriptExpiry, called when nobody is left *)
ExpireIfEmpty(r, q) == IF q = <<>> THEN expiryTimers \cup {r} ELSE expiryTimers

UnindexNever(s) == socketRoom
Unindex(s) == [socketRoom EXCEPT ![s] = NoRoom]

-----------------------------------------------------------------------------
(* Socket.IO *)

Attached(s) == sock[TabOf[s]] = s

(* a packet for a tab that has gone is lost *)
EmitTo(ss, m) ==
  [s \in Sockets |-> IF s \in ss /\ Attached(s) THEN Append(down[s], m) ELSE down[s]]

-----------------------------------------------------------------------------
Init ==
  /\ rooms = [r \in Rooms |-> <<>>]
  /\ socketRoom = [s \in Sockets |-> NoRoom]
  /\ pendingLeaves = {} /\ stored = {} /\ expiryTimers = {}
  /\ opened = {} /\ live = {}
  /\ ioRoom = [r \in Rooms |-> {}]
  /\ up = [s \in Sockets |-> <<>>]
  /\ down = [s \in Sockets |-> <<>>]
  /\ page = [t \in Tabs |-> NoRoom]
  /\ sock = [t \in Tabs |-> NoSocket] /\ buffered = {}
  /\ roster = [t \in Tabs |-> Nobody]

-----------------------------------------------------------------------------
(* The browser tab *)

(* RoomPage mounts *)
OpenPage(t, r) ==
  /\ page[t] = NoRoom
  /\ page' = [page EXCEPT ![t] = r]
  /\ UNCHANGED <<server, opened, live, ioRoom, up, down, sock, buffered, roster>>

(* The first connect, or Socket.IO's reconnect: a new socket.  The client   *)
(* flushes what it buffered, then `connect` emits join-room.                *)
Connect(t, s) ==
  /\ page[t] # NoRoom /\ sock[t] = NoSocket
  /\ s \notin opened /\ TabOf[s] = t
  /\ opened' = opened \cup {s}
  /\ live' = live \cup {s}
  /\ sock' = [sock EXCEPT ![t] = s]
  /\ LET join == [type |-> "join-room", room |-> page[t]]
     IN  up' = [up EXCEPT ![s] = IF t \in buffered THEN <<[type |-> "leave-room"], join>>
                                 ELSE <<join>>]
  /\ buffered' = buffered \ {t}
  /\ UNCHANGED <<server, ioRoom, down, page, roster>>

(* the tab loses its connection; the page stays and so does its list *)
LoseConnection(t) ==
  /\ sock[t] # NoSocket
  /\ sock' = [sock EXCEPT ![t] = NoSocket]
  /\ down' = [down EXCEPT ![sock[t]] = <<>>]
  /\ UNCHANGED <<server, opened, live, ioRoom, up, page, buffered, roster>>

(* The page's cleanup: leave-room, then disconnect.  Offline, the packet    *)
(* waits for the next connection (one buffered leave stands for several).   *)
LeaveCall(t) ==
  /\ page[t] # NoRoom
  /\ page' = [page EXCEPT ![t] = NoRoom]
  /\ sock' = [sock EXCEPT ![t] = NoSocket]
  /\ roster' = [roster EXCEPT ![t] = Nobody]
  /\ IF sock[t] = NoSocket
     THEN UNCHANGED <<up, down>> /\ buffered' = buffered \cup {t}
     ELSE /\ UNCHANGED buffered
          /\ up' = [up EXCEPT ![sock[t]] = Append(@, [type |-> "leave-room"])]
          /\ down' = [down EXCEPT ![sock[t]] = <<>>]
  /\ UNCHANGED <<server, opened, live, ioRoom>>

(* reload, tab close, crash: the cleanup never runs *)
CloseTab(t) ==
  /\ page[t] # NoRoom
  /\ page' = [page EXCEPT ![t] = NoRoom]
  /\ sock' = [sock EXCEPT ![t] = NoSocket]
  /\ roster' = [roster EXCEPT ![t] = Nobody]
  /\ buffered' = buffered \ {t}
  /\ down' = IF sock[t] = NoSocket THEN down ELSE [down EXCEPT ![sock[t]] = <<>>]
  /\ UNCHANGED <<server, opened, live, ioRoom, up>>

(* the room-users, user-joined and user-left listeners *)
UpdatedRoster(list, m) ==
  IF m.type = "room-users" THEN m.list
  ELSE IF m.type = "user-left" THEN [list EXCEPT ![m.user] = NoSocket]
  ELSE IF list[m.user] # NoSocket THEN list
  ELSE [list EXCEPT ![m.user] = m.socket]

Receive(t) ==
  /\ sock[t] # NoSocket
  /\ down[sock[t]] # <<>>
  /\ roster' = [roster EXCEPT ![t] = UpdatedRoster(@, Head(down[sock[t]]))]
  /\ down' = [down EXCEPT ![sock[t]] = Tail(@)]
  /\ UNCHANGED <<server, opened, live, ioRoom, up, page, sock, buffered>>

-----------------------------------------------------------------------------
(* The server's handlers *)

Arrived(s) == s \in live /\ up[s] # <<>>

(* What join-room tells each socket.  A rejoin within the grace window is   *)
(* no news to the others, but moves the socket they know the user by.       *)
JoinNewsNoGrace(s, r, u, list) ==
  [q \in Sockets |->
     IF q = s THEN <<[type |-> "room-users", list |-> list]>>
     ELSE IF q \in ioRoom[r] /\ ~IsUserInRoom(rooms[r], u)
     THEN <<[type |-> "user-joined", user |-> u, socket |-> s]>>
     ELSE <<>>]
JoinNewsUntagged(s, r, u, list) ==
  [q \in Sockets |->
     IF q = s \/ (q \in ioRoom[r] /\ LeavePending(r, u))
     THEN <<[type |-> "room-users", list |-> list]>>
     ELSE IF q \in ioRoom[r] /\ ~IsUserInRoom(rooms[r], u)
     THEN <<[type |-> "user-joined", user |-> u, socket |-> NoSocket]>>
     ELSE <<>>]
JoinNewsEveryTab(s, r, u, list) ==
  [q \in Sockets |->
     IF q = s \/ (q \in ioRoom[r] /\ LeavePending(r, u))
     THEN <<[type |-> "room-users", list |-> list]>>
     ELSE IF q \in ioRoom[r]
     THEN <<[type |-> "user-joined", user |-> u, socket |-> s]>>
     ELSE <<>>]
JoinNews(s, r, u, list) ==
  [q \in Sockets |->
     IF q = s \/ (q \in ioRoom[r] /\ LeavePending(r, u))
     THEN <<[type |-> "room-users", list |-> list]>>
     ELSE IF q \in ioRoom[r] /\ ~IsUserInRoom(rooms[r], u)
     THEN <<[type |-> "user-joined", user |-> u, socket |-> s]>>
     ELSE <<>>]

JoinRoom(s) ==
  /\ Arrived(s) /\ Head(up[s]).type = "join-room"
  /\ LET r    == Head(up[s]).room
         u    == SocketUser(s)
         news == JoinNews(s, r, u, GetRoomUsers(AddUser(rooms[r], s)))
     IN  /\ pendingLeaves' = CancelLeave(r, u)
         /\ ioRoom' = [ioRoom EXCEPT ![r] = @ \cup {s}]
         /\ rooms' = [rooms EXCEPT ![r] = AddUser(@, s)]
         /\ socketRoom' = [socketRoom EXCEPT ![s] = r]
         /\ expiryTimers' = CancelTranscriptExpiry(r)
         /\ stored' = stored \cup {r}
         /\ down' = [q \in Sockets |-> IF Attached(q) THEN down[q] \o news[q] ELSE down[q]]
  /\ up' = [up EXCEPT ![s] = Tail(@)]
  /\ UNCHANGED <<opened, live, browser>>

(* removeUser found nothing: the handler returns *)
LeaveRoomUnknown(s) ==
  /\ Arrived(s) /\ Head(up[s]).type = "leave-room"
  /\ socketRoom[s] = NoRoom
  /\ up' = [up EXCEPT ![s] = Tail(@)]
  /\ UNCHANGED <<server, opened, live, ioRoom, down, browser>>

(* peers hear of it unless another socket of the user stays *)
LeaveNews(r, s, u, rest) ==
  IF IsUserInRoom(rest, u) THEN down
  ELSE EmitTo(ioRoom[r] \ {s}, [type |-> "user-left", user |-> u])

LeaveRoom(s) ==
  /\ Arrived(s) /\ Head(up[s]).type = "leave-room"
  /\ socketRoom[s] # NoRoom
  /\ LET r    == socketRoom[s]
         u    == SocketUser(s)
         rest == RemoveUser(rooms[r], s)
     IN  /\ rooms' = [rooms EXCEPT ![r] = rest]
         /\ socketRoom' = Unindex(s)
         /\ pendingLeaves' = CancelLeave(r, u)
         /\ ioRoom' = [ioRoom EXCEPT ![r] = @ \ {s}]
         /\ down' = LeaveNews(r, s, u, rest)
         /\ expiryTimers' = ExpireIfEmpty(r, rest)
  /\ up' = [up EXCEPT ![s] = Tail(@)]
  /\ UNCHANGED <<stored, opened, live, browser>>

(* Socket.IO takes the socket out of its rooms, then runs the handler.  The *)
(* server may notice long after the tab went, or before the tab does.       *)
Disconnect(s) ==
  /\ s \in live
  /\ live' = live \ {s}
  /\ up' = [up EXCEPT ![s] = <<>>]
  /\ ioRoom' = [r \in Rooms |-> ioRoom[r] \ {s}]
  /\ LET r    == socketRoom[s]
         rest == RemoveUser(rooms[r], s)
     IN  IF r = NoRoom
         THEN UNCHANGED <<rooms, socketRoom, pendingLeaves>>
         ELSE /\ rooms' = [rooms EXCEPT ![r] = rest]
              /\ socketRoom' = Unindex(s)
              /\ pendingLeaves' = DeferLeave(r, SocketUser(s), rest)
  /\ UNCHANGED <<stored, expiryTimers, opened, down, browser>>

(* the grace window of LEAVE_GRACE_MS ends *)
LeaveTimer(r, u) ==
  /\ LeavePending(r, u)
  /\ pendingLeaves' = CancelLeave(r, u)
  /\ down' = IF IsUserInRoom(rooms[r], u) THEN down
             ELSE EmitTo(ioRoom[r], [type |-> "user-left", user |-> u])
  /\ expiryTimers' = ExpireIfEmpty(r, rooms[r])
  /\ UNCHANGED <<rooms, socketRoom, stored, opened, live, ioRoom, up, browser>>

ExpireTranscript(r) ==
  /\ r \in expiryTimers
  /\ stored' = stored \ {r}
  /\ expiryTimers' = CancelTranscriptExpiry(r)
  /\ UNCHANGED <<rooms, socketRoom, pendingLeaves, opened, live, ioRoom, up, down, browser>>

-----------------------------------------------------------------------------
Browser == \E t \in Tabs :
             \/ \E r \in Rooms : OpenPage(t, r)
             \/ \E s \in Sockets : Connect(t, s)
             \/ LoseConnection(t) \/ LeaveCall(t) \/ CloseTab(t) \/ Receive(t)

Server == \/ \E s \in Sockets : JoinRoom(s) \/ LeaveRoom(s) \/ LeaveRoomUnknown(s)
                                 \/ Disconnect(s)
          \/ \E r \in Rooms : ExpireTranscript(r) \/ \E u \in Users : LeaveTimer(r, u)

Next == Browser \/ Server

Spec == Init /\ [][Next]_vars

(* Packets on an open connection arrive, timers fire, and a connection one  *)
(* end has lost is noticed by the other (Socket.IO's ping timeout).         *)
Fairness ==
  /\ WF_vars(\E s \in Sockets : JoinRoom(s) \/ LeaveRoom(s) \/ LeaveRoomUnknown(s))
  /\ WF_vars(\E s \in Sockets : ~Attached(s) /\ Disconnect(s))
  /\ WF_vars(\E r \in Rooms, u \in Users : LeaveTimer(r, u))
  /\ WF_vars(\E t \in Tabs : Receive(t))
  /\ WF_vars(\E t \in Tabs : sock[t] \notin live /\ LoseConnection(t))

FairSpec == Spec /\ Fairness

-----------------------------------------------------------------------------
(* Properties *)

TypeOK ==
  /\ rooms \in [Rooms -> Seq(Sockets)]
  /\ socketRoom \in [Sockets -> Rooms \cup {NoRoom}]
  /\ pendingLeaves \subseteq Rooms \X Users
  /\ stored \subseteq Rooms /\ expiryTimers \subseteq Rooms
  /\ opened \subseteq Sockets /\ live \subseteq opened
  /\ ioRoom \in [Rooms -> SUBSET Sockets]
  /\ up \in [Sockets -> Seq(Packet)] /\ down \in [Sockets -> Seq(Message)]
  /\ page \in [Tabs -> Rooms \cup {NoRoom}]
  /\ sock \in [Tabs -> Sockets \cup {NoSocket}] /\ buffered \subseteq Tabs
  /\ roster \in [Tabs -> Row]

(* The two indices of room-manager.ts and Socket.IO's own rooms never      *)
(* disagree, whichever end of a connection is noticed first, and none of    *)
(* them keeps a closed socket: removeUser is enough clean-up (ghosts would   *)
(* keep a room from ever emptying).                                         *)
RegistryAgrees ==
  \A r \in Rooms :
    /\ Entries(rooms[r]) = {s \in Sockets : socketRoom[s] = r}
    /\ Entries(rooms[r]) = ioRoom[r]
    /\ ioRoom[r] \subseteq live
    /\ NoRepeats(rooms[r])

(* A leave timer runs only for a user none of whose sockets is in the room: *)
(* join-room always finds and clears it, so the re-check in the timer never *)
(* has anything to save and a present user is never announced as gone.      *)
PendingLeaveMeansAbsent ==
  \A r \in Rooms, u \in Users : <<r, u>> \in pendingLeaves => ~IsUserInRoom(rooms[r], u)

(* Whom the others are to see: the users in the room and those in grace.    *)
Visible(r) == {u \in Users : IsUserInRoom(rooms[r], u) \/ <<r, u>> \in pendingLeaves}

InRoom(t) == sock[t] # NoSocket /\ sock[t] \in live /\ socketRoom[sock[t]] # NoRoom

Settled(r) ==
  /\ \A s \in Sockets : up[s] = <<>> /\ down[s] = <<>>
  /\ \A u \in Users : <<r, u>> \notin pendingLeaves

(* Once every packet is delivered and no leave is pending, each tab in the  *)
(* room lists exactly the users in the room, after any mix of reconnects,   *)
(* overlapping tabs, drops and leaves.                                      *)
RosterConverges ==
  \A t \in Tabs :
    InRoom(t) /\ Settled(page[t]) =>
      {u \in Users : roster[t][u] # NoSocket}
        = {u \in Users : IsUserInRoom(rooms[page[t]], u)}

(* A room's transcript is on its way to expiry exactly while nobody is in   *)
(* the room: an emptied room is never kept for ever and an occupied one     *)
(* never loses its transcript to an old timer.                              *)
TranscriptLifetime ==
  \A r \in Rooms :
    /\ rooms[r] # <<>> => r \notin expiryTimers /\ r \in stored
    /\ r \in stored /\ rooms[r] = <<>> =>
         r \in expiryTimers \/ \E u \in Users : <<r, u>> \in pendingLeaves

(* Peers who stay in the room hear "joined" or "left" exactly when a user   *)
(* enters or leaves Visible: one of each per visit, none for a reconnect    *)
(* within the grace window nor for a second tab (handlers.ts:34-46).        *)
Heard(s, type, u) == \E i \in Len(down[s]) + 1 .. Len(down'[s]) :
                       down'[s][i].type = type /\ down'[s][i].user = u
AnnouncedOnce ==
  [][\A r \in Rooms, u \in Users : \A s \in ioRoom[r] \cap ioRoom[r]' :
       Attached(s) /\ Attached(s)' =>
         /\ Heard(s, "user-joined", u) <=> u \in Visible(r)' \ Visible(r)
         /\ Heard(s, "user-left", u) <=> u \in Visible(r) \ Visible(r)']_vars

(* What the others are told and shown of a user's coming and going is      *)
(* right, whatever tabs, drops and reconnects bring it about: the two       *)
(* properties above together (handlers.ts:34-46, 84-95).                    *)
PeersKeepUp == []RosterConverges /\ AnnouncedOnce

(* A user with no tab left on the room does not stay listed with a          *)
(* connected peer, whether the last tab left, closed or crashed.            *)
DepartedVanish ==
  \A t \in Tabs, u \in Users :
    (roster[t][u] # NoSocket /\ \A q \in Tabs : UserOf[q] = u => page[q] # page[t])
      ~> (\/ roster[t][u] = NoSocket
          \/ sock[t] = NoSocket
          \/ \E q \in Tabs : UserOf[q] = u /\ page[q] = page[t])
=============================================================================
