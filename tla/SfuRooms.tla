------------------------------ MODULE SfuRooms ------------------------------
(***************************************************************************)
(* The life of the SFU's rooms and Routers: joining                        *)
(* (sfu-get-rtp-capabilities), leaving (disconnect) and ending a meeting,  *)
(* from sfu-handlers.ts and sfu-rooms.ts.                                  *)
(*                                                                         *)
(* A handler runs until its next await.  Each await is a point where other *)
(* handlers run; a step below is what happens between two of them.  What a *)
(* promise's resolution starts at once ("microtasks") runs before any      *)
(* further Socket.IO event, so no socket event falls between getting a     *)
(* room and registering in it; another request's answer still may.         *)
(***************************************************************************)
EXTENDS Naturals, FiniteSets

CONSTANTS
  Rooms, Sockets,
  Admins,          \* the sockets of a meeting admin
  Requests,        \* the sfu-get-rtp-capabilities calls ever made (a bound)
  SocketOf,        \* the socket that makes a call; it may retry one
  RoomOf,          \* the room it asks for
  NoRoom, NoRouter,
  MaxEnding        \* a bound: sfu-end-meeting handlers under way at once

ASSUME SfuRoomsConstants ==
  /\ SocketOf \in [Requests -> Sockets] /\ RoomOf \in [Requests -> Rooms]
  /\ Admins \subseteq Sockets
  /\ \A p, q \in Requests : SocketOf[p] = SocketOf[q] => RoomOf[p] = RoomOf[q]
  /\ NoRoom \notin Rooms /\ NoRouter \notin Requests

(* A Room object and its Router are named by the call that created them.   *)
VARIABLES
  active,          \* rooms whose document says active
  rooms,           \* room |-> its Room object
  open,            \* Routers not closed
  peers,           \* Room object |-> sockets registered in it
  observers,       \* Room object |-> the calls that gave it an AudioLevelObserver
  socketRoom,      \* socket |-> room, set on joining
  ioRoom,          \* room |-> sockets a broadcast reaches
  connected,       \* sockets not yet disconnected
  pc, room,        \* call |-> where it is; the Room object it got
  ending,          \* sfu-end-meeting handlers waiting for the database
  informed,        \* sockets sent sfu-meeting-ended
  raced            \* history: a join overlapped another or its disconnect

sfu  == <<active, rooms, open, peers, observers, socketRoom, ioRoom>>
roomsVars == <<sfu, connected, pc, room, ending, informed, raced>>

RoomsInit ==
  /\ active = Rooms
  /\ rooms = [r \in Rooms |-> NoRouter]
  /\ open = {}
  /\ peers = [q \in Requests |-> {}]
  /\ observers = [q \in Requests |-> {}]
  /\ socketRoom = [s \in Sockets |-> NoRoom]
  /\ ioRoom = [r \in Rooms |-> {}]
  /\ connected = Sockets
  /\ pc = [q \in Requests |-> "unsent"]
  /\ room = [q \in Requests |-> NoRouter]
  /\ ending = {}
  /\ informed = {}
  /\ raced = FALSE

(* microtasks are queued: no new Socket.IO event is handled *)
Draining == \E q \in Requests : pc[q] = "ready"

-----------------------------------------------------------------------------
(* sfu-get-rtp-capabilities *)

(* join-room, which the client sends on connecting, before any SFU call *)
ChatJoin(q) ==
  /\ pc[q] = "unsent" /\ SocketOf[q] \in connected \ ioRoom[RoomOf[q]] /\ ~Draining
  /\ ioRoom' = [ioRoom EXCEPT ![RoomOf[q]] = @ \cup {SocketOf[q]}]
  /\ UNCHANGED <<active, rooms, open, peers, observers, socketRoom, connected, pc, room,
                 ending, informed, raced>>

(* the call arrives and waits for Room.findOne *)
AskCapabilities(q) ==
  /\ pc[q] = "unsent" /\ SocketOf[q] \in connected \cap ioRoom[RoomOf[q]] /\ ~Draining
  /\ pc' = [pc EXCEPT ![q] = "finding"]
  /\ UNCHANGED <<sfu, connected, room, ending, informed, raced>>

RefuseEnded(q) ==
  /\ pc[q] = "finding" /\ RoomOf[q] \notin active
  /\ pc' = [pc EXCEPT ![q] = "done"]
  /\ UNCHANGED <<sfu, connected, room, ending, informed, raced>>

(* getOrCreateRoom: the room is there, or a Router is asked for *)
FindRoom(q) ==
  /\ pc[q] = "finding" /\ RoomOf[q] \in active
  /\ room' = [room EXCEPT ![q] = rooms[RoomOf[q]]]
  /\ pc' = [pc EXCEPT ![q] = IF rooms[RoomOf[q]] = NoRouter THEN "creating" ELSE "ready"]
  /\ UNCHANGED <<sfu, connected, ending, informed, raced>>

(* createRouter resolves; rooms.set replaces what is there *)
RouterCreated(q) ==
  /\ pc[q] = "creating"
  /\ open' = open \cup {q}
  /\ rooms' = [rooms EXCEPT ![RoomOf[q]] = q]
  /\ room' = [room EXCEPT ![q] = q]
  /\ pc' = [pc EXCEPT ![q] = "ready"]
  /\ raced' = (raced \/ rooms[RoomOf[q]] # NoRouter)
  /\ UNCHANGED <<active, peers, observers, socketRoom, ioRoom, connected, ending, informed>>

(* addPeer looks the room up again by its id *)
AddPeer(r, s) ==
  IF rooms[r] = NoRouter THEN peers ELSE [peers EXCEPT ![rooms[r]] = @ \cup {s}]

Register(q) ==
  /\ pc[q] = "ready"
  /\ LET r == RoomOf[q]
         s == SocketOf[q]
     IN  /\ peers' = AddPeer(r, s)
         /\ socketRoom' = [socketRoom EXCEPT ![s] = r]
         /\ ioRoom' = [ioRoom EXCEPT ![r] = @ \cup {s}]
         /\ raced' = (raced \/ s \notin connected)
  /\ pc' = [pc EXCEPT ![q] = IF observers[room[q]] # {} THEN "done" ELSE "observing"]
  /\ UNCHANGED <<active, rooms, open, observers, connected, room, ending, informed>>

(* createAudioLevelObserver resolves, or rejects on a closed Router *)
ObserverCreated(q) ==
  /\ pc[q] = "observing"
  /\ observers' = IF room[q] \in open THEN [observers EXCEPT ![room[q]] = @ \cup {q}]
                                        ELSE observers
  /\ pc' = [pc EXCEPT ![q] = "done"]
  /\ UNCHANGED <<active, rooms, open, peers, socketRoom, ioRoom, connected, room,
                 ending, informed, raced>>

-----------------------------------------------------------------------------
(* disconnect *)

RemovePeerKept(r, s) == peers
RemovePeer(r, s) ==
  IF rooms[r] = NoRouter THEN peers ELSE [peers EXCEPT ![rooms[r]] = @ \ {s}]

(* closeRoomIfEmpty, with the peers that are left *)
EmptyTooSoon(r, left) == rooms[r] # NoRouter /\ \E s \in Sockets : left[rooms[r]] \subseteq {s}
EmptyNever(r, left) == FALSE
Empty(r, left) == rooms[r] # NoRouter /\ left[rooms[r]] = {}

Disconnect(s) ==
  /\ s \in connected /\ ~Draining
  /\ connected' = connected \ {s}
  /\ LET r    == socketRoom[s]
         left == RemovePeer(r, s)
     IN  IF r = NoRoom
         THEN UNCHANGED <<rooms, open, peers, socketRoom>>
         ELSE /\ peers' = left
              /\ socketRoom' = [socketRoom EXCEPT ![s] = NoRoom]
              /\ IF Empty(r, left)
                 THEN open' = open \ {rooms[r]} /\ rooms' = [rooms EXCEPT ![r] = NoRouter]
                 ELSE UNCHANGED <<open, rooms>>
  /\ ioRoom' = [r \in Rooms |-> ioRoom[r] \ {s}]
  /\ UNCHANGED <<active, observers, pc, room, ending, informed, raced>>

-----------------------------------------------------------------------------
(* sfu-end-meeting: read the document, tell the room, write the document *)

EndMeeting(s) ==
  /\ s \in connected /\ socketRoom[s] # NoRoom /\ ~Draining
  /\ Cardinality(ending) < MaxEnding
  /\ ending' = ending \cup {[by |-> s, room |-> socketRoom[s], step |-> "finding"]}
  /\ UNCHANGED <<sfu, connected, pc, room, informed, raced>>

EndRefused(e) ==
  /\ e.step = "finding" /\ e.by \notin Admins
  /\ ending' = ending \ {e}
  /\ UNCHANGED <<sfu, connected, pc, room, informed, raced>>

EndAnnounced(e) ==
  /\ e.step = "finding" /\ e.by \in Admins
  /\ informed' = informed \cup ioRoom[e.room]
  /\ ending' = (ending \ {e}) \cup {[e EXCEPT !.step = "updating"]}
  /\ UNCHANGED <<sfu, connected, pc, room, raced>>

EndSaved(e) ==
  /\ e.step = "updating"
  /\ active' = active \ {e.room}
  /\ ending' = ending \ {e}
  /\ UNCHANGED <<rooms, open, peers, observers, socketRoom, ioRoom, connected, pc, room,
                 informed, raced>>

-----------------------------------------------------------------------------
Quiet == ending = {} /\ \A q \in Requests : pc[q] \in {"unsent", "done"}

RoomsNext ==
  \/ \E q \in Requests : \/ ChatJoin(q) \/ AskCapabilities(q) \/ RefuseEnded(q) \/ FindRoom(q)
                         \/ RouterCreated(q) \/ Register(q) \/ ObserverCreated(q)
  \/ \E s \in Sockets : Disconnect(s) \/ EndMeeting(s)
  \/ \E e \in ending : EndRefused(e) \/ EndAnnounced(e) \/ EndSaved(e)
  \/ Quiet /\ connected = {} /\ UNCHANGED roomsVars

RoomsSpec == RoomsInit /\ [][RoomsNext]_roomsVars

-----------------------------------------------------------------------------
Routers == {NoRouter} \cup Requests

(* Every variable has its type.                                            *)
TypeOK ==
  /\ active \subseteq Rooms /\ rooms \in [Rooms -> Routers] /\ open \subseteq Requests
  /\ peers \in [Requests -> SUBSET Sockets] /\ observers \in [Requests -> SUBSET Requests]
  /\ socketRoom \in [Sockets -> Rooms \cup {NoRoom}] /\ ioRoom \in [Rooms -> SUBSET Sockets]
  /\ connected \subseteq Sockets /\ informed \subseteq Sockets /\ raced \in BOOLEAN
  /\ pc \in [Requests -> {"unsent", "finding", "creating", "ready", "observing", "done"}]
  /\ room \in [Requests -> Routers]
  /\ ending \subseteq [by : Sockets, room : Rooms, step : {"finding", "updating"}]

(* A Router is never closed while a peer is registered on it, and the room *)
(* map never leads to a closed Router or to another room's: a join that    *)
(* found a room can always use it.  (getOrCreateRoom, closeRoomIfEmpty)    *)
RouterHeldWhileUsed ==
  /\ \A R \in Requests : peers[R] # {} => R \in open
  /\ \A r \in Rooms : rooms[r] # NoRouter => rooms[r] \in open /\ RoomOf[rooms[r]] = r
  /\ \A q \in Requests : pc[q] = "ready" => room[q] \in open

(* Once a join has run to its next await, a room in the map has a peer:    *)
(* no path leaves an empty room behind.                                    *)
NoIdleRoom ==
  \A r \in Rooms : ~Draining /\ rooms[r] # NoRouter => peers[rooms[r]] # {}

(* Routers and peers outlive their use only where two joins created the    *)
(* same room at once or a join ended after its socket had gone; otherwise, *)
(* with no handler under way, the open Routers are those in the map, their *)
(* peers the connected sockets that joined, and the socket index agrees.   *)
LeaksOnlyByRaces ==
  ~raced /\ Quiet =>
    /\ open = {rooms[r] : r \in Rooms} \ {NoRouter}
    /\ \A r \in Rooms :
         LET joined == {s \in Sockets : socketRoom[s] = r}
         IN  /\ joined \subseteq ioRoom[r] /\ ioRoom[r] \subseteq connected
             /\ IF rooms[r] = NoRouter THEN joined = {} ELSE peers[rooms[r]] = joined
=============================================================================
