------------------------------ MODULE SfuProofs ------------------------------
(***************************************************************************)
(* Proofs about the SFU: of SfuRooms, for any number of rooms, sockets and *)
(* calls; of SfuMedia, for any number of peers, failed set-ups, tracks and *)
(* waiting requests; and of Lifecycle, the process with its workers, for   *)
(* any number of them: readiness and the spread of rooms (PoolSound), and  *)
(* the order of the drain.                                                 *)
(***************************************************************************)
EXTENDS Lifecycle, SfuRooms, SfuMedia, SequenceTheorems, TLAPS

-----------------------------------------------------------------------------
(* SfuRooms *)

(* Where the calls under way stand towards the rooms they asked for.        *)
CallsAgree ==
  /\ \A q \in Requests : pc[q] = "ready" => rooms[RoomOf[q]] # NoRouter
  /\ \A q \in open : pc[q] \in {"ready", "observing", "done"}
  /\ \A s \in Sockets : socketRoom[s] # NoRoom =>
       \E q \in Requests : SocketOf[q] = s /\ RoomOf[q] = socketRoom[s]

(* NoIdleRoom between a Router's creation and its first peer too.           *)
OccupiedOrComing ==
  \A r \in Rooms : rooms[r] # NoRouter =>
    \/ peers[rooms[r]] # {}
    \/ \E q \in Requests : pc[q] = "ready" /\ RoomOf[q] = r

(* LeaksOnlyByRaces whether or not handlers are under way.                  *)
CleanUnlessRaced ==
  ~raced =>
    /\ open = {rooms[r] : r \in Rooms} \ {NoRouter}
    /\ \A r \in Rooms :
         LET joined == {s \in Sockets : socketRoom[s] = r}
         IN  /\ joined \subseteq ioRoom[r] /\ ioRoom[r] \subseteq connected
             /\ IF rooms[r] = NoRouter THEN joined = {} ELSE peers[rooms[r]] = joined

RoomsIInv == TypeOK /\ RouterHeldWhileUsed /\ CallsAgree /\ OccupiedOrComing /\ CleanUnlessRaced

-----------------------------------------------------------------------------
(* The steps that touch neither the rooms nor their peers.                  *)
Elsewhere ==
  \/ \E q \in Requests : ChatJoin(q) \/ AskCapabilities(q) \/ RefuseEnded(q) \/ ObserverCreated(q)
  \/ \E s \in Sockets : EndMeeting(s)
  \/ \E e \in ending : EndRefused(e) \/ EndAnnounced(e) \/ EndSaved(e)
  \/ UNCHANGED roomsVars

LEMMA RoomsNextCases ==
  ASSUME [RoomsNext]_roomsVars
  PROVE  \/ Elsewhere
         \/ \E q \in Requests : FindRoom(q) \/ RouterCreated(q) \/ Register(q)
         \/ \E s \in Sockets : Disconnect(s)
BY DEF RoomsNext, Elsewhere

LEMMA TypeInit == RoomsInit => TypeOK
BY SfuRoomsConstants DEF RoomsInit, TypeOK, Routers

LEMMA RoomsTypeStep ==
  ASSUME TypeOK, [RoomsNext]_roomsVars
  PROVE  TypeOK'
<1> USE SfuRoomsConstants
<1>1. ASSUME NEW q \in Requests, ChatJoin(q) \/ AskCapabilities(q) \/ RefuseEnded(q) \/ ObserverCreated(q)
      PROVE  TypeOK'
  BY <1>1 DEF TypeOK, Routers, ChatJoin, AskCapabilities, RefuseEnded, ObserverCreated, sfu
<1>2. ASSUME NEW q \in Requests, FindRoom(q) \/ RouterCreated(q)
      PROVE  TypeOK'
  <2>1. CASE FindRoom(q)
    BY <2>1 DEF TypeOK, Routers, FindRoom, sfu
  <2>2. CASE RouterCreated(q)
    <3>1. /\ rooms' \in [Rooms -> Routers] /\ open' \subseteq Requests
          /\ room' \in [Requests -> Routers] /\ raced' \in BOOLEAN
      BY <2>2 DEF TypeOK, Routers, RouterCreated
    <3>2. pc' \in [Requests -> {"unsent", "finding", "creating", "ready", "observing", "done"}]
      BY <2>2 DEF TypeOK, RouterCreated
    <3>3. UNCHANGED <<active, peers, observers, socketRoom, ioRoom, connected, ending, informed>>
      BY <2>2 DEF RouterCreated
    <3> QED BY <3>1, <3>2, <3>3 DEF TypeOK
  <2> QED BY <1>2, <2>1, <2>2
<1>3. ASSUME NEW q \in Requests, Register(q)
      PROVE  TypeOK'
  <2>1. peers' \in [Requests -> SUBSET Sockets]
    BY <1>3 DEF TypeOK, Routers, Register, AddPeer
  <2> QED BY <1>3, <2>1 DEF TypeOK, Routers, Register
<1>4. ASSUME NEW s \in Sockets, Disconnect(s)
      PROVE  TypeOK'
  <2>1. /\ peers' \in [Requests -> SUBSET Sockets]
        /\ rooms' \in [Rooms -> Routers]
        /\ open' \subseteq Requests
        /\ socketRoom' \in [Sockets -> Rooms \cup {NoRoom}]
    BY <1>4 DEF TypeOK, Routers, Disconnect, RemovePeer
  <2>2. /\ ioRoom' \in [Rooms -> SUBSET Sockets]
        /\ connected' \subseteq Sockets
    BY <1>4 DEF TypeOK, Disconnect
  <2>3. UNCHANGED <<active, observers, pc, room, ending, informed, raced>>
    BY <1>4 DEF Disconnect
  <2> QED BY <2>1, <2>2, <2>3 DEF TypeOK
<1>5. ASSUME NEW s \in Sockets, EndMeeting(s)
      PROVE  TypeOK'
  BY <1>5 DEF TypeOK, Routers, EndMeeting, sfu
<1>6. ASSUME NEW e \in ending, EndRefused(e) \/ EndAnnounced(e) \/ EndSaved(e)
      PROVE  TypeOK'
  BY <1>6 DEF TypeOK, Routers, EndRefused, EndAnnounced, EndSaved, sfu
<1>7. CASE UNCHANGED roomsVars
  BY <1>7 DEF TypeOK, roomsVars, sfu, Routers
<1> QED BY <1>1, <1>2, <1>3, <1>4, <1>5, <1>6, <1>7 DEF RoomsNext
-----------------------------------------------------------------------------
LEMMA RoomsInvInit == RoomsInit => RoomsIInv
<1> SUFFICES ASSUME RoomsInit PROVE RoomsIInv
  OBVIOUS
<1> USE SfuRoomsConstants
<1>1. RouterHeldWhileUsed
  BY DEF RoomsInit, RouterHeldWhileUsed
<1>2. CallsAgree /\ OccupiedOrComing
  BY DEF RoomsInit, CallsAgree, OccupiedOrComing
<1>3. CleanUnlessRaced
  <2>1. open = {rooms[r] : r \in Rooms} \ {NoRouter}
    BY DEF RoomsInit
  <2>2. ASSUME NEW r \in Rooms
        PROVE  rooms[r] = NoRouter /\ {s \in Sockets : socketRoom[s] = r} = {} /\ ioRoom[r] = {}
    BY DEF RoomsInit
  <2> QED BY <2>1, <2>2 DEF CleanUnlessRaced
<1> QED BY <1>1, <1>2, <1>3, TypeInit DEF RoomsIInv

(* What the steps of Elsewhere leave alone.                                 *)
LEMMA ElsewhereEffects ==
  ASSUME TypeOK, Elsewhere
  PROVE  /\ UNCHANGED <<rooms, open, peers, socketRoom, connected, room, raced>>
         /\ \A q \in Requests : pc'[q] = "ready" <=> pc[q] = "ready"
         /\ \A q \in Requests : pc[q] \in {"observing", "done"} => pc'[q] \in {"observing", "done"}
         /\ \A r \in Rooms : ioRoom[r] \subseteq ioRoom'[r]
         /\ \A r \in Rooms : ioRoom[r] \subseteq connected => ioRoom'[r] \subseteq connected
<1> USE SfuRoomsConstants
<1>1. ASSUME NEW q \in Requests, ChatJoin(q)
      PROVE  /\ UNCHANGED <<rooms, open, peers, socketRoom, connected, room, raced, pc>>
             /\ \A r \in Rooms : ioRoom'[r] \in {ioRoom[r], ioRoom[r] \cup {SocketOf[q]}}
             /\ SocketOf[q] \in connected
  BY <1>1 DEF ChatJoin, TypeOK
<1>2. ASSUME NEW q \in Requests, AskCapabilities(q) \/ RefuseEnded(q) \/ ObserverCreated(q)
      PROVE  /\ UNCHANGED <<rooms, open, peers, socketRoom, connected, room, raced, ioRoom>>
             /\ pc[q] \in {"unsent", "finding", "observing"}
             /\ \E v \in {"finding", "done"} : pc' = [pc EXCEPT ![q] = v]
             /\ pc[q] = "observing" => pc' = [pc EXCEPT ![q] = "done"]
  BY <1>2 DEF AskCapabilities, RefuseEnded, ObserverCreated, sfu
<1>3. ASSUME NEW s \in Sockets, EndMeeting(s)
      PROVE  UNCHANGED <<rooms, open, peers, socketRoom, connected, room, raced, ioRoom, pc>>
  BY <1>3 DEF EndMeeting, sfu
<1>4. ASSUME NEW e \in ending, EndRefused(e) \/ EndAnnounced(e) \/ EndSaved(e)
      PROVE  UNCHANGED <<rooms, open, peers, socketRoom, connected, room, raced, ioRoom, pc>>
  BY <1>4 DEF EndRefused, EndAnnounced, EndSaved, sfu
<1>5. CASE UNCHANGED roomsVars
  BY <1>5 DEF roomsVars, sfu
<1>6. ASSUME NEW q \in Requests, AskCapabilities(q) \/ RefuseEnded(q) \/ ObserverCreated(q)
      PROVE  /\ \A p \in Requests : pc'[p] = "ready" <=> pc[p] = "ready"
             /\ \A p \in Requests : pc[p] \in {"observing", "done"} => pc'[p] \in {"observing", "done"}
  BY <1>2, <1>6 DEF TypeOK
<1> QED BY <1>1, <1>2, <1>3, <1>4, <1>5, <1>6 DEF Elsewhere

-----------------------------------------------------------------------------
(* One step of each kind preserves the strengthened invariant.              *)
LEMMA InvElsewhere ==
  ASSUME RoomsIInv, Elsewhere
  PROVE  /\ RouterHeldWhileUsed' /\ CallsAgree' /\ OccupiedOrComing' /\ CleanUnlessRaced'
<1> USE SfuRoomsConstants DEF RoomsIInv
<1>1. /\ UNCHANGED <<rooms, open, peers, socketRoom, connected, room, raced>>
      /\ \A q \in Requests : pc'[q] = "ready" <=> pc[q] = "ready"
      /\ \A q \in Requests : pc[q] \in {"observing", "done"} => pc'[q] \in {"observing", "done"}
      /\ \A r \in Rooms : ioRoom[r] \subseteq ioRoom'[r]
      /\ \A r \in Rooms : ioRoom[r] \subseteq connected => ioRoom'[r] \subseteq connected
  BY ElsewhereEffects
<1>2. RouterHeldWhileUsed'
  BY <1>1 DEF RouterHeldWhileUsed
<1>3. CallsAgree'
  BY <1>1 DEF CallsAgree, TypeOK
<1>4. OccupiedOrComing'
  BY <1>1 DEF OccupiedOrComing
<1>5. CleanUnlessRaced'
  <2>1. SUFFICES ASSUME ~raced
                 PROVE  /\ open = {rooms[r] : r \in Rooms} \ {NoRouter}
                        /\ \A r \in Rooms :
                             LET joined == {s \in Sockets : socketRoom[s] = r}
                             IN  /\ joined \subseteq ioRoom'[r] /\ ioRoom'[r] \subseteq connected
                                 /\ IF rooms[r] = NoRouter THEN joined = {}
                                                          ELSE peers[rooms[r]] = joined
    BY <1>1 DEF CleanUnlessRaced
  <2> QED BY <1>1, <2>1 DEF CleanUnlessRaced
<1> QED BY <1>2, <1>3, <1>4, <1>5

LEMMA InvFindRoom ==
  ASSUME RoomsIInv, NEW q \in Requests, FindRoom(q)
  PROVE  /\ RouterHeldWhileUsed' /\ CallsAgree' /\ OccupiedOrComing' /\ CleanUnlessRaced'
<1> USE SfuRoomsConstants DEF RoomsIInv
<1>1. /\ UNCHANGED <<rooms, open, peers, socketRoom, ioRoom, connected, raced>>
      /\ pc[q] = "finding"
      /\ \A p \in Requests \ {q} : pc'[p] = pc[p] /\ room'[p] = room[p]
      /\ room'[q] = rooms[RoomOf[q]]
      /\ IF rooms[RoomOf[q]] = NoRouter THEN pc'[q] = "creating" ELSE pc'[q] = "ready"
  BY DEF FindRoom, TypeOK, sfu
<1> HIDE DEF FindRoom
<1>2. RouterHeldWhileUsed'
  BY <1>1 DEF RouterHeldWhileUsed
<1>3. CallsAgree'
  BY <1>1 DEF CallsAgree, TypeOK
<1>4. OccupiedOrComing'
  BY <1>1 DEF OccupiedOrComing
<1>5. CleanUnlessRaced'
  BY <1>1 DEF CleanUnlessRaced
<1> QED BY <1>2, <1>3, <1>4, <1>5

LEMMA InvRouterCreated ==
  ASSUME RoomsIInv, NEW q \in Requests, RouterCreated(q)
  PROVE  /\ RouterHeldWhileUsed' /\ CallsAgree' /\ OccupiedOrComing' /\ CleanUnlessRaced'
<1> USE SfuRoomsConstants DEF RoomsIInv
<1> DEFINE r == RoomOf[q]
<1>1. /\ UNCHANGED <<peers, socketRoom, ioRoom, connected>>
      /\ pc[q] = "creating" /\ pc'[q] = "ready" /\ room'[q] = q
      /\ \A p \in Requests \ {q} : pc'[p] = pc[p] /\ room'[p] = room[p]
      /\ open' = open \cup {q}
      /\ r \in Rooms /\ rooms'[r] = q /\ q # NoRouter
      /\ \A o \in Rooms \ {r} : rooms'[o] = rooms[o]
      /\ raced' = (raced \/ rooms[r] # NoRouter)
  BY DEF RouterCreated, TypeOK
<1> HIDE DEF r
<1>2. RouterHeldWhileUsed'
  <2>1. RoomOf[q] = r
    BY DEF r
  <2> QED BY <1>1, <2>1 DEF RouterHeldWhileUsed
<1>3. CallsAgree'
  BY <1>1 DEF CallsAgree, r, TypeOK
<1>4. OccupiedOrComing'
  BY <1>1 DEF OccupiedOrComing, r
<1>5. CleanUnlessRaced'
  <2>1. SUFFICES ASSUME ~raced'
                 PROVE  /\ open' = {rooms'[o] : o \in Rooms} \ {NoRouter}
                        /\ \A o \in Rooms :
                             LET joined == {s \in Sockets : socketRoom[s] = o}
                             IN  /\ joined \subseteq ioRoom[o] /\ ioRoom[o] \subseteq connected
                                 /\ IF rooms'[o] = NoRouter THEN joined = {}
                                                           ELSE peers[rooms'[o]] = joined
    BY <1>1 DEF CleanUnlessRaced
  <2>2. ~raced /\ rooms[r] = NoRouter
    BY <1>1, <2>1
  <2>3. open' = {rooms'[o] : o \in Rooms} \ {NoRouter}
    BY <1>1, <2>2 DEF CleanUnlessRaced
  <2>4. peers[q] = {}
    BY <1>1 DEF RouterHeldWhileUsed, CallsAgree
  <2> QED BY <1>1, <2>2, <2>3, <2>4 DEF CleanUnlessRaced
<1> QED BY <1>2, <1>3, <1>4, <1>5

LEMMA InvRegister ==
  ASSUME RoomsIInv, NEW q \in Requests, Register(q)
  PROVE  /\ RouterHeldWhileUsed' /\ CallsAgree' /\ OccupiedOrComing' /\ CleanUnlessRaced'
<1> USE SfuRoomsConstants DEF RoomsIInv
<1> DEFINE r == RoomOf[q]
           s == SocketOf[q]
           R == rooms[r]
<1>1. /\ UNCHANGED <<rooms, open, connected, room>>
      /\ r \in Rooms /\ s \in Sockets
      /\ pc[q] = "ready" /\ pc'[q] \in {"observing", "done"}
      /\ \A p \in Requests \ {q} : pc'[p] = pc[p]
      /\ \A t \in Sockets \ {s} : socketRoom'[t] = socketRoom[t]
      /\ socketRoom'[s] = r
      /\ \A o \in Rooms \ {r} : ioRoom'[o] = ioRoom[o]
      /\ ioRoom'[r] = ioRoom[r] \cup {s}
      /\ raced' = (raced \/ s \notin connected)
  BY DEF Register, TypeOK
<1>2. R # NoRouter /\ R \in Requests /\ R \in open /\ RoomOf[R] = r
  BY <1>1 DEF CallsAgree, TypeOK, Routers, RouterHeldWhileUsed
<1>3. /\ peers'[R] = peers[R] \cup {s}
      /\ \A P \in Requests \ {R} : peers'[P] = peers[P]
  BY <1>2 DEF Register, AddPeer, TypeOK
<1>4. RoomOf[q] = r /\ SocketOf[q] = s /\ R = rooms[r]
  OBVIOUS
<1> HIDE DEF r, s, R
<1>5. RouterHeldWhileUsed'
  BY <1>1, <1>2, <1>3 DEF RouterHeldWhileUsed
<1>6. CallsAgree'
  BY <1>1, <1>4 DEF CallsAgree, TypeOK
<1>7. OccupiedOrComing'
  <2>1. SUFFICES ASSUME NEW o \in Rooms, rooms[o] # NoRouter, o # r
                 PROVE  \/ peers'[rooms[o]] # {}
                        \/ \E p \in Requests : pc'[p] = "ready" /\ RoomOf[p] = o
    BY <1>1, <1>3, <1>4 DEF OccupiedOrComing
  <2>2. rooms[o] \in Requests /\ rooms[o] # R
    BY <1>2, <2>1 DEF RouterHeldWhileUsed, TypeOK, Routers
  <2> QED BY <1>1, <1>3, <1>4, <2>1, <2>2 DEF OccupiedOrComing
<1>8. CleanUnlessRaced'
  <2>1. SUFFICES ASSUME ~raced'
                 PROVE  /\ open = {rooms[o] : o \in Rooms} \ {NoRouter}
                        /\ \A o \in Rooms :
                             LET joined == {t \in Sockets : socketRoom'[t] = o}
                             IN  /\ joined \subseteq ioRoom'[o] /\ ioRoom'[o] \subseteq connected
                                 /\ IF rooms[o] = NoRouter THEN joined = {}
                                                          ELSE peers'[rooms[o]] = joined
    BY <1>1 DEF CleanUnlessRaced
  <2>2. ~raced /\ s \in connected
    BY <1>1, <2>1
  <2> DEFINE before(o) == {t \in Sockets : socketRoom[t] = o}
             after(o)  == {t \in Sockets : socketRoom'[t] = o}
  <2>3. socketRoom[s] \in {NoRoom, r}
    BY <1>1, <1>4 DEF CallsAgree
  <2>4. after(r) = before(r) \cup {s}
    BY <1>1
  <2>5. \A o \in Rooms \ {r} : after(o) = before(o)
    BY <1>1, <2>3
  <2>6. \A o \in Rooms : /\ before(o) \subseteq ioRoom[o] /\ ioRoom[o] \subseteq connected
                         /\ IF rooms[o] = NoRouter THEN before(o) = {}
                                                  ELSE peers[rooms[o]] = before(o)
    BY <2>2 DEF CleanUnlessRaced
  <2> HIDE DEF before, after
  <2>7. ASSUME NEW o \in Rooms
        PROVE  /\ after(o) \subseteq ioRoom'[o] /\ ioRoom'[o] \subseteq connected
               /\ IF rooms[o] = NoRouter THEN after(o) = {} ELSE peers'[rooms[o]] = after(o)
    <3>1. CASE o = r
      BY <1>1, <1>2, <1>3, <1>4, <2>2, <2>4, <2>6, <3>1
    <3>2. CASE o # r
      <4>1. rooms[o] # NoRouter => rooms[o] \in Requests /\ rooms[o] # R
        BY <1>2, <3>2 DEF RouterHeldWhileUsed, TypeOK, Routers
      <4> QED BY <1>1, <1>3, <2>5, <2>6, <3>2, <4>1
    <3> QED BY <3>1, <3>2
  <2>8. open = {rooms[o] : o \in Rooms} \ {NoRouter}
    BY <2>2 DEF CleanUnlessRaced
  <2> QED BY <2>7, <2>8 DEF after
<1> QED BY <1>5, <1>6, <1>7, <1>8

(* A disconnect finds no room to leave, or leaves a Room R and perhaps      *)
(* closes it.                                                               *)
LeavesNothing(s) ==
  /\ \/ socketRoom[s] = NoRoom
     \/ socketRoom[s] \in Rooms /\ rooms[socketRoom[s]] = NoRouter
  /\ UNCHANGED <<rooms, open, peers>>

LeavesRoom(s, r, R) ==
  /\ socketRoom[s] = r /\ rooms[r] = R
  /\ peers'[R] = peers[R] \ {s}
  /\ \A P \in Requests \ {R} : peers'[P] = peers[P]
  /\ \A o \in Rooms \ {r} : rooms'[o] = rooms[o] /\ rooms[o] # R
  /\ \/ peers'[R] # {} /\ rooms'[r] = R /\ open' = open
     \/ peers'[R] = {} /\ rooms'[r] = NoRouter /\ open' = open \ {R}

LEMMA DisconnectEffects ==
  ASSUME TypeOK, RouterHeldWhileUsed, NEW s \in Sockets, Disconnect(s)
  PROVE  /\ UNCHANGED <<pc, room, raced>>
         /\ connected' = connected \ {s}
         /\ \A p \in Requests : pc[p] # "ready"
         /\ \A r \in Rooms : ioRoom'[r] = ioRoom[r] \ {s}
         /\ \A t \in Sockets \ {s} : socketRoom'[t] = socketRoom[t]
         /\ socketRoom'[s] = NoRoom
         /\ LeavesNothing(s) \/ \E r \in Rooms, R \in Requests : LeavesRoom(s, r, R)
<1> USE SfuRoomsConstants
<1>1. /\ UNCHANGED <<pc, room, raced>>
      /\ connected' = connected \ {s}
      /\ \A p \in Requests : pc[p] # "ready"
      /\ \A r \in Rooms : ioRoom'[r] = ioRoom[r] \ {s}
  BY DEF Disconnect, Draining, TypeOK
<1>2. CASE socketRoom[s] = NoRoom
  <2>1. UNCHANGED <<rooms, open, peers, socketRoom>>
    BY <1>2 DEF Disconnect
  <2>2. /\ \A t \in Sockets \ {s} : socketRoom'[t] = socketRoom[t]
        /\ socketRoom'[s] = NoRoom
    BY <1>2, <2>1
  <2>3. LeavesNothing(s)
    BY <1>2, <2>1 DEF LeavesNothing
  <2> QED BY <1>1, <2>2, <2>3
<1>3. CASE socketRoom[s] # NoRoom
  <2> DEFINE r == socketRoom[s]
             R == rooms[r]
             left == RemovePeer(r, s)
  <2>1. /\ r \in Rooms /\ R \in Routers
        /\ socketRoom' = [socketRoom EXCEPT ![s] = NoRoom]
        /\ peers' = left
        /\ IF Empty(r, left) THEN open' = open \ {R} /\ rooms' = [rooms EXCEPT ![r] = NoRouter]
                             ELSE UNCHANGED <<open, rooms>>
    BY <1>3 DEF Disconnect, TypeOK
  <2>2. /\ \A t \in Sockets \ {s} : socketRoom'[t] = socketRoom[t]
        /\ socketRoom'[s] = NoRoom
    BY <2>1 DEF TypeOK
  <2>3. CASE R = NoRouter
    <3>1. UNCHANGED <<rooms, open, peers>>
      BY <2>1, <2>3 DEF RemovePeer, Empty
    <3>2. LeavesNothing(s)
      BY <2>1, <2>3, <3>1 DEF LeavesNothing
    <3> QED BY <1>1, <2>2, <3>2
  <2>4. CASE R # NoRouter
    <3>1. R \in Requests
      BY <2>1, <2>4 DEF Routers
    <3>2. left = [peers EXCEPT ![R] = @ \ {s}]
      BY <2>4 DEF RemovePeer
    <3>3. /\ peers'[R] = peers[R] \ {s}
          /\ \A P \in Requests \ {R} : peers'[P] = peers[P]
      BY <2>1, <3>1, <3>2 DEF TypeOK
    <3>4. \A o \in Rooms \ {r} : rooms[o] # R
      BY <2>1, <2>4 DEF RouterHeldWhileUsed
    <3>5. Empty(r, left) <=> peers'[R] = {}
      BY <2>1, <2>4 DEF Empty
    <3>6. /\ \A o \in Rooms \ {r} : rooms'[o] = rooms[o]
          /\ \/ peers'[R] # {} /\ rooms'[r] = R /\ open' = open
             \/ peers'[R] = {} /\ rooms'[r] = NoRouter /\ open' = open \ {R}
      BY <2>1, <3>5 DEF TypeOK
    <3>7. r \in Rooms /\ socketRoom[s] = r /\ rooms[r] = R
      BY <2>1
    <3> HIDE DEF left, R, r
    <3>8. LeavesRoom(s, r, R)
      BY <3>3, <3>4, <3>6, <3>7 DEF LeavesRoom
    <3> QED BY <1>1, <2>2, <3>1, <3>7, <3>8
  <2> QED BY <2>3, <2>4
<1> QED BY <1>2, <1>3

LEMMA InvDisconnect ==
  ASSUME RoomsIInv, NEW s \in Sockets, Disconnect(s)
  PROVE  /\ RouterHeldWhileUsed' /\ CallsAgree' /\ OccupiedOrComing' /\ CleanUnlessRaced'
<1> USE SfuRoomsConstants DEF RoomsIInv
<1> DEFINE before(o) == {t \in Sockets : socketRoom[t] = o}
           after(o)  == {t \in Sockets : socketRoom'[t] = o}
<1>1. /\ UNCHANGED <<pc, room, raced>>
      /\ connected' = connected \ {s}
      /\ \A p \in Requests : pc[p] # "ready"
      /\ \A r \in Rooms : ioRoom'[r] = ioRoom[r] \ {s}
      /\ \A t \in Sockets \ {s} : socketRoom'[t] = socketRoom[t]
      /\ socketRoom'[s] = NoRoom
  BY DisconnectEffects
<1>2. \A o \in Rooms : after(o) = before(o) \ {s}
  BY <1>1
<1>3. ~raced => \A o \in Rooms : /\ before(o) \subseteq ioRoom[o] /\ ioRoom[o] \subseteq connected
                                 /\ IF rooms[o] = NoRouter THEN before(o) = {}
                                                          ELSE peers[rooms[o]] = before(o)
  BY DEF CleanUnlessRaced
<1>4. \A o \in Rooms : s \in before(o) <=> socketRoom[s] = o
  OBVIOUS
<1>5. CASE LeavesNothing(s)
  <2> USE <1>5 DEF LeavesNothing
  <2>1. RouterHeldWhileUsed' /\ CallsAgree' /\ OccupiedOrComing'
    BY <1>1, <1>5 DEF RouterHeldWhileUsed, CallsAgree, OccupiedOrComing, TypeOK
  <2>2. ~raced => socketRoom[s] = NoRoom
    BY <1>3, <1>4, <1>5
  <2> HIDE DEF before, after
  <2>3. ASSUME ~raced, NEW o \in Rooms
        PROVE  /\ after(o) \subseteq ioRoom'[o] /\ ioRoom'[o] \subseteq connected'
               /\ IF rooms'[o] = NoRouter THEN after(o) = {} ELSE peers'[rooms'[o]] = after(o)
    <3>1. after(o) = before(o)
      BY <1>2, <1>4, <2>2, <2>3
    <3> QED BY <1>1, <1>2, <1>3, <1>5, <2>3, <3>1
  <2>4. ~raced => open' = {rooms'[o] : o \in Rooms} \ {NoRouter}
    BY <1>5 DEF CleanUnlessRaced
  <2> QED BY <1>1, <2>1, <2>3, <2>4 DEF CleanUnlessRaced, after
<1>6. ASSUME NEW r \in Rooms, NEW R \in Requests, LeavesRoom(s, r, R)
      PROVE  /\ RouterHeldWhileUsed' /\ CallsAgree' /\ OccupiedOrComing' /\ CleanUnlessRaced'
  <2> USE <1>6 DEF LeavesRoom
  <2>1. RouterHeldWhileUsed'
    BY <1>1, <1>6 DEF RouterHeldWhileUsed
  <2>2. CallsAgree'
    BY <1>1, <1>6 DEF CallsAgree, TypeOK
  <2>3. \A o \in Rooms \ {r} : rooms[o] # NoRouter => rooms[o] \in Requests \ {R}
    BY <1>6 DEF TypeOK, Routers
  <2>4. OccupiedOrComing'
    BY <1>1, <1>6, <2>3 DEF OccupiedOrComing
  <2>5. ASSUME ~raced
        PROVE  open' = {rooms'[o] : o \in Rooms} \ {NoRouter}
    <3>1. open = {rooms[o] : o \in Rooms} \ {NoRouter}
      BY <2>5 DEF CleanUnlessRaced
    <3>2. CASE rooms'[r] = R /\ open' = open
      BY <1>6, <3>1, <3>2
    <3>3. CASE rooms'[r] = NoRouter /\ open' = open \ {R}
      BY <1>6, <3>1, <3>3
    <3> QED BY <1>6, <3>2, <3>3
  <2> HIDE DEF before, after
  <2>6. ASSUME ~raced, NEW o \in Rooms
        PROVE  /\ after(o) \subseteq ioRoom'[o] /\ ioRoom'[o] \subseteq connected'
               /\ IF rooms'[o] = NoRouter THEN after(o) = {} ELSE peers'[rooms'[o]] = after(o)
    <3>1. after(o) \subseteq ioRoom'[o] /\ ioRoom'[o] \subseteq connected'
      BY <1>1, <1>2, <1>3, <2>6
    <3>2. CASE o = r
      <4>1. peers'[R] = after(r)
        BY <1>2, <1>3, <1>6, <2>6
      <4> QED BY <1>6, <3>1, <3>2, <4>1
    <3>3. CASE o # r
      <4>1. s \notin before(o) /\ after(o) = before(o) \ {s}
        BY <1>2, <1>4, <1>6, <3>3
      <4>2. after(o) = before(o)
        BY <4>1
      <4> QED BY <1>3, <1>6, <2>3, <2>6, <3>1, <3>3, <4>2
    <3> QED BY <3>2, <3>3
  <2> QED BY <1>1, <2>1, <2>2, <2>4, <2>5, <2>6 DEF CleanUnlessRaced, after
<1> QED BY <1>5, <1>6, DisconnectEffects

-----------------------------------------------------------------------------
THEOREM RoomsInvAlways == RoomsSpec => []RoomsIInv
<1>1. RoomsInit => RoomsIInv
  BY RoomsInvInit
<1>2. RoomsIInv /\ [RoomsNext]_roomsVars => RoomsIInv'
  <2> SUFFICES ASSUME RoomsIInv, [RoomsNext]_roomsVars PROVE RoomsIInv'
    OBVIOUS
  <2>1. TypeOK'
    BY RoomsTypeStep DEF RoomsIInv
  <2>2. RouterHeldWhileUsed' /\ CallsAgree' /\ OccupiedOrComing' /\ CleanUnlessRaced'
    BY RoomsNextCases, InvElsewhere, InvFindRoom, InvRouterCreated, InvRegister, InvDisconnect
  <2> QED BY <2>1, <2>2 DEF RoomsIInv
<1> QED BY <1>1, <1>2, PTL DEF RoomsSpec

(* Every variable of SfuRooms has its type.                                 *)
THEOREM SfuRoomsTypes == RoomsSpec => []TypeOK
BY RoomsInvAlways, PTL DEF RoomsIInv

(* However joins and disconnects interleave, closeRoomIfEmpty never closes  *)
(* a Router with a peer on it or one a join is about to use.                *)
THEOREM RoutersHeld == RoomsSpec => []RouterHeldWhileUsed
BY RoomsInvAlways, PTL DEF RoomsIInv

(* Between socket events, every room in the map has a peer.                 *)
THEOREM RoomsOccupied == RoomsSpec => []NoIdleRoom
<1>1. RoomsIInv => NoIdleRoom
  BY DEF RoomsIInv, OccupiedOrComing, NoIdleRoom, Draining
<1> QED BY <1>1, RoomsInvAlways, PTL

(* The two join races are the only causes of leaked Routers and peers.      *)
THEOREM OnlyRacesLeak == RoomsSpec => []LeaksOnlyByRaces
<1>1. RoomsIInv => LeaksOnlyByRaces
  BY DEF RoomsIInv, CleanUnlessRaced, LeaksOnlyByRaces
<1> QED BY <1>1, RoomsInvAlways, PTL

-----------------------------------------------------------------------------
(* SfuMedia *)

ClientsTyped ==
  /\ present \subseteq Peers /\ gen \in [Peers -> Nat \ {0}] /\ listed \subseteq Peers
  /\ known \in [Peers -> SUBSET Producers]
TransportsTyped ==
  /\ tpc \in [Transports -> {"none", "creating", "refused", "done"}]
  /\ transports \in [Peers -> SUBSET Transports]
  /\ openT \subseteq Transports /\ released \subseteq Transports /\ late \subseteq Transports
ProducersTyped ==
  /\ ppc \in [Producers -> {"none", "producing", "refused", "observing", "done"}]
  /\ producers \in [Peers -> Seq(Producers)] /\ openP \subseteq Producers
ConsumersTyped ==
  /\ cpc \in [Consumers -> {"none", "consuming", "refused", "prioritising", "done"}]
  /\ consumers \in [Peers -> SUBSET Consumers]
  /\ openC \subseteq Consumers /\ told \subseteq Consumers
MutesTyped ==
  /\ paused \subseteq Producers /\ muting \subseteq Peers /\ muted \subseteq Peers
  /\ queue \in [Producers -> Seq({"pause", "resume", "mute"})]
MediaTypeOK == ClientsTyped /\ TransportsTyped /\ ProducersTyped /\ ConsumersTyped /\ MutesTyped

-----------------------------------------------------------------------------
(* What Map.set of a new key and Map.delete do to a peer's producers.       *)
LEMMA AppendEntries ==
  ASSUME NEW S, NEW q \in Seq(S), NEW x \in S, IsInjective(q), x \notin ToSet(q)
  PROVE  /\ Append(q, x) \in Seq(S) /\ IsInjective(Append(q, x))
         /\ ToSet(Append(q, x)) = ToSet(q) \cup {x}
<1> DEFINE a == Append(q, x)
<1>1. /\ a \in Seq(S) /\ DOMAIN a = 1..(Len(q) + 1) /\ a[Len(q) + 1] = x
      /\ \A i \in 1..Len(q) : a[i] = q[i]
      /\ DOMAIN q = 1..Len(q) /\ Len(q) \in Nat
  OBVIOUS
<1> HIDE DEF a
<1>2. ToSet(a) = ToSet(q) \cup {x}
  BY <1>1 DEF ToSet
<1>3. IsInjective(a)
  BY <1>1 DEF IsInjective, ToSet
<1> QED BY <1>1, <1>2, <1>3 DEF a

LEMMA RemoveAtEntries ==
  ASSUME NEW S, NEW q \in Seq(S), IsInjective(q), NEW i \in DOMAIN q
  PROVE  /\ RemoveAt(q, i) \in Seq(S) /\ IsInjective(RemoveAt(q, i))
         /\ ToSet(RemoveAt(q, i)) = ToSet(q) \ {q[i]}
<1> DEFINE n == Len(q)
           p == RemoveAt(q, i)
<1>1. i \in 1..n /\ n \in Nat /\ DOMAIN q = 1..n
  OBVIOUS
<1>2. /\ p \in Seq(S) /\ DOMAIN p = 1..(n - 1)
      /\ \A j \in 1..(n - 1) : p[j] = IF j < i THEN q[j] ELSE q[j + 1]
  <2> DEFINE l == SubSeq(q, 1, i - 1)
             r == SubSeq(q, i + 1, n)
  <2>1. /\ l \in Seq(S) /\ Len(l) = i - 1 /\ \A j \in 1..(i - 1) : l[j] = q[j]
    BY <1>1
  <2>2. /\ r \in Seq(S) /\ Len(r) = n - i /\ \A j \in 1..(n - i) : r[j] = q[j + i]
    BY <1>1
  <2>3. p = l \o r
    BY DEF RemoveAt
  <2> HIDE DEF l, r, p, n
  <2>4. /\ p \in Seq(S) /\ Len(p) = n - 1
        /\ \A j \in 1..(n - 1) : p[j] = IF j <= i - 1 THEN l[j] ELSE r[j - (i - 1)]
    <3>1. /\ p \in Seq(S) /\ Len(p) = Len(l) + Len(r)
          /\ \A j \in 1..(Len(l) + Len(r)) : p[j] = IF j <= Len(l) THEN l[j] ELSE r[j - Len(l)]
      BY <2>1, <2>2, <2>3, ConcatProperties
    <3>2. Len(l) + Len(r) = n - 1
      BY <1>1, <2>1, <2>2
    <3> QED BY <2>1, <3>1, <3>2
  <2>5. ASSUME NEW j \in 1..(n - 1)
        PROVE  p[j] = IF j < i THEN q[j] ELSE q[j + 1]
    <3>1. CASE j < i
      BY <1>1, <2>1, <2>4, <3>1
    <3>2. CASE j >= i
      <4>1. p[j] = r[j - (i - 1)] /\ j - (i - 1) \in 1..(n - i)
        BY <1>1, <2>4, <3>2
      <4>2. r[j - (i - 1)] = q[(j - (i - 1)) + i]
        BY <2>2, <4>1
      <4> QED BY <1>1, <3>2, <4>1, <4>2
    <3> QED BY <1>1, <3>1, <3>2
  <2> QED BY <1>1, <2>4, <2>5
<1> HIDE DEF n, p
<1>3. IsInjective(p)
  <2>1. SUFFICES ASSUME NEW j \in 1..(n - 1), NEW k \in 1..(n - 1), p[j] = p[k]
                 PROVE  j = k
    BY <1>2 DEF IsInjective
  <2> DEFINE old(m) == IF m < i THEN m ELSE m + 1
  <2>2. old(j) \in 1..n /\ p[j] = q[old(j)] /\ old(k) \in 1..n /\ p[k] = q[old(k)]
    BY <1>1, <1>2
  <2>3. \A k1, k2 \in 1..n : q[k1] = q[k2] => k1 = k2
    BY <1>1 DEF IsInjective
  <2>4. old(j) = old(k)
    BY <2>1, <2>2, <2>3
  <2> QED BY <1>1, <2>4
<1>4. ASSUME NEW x \in ToSet(p) PROVE x \in ToSet(q) /\ x # q[i]
  <2>1. PICK j \in 1..(n - 1) : p[j] = x
    BY <1>2 DEF ToSet
  <2>2. PICK k \in 1..n : x = q[k] /\ k # i
    <3> DEFINE k == IF j < i THEN j ELSE j + 1
    <3>1. k \in 1..n /\ x = q[k] /\ k # i
      BY <1>1, <1>2, <2>1
    <3> QED BY <3>1
  <2> QED BY <1>1, <2>2 DEF IsInjective, ToSet
<1>5. ASSUME NEW x \in ToSet(q), x # q[i] PROVE x \in ToSet(p)
  <2>1. PICK j \in 1..n : q[j] = x /\ j # i
    BY <1>1, <1>5 DEF ToSet
  <2>2. CASE j < i
    <3>1. j \in 1..(n - 1) /\ p[j] = x
      BY <1>1, <1>2, <2>1, <2>2
    <3> QED BY <1>2, <3>1 DEF ToSet
  <2>3. CASE j > i
    <3>1. j - 1 \in 1..(n - 1) /\ p[j - 1] = x
      BY <1>1, <1>2, <2>1, <2>3
    <3> QED BY <1>2, <3>1 DEF ToSet
  <2> QED BY <1>1, <2>1, <2>2, <2>3
<1> QED BY <1>2, <1>3, <1>4, <1>5 DEF p

-----------------------------------------------------------------------------
(* The server's maps: a transport and a producer stand in their owner's,    *)
(* what is open is there or is accounted for, and what a peer in the room   *)
(* is listed with is open.                                                  *)
MapsOwned ==
  /\ \A s \in Peers : \A t \in transports[s] : t.of = s
  /\ \A t \in openT : t \in transports[t.of] \cup released \cup late
  /\ \A s \in Peers : IsInjective(producers[s])
  /\ \A s \in Peers : \A p \in Produced(s) :
       p.of = s /\ ppc[p] \in {"observing", "done"} /\ (s \in present => p \in openP)

(* mediasoup's objects: what is open is on an open transport.               *)
OnTransports ==
  /\ \A p \in openP : SendOf(p) \in openT /\ ppc[p] \in {"observing", "done"}
  /\ \A c \in openC : RecvOf(c) \in openT

(* Only audio consumers wait for a priority, only microphones for a pause.  *)
OnlyAudioWaits ==
  /\ \A c \in Consumers : cpc[c] = "prioritising" => c.p.kind \in Audio
  /\ \A p \in Producers : queue[p] # <<>> => p.kind = "mic"

(* A client whose set-up never failed made its objects in that set-up.      *)
FirstSetups == \A p \in Producers : ppc[p] # "none" /\ gen[p.of] = 1 => p.gen = 1

(* A list and the announcements together reach every client that listed.    *)
ListedKnow ==
  \A s \in present \cap listed : \A o \in present \ {s} :
    \A p \in Produced(o) : ppc[p] = "done" => p \in known[s]

(* MuteEnforced for the one microphone there is, open or not.               *)
MutedHeld ==
  \A p \in Producers :
    p.kind = "mic" /\ p.gen = 1 /\ gen[p.of] = 1 /\ p.of \in muted
      => ppc[p] \in {"observing", "done"} /\ p \in paused

MediaIInv ==
  /\ MediaTypeOK /\ MapsOwned /\ OnTransports /\ OnlyAudioWaits /\ FirstSetups
  /\ ListedKnow /\ VideoClosuresTold /\ LeftoversExplained /\ MutedHeld

-----------------------------------------------------------------------------
(* MediaNext by the variables its actions may change.                            *)
TransportStep == \E t \in Transports : CreateTransport(t) \/ TransportCreated(t) \/ ReleaseTransport(t)
ConsumerStep  == \E c \in Consumers : \/ Consume(c) \/ ConsumerCreated(c) \/ ConsumeFailed(c)
                                      \/ Prioritised(c) \/ ConsumerClosed(c)
MuteStep ==
  \/ \E p \in Producers : Carried(p) \/ \E what \in {"pause", "resume"} : SetMic(p, what)
  \/ \E s \in Peers : HostMute(s) \/ PauseMic(s)
ProducerStep ==
  \E p \in Producers : Produce(p) \/ ProducerCreated(p) \/ Announce(p) \/ CloseProducer(p)

LEMMA MediaNextCases ==
  ASSUME [MediaNext]_mediaVars
  PROVE  \/ TransportStep \/ ProducerStep \/ ConsumerStep \/ MuteStep
         \/ \E s \in Peers : GetProducers(s) \/ NewSetup(s) \/ PeerDisconnects(s)
         \/ UNCHANGED mediaVars
BY DEF MediaNext, TransportStep, ProducerStep, ConsumerStep, MuteStep

LEMMA Owners ==
  /\ \A t \in Transports : t.of \in Peers
  /\ \A p \in Producers : p.of \in Peers /\ SendOf(p) \in Transports
  /\ \A c \in Consumers : c.of \in Peers /\ c.p \in Producers /\ RecvOf(c) \in Transports
BY DEF Transports, Producers, Consumers, SendOf, RecvOf

(* What sfu-produce and sfu-close-producer do to the maps of producers.     *)
LEMMA ProducerTracked ==
  ASSUME MediaTypeOK, MapsOwned, NEW p \in Producers, p \notin Produced(p.of),
         producers' = [producers EXCEPT ![p.of] = Append(@, p)]
  PROVE  /\ producers' \in [Peers -> Seq(Producers)]
         /\ \A s \in Peers : IsInjective(producers'[s])
         /\ Produced(p.of)' = Produced(p.of) \cup {p}
         /\ \A s \in Peers \ {p.of} : Produced(s)' = Produced(s)
<1> DEFINE q == producers[p.of]
<1>1. q \in Seq(Producers) /\ IsInjective(q) /\ p \notin ToSet(q) /\ p.of \in Peers
  BY Owners DEF MediaTypeOK, ProducersTyped, MapsOwned, Produced
<1>2. producers' = [producers EXCEPT ![p.of] = Append(q, p)]
  OBVIOUS
<1> HIDE DEF q
<1>3. /\ Append(q, p) \in Seq(Producers) /\ IsInjective(Append(q, p))
      /\ ToSet(Append(q, p)) = ToSet(q) \cup {p}
  BY <1>1, AppendEntries
<1> QED BY <1>1, <1>2, <1>3 DEF MediaTypeOK, ProducersTyped, MapsOwned, Produced, q

LEMMA ProducedType ==
  ASSUME MediaTypeOK
  PROVE  \A s \in Peers : Produced(s) \subseteq Producers
BY DEF MediaTypeOK, ProducersTyped, Produced, ToSet

LEMMA ProducerForgotten ==
  ASSUME MediaTypeOK, MapsOwned, NEW p \in Producers, ForgetProducer(p)
  PROVE  /\ producers' \in [Peers -> Seq(Producers)]
         /\ \A s \in Peers : IsInjective(producers'[s])
         /\ Produced(p.of)' = Produced(p.of) \ {p}
         /\ \A s \in Peers \ {p.of} : Produced(s)' = Produced(s)
<1> DEFINE q == producers[p.of]
<1>1. q \in Seq(Producers) /\ IsInjective(q) /\ p.of \in Peers
  BY Owners DEF MediaTypeOK, ProducersTyped, MapsOwned
<1>2. PICK i \in DOMAIN q : q[i] = p /\ producers' = [producers EXCEPT ![p.of] = RemoveAt(q, i)]
  BY DEF ForgetProducer
<1> HIDE DEF q
<1>3. /\ RemoveAt(q, i) \in Seq(Producers) /\ IsInjective(RemoveAt(q, i))
      /\ ToSet(RemoveAt(q, i)) = ToSet(q) \ {p}
  BY <1>1, <1>2, RemoveAtEntries
<1> QED BY <1>1, <1>2, <1>3 DEF MediaTypeOK, ProducersTyped, MapsOwned, Produced, q

LEMMA MediaTypeStep ==
  ASSUME MediaTypeOK, MapsOwned, [MediaNext]_mediaVars
  PROVE  MediaTypeOK'
<1> USE Owners DEF MediaTypeOK
<1>1. CASE TransportStep
  <2>1. PICK t \in Transports : CreateTransport(t) \/ TransportCreated(t) \/ ReleaseTransport(t)
    BY <1>1 DEF TransportStep
  <2>2. TransportsTyped'
    BY <2>1 DEF CreateTransport, TransportCreated, ReleaseTransport, TransportsTyped
  <2>3. UNCHANGED <<present, client, mapP, mapC, mute>>
    BY <2>1 DEF CreateTransport, TransportCreated, ReleaseTransport
  <2> QED BY <2>2, <2>3 DEF ClientsTyped, ProducersTyped, ConsumersTyped, MutesTyped, client, mapP, mapC, mute
<1>2. CASE ConsumerStep
  <2>1. PICK c \in Consumers : \/ Consume(c) \/ ConsumerCreated(c) \/ ConsumeFailed(c)
                               \/ Prioritised(c) \/ ConsumerClosed(c)
    BY <1>2 DEF ConsumerStep
  <2>2. ConsumersTyped'
    BY <2>1 DEF Consume, ConsumerCreated, ConsumeFailed, Prioritised, ConsumerClosed, ProducerGone, ConsumersTyped
  <2>3. UNCHANGED <<present, client, mapT, mapP, mute>>
    BY <2>1 DEF Consume, ConsumerCreated, ConsumeFailed, Prioritised, ConsumerClosed
  <2> QED BY <2>2, <2>3 DEF ClientsTyped, ProducersTyped, TransportsTyped, MutesTyped, client, mapT, mapP, mute
<1>3. CASE UNCHANGED mediaVars
  BY <1>3 DEF ClientsTyped, ProducersTyped, TransportsTyped, ConsumersTyped, MutesTyped, mediaVars,
              client, mapT, mapP, mapC, mute
<1>4. CASE ProducerStep
  <2>1. PICK p \in Producers : Produce(p) \/ ProducerCreated(p) \/ Announce(p) \/ CloseProducer(p)
    BY <1>4 DEF ProducerStep
  <2>2. ProducersTyped'
    <3>1. CASE Produce(p) \/ Announce(p)
      BY <3>1 DEF Produce, Announce, ProducersTyped
    <3>2. CASE ProducerCreated(p)
      <4>1. producers' \in [Peers -> Seq(Producers)]
        <5>1. p \notin Produced(p.of)
          BY <3>2 DEF ProducerCreated, MapsOwned
        <5> QED BY <3>2, <5>1, ProducerTracked DEF ProducerCreated, ProducersTyped
      <4> QED BY <3>2, <4>1 DEF ProducerCreated, ProducersTyped
    <3>3. CASE CloseProducer(p)
      BY <3>3, ProducerForgotten DEF CloseProducer, ProducersTyped
    <3> QED BY <2>1, <3>1, <3>2, <3>3
  <2>3. ClientsTyped'
    BY <2>1 DEF Produce, ProducerCreated, Announce, CloseProducer, ToldOf, ClientsTyped, client
  <2>4. UNCHANGED <<mapT, mapC, mute>>
    BY <2>1 DEF Produce, ProducerCreated, Announce, CloseProducer
  <2> QED BY <2>2, <2>3, <2>4 DEF TransportsTyped, ConsumersTyped, MutesTyped, mapT, mapC, mute
<1>5. CASE MuteStep
  <2>1. MutesTyped'
    <3>1. ASSUME NEW p \in Producers, NEW what \in {"pause", "resume", "mute"}, Ask(p, what)
          PROVE  queue' \in [Producers -> Seq({"pause", "resume", "mute"})]
      BY <3>1 DEF Ask, MutesTyped
    <3>2. ASSUME NEW p \in Producers, NEW what \in {"pause", "resume"}, SetMic(p, what)
          PROVE  MutesTyped'
      BY <3>1, <3>2 DEF SetMic, MutesTyped
    <3>3. ASSUME NEW p \in Producers, Carried(p)
          PROVE  MutesTyped'
      BY <3>3 DEF Carried, MutesTyped
    <3>4. ASSUME NEW s \in Peers, HostMute(s) \/ PauseMic(s)
          PROVE  MutesTyped'
      <4>1. MicProducer(s) \subseteq Producers
        BY DEF MicProducer, FirstOf, ProducersTyped
      <4> QED BY <3>1, <3>4, <4>1 DEF HostMute, PauseMic, MutesTyped
    <3> QED BY <1>5, <3>2, <3>3, <3>4 DEF MuteStep
  <2>2. UNCHANGED <<present, client, mapT, mapP, mapC>>
    BY <1>5 DEF MuteStep, SetMic, Carried, HostMute, PauseMic
  <2> QED BY <2>1, <2>2 DEF ClientsTyped, ProducersTyped, TransportsTyped, ConsumersTyped, client, mapT, mapP, mapC
<1>6. ASSUME NEW s \in Peers, GetProducers(s) \/ NewSetup(s)
      PROVE  MediaTypeOK'
  <2>1. ListOtherProducers(s) \subseteq Producers
    BY DEF ListOtherProducers, Produced, ToSet, ProducersTyped, ClientsTyped
  <2>2. ClientsTyped'
    BY <1>6, <2>1 DEF GetProducers, NewSetup, ClientsTyped
  <2>3. MutesTyped'
    BY <1>6 DEF GetProducers, NewSetup, MutesTyped, mute
  <2>4. UNCHANGED <<mapT, mapP, mapC>>
    BY <1>6 DEF GetProducers, NewSetup
  <2> QED BY <2>2, <2>3, <2>4 DEF ProducersTyped, TransportsTyped, ConsumersTyped, mapT, mapP, mapC
<1>7. ASSUME NEW s \in Peers, PeerDisconnects(s)
      PROVE  MediaTypeOK'
  <2>1. ClientsTyped' /\ TransportsTyped'
    BY <1>7 DEF PeerDisconnects, ClientsTyped, TransportsTyped
  <2>2. ProducersTyped' /\ ConsumersTyped'
    BY <1>7 DEF PeerDisconnects, ProducersTyped, ConsumersTyped
  <2> QED BY <1>7, <2>1, <2>2 DEF PeerDisconnects, MutesTyped, mute
<1> QED BY <1>1, <1>2, <1>3, <1>4, <1>5, <1>6, <1>7, MediaNextCases

-----------------------------------------------------------------------------
LEMMA MediaInvInit == MediaInit => MediaIInv
<1> SUFFICES ASSUME MediaInit PROVE MediaIInv
  OBVIOUS
<1>1. MediaTypeOK
  BY DEF MediaInit, MediaTypeOK, ClientsTyped, TransportsTyped, ProducersTyped, ConsumersTyped, MutesTyped
<1>2. \A s \in Peers : IsInjective(producers[s]) /\ Produced(s) = {}
  BY DEF MediaInit, IsInjective, Produced, ToSet
<1>3. MapsOwned /\ ListedKnow
  BY <1>2 DEF MediaInit, MapsOwned, ListedKnow
<1> QED BY <1>1, <1>3, Owners DEF MediaInit, MediaIInv, OnTransports, OnlyAudioWaits, FirstSetups,
        VideoClosuresTold, LeftoversExplained, MutedHeld

LEMMA InvTransport ==
  ASSUME MediaIInv, TransportStep
  PROVE  /\ MapsOwned' /\ OnTransports' /\ OnlyAudioWaits' /\ FirstSetups' /\ ListedKnow'
         /\ VideoClosuresTold' /\ LeftoversExplained' /\ MutedHeld'
<1> USE Owners DEF MediaIInv, MediaTypeOK
<1>1. PICK t \in Transports : CreateTransport(t) \/ TransportCreated(t) \/ ReleaseTransport(t)
  BY DEF TransportStep
<1>2. UNCHANGED <<present, gen, listed, known, ppc, openP, producers, cpc, openC, consumers, told,
                  paused, queue, muting, muted>>
  BY <1>1 DEF CreateTransport, TransportCreated, ReleaseTransport, client, mapP, mapC, mute
<1>3. /\ openT \subseteq openT'
      /\ \A s \in Peers : \A u \in transports'[s] : u.of = s
      /\ \A u \in openT' : u \in transports'[u.of] \cup released' \cup late'
      /\ \A u \in openT' : u.of \in present \/ u \in released' \cup late'
  BY <1>1 DEF CreateTransport, TransportCreated, ReleaseTransport, TransportsTyped, MapsOwned, LeftoversExplained
<1>4. \A s : Produced(s)' = Produced(s)
  BY <1>2 DEF Produced
<1>5. MapsOwned' /\ OnTransports' /\ LeftoversExplained'
  BY <1>2, <1>3, <1>4 DEF MapsOwned, OnTransports, LeftoversExplained
<1>6. ListedKnow' /\ VideoClosuresTold'
  BY <1>2, <1>4 DEF ListedKnow, VideoClosuresTold
<1>7. OnlyAudioWaits' /\ FirstSetups' /\ MutedHeld'
  BY <1>2 DEF OnlyAudioWaits, FirstSetups, MutedHeld
<1> QED BY <1>5, <1>6, <1>7

LEMMA InvConsumer ==
  ASSUME MediaIInv, ConsumerStep
  PROVE  /\ MapsOwned' /\ OnTransports' /\ OnlyAudioWaits' /\ FirstSetups' /\ ListedKnow'
         /\ VideoClosuresTold' /\ LeftoversExplained' /\ MutedHeld'
<1> USE Owners DEF MediaIInv, MediaTypeOK
<1>1. PICK c \in Consumers : \/ Consume(c) \/ ConsumerCreated(c) \/ ConsumeFailed(c)
                             \/ Prioritised(c) \/ ConsumerClosed(c)
  BY DEF ConsumerStep
<1>2. UNCHANGED <<present, gen, listed, known, tpc, openT, transports, released, late, ppc, openP, producers,
                  paused, queue, muting, muted>>
  BY <1>1 DEF Consume, ConsumerCreated, ConsumeFailed, Prioritised, ConsumerClosed, client, mapT, mapP, mute
<1>3. \A s : Produced(s)' = Produced(s)
  BY <1>2 DEF Produced
<1>4. /\ \A e \in openC' : RecvOf(e) \in openT
      /\ \A e \in Consumers : cpc'[e] = "prioritising" => e.p.kind \in Audio
  BY <1>1 DEF Consume, ConsumerCreated, ConsumeFailed, Prioritised, ConsumerClosed, ConsumersTyped,
              OnTransports, OnlyAudioWaits
<1>5. VideoClosuresTold'
  <2>1. CASE Consume(c) \/ ConsumerCreated(c) \/ ConsumeFailed(c)
    BY <1>2, <2>1 DEF Consume, ConsumerCreated, ConsumeFailed, ConsumersTyped, VideoClosuresTold
  <2>2. CASE Prioritised(c)
    BY <1>2, <2>2 DEF Prioritised, ConsumersTyped, VideoClosuresTold, OnlyAudioWaits
  <2>3. CASE ConsumerClosed(c)
    BY <1>2, <2>3 DEF ConsumerClosed, ProducerGone, Listening, ConsumersTyped, VideoClosuresTold
  <2> QED BY <1>1, <2>1, <2>2, <2>3
<1>6. MapsOwned' /\ OnTransports' /\ LeftoversExplained' /\ ListedKnow'
  BY <1>2, <1>3, <1>4 DEF MapsOwned, OnTransports, LeftoversExplained, ListedKnow
<1>7. OnlyAudioWaits' /\ FirstSetups' /\ MutedHeld'
  BY <1>2, <1>4 DEF OnlyAudioWaits, FirstSetups, MutedHeld
<1> QED BY <1>5, <1>6, <1>7

LEMMA InvMute ==
  ASSUME MediaIInv, MuteStep
  PROVE  /\ MapsOwned' /\ OnTransports' /\ OnlyAudioWaits' /\ FirstSetups' /\ ListedKnow'
         /\ VideoClosuresTold' /\ LeftoversExplained' /\ MutedHeld'
<1> USE Owners DEF MediaIInv, MediaTypeOK
<1>1. UNCHANGED <<present, gen, listed, known, openT, transports, released, late, ppc, openP, producers,
                  cpc, openC, told>>
  BY DEF MuteStep, SetMic, Carried, HostMute, PauseMic, client, mapT, mapP, mapC
<1>2. \A s : Produced(s)' = Produced(s)
  BY <1>1 DEF Produced
<1>3. \A p \in Producers : queue'[p] # <<>> => p.kind = "mic"
  <2>1. ASSUME NEW p \in Producers, NEW what, Ask(p, what), p.kind = "mic"
        PROVE  \A o \in Producers : queue'[o] # <<>> => o.kind = "mic"
    BY <2>1 DEF Ask, MutesTyped, OnlyAudioWaits
  <2>2. ASSUME NEW p \in Producers, NEW what \in {"pause", "resume"}, SetMic(p, what)
        PROVE  \A o \in Producers : queue'[o] # <<>> => o.kind = "mic"
    BY <2>1, <2>2 DEF SetMic
  <2>3. ASSUME NEW p \in Producers, Carried(p)
        PROVE  \A o \in Producers : queue'[o] # <<>> => o.kind = "mic"
    BY <2>3 DEF Carried, MutesTyped, OnlyAudioWaits
  <2>4. ASSUME NEW s \in Peers, HostMute(s) \/ PauseMic(s)
        PROVE  \A o \in Producers : queue'[o] # <<>> => o.kind = "mic"
    <3>1. \A p \in MicProducer(s) : p \in Producers /\ p.kind = "mic"
      BY DEF MicProducer, FirstOf, ProducersTyped
    <3> QED BY <2>1, <2>4, <3>1 DEF HostMute, PauseMic, OnlyAudioWaits
  <2> QED BY <2>2, <2>3, <2>4 DEF MuteStep
<1>4. MutedHeld'
  <2>1. CASE UNCHANGED <<paused, muted>>
    BY <1>1, <2>1 DEF MutedHeld
  <2>2. ASSUME NEW p \in openP, p.kind = "mic",
               \/ paused' = paused \ {p} /\ muted' = muted \ {p.of}
               \/ paused' = paused \cup {p} /\ muted' \in {muted, muted \cup {p.of}}
        PROVE  MutedHeld'
    <3>1. p \in Producers /\ ppc[p] \in {"observing", "done"} /\ (gen[p.of] = 1 => p.gen = 1)
      BY <2>2 DEF OnTransports, FirstSetups, ProducersTyped
    <3>2. ASSUME NEW o \in Producers, o.kind = "mic", o.gen = 1, p.gen = 1, o.of = p.of
          PROVE  o = p
      BY <2>2, <3>1, <3>2 DEF Producers
    <3> QED BY <1>1, <2>2, <3>1, <3>2 DEF MutedHeld
  <2>3. ASSUME NEW p \in Producers, Carried(p)
        PROVE  MutedHeld'
    <3>1. p.kind = "mic"
      BY <2>3 DEF Carried, OnlyAudioWaits
    <3> QED BY <2>1, <2>2, <2>3, <3>1 DEF Carried
  <2> QED BY <2>1, <2>3 DEF MuteStep, SetMic, HostMute, PauseMic
<1>5. MapsOwned' /\ OnTransports' /\ LeftoversExplained' /\ ListedKnow'
  BY <1>1, <1>2 DEF MapsOwned, OnTransports, LeftoversExplained, ListedKnow
<1>6. OnlyAudioWaits' /\ FirstSetups' /\ VideoClosuresTold'
  BY <1>1, <1>3 DEF OnlyAudioWaits, FirstSetups, VideoClosuresTold
<1> QED BY <1>4, <1>5, <1>6

LEMMA InvProducer ==
  ASSUME MediaIInv, ProducerStep, MediaTypeOK'
  PROVE  /\ MapsOwned' /\ OnTransports' /\ OnlyAudioWaits' /\ FirstSetups' /\ ListedKnow'
         /\ VideoClosuresTold' /\ LeftoversExplained' /\ MutedHeld'
<1> USE Owners, ProducedType DEF MediaIInv
<1>1. PICK p \in Producers : Produce(p) \/ ProducerCreated(p) \/ Announce(p) \/ CloseProducer(p)
  BY DEF ProducerStep
<1>2. /\ UNCHANGED <<present, gen, listed, tpc, openT, transports, released, late, cpc, openC, consumers, told,
                      paused, queue, muting, muted>>
      /\ \A o \in Producers \ {p} : ppc'[o] = ppc[o]
  BY <1>1 DEF Produce, ProducerCreated, Announce, CloseProducer, client, mapT, mapC, mute, MediaTypeOK, ProducersTyped
<1>3. OnlyAudioWaits' /\ VideoClosuresTold' /\ LeftoversExplained'
  BY <1>2 DEF OnlyAudioWaits, VideoClosuresTold, LeftoversExplained
<1>4. CASE Produce(p)
  <2>1. ppc[p] = "none" /\ ppc'[p] # "none" /\ p.gen = gen[p.of] /\ UNCHANGED <<openP, producers, known>>
    BY <1>4 DEF Produce, Equipped, Current, client, MediaTypeOK, ProducersTyped
  <2>2. \A s : Produced(s)' = Produced(s)
    BY <2>1 DEF Produced
  <2>3. \A s \in Peers : p \notin Produced(s)
    BY <2>1 DEF MapsOwned
  <2>4. MapsOwned' /\ OnTransports'
    BY <1>2, <2>1, <2>2, <2>3 DEF MapsOwned, OnTransports, MediaTypeOK, ProducersTyped
  <2>5. ListedKnow'
    BY <1>2, <2>1, <2>2, <2>3 DEF ListedKnow, MediaTypeOK, ClientsTyped, ProducersTyped, Produced, ToSet
  <2> QED BY <1>2, <1>3, <2>1, <2>4, <2>5 DEF FirstSetups, MutedHeld
<1>5. CASE ProducerCreated(p) /\ SendOf(p) \in openT
  <2>1. /\ ppc[p] = "producing" /\ ppc'[p] \in {"observing", "done"}
        /\ openP' = openP \cup {p} /\ producers' = [producers EXCEPT ![p.of] = Append(@, p)]
        /\ \A s \in Peers : known[s] \subseteq known'[s]
        /\ ppc'[p] = "done" => \A s \in present \ {p.of} : p \in known'[s]
    <3>1. /\ ppc[p] = "producing"
          /\ openP' = openP \cup {p} /\ producers' = [producers EXCEPT ![p.of] = Append(@, p)]
          /\ \/ ppc' = [ppc EXCEPT ![p] = "observing"] /\ UNCHANGED known
             \/ ppc' = [ppc EXCEPT ![p] = "done"] /\ known' = ToldOf(p)
      BY <1>5 DEF ProducerCreated
    <3>2. ppc'[p] \in {"observing", "done"} /\ (ppc'[p] = "done" => known' = ToldOf(p))
      BY <3>1 DEF MediaTypeOK, ProducersTyped
    <3> QED BY <3>1, <3>2 DEF ToldOf, MediaTypeOK, ClientsTyped
  <2>2. /\ \A s \in Peers : IsInjective(producers'[s])
        /\ Produced(p.of)' = Produced(p.of) \cup {p}
        /\ \A s \in Peers \ {p.of} : Produced(s)' = Produced(s)
    <3>1. p \notin Produced(p.of)
      BY <2>1 DEF MapsOwned
    <3> QED BY <2>1, <3>1, ProducerTracked
  <2>3. MapsOwned'
    <3>1. ASSUME NEW s \in Peers, NEW x \in Produced(s)'
          PROVE  x.of = s /\ ppc'[x] \in {"observing", "done"} /\ (s \in present => x \in openP')
      BY <1>2, <2>1, <2>2, <3>1 DEF MapsOwned
    <3> QED BY <1>2, <2>2, <3>1 DEF MapsOwned
  <2>4. OnTransports'
    BY <1>2, <1>5, <2>1 DEF OnTransports, MediaTypeOK, ProducersTyped
  <2>5. ListedKnow'
    <3>1. SUFFICES ASSUME NEW s \in present \cap listed, NEW o \in present \ {s}, NEW x \in Produced(o)',
                          ppc'[x] = "done"
                   PROVE  x \in known'[s]
      BY <1>2 DEF ListedKnow
    <3>2. CASE x = p
      BY <1>2, <2>1, <2>3, <3>1, <3>2 DEF MapsOwned, MediaTypeOK, ClientsTyped
    <3>3. CASE x # p
      <4>1. x \in Produced(o) /\ x \in Producers
        <5>1. x \in Produced(o)
          BY <2>2, <3>1, <3>3 DEF MediaTypeOK, ClientsTyped
        <5> QED BY <3>1, <5>1 DEF MediaTypeOK, ClientsTyped
      <4> QED BY <1>2, <2>1, <3>1, <3>3, <4>1 DEF ListedKnow, MediaTypeOK, ClientsTyped
    <3> QED BY <3>2, <3>3
  <2> QED BY <1>2, <1>3, <2>1, <2>3, <2>4, <2>5 DEF FirstSetups, MutedHeld
<1>6. CASE ProducerCreated(p) /\ SendOf(p) \notin openT
  <2>1. ppc[p] = "producing" /\ ppc'[p] = "refused" /\ UNCHANGED <<openP, producers, known>>
    BY <1>6 DEF ProducerCreated, MediaTypeOK, ProducersTyped
  <2>2. \A s : Produced(s)' = Produced(s)
    BY <2>1 DEF Produced
  <2>3. \A s \in Peers : p \notin Produced(s)
    BY <2>1 DEF MapsOwned
  <2>4. MapsOwned' /\ OnTransports'
    BY <1>2, <2>1, <2>2, <2>3 DEF MapsOwned, OnTransports, MediaTypeOK, ProducersTyped
  <2>5. ListedKnow'
    BY <1>2, <2>1, <2>2, <2>3 DEF ListedKnow, MediaTypeOK, ClientsTyped, ProducersTyped, Produced, ToSet
  <2> QED BY <1>2, <1>3, <2>1, <2>4, <2>5 DEF FirstSetups, MutedHeld
<1>7. CASE Announce(p)
  <2>1. /\ ppc[p] = "observing" /\ ppc'[p] = "done" /\ UNCHANGED <<openP, producers>>
        /\ \A s \in Peers : known[s] \subseteq known'[s]
        /\ \A s \in present \ {p.of} : p \in known'[s]
    BY <1>7 DEF Announce, ToldOf, MediaTypeOK, ClientsTyped, ProducersTyped
  <2>2. \A s : Produced(s)' = Produced(s)
    BY <2>1 DEF Produced
  <2>3. MapsOwned' /\ OnTransports'
    BY <1>2, <2>1, <2>2 DEF MapsOwned, OnTransports, MediaTypeOK, ClientsTyped, ProducersTyped
  <2>4. ListedKnow'
    <3>1. SUFFICES ASSUME NEW s \in present \cap listed, NEW o \in present \ {s}, NEW x \in Produced(o),
                          ppc'[x] = "done"
                   PROVE  x \in known'[s]
      BY <1>2, <2>2 DEF ListedKnow
    <3>2. x \in Producers /\ x.of = o
      BY <3>1 DEF MapsOwned, MediaTypeOK, ClientsTyped, ProducersTyped, Produced, ToSet
    <3> QED BY <1>2, <2>1, <3>1, <3>2 DEF ListedKnow, MediaTypeOK, ClientsTyped
  <2> QED BY <1>2, <1>3, <2>1, <2>3, <2>4 DEF FirstSetups, MutedHeld
<1>8. CASE CloseProducer(p)
  <2>1. UNCHANGED <<known, ppc>> /\ openP' = openP \ {p} /\ p.of \in present
    BY <1>8 DEF CloseProducer, Current, client
  <2>2. /\ \A s \in Peers : IsInjective(producers'[s])
        /\ Produced(p.of)' = Produced(p.of) \ {p}
        /\ \A s \in Peers \ {p.of} : Produced(s)' = Produced(s)
    BY <1>8, ProducerForgotten DEF CloseProducer
  <2>3. MapsOwned' /\ OnTransports'
    <3>1. ASSUME NEW s \in Peers, NEW x \in Produced(s)'
          PROVE  x.of = s /\ ppc'[x] \in {"observing", "done"} /\ (s \in present => x \in openP')
      BY <1>2, <2>1, <2>2, <3>1 DEF MapsOwned
    <3> QED BY <1>2, <2>1, <2>2, <3>1 DEF MapsOwned, OnTransports
  <2>4. ListedKnow'
    <3>1. \A o \in Peers : Produced(o)' \subseteq Produced(o)
      BY <2>2
    <3> QED BY <1>2, <2>1, <3>1 DEF ListedKnow, MediaTypeOK, ClientsTyped
  <2> QED BY <1>2, <1>3, <2>1, <2>3, <2>4 DEF FirstSetups, MutedHeld
<1> QED BY <1>1, <1>4, <1>5, <1>6, <1>7, <1>8

LEMMA InvClient ==
  ASSUME MediaIInv, NEW s \in Peers, GetProducers(s) \/ NewSetup(s)
  PROVE  /\ MapsOwned' /\ OnTransports' /\ OnlyAudioWaits' /\ FirstSetups' /\ ListedKnow'
         /\ VideoClosuresTold' /\ LeftoversExplained' /\ MutedHeld'
<1> USE Owners DEF MediaIInv
<1>1. /\ UNCHANGED <<present, openT, transports, released, late, ppc, openP, producers,
                     cpc, openC, told, paused, queue>>
      /\ s \notin listed /\ \A o \in Peers \ {s} : known'[o] = known[o]
  BY DEF GetProducers, NewSetup, mapT, mapP, mapC, mute, MediaTypeOK, ClientsTyped
<1>2. \A o : Produced(o)' = Produced(o)
  BY <1>1 DEF Produced
<1>3. MapsOwned' /\ OnTransports' /\ OnlyAudioWaits' /\ VideoClosuresTold' /\ LeftoversExplained'
  BY <1>1, <1>2 DEF MapsOwned, OnTransports, OnlyAudioWaits, VideoClosuresTold, LeftoversExplained
<1>4. CASE GetProducers(s)
  <2>1. UNCHANGED <<gen, muted>> /\ listed' = listed \cup {s} /\ ListOtherProducers(s) \subseteq known'[s]
    BY <1>4 DEF GetProducers, mute, MediaTypeOK, ClientsTyped
  <2>2. ListedKnow'
    BY <1>1, <1>2, <2>1 DEF ListedKnow, ListOtherProducers, MediaTypeOK, ClientsTyped
  <2> QED BY <1>1, <1>3, <2>1, <2>2 DEF FirstSetups, MutedHeld
<1>5. CASE NewSetup(s)
  <2>1. /\ UNCHANGED listed /\ muted' = muted \ {s}
        /\ gen'[s] # 1 /\ \A o \in Peers \ {s} : gen'[o] = gen[o]
    BY <1>5 DEF NewSetup, MediaTypeOK, ClientsTyped
  <2>2. ListedKnow'
    BY <1>1, <1>2, <2>1 DEF ListedKnow, MediaTypeOK, ClientsTyped
  <2> QED BY <1>1, <1>3, <2>1, <2>2 DEF FirstSetups, MutedHeld
<1> QED BY <1>4, <1>5

LEMMA InvPeerDisconnects ==
  ASSUME MediaIInv, NEW s \in Peers, PeerDisconnects(s)
  PROVE  /\ MapsOwned' /\ OnTransports' /\ OnlyAudioWaits' /\ FirstSetups' /\ ListedKnow'
         /\ VideoClosuresTold' /\ LeftoversExplained' /\ MutedHeld'
<1> USE Owners DEF MediaIInv
<1>1. /\ UNCHANGED <<gen, listed, released, late, ppc, cpc, told, paused, queue, muted>>
      /\ present' = present \ {s}
      /\ openT' = {} \/ openT' = openT \ transports[s]
      /\ present' # {} => openT' = openT \ transports[s]
      /\ openP' = {p \in openP : SendOf(p) \in openT'}
      /\ openC' = {c \in openC : RecvOf(c) \in openT'}
      /\ transports' = [transports EXCEPT ![s] = {}]
      /\ producers' = [producers EXCEPT ![s] = <<>>]
      /\ \A o \in Peers : known'[o] = {p \in known[o] : p.of # s}
  BY DEF PeerDisconnects, RemovedTransports, mute
<1>2. /\ \A o \in Peers : IsInjective(producers'[o])
      /\ Produced(s)' = {}
      /\ \A o \in Peers \ {s} : Produced(o)' = Produced(o)
  BY <1>1 DEF Produced, ToSet, IsInjective, MapsOwned, MediaTypeOK, ProducersTyped
<1>3. \A t \in openT : t.of \in present' => t \in openT'
  BY <1>1 DEF MapsOwned, MediaTypeOK, TransportsTyped
<1>4. MapsOwned'
  <2>1. \A o \in Peers : \A t \in transports'[o] : t.of = o
    BY <1>1 DEF MapsOwned, MediaTypeOK, TransportsTyped
  <2>2. ASSUME NEW o \in Peers \ {s}, NEW p \in Produced(o)
        PROVE  p.of = o /\ ppc[p] \in {"observing", "done"} /\ (o \in present' => p \in openP')
    <3>1. p.of = o /\ ppc[p] \in {"observing", "done"} /\ (o \in present => p \in openP)
      BY <2>2 DEF MapsOwned
    <3>2. p \in openP => SendOf(p) \in openT /\ SendOf(p).of = p.of
      BY DEF OnTransports, SendOf
    <3> QED BY <1>1, <1>3, <3>1, <3>2
  <2>3. \A t \in openT' : t \in transports'[t.of] \cup released \cup late
    BY <1>1 DEF MapsOwned, MediaTypeOK, TransportsTyped
  <2> QED BY <1>1, <1>2, <2>1, <2>2, <2>3 DEF MapsOwned
<1>5. OnTransports'
  BY <1>1 DEF OnTransports
<1>6. ListedKnow'
  BY <1>1, <1>2 DEF ListedKnow, MapsOwned, MediaTypeOK, ClientsTyped
<1>7. VideoClosuresTold'
  <2>1. ASSUME NEW c \in openC, c.of \in present' PROVE c \in openC'
    BY <1>1, <1>3, <2>1 DEF OnTransports, RecvOf
  <2> QED BY <1>1, <2>1 DEF VideoClosuresTold
<1>8. LeftoversExplained'
  BY <1>1 DEF LeftoversExplained, MapsOwned, MediaTypeOK, TransportsTyped
<1> QED BY <1>1, <1>4, <1>5, <1>6, <1>7, <1>8 DEF OnlyAudioWaits, FirstSetups, MutedHeld

-----------------------------------------------------------------------------
LEMMA InvStep ==
  ASSUME MediaIInv, [MediaNext]_mediaVars
  PROVE  MediaIInv'
<1>1. MediaTypeOK'
  BY MediaTypeStep DEF MediaIInv
<1>2. CASE TransportStep
  BY <1>1, <1>2, InvTransport DEF MediaIInv
<1>3. CASE ProducerStep
  BY <1>1, <1>3, InvProducer DEF MediaIInv
<1>4. CASE ConsumerStep
  BY <1>1, <1>4, InvConsumer DEF MediaIInv
<1>5. CASE MuteStep
  BY <1>1, <1>5, InvMute DEF MediaIInv
<1>6. ASSUME NEW s \in Peers, GetProducers(s) \/ NewSetup(s)
      PROVE  MediaIInv'
  BY <1>1, <1>6, InvClient DEF MediaIInv
<1>7. ASSUME NEW s \in Peers, PeerDisconnects(s)
      PROVE  MediaIInv'
  BY <1>1, <1>7, InvPeerDisconnects DEF MediaIInv
<1>8. CASE UNCHANGED mediaVars
  <2>1. \A s : Produced(s)' = Produced(s)
    BY <1>8 DEF Produced, mediaVars, mapP
  <2> QED BY <1>1, <1>8, <2>1 DEF MediaIInv, MapsOwned, OnTransports, OnlyAudioWaits, FirstSetups, ListedKnow,
          VideoClosuresTold, LeftoversExplained, MutedHeld, mediaVars, client, mapT, mapP, mapC, mute
<1> QED BY <1>2, <1>3, <1>4, <1>5, <1>6, <1>7, <1>8, MediaNextCases

(* Every variable keeps its type, and the maps, mediasoup's objects, the    *)
(* waiting requests and the lists agree as the parts of MediaIInv say            *)
(* (sfu-handlers.ts:92-574, sfu-rooms.ts:16-114).                           *)
THEOREM MediaInvAlways == MediaSpec => []MediaIInv
BY MediaInvInit, InvStep, PTL DEF MediaSpec

(* What a list of producers offers is open and its owner's, and a client    *)
(* that listed knows every announced producer of everyone else, whatever    *)
(* awaits its list and the announcements of others crossed                  *)
(* (sfu-handlers.ts:213-234, 322-326, sfu-rooms.ts:78-103).                 *)
THEOREM OffersAreTrueAlways == MediaSpec => []OffersAreTrue
<1>1. MediaIInv => OffersAreTrue
  BY ProducedType DEF MediaIInv, MapsOwned, ListedKnow, OffersAreTrue, ListOtherProducers, MediaTypeOK, ClientsTyped
<1> QED BY <1>1, MediaInvAlways, PTL

(* A client is told of every video consumer that its producer's end closed  *)
(* (sfu-handlers.ts:272-299).                                               *)
THEOREM VideoClosuresToldAlways == MediaSpec => []VideoClosuresTold
<1>1. MediaIInv => VideoClosuresTold
  BY DEF MediaIInv
<1> QED BY <1>1, MediaInvAlways, PTL

(* A transport of a peer that has gone is open only because it had been     *)
(* released without being closed, or was created after the disconnect       *)
(* (sfu-handlers.ts:108-151, sfu-rooms.ts:112-114).                         *)
THEOREM LeftoversExplainedAlways == MediaSpec => []LeftoversExplained
<1>1. MediaIInv => LeftoversExplained
  BY DEF MediaIInv
<1> QED BY <1>1, MediaInvAlways, PTL

(* The microphone of its owner's first set-up that a host muted is paused   *)
(* until its owner unmutes, in whatever order the requests waiting at it    *)
(* are carried out (sfu-handlers.ts:330-368, 449-478).  Nothing is said of  *)
(* a set-up that was repeated on the connection: there the first microphone *)
(* of the Map, which a host mutes, may be an abandoned one (:463), against  *)
(* what :438 says.                                                          *)
THEOREM MuteEnforcedAlways == MediaSpec => []MuteEnforced
<1>1. MediaIInv => MuteEnforced
  BY Owners DEF MediaIInv, OnTransports, FirstSetups, MutedHeld, MuteEnforced, MediaTypeOK, ProducersTyped
<1> QED BY <1>1, MediaInvAlways, PTL

-----------------------------------------------------------------------------
(* Lifecycle *)

(* The pool grows to its full size before the process serves, and stays    *)
(* whole until the drain empties it.                                       *)
PoolGrows ==
  /\ Len(pool) <= NumWorkers
  /\ \A i \in DOMAIN pool : pool[i] = i
  /\ boot \in {"ssm", "db"} => pool = <<>>
  /\ boot = "workers" => Len(pool) < NumWorkers
  /\ boot = "announce" => Len(pool) = NumWorkers
  /\ boot = "serving" => pool = <<>> \/ Len(pool) = NumWorkers
  /\ boot # "serving" => nextIdx = 0

(* A dead worker is remembered as long as there is a pool.                 *)
DeathsSeen == dead # {} => died \/ (pool = <<>> /\ boot = "serving")

(* Each drain step has done what the later ones build on.                  *)
DrainedSoFar ==
  /\ ShuttingDown => boot = "serving"
  /\ step >= 2 => clients = 0
  /\ step >= 3 => requests = 0
  /\ step >= 4 => pool = <<>>
  /\ exit = "0" => step = 5
  /\ clients > 0 \/ requests > 0 => boot = "serving"

(* The workers before nextIdx are one router ahead of the others; once the *)
(* pool is empty nothing is placed any more.                               *)
Placing ==
  \E n \in Nat :
    IF pool # <<>> THEN /\ nextIdx < NumWorkers
                        /\ \A w \in Workers : placed[w] = IF w <= nextIdx THEN n + 1 ELSE n
                   ELSE \A w \in Workers : placed[w] \in {n, n + 1}

(* Before anything is served nothing is placed.                            *)
NothingPlaced == boot # "serving" => placed = [w \in Workers |-> 0]

ProcessIInv == ProcessTypeOK /\ PoolGrows /\ DeathsSeen /\ DrainedSoFar /\ Placing /\ NothingPlaced

-----------------------------------------------------------------------------
(* The index of getWorker steps through the pool and back to its start.    *)
LEMMA IndexSteps ==
  ASSUME NEW n \in Nat \ {0}, NEW i \in Nat, i < n
  PROVE  (i + 1) % n = IF i + 1 = n THEN 0 ELSE i + 1
<1>1. CASE i + 1 = n
  BY <1>1
<1>2. CASE i + 1 # n
  <2>1. i + 1 \in 0 .. n - 1
    BY <1>2
  <2> QED
    BY <2>1, <1>2
<1> QED
  BY <1>1, <1>2

LEMMA ProcessInitially == Init => ProcessIInv
<1> SUFFICES ASSUME Init PROVE ProcessIInv
  OBVIOUS
<1> USE LifecycleConstants
<1>1. ProcessTypeOK
  <2>1. pool \in Seq(Workers) /\ placed \in [Workers -> Nat]
    BY DEF Init
  <2>2. announced \in [address : {"configured", "public"}, reachable : BOOLEAN]
    BY DEF Init
  <2>3. loaded \in BOOLEAN /\ db \in BOOLEAN /\ died \in BOOLEAN /\ force \in BOOLEAN
    BY Zenon DEF Init
  <2>4. step \in 0 .. 5 /\ nextIdx \in Nat /\ clients \in Nat /\ requests \in Nat
    BY DEF Init
  <2>5. /\ boot \in {"ssm", "db", "workers", "announce", "serving"}
        /\ exit \in {"running", "0", "1", "killed"} /\ dead \subseteq Workers
    BY DEF Init
  <2> QED
    BY <2>1, <2>2, <2>3, <2>4, <2>5, Zenon DEF ProcessTypeOK
<1>2. PoolGrows /\ DeathsSeen /\ DrainedSoFar /\ NothingPlaced
  BY DEF Init, PoolGrows, DeathsSeen, DrainedSoFar, NothingPlaced, ShuttingDown
<1>3. Placing
  <2>1. \A w \in Workers : placed[w] \in {0, 0 + 1}
    BY DEF Init
  <2> QED
    BY <2>1 DEF Init, Placing
<1> QED
  BY <1>1, <1>2, <1>3 DEF ProcessIInv

(* What a step that leaves the pool's part of the state alone has to show. *)
LEMMA PoolUntouched ==
  ASSUME ProcessIInv, UNCHANGED poolVars, ProcessTypeOK', DrainedSoFar',
         boot' = boot \/ (boot = "ssm" /\ boot' = "db")
           \/ (boot = "db" /\ boot' \in {"workers", "serving"}) \/ (boot = "announce" /\ boot' = "serving")
  PROVE  ProcessIInv'
<1> USE LifecycleConstants
<1>1. PoolGrows'
  <2> USE DEF PoolGrows, poolVars, ProcessIInv, ProcessTypeOK
  <2>1. CASE boot' = boot
    BY <2>1
  <2>2. CASE boot' # boot
    BY <2>2
  <2> QED
    BY <2>1, <2>2
<1>2. DeathsSeen'
  BY DEF DeathsSeen, poolVars, ProcessIInv
<1>3. Placing' /\ NothingPlaced'
  BY DEF Placing, NothingPlaced, poolVars, ProcessIInv, ProcessTypeOK
<1> QED
  BY <1>1, <1>2, <1>3 DEF ProcessIInv

-----------------------------------------------------------------------------
(* The steps that leave the pool alone: they move the boot, the traffic,   *)
(* the database and the drain.                                             *)
LEMMA OutsideThePool ==
  ASSUME ProcessIInv,
         \/ \E some, more \in BOOLEAN : LoadPage(some, more)
         \/ \E off \in BOOLEAN : ConnectDb(off)
         \/ \E answers \in BOOLEAN : ResolveAnnouncedIp(answers)
         \/ Traffic \/ DbDropsOrReturns \/ Fails \/ DrainComplete
  PROVE  ProcessIInv'
<1> USE DEF ProcessIInv, ProcessTypeOK, DrainedSoFar, ShuttingDown, Running, Serving, poolVars, netVars
<1>1. CASE \E some, more \in BOOLEAN : LoadPage(some, more)
  <2>1. ProcessTypeOK' /\ DrainedSoFar'
    BY <1>1 DEF LoadPage
  <2> QED
    BY <1>1, <2>1, PoolUntouched DEF LoadPage
<1>2. CASE \E off \in BOOLEAN : ConnectDb(off)
  <2>1. ProcessTypeOK' /\ DrainedSoFar'
    BY <1>2 DEF ConnectDb
  <2> QED
    BY <1>2, <2>1, PoolUntouched DEF ConnectDb
<1>3. CASE \E answers \in BOOLEAN : ResolveAnnouncedIp(answers)
  <2>1. announced' \in [address : {"configured", "public"}, reachable : BOOLEAN]
    BY <1>3 DEF ResolveAnnouncedIp
  <2>2. ProcessTypeOK' /\ DrainedSoFar'
    BY <1>3, <2>1 DEF ResolveAnnouncedIp
  <2> QED
    BY <1>3, <2>2, PoolUntouched DEF ResolveAnnouncedIp
<1>4. CASE Traffic
  <2>1. ProcessTypeOK' /\ DrainedSoFar'
    BY <1>4 DEF Traffic, Connects, Disconnects, Asks, Answered, Accepting
  <2> QED
    BY <1>4, <2>1, PoolUntouched DEF Traffic
<1>5. CASE DbDropsOrReturns
  <2>1. ProcessTypeOK' /\ DrainedSoFar'
    BY <1>5 DEF DbDropsOrReturns
  <2> QED
    BY <1>5, <2>1, PoolUntouched DEF DbDropsOrReturns
<1>6. CASE Fails
  <2>1. ProcessTypeOK' /\ DrainedSoFar'
    BY <1>6 DEF Fails
  <2> QED
    BY <1>6, <2>1, PoolUntouched DEF Fails
<1>7. CASE DrainComplete
  <2>1. ProcessTypeOK' /\ DrainedSoFar'
    BY <1>7 DEF DrainComplete
  <2> QED
    BY <1>7, <2>1, PoolUntouched DEF DrainComplete
<1> QED
  BY <1>1, <1>2, <1>3, <1>4, <1>5, <1>6, <1>7

(* createWorkers: nothing has been placed yet.                             *)
LEMMA CreatingWorkers == ASSUME ProcessIInv, CreateWorker PROVE ProcessIInv'
<1> USE LifecycleConstants DEF ProcessIInv, ProcessTypeOK, CreateWorker, netVars
<1>1. boot = "workers" /\ Len(pool) < NumWorkers /\ Len(pool) + 1 \in Workers
  BY DEF PoolGrows, Workers
<1>2. pool' \in Seq(Workers) /\ Len(pool') = Len(pool) + 1
  BY <1>1
<1>3. \A i \in DOMAIN pool' : pool'[i] = i
  BY <1>1, <1>2 DEF PoolGrows
<1>4. ProcessTypeOK'
  BY <1>2
<1>5. PoolGrows'
  BY <1>1, <1>2, <1>3 DEF PoolGrows
<1>6. DrainedSoFar' /\ NothingPlaced'
  BY <1>1, <1>5 DEF DrainedSoFar, ShuttingDown, NothingPlaced, PoolGrows, Running
<1>7. DeathsSeen'
  BY <1>1 DEF DeathsSeen, PoolGrows
<1>8. Placing'
  <2>1. pool' # <<>> /\ nextIdx' = 0 /\ \A w \in Workers : placed'[w] = 0
    BY <1>1, <1>2 DEF PoolGrows, NothingPlaced
  <2>2. \A w \in Workers : ~(w <= 0)
    BY DEF Workers
  <2> QED
    BY <2>1, <2>2 DEF Placing
<1> QED
  BY <1>4, <1>5, <1>6, <1>7, <1>8

(* getWorker: the worker at the index was one router behind.               *)
LEMMA PlacingARouter == ASSUME ProcessIInv, GetWorker PROVE ProcessIInv'
<1> USE LifecycleConstants DEF ProcessIInv, ProcessTypeOK, GetWorker, Serving, netVars
<1>1. Len(pool) = NumWorkers
  BY DEF PoolGrows
<1>2. PICK n \in Nat : /\ nextIdx < NumWorkers
                       /\ \A w \in Workers : placed[w] = IF w <= nextIdx THEN n + 1 ELSE n
  BY DEF Placing
<1>3. nextIdx + 1 \in Workers /\ pool[nextIdx + 1] = nextIdx + 1
  <2>1. nextIdx + 1 \in 1 .. NumWorkers
    BY <1>2
  <2>2. DOMAIN pool = 1 .. NumWorkers
    BY <1>1
  <2> QED
    BY <2>1, <2>2 DEF PoolGrows, Workers
<1>4. placed' = [placed EXCEPT ![nextIdx + 1] = @ + 1]
  BY <1>3
<1>5. nextIdx' = IF nextIdx + 1 = NumWorkers THEN 0 ELSE nextIdx + 1
  BY <1>1, <1>2, IndexSteps DEF NextIdx
<1>6. ProcessTypeOK'
  BY <1>3, <1>4, <1>5
<1>7. PoolGrows' /\ DeathsSeen' /\ DrainedSoFar' /\ NothingPlaced'
  BY DEF PoolGrows, DeathsSeen, DrainedSoFar, NothingPlaced, ShuttingDown
<1>8. \A w \in Workers : placed'[w] = IF w <= nextIdx + 1 THEN n + 1 ELSE n
  BY <1>2, <1>3, <1>4 DEF Workers
<1>9. Placing'
  <2>1. CASE nextIdx + 1 = NumWorkers
    <3>1. nextIdx' = 0 /\ \A w \in Workers : placed'[w] = n + 1 /\ ~(w <= 0)
      BY <1>5, <1>8, <2>1 DEF Workers
    <3> QED
      BY <3>1 DEF Placing
  <2>2. CASE nextIdx + 1 # NumWorkers
    <3>1. nextIdx' = nextIdx + 1 /\ nextIdx' < NumWorkers
      BY <1>2, <1>5, <2>2
    <3> QED
      BY <1>8, <3>1 DEF Placing
  <2> QED
    BY <2>1, <2>2
<1> QED
  BY <1>6, <1>7, <1>9

LEMMA LosingAWorker == ASSUME ProcessIInv, NEW w \in Workers, WorkerDies(w) PROVE ProcessIInv'
<1> USE DEF ProcessIInv, ProcessTypeOK, WorkerDies, netVars
<1>1. ProcessTypeOK' /\ DeathsSeen'
  BY DEF DeathsSeen
<1>2. PoolGrows' /\ DrainedSoFar' /\ Placing' /\ NothingPlaced'
  BY DEF PoolGrows, DrainedSoFar, ShuttingDown, Placing, NothingPlaced
<1> QED
  BY <1>1, <1>2

(* A drain step that is begun finds what the earlier ones took away gone;  *)
(* the fourth empties the pool.                                            *)
LEMMA BeginningAStep ==
  ASSUME ProcessIInv, NEW k \in 1 .. 5, k = step + 1, boot = "serving", step = 0 \/ Finished(step), Begin(k),
         UNCHANGED <<boot, loaded, exit, dead, placed, announced, requests>>, force' \in BOOLEAN, Running
  PROVE  ProcessIInv'
<1> USE DEF ProcessIInv, Begin
<1>1. ProcessTypeOK'
  <2>1. pool' \in Seq(Workers) /\ nextIdx' \in Nat /\ died' \in BOOLEAN
    <3>1. CASE k = 4
      <4>1. pool' = <<>> /\ nextIdx' = 0 /\ died' = FALSE
        BY <3>1
      <4>2. pool' \in Seq(Workers) /\ nextIdx' \in Nat
        BY <4>1
      <4>3. died' \in BOOLEAN
        BY <4>1, Zenon
      <4> QED
        BY <4>2, <4>3
    <3>2. CASE k # 4
      BY <3>2 DEF ProcessTypeOK
    <3> QED
      BY <3>1, <3>2
  <2>2. db' \in BOOLEAN /\ clients' \in Nat /\ step' \in 0 .. 5
    <3>1. db' \in {FALSE, db}
      BY Zenon
    <3>2. db \in BOOLEAN
      BY Zenon DEF ProcessTypeOK
    <3>3. db' \in BOOLEAN
      BY <3>1, <3>2, Zenon
    <3>4. clients' \in Nat /\ step' \in 0 .. 5
      BY DEF ProcessTypeOK
    <3> QED
      BY <3>3, <3>4
  <2> QED
    BY <2>1, <2>2 DEF ProcessTypeOK
<1>2. DrainedSoFar'
  <2>1. step' = k /\ (k >= 2 => clients' = 0)
    BY DEF ProcessTypeOK, DrainedSoFar
  <2>2. k >= 3 => requests' = 0
    BY DEF ProcessTypeOK, DrainedSoFar, Finished
  <2>3. k >= 4 => pool' = <<>>
    BY DEF ProcessTypeOK, DrainedSoFar
  <2>4. boot' = "serving" /\ exit' # "0"
    BY DEF Running
  <2> QED
    BY <2>1, <2>2, <2>3, <2>4 DEF DrainedSoFar
<1>3. CASE k = 4
  <2>1. PoolGrows' /\ DeathsSeen' /\ NothingPlaced'
    BY <1>3, LifecycleConstants DEF PoolGrows, DeathsSeen, NothingPlaced
  <2>2. Placing'
    <3>1. PICK n \in Nat : \A w \in Workers : placed[w] \in {n, n + 1}
      BY DEF Placing
    <3> QED
      BY <1>3, <3>1 DEF Placing
  <2> QED
    BY <1>1, <1>2, <2>1, <2>2
<1>4. CASE k # 4
  BY <1>1, <1>2, <1>4, PoolUntouched DEF poolVars
<1> QED
  BY <1>3, <1>4

(* Every step keeps the invariant.                                         *)
LEMMA ProcessStep == ProcessIInv /\ [Next]_vars => ProcessIInv'
<1> SUFFICES ASSUME ProcessIInv, [Next]_vars PROVE ProcessIInv'
  OBVIOUS
<1>1. CASE \/ \E some, more \in BOOLEAN : LoadPage(some, more)
           \/ \E off \in BOOLEAN : ConnectDb(off)
           \/ \E answers \in BOOLEAN : ResolveAnnouncedIp(answers)
           \/ Traffic \/ DbDropsOrReturns \/ DrainComplete
  BY <1>1, OutsideThePool
<1>2. CASE StartFails \/ DiedTimer \/ HandleFatal \/ ForceExit
  <2>1. Fails
    BY <1>2 DEF StartFails, DiedTimer, HandleFatal, ForceExit
  <2> QED
    BY <2>1, OutsideThePool
<1>3. CASE CreateWorker
  BY <1>3, CreatingWorkers
<1>4. CASE GetWorker
  BY <1>4, PlacingARouter
<1>5. CASE \E w \in Workers : WorkerDies(w)
  BY <1>5, LosingAWorker
<1>6. CASE Shutdown
  <2>1. CASE Running /\ boot # "serving" /\ exit' = "killed"
             /\ UNCHANGED <<boot, loaded, db, announced, step, force>> /\ UNCHANGED poolVars /\ UNCHANGED netVars
    <3>1. ProcessTypeOK' /\ DrainedSoFar'
      BY <2>1 DEF ProcessIInv, ProcessTypeOK, DrainedSoFar, ShuttingDown, Running, poolVars, netVars
    <3> QED
      BY <2>1, <3>1, PoolUntouched
  <2>2. CASE Serving /\ ~ShuttingDown /\ Begin(1) /\ force' = TRUE
             /\ UNCHANGED <<boot, loaded, exit, dead, placed, announced, requests>>
    <3>1. step = 0 /\ 1 \in 1 .. 5
      BY <2>2 DEF ProcessIInv, ProcessTypeOK, ShuttingDown
    <3> QED
      BY <2>2, <3>1, BeginningAStep DEF Serving
  <2> QED
    BY <1>6, <2>1, <2>2 DEF Shutdown
<1>7. CASE RunStep
  <2>1. boot = "serving" /\ step + 1 \in 1 .. 5 /\ force' \in BOOLEAN
    BY <1>7 DEF ProcessIInv, ProcessTypeOK, DrainedSoFar, ShuttingDown, RunStep
  <2> QED
    BY <1>7, <2>1, BeginningAStep DEF RunStep
<1>8. CASE UNCHANGED vars
  <2>1. ProcessTypeOK' /\ DrainedSoFar'
    BY <1>8 DEF ProcessIInv, ProcessTypeOK, DrainedSoFar, ShuttingDown, vars
  <2> QED
    BY <1>8, <2>1, PoolUntouched DEF vars, poolVars
<1> QED
  BY <1>1, <1>2, <1>3, <1>4, <1>5, <1>6, <1>7, <1>8 DEF Next

LEMMA ProcessInvAlways == Spec => []ProcessIInv
<1> QED
  BY ProcessInitially, ProcessStep, PTL DEF Spec

-----------------------------------------------------------------------------
(* The process's state keeps its types, whatever the number of workers     *)
(* (server.ts, workers.ts, lifecycle.ts).                                  *)
THEOREM LifecycleTypes == Spec => []ProcessTypeOK
<1>1. ProcessIInv => ProcessTypeOK
  BY DEF ProcessIInv
<1> QED
  BY <1>1, ProcessInvAlways, PTL

(* For any number of workers: the readiness probe never says ready on a    *)
(* pool that is incomplete or has lost a worker, and no worker carries two *)
(* routers more than another (app.ts:79, workers.ts:45-67).                *)
THEOREM ThePoolIsSound == Spec => []PoolSound
<1>1. ProcessIInv => PoolSound
  <2> SUFFICES ASSUME ProcessIInv PROVE PoolSound
    OBVIOUS
  <2> USE DEF ProcessIInv
  <2>1. ReadyIsWhole
    BY DEF ReadyIsWhole, Ready, Serving, AreWorkersAlive, PoolGrows, DeathsSeen
  <2>2. RoomsSpread
    <3>1. PICK n \in Nat : \A w \in Workers : placed[w] \in {n, n + 1}
      BY DEF Placing
    <3> QED
      BY <3>1 DEF RoomsSpread
  <2> QED
    BY <2>1, <2>2 DEF PoolSound
<1> QED
  BY <1>1, ProcessInvAlways, PTL

(* For any number of workers, and any bounds on the sockets and requests:  *)
(* a drain takes the sockets before the workers and the requests before    *)
(* the database, and ends with 0 only when no socket, request or worker is *)
(* left (lifecycle.ts:73-83).                                              *)
THEOREM TheDrainIsOrderly == Spec => []OrderlyDrain
<1>1. ProcessIInv => OrderlyDrain
  BY DEF ProcessIInv, ProcessTypeOK, DrainedSoFar, OrderlyDrain, ShuttingDown
<1> QED
  BY <1>1, ProcessInvAlways, PTL
=============================================================================
