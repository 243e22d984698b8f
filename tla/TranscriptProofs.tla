-------------------------- MODULE TranscriptProofs --------------------------
(***************************************************************************)
(* The properties of Transcript for any number of pages, connections,      *)
(* provider sessions and entries.  What a page will know is decided by the *)
(* latest notice on its way to it, and what the server will think of its   *)
(* contribution by the latest start or stop on its way there: the          *)
(* invariants speak of the channels as well as of their ends.              *)
(***************************************************************************)
EXTENDS Transcript, TLAPS

-----------------------------------------------------------------------------
(* types *)

Stages   == {"none", "connecting", "opening", "open", "flushing", "closed"}
Entries  == [id : Nat, era : Nat, refined : BOOLEAN]
Requests == [type : {"join", "start", "stop"}]
StateNotices    == [type : {"state"}, active : BOOLEAN]
SegmentNotices  == [type : {"segment"}, entry : Entries]
SnapshotNotices == [type : {"snapshot"}, active : BOOLEAN, list : SUBSET Entries]
Notices == StateNotices \cup SegmentNotices \cup SnapshotNotices

Kept == {entries[i] : i \in DOMAIN entries}

StoreTyped ==
  /\ active \in BOOLEAN /\ entries \in Seq(Entries) /\ refining \subseteq Entries
  /\ era \in Nat /\ turns \in 0..MaxTurns /\ nextSequence \in 1..(turns + 1)
RoomTyped ==
  /\ joined \subseteq live /\ live \subseteq opened /\ opened \subseteq Sockets
SessionsTyped ==
  /\ sessions \in [Sockets -> Sessions \cup {NoSession}]
  /\ stage \in [Sessions -> Stages]
  /\ owner \in [Sessions -> Sockets \cup {NoSocket}]
  /\ stopping \subseteq Sessions /\ orphans \subseteq Sessions
PagesTyped ==
  /\ sock \in [Tabs -> Sockets \cup {NoSocket}]
  /\ \A t \in Tabs : sock[t] # NoSocket => TabOf[sock[t]] = t /\ sock[t] \in opened
  /\ seen \subseteq Tabs /\ mic \subseteq Tabs
  /\ mirror \in [Tabs -> [Ids -> Entries]]
WiresTyped ==
  /\ up \in [Sockets -> Seq(Requests)] /\ down \in [Sockets -> Seq(Notices)]
  /\ outbox \in [Tabs -> Seq(Requests)]
  /\ \A t \in Tabs : sock[t] # NoSocket => outbox[t] = <<>>

Types == StoreTyped /\ RoomTyped /\ SessionsTyped /\ PagesTyped /\ WiresTyped

-----------------------------------------------------------------------------
(* sessions *)

Running == {"connecting", "opening", "open"}

(* A session has an owner from its start; one that was told to stop is not  *)
(* in the Map and does not open any more; one that runs otherwise is where  *)
(* its owner finds it.                                                      *)
Started ==
  \A x \in Sessions : IF stage[x] = "none" THEN x \notin stopping ELSE owner[x] \in Sockets
Ending == \A x \in stopping : stage[x] \in {"connecting", "flushing", "closed"}
Mapped ==
  \A s \in Sockets : sessions[s] # NoSession =>
    /\ s \in joined /\ sessions[s] \notin stopping
    /\ stage[sessions[s]] # "none" /\ owner[sessions[s]] = s
Found ==
  \A x \in Sessions \ (stopping \cup orphans) : stage[x] \in Running => sessions[owner[x]] = x

SessionInv == Started /\ Ending /\ Mapped /\ Found

-----------------------------------------------------------------------------
(* channels: the latest of the messages in A that q holds is one of G *)

NoneOf(q, A) == \A i \in DOMAIN q : q[i] \notin A
LatestOf(q, A, G) ==
  \A i \in DOMAIN q :
    q[i] \in A /\ (\A j \in DOMAIN q : j > i => q[j] \notin A) => q[i] \in G

(* The latest start or stop of a page is what its microphone and the        *)
(* transcript ask for; with none on its way, a session runs only for a page *)
(* that contributes.                                                        *)
Asks == [type : {"start", "stop"}]
Asked(t) == {[type |-> IF Contributes(t, seen, mic) THEN "start" ELSE "stop"]}
AskedOf(t) ==
  IF sock[t] = NoSocket THEN LatestOf(outbox[t], Asks, Asked(t))
  ELSE /\ LatestOf(up[sock[t]], Asks, Asked(t))
       /\ NoneOf(up[sock[t]], Asks) /\ sessions[sock[t]] # NoSession => Contributes(t, seen, mic)
AskInv == \A t \in Tabs : AskedOf(t)

(* The latest notice about the transcript's state is true, and with none on *)
(* its way what the page believes is.                                       *)
Telling == StateNotices \cup SnapshotNotices
TellingNow == {m \in Telling : m.active = active}
BelievedBy(t) ==
  sock[t] \in joined =>
    /\ LatestOf(down[sock[t]], Telling, TellingNow)
    /\ NoneOf(down[sock[t]], Telling) => (t \in seen <=> active)
BeliefInv == \A t \in Tabs : BelievedBy(t)

(* Likewise of each entry the store keeps, by its id.                       *)
About(i) == {m \in SegmentNotices : m.entry.id = i} \cup
            {m \in SnapshotNotices : \E e \in m.list : e.id = i}
Showing(e) == {m \in SegmentNotices : m.entry = e} \cup
              {m \in SnapshotNotices : {d \in m.list : d.id = e.id} = {e}}
Numbered ==
  /\ \A e \in Kept : e.id \in 1..(nextSequence - 1)
  /\ \A d, e \in Kept : d.id = e.id => d = e
ShownTo(t, e) ==
  /\ LatestOf(down[sock[t]], About(e.id), Showing(e))
  /\ NoneOf(down[sock[t]], About(e.id)) => mirror[t][e.id] = e
Mirrored == \A t \in Tabs : sock[t] \in joined => \A e \in Kept : ShownTo(t, e)
MirrorInv == Numbered /\ Mirrored

IInv == Types /\ SessionInv /\ AskInv /\ BeliefInv /\ MirrorInv

-----------------------------------------------------------------------------
(* messages on their way: one more, and one fewer *)

LEMMA AppendEntries ==
  ASSUME NEW S, NEW q \in Seq(S), NEW e \in S
  PROVE  /\ Append(q, e) \in Seq(S) /\ DOMAIN Append(q, e) = 1..(Len(q) + 1)
         /\ DOMAIN q = 1..Len(q) /\ Len(q) \in Nat
         /\ Append(q, e)[Len(q) + 1] = e
         /\ \A i \in 1..Len(q) : Append(q, e)[i] = q[i]
  OBVIOUS

LEMMA TailEntries ==
  ASSUME NEW S, NEW q \in Seq(S), q # <<>>
  PROVE  /\ Head(q) \in S /\ Head(q) = q[1] /\ Tail(q) \in Seq(S)
         /\ Len(Tail(q)) \in Nat
         /\ DOMAIN Tail(q) = 1..Len(Tail(q)) /\ DOMAIN q = 1..(Len(Tail(q)) + 1)
         /\ \A i \in 1..Len(Tail(q)) : Tail(q)[i] = q[i + 1]
  OBVIOUS

LEMMA LatestAppended ==
  ASSUME NEW S, NEW q \in Seq(S), NEW e \in S, NEW A, NEW G,
         e \in A => e \in G, e \notin A => LatestOf(q, A, G)
  PROVE  /\ LatestOf(Append(q, e), A, G)
         /\ NoneOf(Append(q, e), A) => NoneOf(q, A) /\ e \notin A
<1> DEFINE r == Append(q, e)
<1>1. /\ DOMAIN r = 1..(Len(q) + 1) /\ DOMAIN q = 1..Len(q) /\ Len(q) \in Nat
      /\ r[Len(q) + 1] = e /\ \A i \in 1..Len(q) : r[i] = q[i]
  BY AppendEntries
<1> HIDE DEF r
<1>2. LatestOf(r, A, G)
  <2> SUFFICES ASSUME NEW i \in DOMAIN r, r[i] \in A, \A j \in DOMAIN r : j > i => r[j] \notin A
               PROVE  r[i] \in G
    BY DEF LatestOf
  <2>1. CASE i = Len(q) + 1
    BY <1>1, <2>1
  <2>2. CASE i \in DOMAIN q
    <3>1. Len(q) + 1 \in DOMAIN r /\ Len(q) + 1 > i
      BY <1>1, <2>2
    <3>2. e \notin A
      BY <1>1, <3>1
    <3>3. \A j \in DOMAIN q : j > i => q[j] \notin A
      BY <1>1
    <3>4. q[i] = r[i]
      BY <1>1, <2>2
    <3> QED
      BY <2>2, <3>2, <3>3, <3>4 DEF LatestOf
  <2> QED
    BY <1>1, <2>1, <2>2
<1>3. ASSUME NoneOf(r, A) PROVE NoneOf(q, A) /\ e \notin A
  <2>1. Len(q) + 1 \in DOMAIN r /\ \A i \in DOMAIN q : i \in DOMAIN r
    BY <1>1
  <2> QED
    BY <1>1, <1>3, <2>1 DEF NoneOf
<1> QED
  BY <1>2, <1>3 DEF r

LEMMA LatestOfTail ==
  ASSUME NEW S, NEW q \in Seq(S), q # <<>>, NEW A, NEW G, LatestOf(q, A, G)
  PROVE  /\ LatestOf(Tail(q), A, G)
         /\ NoneOf(Tail(q), A) =>
              (NoneOf(q, A) /\ Head(q) \notin A) \/ (Head(q) \in A /\ Head(q) \in G)
<1> DEFINE r == Tail(q)
<1>1. /\ Head(q) = q[1] /\ Len(r) \in Nat
      /\ DOMAIN r = 1..Len(r) /\ DOMAIN q = 1..(Len(r) + 1)
      /\ \A i \in 1..Len(r) : r[i] = q[i + 1]
  BY TailEntries
<1> HIDE DEF r
<1>2. ASSUME NEW j \in DOMAIN q, j > 1
      PROVE  j - 1 \in DOMAIN r /\ q[j] = r[j - 1]
  <2>1. j - 1 \in DOMAIN r /\ (j - 1) + 1 = j
    BY <1>1, <1>2
  <2> QED
    BY <1>1, <2>1
<1>3. LatestOf(r, A, G)
  <2> SUFFICES ASSUME NEW i \in DOMAIN r, r[i] \in A, \A j \in DOMAIN r : j > i => r[j] \notin A
               PROVE  r[i] \in G
    BY DEF LatestOf
  <2>1. i + 1 \in DOMAIN q /\ q[i + 1] = r[i]
    BY <1>1
  <2>2. ASSUME NEW j \in DOMAIN q, j > i + 1 PROVE q[j] \notin A
    <3>1. j > 1 /\ j - 1 > i
      BY <1>1, <2>2
    <3> QED
      BY <1>2, <3>1
  <2> QED
    BY <2>1, <2>2 DEF LatestOf
<1>4. ASSUME NoneOf(r, A) PROVE \A j \in DOMAIN q : j > 1 => q[j] \notin A
  BY <1>2, <1>4 DEF NoneOf
<1>5. 1 \in DOMAIN q /\ \A j \in DOMAIN q : j = 1 \/ j > 1
  BY <1>1
<1>6. ASSUME NoneOf(r, A), q[1] \in A PROVE q[1] \in G
  BY <1>4, <1>5, <1>6 DEF LatestOf
<1>7. ASSUME NoneOf(r, A), q[1] \notin A PROVE NoneOf(q, A)
  BY <1>4, <1>5, <1>7 DEF NoneOf
<1> QED
  BY <1>1, <1>3, <1>6, <1>7 DEF r

LEMMA NothingComing ==
  ASSUME NEW A, NEW G PROVE LatestOf(<<>>, A, G) /\ NoneOf(<<>>, A)
  BY DEF LatestOf, NoneOf

-----------------------------------------------------------------------------
(* what the steps are made of *)

LEMMA NoticeKinds ==
  /\ \A b \in BOOLEAN : /\ State(b) \in Notices /\ State(b) \in Telling /\ State(b).active = b
                        /\ \A i \in Nat : State(b) \notin About(i)
  /\ \A e \in Entries : /\ Segment(e) \in Notices /\ Segment(e) \notin Telling
                        /\ Segment(e) \in Showing(e)
                        /\ \A i \in Nat : Segment(e) \in About(i) <=> e.id = i
  BY DEF State, Segment, Notices, StateNotices, SegmentNotices, SnapshotNotices, Telling, About,
         Showing, Entries

LEMMA SnapshotKind ==
  ASSUME StoreTyped, MirrorInv
  PROVE  /\ Snapshot \in Notices /\ Snapshot \in TellingNow
         /\ \A e \in Kept : Snapshot \in Showing(e)
<1>1. Kept \subseteq Entries
  BY DEF StoreTyped, Kept
<1>2. Snapshot = [type |-> "snapshot", active |-> active, list |-> Kept]
  BY DEF Snapshot, Kept
<1>3. Snapshot \in SnapshotNotices /\ Snapshot.active = active /\ Snapshot.list = Kept
  BY <1>1, <1>2 DEF SnapshotNotices, StoreTyped
<1>4. ASSUME NEW e \in Kept PROVE {d \in Kept : d.id = e.id} = {e}
  BY DEF MirrorInv, Numbered
<1> QED
  BY <1>3, <1>4 DEF Notices, Telling, TellingNow, Showing

LEMMA Emitted ==
  ASSUME Types, NEW to, NEW m \in Notices
  PROVE  /\ Emit(to, m) \in [Sockets -> Seq(Notices)]
         /\ \A s \in Sockets : s \in to /\ Attached(s) => Emit(to, m)[s] = Append(down[s], m)
         /\ \A s \in Sockets : ~(s \in to /\ Attached(s)) => Emit(to, m)[s] = down[s]
<1>1. \A s \in Sockets : down[s] \in Seq(Notices) /\ Append(down[s], m) \in Seq(Notices)
  BY AppendEntries DEF Types, WiresTyped
<1> QED
  BY <1>1 DEF Emit

LEMMA Connections ==
  ASSUME Types, NEW t \in Tabs, sock[t] # NoSocket
  PROVE  /\ sock[t] \in Sockets /\ TabOf[sock[t]] = t /\ Attached(sock[t])
         /\ down[sock[t]] \in Seq(Notices) /\ up[sock[t]] \in Seq(Requests)
         /\ outbox[t] = <<>>
         /\ \A u \in Tabs : sock[u] = sock[t] => u = t
<1>1. sock[t] \in Sockets /\ TabOf[sock[t]] = t
  BY DEF Types, PagesTyped
<1>2. \A u \in Tabs : sock[u] # NoSocket => TabOf[sock[u]] = u
  BY DEF Types, PagesTyped
<1> QED
  BY <1>1, <1>2 DEF Types, WiresTyped, Attached

(* a message to everyone, as the page of t sees it *)
LEMMA Heard ==
  ASSUME Types, NEW m \in Notices, down' = Broadcast(m), NEW t \in Tabs, sock[t] \in joined,
         NEW A, NEW G, m \in A => m \in G, m \notin A => LatestOf(down[sock[t]], A, G)
  PROVE  /\ LatestOf(down'[sock[t]], A, G)
         /\ NoneOf(down'[sock[t]], A) => NoneOf(down[sock[t]], A) /\ m \notin A
<1>1. sock[t] \in Sockets /\ Attached(sock[t]) /\ down[sock[t]] \in Seq(Notices)
  <2>1. sock[t] # NoSocket
    BY TranscriptConstants DEF Types, RoomTyped
  <2> QED
    BY <2>1, Connections
<1>2. down'[sock[t]] = Append(down[sock[t]], m)
  BY <1>1, Emitted DEF Broadcast
<1> QED
  BY <1>1, <1>2, LatestAppended

(* the effect on shouldContributeTranscript *)
Ask(contributing) == [type |-> IF contributing THEN "start" ELSE "stop"]
LEMMA Contributed ==
  ASSUME Types, NEW t \in Tabs, NEW on, NEW speaking, SetContribution(t, on, speaking)
  PROVE  LET now == Contributes(t, on, speaking) IN
         IF now = Contributes(t, seen, mic) THEN UNCHANGED <<up, outbox>>
         ELSE IF sock[t] = NoSocket
              THEN outbox' = [outbox EXCEPT ![t] = Append(@, Ask(now))] /\ UNCHANGED up
              ELSE up' = [up EXCEPT ![sock[t]] = Append(@, Ask(now))] /\ UNCHANGED outbox
<1> DEFINE now == Contributes(t, on, speaking)
           p == Contribution(t, on, speaking)
<1>0. now \in BOOLEAN
  BY DEF Contributes
<1>1. IF now = Contributes(t, seen, mic) THEN p = <<>> ELSE p = <<Ask(now)>>
  BY <1>0 DEF Contribution, Ask
<1>2. \A q \in Seq(Requests) : q \o <<>> = q /\ \A m \in Requests : q \o <<m>> = Append(q, m)
  OBVIOUS
<1>3. Ask(now) \in Requests
  BY DEF Ask, Requests
<1>4. /\ outbox \in [Tabs -> Seq(Requests)] /\ up \in [Sockets -> Seq(Requests)]
      /\ sock[t] # NoSocket => sock[t] \in Sockets
  BY DEF Types, WiresTyped, PagesTyped
<1>5. IF sock[t] = NoSocket THEN outbox' = [outbox EXCEPT ![t] = @ \o p] /\ UNCHANGED up
      ELSE up' = [up EXCEPT ![sock[t]] = @ \o p] /\ UNCHANGED outbox
  BY DEF SetContribution
<1> HIDE DEF now, p
<1>6. CASE now = Contributes(t, seen, mic)
  <2>1. p = <<>>
    BY <1>1, <1>6
  <2>2. outbox' = outbox /\ up' = up
    BY <1>2, <1>4, <1>5, <2>1
  <2> QED
    BY <1>6, <2>2 DEF now
<1>7. CASE now # Contributes(t, seen, mic)
  <2>1. p = <<Ask(now)>>
    BY <1>1, <1>7
  <2>2. CASE sock[t] = NoSocket
    BY <1>2, <1>3, <1>4, <1>5, <1>7, <2>1, <2>2 DEF now
  <2>3. CASE sock[t] # NoSocket
    BY <1>2, <1>3, <1>4, <1>5, <1>7, <2>1, <2>3 DEF now
  <2> QED
    BY <2>2, <2>3
<1> QED
  BY <1>6, <1>7

-----------------------------------------------------------------------------
(* what a page asks for *)

LEMMA Asking ==
  /\ \A b \in BOOLEAN : Ask(b) \in Asks /\ Ask(b) \in Requests
  /\ \A b \in BOOLEAN : Ask(b).type = "start" <=> b
  /\ \A t : Contributes(t, seen, mic) \in BOOLEAN
  /\ \A t : Asked(t) = {Ask(Contributes(t, seen, mic))}
  BY DEF Ask, Asks, Requests, Asked, Contributes

LEMMA AskSet ==
  ASSUME Types, AskInv, NEW t \in Tabs, SetContribution(t, seen', mic'),
         sock' = sock, sessions' = sessions,
         \A u \in Tabs \ {t} : (u \in seen' <=> u \in seen) /\ (u \in mic' <=> u \in mic)
  PROVE  AskInv'
<1> DEFINE now == Contributes(t, seen', mic')
<1>1. IF now = Contributes(t, seen, mic) THEN UNCHANGED <<up, outbox>>
      ELSE IF sock[t] = NoSocket
           THEN outbox' = [outbox EXCEPT ![t] = Append(@, Ask(now))] /\ UNCHANGED up
           ELSE up' = [up EXCEPT ![sock[t]] = Append(@, Ask(now))] /\ UNCHANGED outbox
  BY Contributed
<1>2. now \in BOOLEAN /\ Ask(now) \in Asks /\ Ask(now) \in Requests
  BY Asking DEF Contributes
<1>3. outbox \in [Tabs -> Seq(Requests)] /\ up \in [Sockets -> Seq(Requests)]
  BY DEF Types, WiresTyped
<1>4. Asked(t)' = {Ask(now)}
  BY DEF Asked, Ask
<1>5. (now = Contributes(t, seen, mic)) => Asked(t)' = Asked(t)
  BY <1>4, Asking
<1>6. \A u \in Tabs : AskedOf(u)
  BY DEF AskInv
<1>7. AskedOf(t)'
  <2>1. CASE now = Contributes(t, seen, mic)
    BY <1>1, <1>5, <1>6, <2>1 DEF AskedOf
  <2>2. CASE now # Contributes(t, seen, mic) /\ sock[t] = NoSocket
    <3>1. outbox'[t] = Append(outbox[t], Ask(now)) /\ outbox[t] \in Seq(Requests)
      BY <1>1, <1>3, <2>2
    <3>2. LatestOf(outbox'[t], Asks, {Ask(now)})
      BY <1>2, <3>1, LatestAppended
    <3> QED
      BY <1>4, <2>2, <3>2 DEF AskedOf
  <2>3. CASE now # Contributes(t, seen, mic) /\ sock[t] # NoSocket
    <3>0. sock[t] \in Sockets /\ up[sock[t]] \in Seq(Requests)
      BY <2>3, Connections
    <3>1. up'[sock[t]] = Append(up[sock[t]], Ask(now))
      BY <1>1, <1>3, <2>3, <3>0
    <3>2. /\ LatestOf(up'[sock[t]], Asks, {Ask(now)})
          /\ ~NoneOf(up'[sock[t]], Asks)
      <4> DEFINE q == up[sock[t]]
                 m == Ask(now)
      <4>1. q \in Seq(Requests) /\ m \in Requests /\ m \in Asks /\ m \in {m}
        BY <1>2, <3>0
      <4> HIDE DEF q, m
      <4>2. /\ LatestOf(Append(q, m), Asks, {m})
            /\ NoneOf(Append(q, m), Asks) => m \notin Asks
        BY <4>1, LatestAppended
      <4> QED
        BY <3>1, <4>1, <4>2 DEF q, m
    <3> QED
      BY <1>4, <2>3, <3>2 DEF AskedOf
  <2> QED
    BY <2>1, <2>2, <2>3
<1>8. ASSUME NEW u \in Tabs, u # t PROVE AskedOf(u)'
  <2>1. Asked(u)' = Asked(u) /\ (Contributes(u, seen, mic)' <=> Contributes(u, seen, mic))
    BY <1>8 DEF Asked, Contributes
  <2>2. outbox'[u] = outbox[u]
    BY <1>1, <1>3, <1>8
  <2>3. ASSUME sock[u] # NoSocket PROVE up'[sock[u]] = up[sock[u]]
    <3>1. sock[u] # sock[t] /\ sock[u] \in Sockets
      BY <1>8, <2>3, Connections
    <3> QED
      BY <1>1, <1>3, <3>1
  <2> HIDE DEF now
  <2> QED
    BY <1>6, <2>1, <2>2, <2>3 DEF AskedOf
<1> QED
  BY <1>7, <1>8 DEF AskInv

LEMMA AskKept ==
  ASSUME Types, AskInv, UNCHANGED <<seen, mic, sock, outbox>>,
         \A t \in Tabs : sock[t] # NoSocket =>
           /\ up'[sock[t]] = up[sock[t]]
           /\ sessions'[sock[t]] # NoSession => sessions[sock[t]] # NoSession
  PROVE  AskInv'
<1> SUFFICES ASSUME NEW t \in Tabs PROVE AskedOf(t)'
  BY DEF AskInv
<1>1. Asked(t)' = Asked(t) /\ (Contributes(t, seen, mic)' <=> Contributes(t, seen, mic))
  BY DEF Asked, Contributes
<1>2. AskedOf(t)
  BY DEF AskInv
<1> QED
  BY <1>1, <1>2 DEF AskedOf

(* a request of s is handled *)
LEMMA AskTaken ==
  ASSUME Types, AskInv, UNCHANGED <<seen, mic, sock, outbox>>,
         NEW s \in Sockets, up[s] # <<>>, Handled(s),
         \A r \in Sockets \ {s} : sessions'[r] # NoSession => sessions[r] # NoSession,
         sessions'[s] # NoSession =>
           Head(up[s]).type = "start" \/ (Head(up[s]).type = "join" /\ sessions[s] # NoSession)
  PROVE  AskInv'
<1>1. up \in [Sockets -> Seq(Requests)] /\ up' = [up EXCEPT ![s] = Tail(@)]
  BY DEF Types, WiresTyped, Handled
<1>2. up[s] \in Seq(Requests) /\ Head(up[s]) \in Requests
  BY <1>1, TailEntries
<1> SUFFICES ASSUME NEW t \in Tabs PROVE AskedOf(t)'
  BY DEF AskInv
<1>3. Asked(t)' = Asked(t) /\ (Contributes(t, seen, mic)' <=> Contributes(t, seen, mic))
  BY DEF Asked, Contributes
<1>4. AskedOf(t)
  BY DEF AskInv
<1>5. CASE sock[t] = NoSocket
  BY <1>3, <1>4, <1>5 DEF AskedOf
<1>6. CASE sock[t] # NoSocket /\ sock[t] # s
  <2>1. sock[t] \in Sockets
    BY <1>6, Connections
  <2> QED
    BY <1>1, <1>3, <1>4, <1>6, <2>1 DEF AskedOf
<1>7. CASE sock[t] = s /\ sock[t] # NoSocket
  <2>1. up'[s] = Tail(up[s])
    BY <1>1
  <2>2. /\ LatestOf(up'[s], Asks, Asked(t))
        /\ NoneOf(up'[s], Asks) =>
             \/ NoneOf(up[s], Asks) /\ Head(up[s]) \notin Asks
             \/ Head(up[s]) \in Asks /\ Head(up[s]) \in Asked(t)
    BY <1>2, <1>4, <1>7, <2>1, LatestOfTail DEF AskedOf
  <2>3. ASSUME NoneOf(up'[s], Asks), sessions'[s] # NoSession PROVE Contributes(t, seen, mic)
    <3>1. CASE Head(up[s]).type = "start"
      <4>1. Head(up[s]) \in Asks
        BY <1>2, <3>1 DEF Asks, Requests
      <4>2. Head(up[s]) = Ask(Contributes(t, seen, mic))
        BY <2>2, <2>3, <4>1, Asking
      <4> QED
        BY <3>1, <4>2, Asking
    <3>2. CASE Head(up[s]).type = "join" /\ sessions[s] # NoSession
      <4>1. Head(up[s]) \notin Asks
        BY <3>2 DEF Asks
      <4> QED
        BY <1>4, <1>7, <2>2, <2>3, <3>2, <4>1 DEF AskedOf
    <3> QED
      BY <2>3, <3>1, <3>2
  <2> QED
    BY <1>3, <1>7, <2>2, <2>3 DEF AskedOf
<1> QED
  BY <1>5, <1>6, <1>7

-----------------------------------------------------------------------------
(* what a page believes, and what it shows *)

LEMMA BeliefKept ==
  ASSUME BeliefInv, active' = active, seen' = seen,
         \A t \in Tabs : sock'[t] \in joined' =>
           sock[t] \in joined /\ sock'[t] = sock[t] /\ down'[sock[t]] = down[sock[t]]
  PROVE  BeliefInv'
<1> SUFFICES ASSUME NEW t \in Tabs, sock'[t] \in joined' PROVE BelievedBy(t)'
  BY DEF BeliefInv, BelievedBy
<1>1. BelievedBy(t) /\ TellingNow' = TellingNow
  BY DEF BeliefInv, TellingNow
<1> QED
  BY <1>1 DEF BelievedBy

LEMMA BeliefHeard ==
  ASSUME Types, BeliefInv, UNCHANGED <<seen, sock, joined>>,
         NEW m \in Notices, down' = Broadcast(m),
         IF m \in Telling THEN m.active = active' ELSE active' = active
  PROVE  BeliefInv'
<1> SUFFICES ASSUME NEW t \in Tabs, sock[t] \in joined
             PROVE  /\ LatestOf(down'[sock[t]], Telling, TellingNow')
                    /\ NoneOf(down'[sock[t]], Telling) => (t \in seen <=> active')
  BY DEF BeliefInv, BelievedBy
<1>1. /\ LatestOf(down[sock[t]], Telling, TellingNow)
      /\ NoneOf(down[sock[t]], Telling) => (t \in seen <=> active)
  BY DEF BeliefInv, BelievedBy
<1>2. m \in Telling => m \in TellingNow'
  BY DEF TellingNow
<1>3. m \notin Telling => TellingNow' = TellingNow /\ active' = active
  BY DEF TellingNow
<1>4. m \notin Telling => LatestOf(down[sock[t]], Telling, TellingNow')
  BY <1>1, <1>3
<1>5. /\ LatestOf(down'[sock[t]], Telling, TellingNow')
      /\ NoneOf(down'[sock[t]], Telling) => NoneOf(down[sock[t]], Telling) /\ m \notin Telling
  BY <1>2, <1>4, Heard
<1> QED
  BY <1>1, <1>3, <1>5

LEMMA MirrorKept ==
  ASSUME MirrorInv, UNCHANGED <<entries, nextSequence, mirror>>,
         \A t \in Tabs : sock'[t] \in joined' =>
           sock[t] \in joined /\ sock'[t] = sock[t] /\ down'[sock[t]] = down[sock[t]]
  PROVE  MirrorInv'
<1>1. Kept' = Kept
  BY DEF Kept
<1>2. Numbered'
  BY <1>1 DEF MirrorInv, Numbered
<1> SUFFICES ASSUME NEW t \in Tabs, sock'[t] \in joined', NEW e \in Kept PROVE ShownTo(t, e)'
  BY <1>1, <1>2 DEF MirrorInv, Mirrored
<1>3. ShownTo(t, e)
  BY DEF MirrorInv, Mirrored
<1> QED
  BY <1>3 DEF ShownTo

(* m tells of every entry that is kept now and was not before *)
LEMMA MirrorHeard ==
  ASSUME Types, MirrorInv, Numbered', UNCHANGED <<mirror, sock, joined>>,
         NEW m \in Notices, down' = Broadcast(m),
         \A e \in Kept' : IF m \in About(e.id) THEN m \in Showing(e) ELSE e \in Kept
  PROVE  MirrorInv'
<1> SUFFICES ASSUME NEW t \in Tabs, sock[t] \in joined, NEW e \in Kept'
             PROVE  /\ LatestOf(down'[sock[t]], About(e.id), Showing(e))
                    /\ NoneOf(down'[sock[t]], About(e.id)) => mirror[t][e.id] = e
  BY DEF MirrorInv, Mirrored, ShownTo
<1>1. m \notin About(e.id) =>
        /\ LatestOf(down[sock[t]], About(e.id), Showing(e))
        /\ NoneOf(down[sock[t]], About(e.id)) => mirror[t][e.id] = e
  BY DEF MirrorInv, Mirrored, ShownTo
<1>2. m \in About(e.id) => m \in Showing(e)
  OBVIOUS
<1>3. /\ LatestOf(down'[sock[t]], About(e.id), Showing(e))
      /\ NoneOf(down'[sock[t]], About(e.id)) =>
           NoneOf(down[sock[t]], About(e.id)) /\ m \notin About(e.id)
  BY <1>1, <1>2, Heard
<1> QED
  BY <1>1, <1>3

(* merging a list that holds e, and one that holds no entry of its id *)
LEMMA Merged ==
  ASSUME NEW shown, NEW list, NEW i \in Ids
  PROVE  /\ \A e : {d \in list : d.id = i} = {e} => Merge(shown, list)[i] = e
         /\ {d \in list : d.id = i} = {} => Merge(shown, list)[i] = shown[i]
<1>1. Merge(shown, list)[i] = LET new == {d \in list : d.id = i}
                              IN  IF new = {} THEN shown[i] ELSE CHOOSE e \in new : TRUE
  BY DEF Merge
<1>2. ASSUME NEW e, {d \in list : d.id = i} = {e} PROVE Merge(shown, list)[i] = e
  BY <1>1, <1>2
<1> QED
  BY <1>1, <1>2

LEMMA MergeType ==
  ASSUME NEW shown \in [Ids -> Entries], NEW list \in SUBSET Entries
  PROVE  Merge(shown, list) \in [Ids -> Entries]
<1> SUFFICES ASSUME NEW i \in Ids
             PROVE  LET new == {e \in list : e.id = i}
                    IN  (IF new = {} THEN shown[i] ELSE CHOOSE e \in new : TRUE) \in Entries
  BY DEF Merge
<1> DEFINE new == {e \in list : e.id = i}
<1>1. CASE new = {}
  BY <1>1
<1>2. CASE new # {}
  <2>1. (CHOOSE e \in new : TRUE) \in new
    BY <1>2
  <2> QED
    BY <1>2, <2>1
<1> QED
  BY <1>1, <1>2

-----------------------------------------------------------------------------
(* the Map of sessions *)

LEMMA SessionKept ==
  ASSUME SessionInv, UNCHANGED <<sessions, stage, owner, stopping, orphans>>, joined \subseteq joined'
  PROVE  SessionInv'
  BY DEF SessionInv, Started, Ending, Mapped, Found

LEMMA SessionStopped ==
  ASSUME Types, SessionInv, NEW ss, ss \subseteq {sessions[s] : s \in Sockets} \ {NoSession},
         StopSessions(ss), UNCHANGED <<owner, orphans>>,
         \A s \in joined \ joined' : sessions[s] \in ss \cup {NoSession}
  PROVE  /\ SessionsTyped' /\ SessionInv'
         /\ \A s \in Sockets : sessions'[s] # NoSession => sessions[s] # NoSession
<1>1. /\ sessions \in [Sockets -> Sessions \cup {NoSession}] /\ stage \in [Sessions -> Stages]
      /\ owner \in [Sessions -> Sockets \cup {NoSocket}] /\ stopping \subseteq Sessions
      /\ orphans \subseteq Sessions /\ ss \subseteq Sessions
  BY DEF Types, SessionsTyped
<1>2. /\ sessions' = [s \in Sockets |-> IF sessions[s] \in ss THEN NoSession ELSE sessions[s]]
      /\ stopping' = stopping \cup ss
      /\ stage' = [x \in Sessions |-> IF x \in ss THEN StoppedStage(x) ELSE stage[x]]
  BY DEF StopSessions
<1>3. ASSUME NEW x \in ss
      PROVE  /\ StoppedStage(x) \in {"flushing", "connecting", "closed"}
             /\ \E s \in Sockets : sessions[s] = x /\ owner[x] = s /\ stage[x] # "none"
  BY TranscriptConstants DEF StoppedStage, SessionInv, Mapped
<1>4. SessionsTyped'
  <2>1. \A x \in ss : StoppedStage(x) \in Stages
    BY <1>3 DEF Stages
  <2> QED
    BY <1>1, <1>2, <2>1 DEF SessionsTyped
<1>5. \A x \in Sessions : stage'[x] = IF x \in ss THEN StoppedStage(x) ELSE stage[x]
  BY <1>2
<1>6. \A s \in Sockets : sessions'[s] = IF sessions[s] \in ss THEN NoSession ELSE sessions[s]
  BY <1>2
<1>7. Started'
  BY <1>1, <1>2, <1>3, <1>5 DEF SessionInv, Started
<1>8. Ending'
  BY <1>1, <1>2, <1>3, <1>5 DEF SessionInv, Ending
<1>9. Mapped'
  BY <1>1, <1>2, <1>3, <1>5, <1>6 DEF SessionInv, Mapped
<1>10. Found'
  <2> SUFFICES ASSUME NEW x \in Sessions \ (stopping' \cup orphans), stage'[x] \in Running
               PROVE  sessions'[owner[x]] = x
    BY DEF Found
  <2>1. x \notin ss /\ x \notin stopping /\ stage[x] \in Running /\ sessions[owner[x]] = x
    BY <1>2, <1>5 DEF SessionInv, Found
  <2>2. owner[x] \in Sockets
    BY <2>1 DEF SessionInv, Started, Running
  <2> QED
    BY <1>6, <2>1, <2>2
<1> QED
  BY <1>4, <1>6, <1>7, <1>8, <1>9, <1>10 DEF SessionInv

-----------------------------------------------------------------------------
(* initially, and the steps of a page *)

LEMMA Initially == Init => IInv
<1> SUFFICES ASSUME Init PROVE IInv
  OBVIOUS
<1>1. Types
  <2>1. Absent \in Entries /\ <<>> \in Seq(Requests) /\ <<>> \in Seq(Notices) /\ <<>> \in Seq(Entries)
    BY DEF Absent, Entries
  <2>0. 0 \in 0..MaxTurns /\ 1 \in 1..(0 + 1) /\ 0 \in Nat
    BY TranscriptConstants
  <2>2. StoreTyped
    BY <2>0, <2>1 DEF Init, StoreTyped
  <2>3. RoomTyped /\ SessionsTyped
    BY DEF Init, RoomTyped, SessionsTyped, Stages
  <2>4. PagesTyped /\ WiresTyped
    BY <2>1 DEF Init, PagesTyped, WiresTyped
  <2> QED
    BY <2>2, <2>3, <2>4 DEF Types
<1>2. SessionInv
  BY DEF Init, SessionInv, Started, Ending, Mapped, Found, Running
<1>3. AskInv
  BY NothingComing DEF Init, AskInv, AskedOf
<1>4. BeliefInv
  BY NothingComing DEF Init, BeliefInv, BelievedBy
<1>5. MirrorInv
  <2>1. Kept = {}
    BY DEF Init, Kept
  <2> QED
    BY <2>1 DEF MirrorInv, Numbered, Mirrored
<1> QED
  BY <1>1, <1>2, <1>3, <1>4, <1>5 DEF IInv

(* what a change of contribution does to the channels *)
LEMMA ContributedTypes ==
  ASSUME Types, NEW t \in Tabs, NEW on, NEW speaking, SetContribution(t, on, speaking)
  PROVE  /\ up' \in [Sockets -> Seq(Requests)] /\ outbox' \in [Tabs -> Seq(Requests)]
         /\ \A u \in Tabs : sock[u] # NoSocket => outbox'[u] = <<>>
<1> DEFINE m == Ask(Contributes(t, on, speaking))
<1>1. m \in Requests
  BY Asking DEF Contributes
<1>2. /\ outbox \in [Tabs -> Seq(Requests)] /\ up \in [Sockets -> Seq(Requests)]
      /\ \A u \in Tabs : sock[u] # NoSocket => outbox[u] = <<>>
      /\ sock[t] # NoSocket => sock[t] \in Sockets
  BY DEF Types, WiresTyped, PagesTyped
<1>3. \/ UNCHANGED <<up, outbox>>
      \/ sock[t] = NoSocket /\ outbox' = [outbox EXCEPT ![t] = Append(@, m)] /\ UNCHANGED up
      \/ sock[t] # NoSocket /\ up' = [up EXCEPT ![sock[t]] = Append(@, m)] /\ UNCHANGED outbox
  BY Contributed
<1> HIDE DEF m
<1>4. \A q \in Seq(Requests) : Append(q, m) \in Seq(Requests)
  BY <1>1, AppendEntries
<1> QED
  BY <1>2, <1>3, <1>4

LEMMA ToggleMicStep ==
  ASSUME IInv, NEW t \in Tabs, ToggleMic(t) PROVE IInv'
<1> USE DEF IInv
<1>1. /\ mic' = (IF t \in mic THEN mic \ {t} ELSE mic \cup {t})
      /\ SetContribution(t, seen, mic')
      /\ UNCHANGED <<store, sessions, refining, room, stage, owner, stopping, orphans,
                     opened, sock, seen, mirror, down, era, turns>>
  BY DEF ToggleMic, server, providers
<1>2. Types'
  <2>1. /\ up' \in [Sockets -> Seq(Requests)] /\ outbox' \in [Tabs -> Seq(Requests)]
        /\ \A u \in Tabs : sock[u] # NoSocket => outbox'[u] = <<>>
    BY <1>1, ContributedTypes
  <2> QED
    BY <1>1, <2>1 DEF Types, StoreTyped, RoomTyped, SessionsTyped, PagesTyped, WiresTyped, store, room
<1>3. SessionInv'
  BY <1>1, SessionKept DEF room
<1>4. AskInv'
  <2>1. SetContribution(t, seen', mic')
    BY <1>1 DEF SetContribution, Contribution
  <2> QED
    BY <1>1, <2>1, AskSet
<1>5. BeliefInv'
  BY <1>1, BeliefKept DEF store, room
<1>6. MirrorInv'
  BY <1>1, MirrorKept DEF store, room
<1> QED
  BY <1>2, <1>3, <1>4, <1>5, <1>6

LEMMA LoseConnectionStep ==
  ASSUME IInv, NEW t \in Tabs, LoseConnection(t) PROVE IInv'
<1> USE DEF IInv
<1>1. /\ sock[t] # NoSocket /\ sock' = [sock EXCEPT ![t] = NoSocket]
      /\ down' = [down EXCEPT ![sock[t]] = <<>>]
      /\ UNCHANGED <<store, sessions, refining, room, stage, owner, stopping, orphans,
                     opened, outbox, seen, mic, mirror, up, era, turns>>
  BY DEF LoseConnection, server, providers, bounds
<1>2. sock[t] \in Sockets /\ outbox[t] = <<>> /\ \A u \in Tabs : sock[u] = sock[t] => u = t
  BY <1>1, Connections
<1>3. /\ sock \in [Tabs -> Sockets \cup {NoSocket}] /\ down \in [Sockets -> Seq(Notices)]
      /\ \A u \in Tabs : sock'[u] = IF u = t THEN NoSocket ELSE sock[u]
  BY <1>1 DEF Types, PagesTyped, WiresTyped
<1>4. Types'
  <2>1. down' \in [Sockets -> Seq(Notices)]
    BY <1>1, <1>3
  <2> QED
    BY <1>1, <1>3, <2>1
       DEF Types, StoreTyped, RoomTyped, SessionsTyped, PagesTyped, WiresTyped, store, room
<1>5. SessionInv'
  BY <1>1, SessionKept DEF room
<1>6. AskInv'
  <2> SUFFICES ASSUME NEW u \in Tabs PROVE AskedOf(u)'
    BY DEF AskInv
  <2>1. Asked(u)' = Asked(u) /\ (Contributes(u, seen, mic)' <=> Contributes(u, seen, mic))
    BY <1>1 DEF Asked, Contributes
  <2>2. CASE u = t
    BY <1>1, <1>2, <1>3, <2>2, NothingComing DEF AskedOf
  <2>3. CASE u # t
    BY <1>1, <1>3, <2>1, <2>3 DEF AskInv, AskedOf
  <2> QED
    BY <2>2, <2>3
<1>7. \A u \in Tabs : sock'[u] \in joined' =>
        sock[u] \in joined /\ sock'[u] = sock[u] /\ down'[sock[u]] = down[sock[u]]
  <2> SUFFICES ASSUME NEW u \in Tabs, sock'[u] \in joined'
               PROVE  sock[u] \in joined /\ sock'[u] = sock[u] /\ down'[sock[u]] = down[sock[u]]
    OBVIOUS
  <2>1. joined' = joined /\ joined \subseteq Sockets
    BY <1>1 DEF room, Types, RoomTyped
  <2>2. u # t /\ sock'[u] = sock[u] /\ sock[u] \in Sockets /\ sock[u] # sock[t]
    BY <1>2, <1>3, <2>1, TranscriptConstants
  <2> QED
    BY <1>1, <1>3, <2>1, <2>2
<1>8. BeliefInv'
  BY <1>1, <1>7, BeliefKept DEF store
<1>9. MirrorInv'
  BY <1>1, <1>7, MirrorKept DEF store
<1> QED
  BY <1>4, <1>5, <1>6, <1>8, <1>9

LEMMA ConnectStep ==
  ASSUME IInv, NEW t \in Tabs, NEW s \in Sockets, Connect(t, s) PROVE IInv'
<1> USE DEF IInv
<1> DEFINE join == [type |-> "join"]
<1>1. /\ sock[t] = NoSocket /\ s \notin opened /\ TabOf[s] = t
      /\ opened' = opened \cup {s} /\ live' = live \cup {s}
      /\ sock' = [sock EXCEPT ![t] = s]
      /\ up' = [up EXCEPT ![s] = Append(outbox[t], join)]
      /\ outbox' = [outbox EXCEPT ![t] = <<>>]
      /\ UNCHANGED <<store, sessions, refining, joined, stage, owner, stopping, orphans,
                     seen, mic, mirror, down, era, turns>>
  BY DEF Connect, providers, bounds
<1>2. s \notin joined /\ \A u \in Tabs : sock[u] # s
  BY <1>1, TranscriptConstants DEF Types, RoomTyped, PagesTyped
<1>3. /\ sock \in [Tabs -> Sockets \cup {NoSocket}]
      /\ up \in [Sockets -> Seq(Requests)] /\ outbox \in [Tabs -> Seq(Requests)]
      /\ \A u \in Tabs : sock'[u] = IF u = t THEN s ELSE sock[u]
  BY <1>1 DEF Types, PagesTyped, WiresTyped
<1>4. /\ join \in Requests /\ join \notin Asks /\ Append(outbox[t], join) \in Seq(Requests)
      /\ s # NoSocket
  BY <1>3, TranscriptConstants DEF Requests, Asks
<1>5. Types'
  <2>1. /\ up' \in [Sockets -> Seq(Requests)] /\ outbox' \in [Tabs -> Seq(Requests)]
        /\ \A u \in Tabs : sock'[u] # NoSocket => outbox'[u] = <<>>
    BY <1>1, <1>3, <1>4 DEF Types, WiresTyped
  <2>2. PagesTyped'
    BY <1>1, <1>3 DEF Types, PagesTyped
  <2>3. RoomTyped'
    BY <1>1 DEF Types, RoomTyped
  <2> QED
    BY <1>1, <2>1, <2>2, <2>3 DEF Types, StoreTyped, SessionsTyped, WiresTyped, store
<1>6. SessionInv'
  BY <1>1, SessionKept
<1>7. AskInv'
  <2> SUFFICES ASSUME NEW u \in Tabs PROVE AskedOf(u)'
    BY DEF AskInv
  <2>1. Asked(u)' = Asked(u) /\ (Contributes(u, seen, mic)' <=> Contributes(u, seen, mic))
    BY <1>1 DEF Asked, Contributes
  <2>2. CASE u = t
    <3>1. LatestOf(outbox[t], Asks, Asked(t)) /\ outbox[t] \in Seq(Requests)
      BY <1>1, <1>3 DEF AskInv, AskedOf
    <3>2. LatestOf(Append(outbox[t], join), Asks, Asked(t))
      BY <1>4, <3>1, LatestAppended
    <3>3. sessions'[s] = NoSession
      BY <1>1, <1>2 DEF SessionInv, Mapped
    <3>4. up'[s] = Append(outbox[t], join) /\ sock'[t] = s
      BY <1>1, <1>3
    <3> QED
      BY <1>4, <2>1, <2>2, <3>2, <3>3, <3>4 DEF AskedOf
  <2>3. CASE u # t
    <3>1. outbox'[u] = outbox[u] /\ sock'[u] = sock[u] /\ sessions' = sessions
      BY <1>1, <1>3, <2>3
    <3>2. ASSUME sock[u] # NoSocket PROVE up'[sock[u]] = up[sock[u]]
      <4>1. sock[u] \in Sockets
        BY <3>2, Connections
      <4> QED
        BY <1>1, <1>2, <1>3, <4>1
    <3> QED
      BY <2>1, <3>1, <3>2 DEF AskInv, AskedOf
  <2> QED
    BY <2>2, <2>3
<1>8. \A u \in Tabs : sock'[u] \in joined' =>
        sock[u] \in joined /\ sock'[u] = sock[u] /\ down'[sock[u]] = down[sock[u]]
  BY <1>1, <1>2, <1>3
<1>9. BeliefInv'
  BY <1>1, <1>8, BeliefKept DEF store
<1>10. MirrorInv'
  BY <1>1, <1>8, MirrorKept DEF store
<1> QED
  BY <1>5, <1>6, <1>7, <1>9, <1>10

LEMMA KeptIds ==
  ASSUME StoreTyped, Numbered, NEW e \in Kept
  PROVE  e \in Entries /\ e.id \in Ids
<1>1. e \in Entries /\ e.id \in 1..(nextSequence - 1)
  BY DEF StoreTyped, Numbered, Kept
<1>2. nextSequence \in 1..(turns + 1) /\ turns \in 0..MaxTurns /\ MaxTurns \in Nat
  BY TranscriptConstants DEF StoreTyped
<1> QED
  BY <1>1, <1>2 DEF Ids

(* what the notice at the head of its channel does to a page *)
LEMMA Received ==
  ASSUME IInv, NEW t \in Tabs, Receive(t)
  PROVE  LET m == Head(down[sock[t]]) IN
         /\ m \in Notices
         /\ m \in Telling => \A u \in Tabs : u \in seen' <=> IF u = t THEN m.active ELSE u \in seen
         /\ m \notin Telling => seen' = seen
         /\ mirror' \in [Tabs -> [Ids -> Entries]]
         /\ \A u \in Tabs \ {t} : mirror'[u] = mirror[u]
         /\ \A i \in Ids : m \notin About(i) => mirror'[t][i] = mirror[t][i]
         /\ \A e \in Entries : e.id \in Ids /\ m \in Showing(e) => mirror'[t][e.id] = e
<1> USE DEF IInv
<1> DEFINE m == Head(down[sock[t]])
<1>1. /\ sock[t] # NoSocket /\ down[sock[t]] # <<>>
      /\ seen' = IF m.type \notin {"state", "snapshot"} THEN seen
                 ELSE IF m.active THEN seen \cup {t} ELSE seen \ {t}
      /\ mirror' = IF m.type = "segment" THEN [mirror EXCEPT ![t] = Merge(@, {m.entry})]
                   ELSE IF m.type = "snapshot" THEN [mirror EXCEPT ![t] = Merge(@, m.list)]
                   ELSE mirror
  BY DEF Receive
<1>2. m \in Notices
  BY <1>1, Connections, TailEntries
<1>3. mirror \in [Tabs -> [Ids -> Entries]] /\ seen \subseteq Tabs
  BY DEF Types, PagesTyped
<1> HIDE DEF m
<1>4. m \in Telling <=> m.type \in {"state", "snapshot"}
  BY <1>2 DEF Notices, Telling, StateNotices, SegmentNotices, SnapshotNotices
<1>5. CASE m \in StateNotices
  <2>1. m.type = "state"
    BY <1>5 DEF StateNotices
  <2>2. (\A i : m \notin About(i)) /\ (\A e : m \notin Showing(e))
    BY <2>1 DEF About, Showing, SegmentNotices, SnapshotNotices
  <2>3. mirror' = mirror
    BY <1>1, <2>1
  <2> QED
    BY <1>1, <1>2, <1>3, <1>4, <2>1, <2>2, <2>3 DEF m
<1>6. CASE m \in SegmentNotices
  <2>1. m.type = "segment" /\ m.entry \in Entries
    BY <1>6 DEF SegmentNotices
  <2>2. mirror' = [mirror EXCEPT ![t] = Merge(@, {m.entry})] /\ {m.entry} \in SUBSET Entries
    BY <1>1, <2>1
  <2>3. mirror'[t] = Merge(mirror[t], {m.entry}) /\ mirror[t] \in [Ids -> Entries]
    BY <1>3, <2>2
  <2>4. Merge(mirror[t], {m.entry}) \in [Ids -> Entries]
    BY <2>2, <2>3, MergeType
  <2>5. mirror' \in [Tabs -> [Ids -> Entries]] /\ \A u \in Tabs \ {t} : mirror'[u] = mirror[u]
    BY <1>3, <2>2, <2>4
  <2>6. ASSUME NEW i \in Ids, m \notin About(i) PROVE mirror'[t][i] = mirror[t][i]
    <3>1. {d \in {m.entry} : d.id = i} = {}
      BY <1>6, <2>6 DEF About
    <3> QED
      BY <2>3, <3>1, Merged
  <2>7. ASSUME NEW e \in Entries, e.id \in Ids, m \in Showing(e) PROVE mirror'[t][e.id] = e
    <3>1. m.entry = e
      BY <2>1, <2>7 DEF Showing, SnapshotNotices
    <3>2. {d \in {m.entry} : d.id = e.id} = {e}
      BY <3>1
    <3> QED
      BY <2>3, <2>7, <3>2, Merged
  <2>8. m \notin Telling /\ seen' = seen
    BY <1>1, <1>4, <2>1
  <2> QED
    BY <1>2, <2>5, <2>6, <2>7, <2>8 DEF m
<1>7. CASE m \in SnapshotNotices
  <2>1. m.type = "snapshot" /\ m.list \in SUBSET Entries /\ m.active \in BOOLEAN
    BY <1>7 DEF SnapshotNotices
  <2>2. mirror' = [mirror EXCEPT ![t] = Merge(@, m.list)]
    BY <1>1, <2>1
  <2>3. mirror'[t] = Merge(mirror[t], m.list) /\ mirror[t] \in [Ids -> Entries]
    BY <1>3, <2>2
  <2>4. Merge(mirror[t], m.list) \in [Ids -> Entries]
    BY <2>1, <2>3, MergeType
  <2>5. mirror' \in [Tabs -> [Ids -> Entries]] /\ \A u \in Tabs \ {t} : mirror'[u] = mirror[u]
    BY <1>3, <2>2, <2>4
  <2>6. ASSUME NEW i \in Ids, m \notin About(i) PROVE mirror'[t][i] = mirror[t][i]
    <3>1. {d \in m.list : d.id = i} = {}
      BY <1>7, <2>6 DEF About
    <3> QED
      BY <2>3, <3>1, Merged
  <2>7. ASSUME NEW e \in Entries, e.id \in Ids, m \in Showing(e) PROVE mirror'[t][e.id] = e
    <3>1. {d \in m.list : d.id = e.id} = {e}
      BY <2>1, <2>7 DEF Showing, SegmentNotices
    <3> QED
      BY <2>3, <2>7, <3>1, Merged
  <2>8. \A u \in Tabs : u \in seen' <=> IF u = t THEN m.active ELSE u \in seen
    BY <1>1, <1>3, <2>1
  <2> QED
    BY <1>2, <1>4, <2>1, <2>5, <2>6, <2>7, <2>8 DEF m
<1> QED
  BY <1>2, <1>5, <1>6, <1>7 DEF Notices

LEMMA ReceiveStep ==
  ASSUME IInv, NEW t \in Tabs, Receive(t) PROVE IInv'
<1> USE DEF IInv
<1> DEFINE s == sock[t]
           m == Head(down[s])
<1>1. /\ s # NoSocket /\ down[s] # <<>> /\ down' = [down EXCEPT ![s] = Tail(@)]
      /\ SetContribution(t, seen', mic)
      /\ UNCHANGED <<store, sessions, refining, room, stage, owner, stopping, orphans,
                     opened, sock, mic, era, turns>>
  BY DEF Receive, server, providers, bounds
<1>2. /\ m \in Notices
      /\ m \in Telling => \A u \in Tabs : u \in seen' <=> IF u = t THEN m.active ELSE u \in seen
      /\ m \notin Telling => seen' = seen
      /\ mirror' \in [Tabs -> [Ids -> Entries]]
      /\ \A u \in Tabs \ {t} : mirror'[u] = mirror[u]
      /\ \A i \in Ids : m \notin About(i) => mirror'[t][i] = mirror[t][i]
      /\ \A e \in Entries : e.id \in Ids /\ m \in Showing(e) => mirror'[t][e.id] = e
  BY Received
<1>3. /\ s \in Sockets /\ down \in [Sockets -> Seq(Notices)] /\ down[s] \in Seq(Notices)
      /\ \A u \in Tabs : sock[u] = s => u = t
  BY <1>1, Connections DEF Types, WiresTyped
<1>4. /\ down' \in [Sockets -> Seq(Notices)] /\ down'[s] = Tail(down[s])
      /\ \A r \in Sockets \ {s} : down'[r] = down[r]
  <2>1. Tail(down[s]) \in Seq(Notices)
    BY <1>1, <1>3, TailEntries
  <2> QED
    BY <1>1, <1>3, <2>1
<1>5. seen' \subseteq Tabs /\ \A u \in Tabs \ {t} : u \in seen' <=> u \in seen
  <2>1. seen' = seen \/ seen' = seen \cup {t} \/ seen' = seen \ {t}
    BY DEF Receive
  <2> QED
    BY <2>1 DEF Types, PagesTyped
<1>6. Types'
  <2>1. /\ up' \in [Sockets -> Seq(Requests)] /\ outbox' \in [Tabs -> Seq(Requests)]
        /\ \A u \in Tabs : sock[u] # NoSocket => outbox'[u] = <<>>
    BY <1>1, ContributedTypes
  <2> QED
    BY <1>1, <1>2, <1>4, <1>5, <2>1
       DEF Types, StoreTyped, RoomTyped, SessionsTyped, PagesTyped, WiresTyped, store, room
<1>7. SessionInv'
  BY <1>1, SessionKept DEF room
<1>8. AskInv'
  <2>1. SetContribution(t, seen', mic')
    BY <1>1 DEF SetContribution, Contribution
  <2> QED
    BY <1>1, <1>5, <2>1, AskSet
<1>9. \A u \in Tabs \ {t} : sock[u] \in joined => down'[sock[u]] = down[sock[u]]
  BY <1>3, <1>4 DEF Types, RoomTyped
<1> HIDE DEF m, s
<1>10. BeliefInv'
  <2>0. TellingNow' = TellingNow /\ active' = active /\ joined' = joined /\ sock' = sock
    BY <1>1 DEF TellingNow, store, room
  <2> SUFFICES ASSUME NEW u \in Tabs, sock[u] \in joined PROVE BelievedBy(u)'
    BY <2>0 DEF BeliefInv, BelievedBy
  <2>1. BelievedBy(u)
    BY DEF BeliefInv
  <2>2. CASE u # t
    BY <1>5, <1>9, <2>0, <2>1, <2>2 DEF BelievedBy
  <2>3. CASE u = t
    <3>1. LatestOf(down[s], Telling, TellingNow)
      BY <2>1, <2>3 DEF BelievedBy, s
    <3>2. /\ LatestOf(down'[s], Telling, TellingNow)
          /\ NoneOf(down'[s], Telling) =>
               (NoneOf(down[s], Telling) /\ m \notin Telling) \/ (m \in Telling /\ m \in TellingNow)
      BY <1>1, <1>3, <1>4, <3>1, LatestOfTail DEF m
    <3>3. ASSUME NoneOf(down[s], Telling), m \notin Telling PROVE t \in seen' <=> active
      BY <1>2, <2>1, <2>3, <3>3 DEF BelievedBy, s
    <3>4. ASSUME m \in Telling, m \in TellingNow PROVE t \in seen' <=> active
      BY <1>2, <3>4 DEF TellingNow
    <3> QED
      BY <2>0, <2>3, <3>2, <3>3, <3>4 DEF BelievedBy, s
  <2> QED
    BY <2>2, <2>3
<1>11. MirrorInv'
  <2>0. Kept' = Kept /\ joined' = joined /\ sock' = sock /\ nextSequence' = nextSequence
    BY <1>1 DEF Kept, store, room
  <2>1. Numbered'
    BY <2>0 DEF MirrorInv, Numbered
  <2> SUFFICES ASSUME NEW u \in Tabs, sock[u] \in joined, NEW e \in Kept PROVE ShownTo(u, e)'
    BY <2>0, <2>1 DEF MirrorInv, Mirrored
  <2>2. ShownTo(u, e)
    BY DEF MirrorInv, Mirrored
  <2>3. CASE u # t
    BY <1>2, <1>9, <2>0, <2>2, <2>3 DEF ShownTo
  <2>4. CASE u = t
    <3>0. e \in Entries /\ e.id \in Ids
      BY KeptIds DEF Types, MirrorInv
    <3>1. LatestOf(down[s], About(e.id), Showing(e))
      BY <2>2, <2>4 DEF ShownTo, s
    <3>2. /\ LatestOf(down'[s], About(e.id), Showing(e))
          /\ NoneOf(down'[s], About(e.id)) =>
               \/ NoneOf(down[s], About(e.id)) /\ m \notin About(e.id)
               \/ m \in About(e.id) /\ m \in Showing(e)
      BY <1>1, <1>3, <1>4, <3>1, LatestOfTail DEF m
    <3>3. ASSUME NoneOf(down[s], About(e.id)), m \notin About(e.id) PROVE mirror'[t][e.id] = e
      BY <1>2, <2>2, <2>4, <3>0, <3>3 DEF ShownTo, s
    <3>4. ASSUME m \in Showing(e) PROVE mirror'[t][e.id] = e
      BY <1>2, <3>0, <3>4
    <3> QED
      BY <2>0, <2>4, <3>2, <3>3, <3>4 DEF ShownTo, s
  <2> QED
    BY <2>3, <2>4
<1> QED
  BY <1>6, <1>7, <1>8, <1>10, <1>11

-----------------------------------------------------------------------------
(* the store, and the handlers of one socket *)

LEMMA StateTold ==
  ASSUME IInv, NEW b \in BOOLEAN, active' = b, down' = Broadcast(State(b)),
         UNCHANGED <<seen, sock, joined, entries, nextSequence, mirror>>
  PROVE  /\ down' \in [Sockets -> Seq(Notices)] /\ BeliefInv' /\ MirrorInv'
<1> USE DEF IInv
<1>1. State(b) \in Notices /\ State(b) \in Telling /\ State(b).active = b
  BY NoticeKinds
<1>2. Numbered' /\ Kept' = Kept
  BY DEF MirrorInv, Numbered, Kept
<1>3. ASSUME NEW e \in Kept PROVE State(b) \notin About(e.id)
  <2>1. e.id \in Nat
    BY KeptIds DEF Ids, Types, MirrorInv
  <2> QED
    BY <2>1, NoticeKinds
<1>4. BeliefInv'
  BY <1>1, BeliefHeard
<1>5. MirrorInv'
  BY <1>1, <1>2, <1>3, MirrorHeard
<1> QED
  BY <1>1, <1>4, <1>5, Emitted DEF Broadcast

LEMMA StartTranscriptStep == IInv /\ StartTranscript => IInv'
<1> SUFFICES ASSUME IInv, StartTranscript PROVE IInv'
  OBVIOUS
<1>1. /\ active' = TRUE /\ down' = Broadcast(State(TRUE))
      /\ UNCHANGED <<entries, nextSequence, sessions, refining, room, stage, owner, stopping, orphans,
                     opened, sock, outbox, seen, mic, mirror, up, era, turns>>
  BY DEF StartTranscript, Activate, providers, pages
<1>2. down' \in [Sockets -> Seq(Notices)] /\ BeliefInv' /\ MirrorInv'
  BY <1>1, StateTold DEF room
<1>3. Types'
  BY <1>1, <1>2 DEF IInv, Types, StoreTyped, RoomTyped, SessionsTyped, PagesTyped, WiresTyped, room
<1>4. SessionInv' /\ AskInv'
  BY <1>1, SessionKept, AskKept DEF IInv, room
<1> QED
  BY <1>2, <1>3, <1>4 DEF IInv

(* a request is taken from its channel *)
LEMMA TakenTypes ==
  ASSUME Types, NEW s \in Sockets, up[s] # <<>>, Handled(s)
  PROVE  up' \in [Sockets -> Seq(Requests)]
<1>1. up \in [Sockets -> Seq(Requests)] /\ Tail(up[s]) \in Seq(Requests)
  BY TailEntries DEF Types, WiresTyped
<1> QED
  BY <1>1 DEF Handled

LEMMA JoinRoomStep ==
  ASSUME IInv, NEW s \in Sockets, JoinRoom(s) PROVE IInv'
<1> USE DEF IInv
<1>1. /\ s \in live /\ up[s] # <<>> /\ Head(up[s]).type = "join" /\ Handled(s)
      /\ joined' = joined \cup {s} /\ down' = Emit({s}, Snapshot)
      /\ UNCHANGED <<store, sessions, refining, live, stage, owner, stopping, orphans,
                     opened, sock, outbox, seen, mic, mirror, era, turns>>
  BY DEF JoinRoom, Arrived, providers, pages, bounds
<1>2. /\ Snapshot \in Notices /\ Snapshot \in TellingNow
      /\ \A e \in Kept : Snapshot \in Showing(e)
  BY SnapshotKind DEF Types
<1>3. down' \in [Sockets -> Seq(Notices)]
  BY <1>1, <1>2, Emitted
<1>4. Types'
  <2>1. up' \in [Sockets -> Seq(Requests)]
    BY <1>1, TakenTypes
  <2> QED
    BY <1>1, <1>3, <2>1
       DEF Types, StoreTyped, RoomTyped, SessionsTyped, PagesTyped, WiresTyped, store
<1>5. SessionInv'
  BY <1>1, SessionKept
<1>6. AskInv'
  BY <1>1, AskTaken
<1>7. /\ TellingNow' = TellingNow /\ active' = active /\ Kept' = Kept /\ Numbered'
      /\ entries' = entries /\ nextSequence' = nextSequence
  BY <1>1 DEF TellingNow, Kept, MirrorInv, Numbered, store
<1>8. ASSUME NEW t \in Tabs, sock[t] \in joined', sock[t] # s
      PROVE  sock[t] \in joined /\ down'[sock[t]] = down[sock[t]]
  <2>1. sock[t] \in joined /\ sock[t] \in Sockets
    BY <1>1, <1>8 DEF Types, RoomTyped
  <2> QED
    BY <1>1, <1>2, <1>8, <2>1, Emitted
<1>9. ASSUME NEW t \in Tabs, sock[t] = s, NEW A, NEW G, Snapshot \in A, Snapshot \in G
      PROVE  LatestOf(down'[s], A, G) /\ ~NoneOf(down'[s], A)
  <2>1. Attached(s) /\ down[s] \in Seq(Notices)
    BY <1>9, TranscriptConstants, Connections
  <2>2. down'[s] = Append(down[s], Snapshot)
    BY <1>1, <1>2, <2>1, Emitted
  <2> QED
    BY <1>2, <1>9, <2>1, <2>2, LatestAppended
<1>10. BeliefInv'
  <2> SUFFICES ASSUME NEW t \in Tabs, sock[t] \in joined' PROVE BelievedBy(t)'
    BY <1>1 DEF BeliefInv, BelievedBy
  <2>1. CASE sock[t] = s
    <3>1. Snapshot \in Telling
      BY <1>2 DEF TellingNow
    <3> QED
      BY <1>1, <1>2, <1>7, <1>9, <2>1, <3>1 DEF BelievedBy
  <2>2. CASE sock[t] # s
    BY <1>1, <1>7, <1>8, <2>2 DEF BeliefInv, BelievedBy
  <2> QED
    BY <2>1, <2>2
<1>11. MirrorInv'
  <2> SUFFICES ASSUME NEW t \in Tabs, sock[t] \in joined', NEW e \in Kept PROVE ShownTo(t, e)'
    BY <1>1, <1>7 DEF MirrorInv, Mirrored
  <2>1. CASE sock[t] = s
    <3>1. Snapshot \in Showing(e) /\ Snapshot \in About(e.id)
      BY <1>2 DEF About, Showing
    <3> QED
      BY <1>1, <1>9, <2>1, <3>1 DEF ShownTo
  <2>2. CASE sock[t] # s
    BY <1>1, <1>8, <2>2 DEF MirrorInv, Mirrored, ShownTo
  <2> QED
    BY <2>1, <2>2
<1> QED
  BY <1>4, <1>5, <1>6, <1>10, <1>11

(* what leaves the transcript and the pages alone *)
LEMMA NothingTold ==
  ASSUME IInv, UNCHANGED <<active, entries, nextSequence, sock, seen, mirror, down>>,
         joined' \subseteq joined
  PROVE  BeliefInv' /\ MirrorInv'
<1>1. \A t \in Tabs : sock'[t] \in joined' =>
        sock[t] \in joined /\ sock'[t] = sock[t] /\ down'[sock[t]] = down[sock[t]]
  OBVIOUS
<1> QED
  BY <1>1, BeliefKept, MirrorKept DEF IInv

LEMMA RefuseContributorStep ==
  ASSUME IInv, NEW s \in Sockets, RefuseContributor(s) PROVE IInv'
<1> USE DEF IInv
<1>1. /\ up[s] # <<>> /\ Head(up[s]).type = "start" /\ Handled(s)
      /\ UNCHANGED <<store, sessions, refining, room, stage, owner, stopping, orphans,
                     opened, sock, outbox, seen, mic, mirror, down, era, turns>>
  BY DEF RefuseContributor, Arrived, server, pages, bounds
<1>2. Types'
  <2>1. up' \in [Sockets -> Seq(Requests)]
    BY <1>1, TakenTypes
  <2> QED
    BY <1>1, <2>1 DEF Types, StoreTyped, RoomTyped, SessionsTyped, PagesTyped, WiresTyped, store, room
<1>3. SessionInv' /\ AskInv'
  BY <1>1, SessionKept, AskTaken DEF room
<1>4. BeliefInv' /\ MirrorInv'
  BY <1>1, NothingTold DEF store, room
<1> QED
  BY <1>2, <1>3, <1>4

LEMMA StartContributorStep ==
  ASSUME IInv, NEW s \in Sockets, StartContributor(s) PROVE IInv'
<1> USE DEF IInv
<1> DEFINE x == CHOOSE x \in Unused : TRUE
<1>1. /\ up[s] # <<>> /\ Head(up[s]).type = "start" /\ Handled(s)
      /\ s \in joined /\ Unused # {}
      /\ IF sessions[s] # NoSession THEN UNCHANGED <<sessions, stage, owner>>
         ELSE /\ sessions' = [sessions EXCEPT ![s] = x]
              /\ stage' = [stage EXCEPT ![x] = "connecting"]
              /\ owner' = [owner EXCEPT ![x] = s]
      /\ UNCHANGED <<store, refining, room, stopping, orphans,
                     opened, sock, outbox, seen, mic, mirror, down, era, turns>>
  BY DEF StartContributor, Arrived, pages, bounds
<1>2. x \in Sessions /\ stage[x] = "none"
  BY <1>1 DEF Unused
<1> HIDE DEF x
<1>3. /\ sessions \in [Sockets -> Sessions \cup {NoSession}] /\ stage \in [Sessions -> Stages]
      /\ owner \in [Sessions -> Sockets \cup {NoSocket}]
  BY DEF Types, SessionsTyped
<1>4. Types'
  <2>1. up' \in [Sockets -> Seq(Requests)]
    BY <1>1, TakenTypes
  <2>2. SessionsTyped'
    BY <1>1, <1>2, <1>3 DEF Types, SessionsTyped, Stages
  <2> QED
    BY <1>1, <2>1, <2>2 DEF Types, StoreTyped, RoomTyped, PagesTyped, WiresTyped, store, room
<1>5. SessionInv'
  <2>1. CASE sessions[s] # NoSession
    BY <1>1, <2>1, SessionKept DEF room
  <2>2. CASE sessions[s] = NoSession
    <3>1. /\ \A r \in Sockets : sessions'[r] = IF r = s THEN x ELSE sessions[r]
          /\ \A y \in Sessions : stage'[y] = IF y = x THEN "connecting" ELSE stage[y]
          /\ \A y \in Sessions : owner'[y] = IF y = x THEN s ELSE owner[y]
          /\ joined' = joined /\ stopping' = stopping /\ orphans' = orphans
      BY <1>1, <1>3, <2>2 DEF room
    <3>2. x \notin stopping /\ \A r \in Sockets : sessions[r] # x
      BY <1>2, TranscriptConstants DEF SessionInv, Started, Mapped
    <3>3. Started' /\ Ending'
      BY <3>1, <3>2 DEF SessionInv, Started, Ending, Types, SessionsTyped
    <3>4. Mapped'
      <4> SUFFICES ASSUME NEW r \in Sockets, sessions'[r] # NoSession
                   PROVE  LET y == sessions'[r] IN
                          /\ r \in joined /\ y \notin stopping
                          /\ stage'[y] # "none" /\ owner'[y] = r
        BY <3>1 DEF Mapped
      <4>1. CASE r = s
        BY <1>1, <1>2, <3>1, <3>2, <4>1
      <4>2. CASE r # s
        <5>1. /\ sessions[r] \in Sessions /\ sessions[r] # x /\ sessions'[r] = sessions[r]
              /\ r \in joined /\ sessions[r] \notin stopping
              /\ stage[sessions[r]] # "none" /\ owner[sessions[r]] = r
          BY <1>3, <3>1, <3>2, <4>2 DEF SessionInv, Mapped
        <5> QED
          BY <3>1, <5>1
      <4> QED
        BY <4>1, <4>2
    <3>5. Found'
      <4> SUFFICES ASSUME NEW y \in Sessions \ (stopping \cup orphans), stage'[y] \in Running
                   PROVE  sessions'[owner'[y]] = y
        BY <3>1 DEF Found
      <4>1. CASE y = x
        BY <3>1, <4>1
      <4>2. CASE y # x
        <5>1. stage[y] \in Running /\ sessions[owner[y]] = y /\ owner[y] \in Sockets
          BY <3>1, <4>2 DEF SessionInv, Found, Started, Running
        <5>2. owner[y] # s
          BY <2>2, <5>1, TranscriptConstants
        <5> QED
          BY <3>1, <4>2, <5>1, <5>2
      <4> QED
        BY <4>1, <4>2
    <3> QED
      BY <3>3, <3>4, <3>5 DEF SessionInv
  <2> QED
    BY <2>1, <2>2
<1>6. AskInv'
  BY <1>1, <1>3, AskTaken
<1>7. BeliefInv' /\ MirrorInv'
  BY <1>1, NothingTold DEF store, room
<1> QED
  BY <1>4, <1>5, <1>6, <1>7

LEMMA StopContributorStep ==
  ASSUME IInv, NEW s \in Sockets, StopContributor(s) PROVE IInv'
<1> USE DEF IInv
<1> DEFINE ss == {sessions[s]} \ {NoSession}
<1>1. /\ up[s] # <<>> /\ Head(up[s]).type = "stop" /\ Handled(s) /\ StopSessions(ss)
      /\ UNCHANGED <<store, refining, room, owner, orphans,
                     opened, sock, outbox, seen, mic, mirror, down, era, turns>>
  BY DEF StopContributor, Arrived, pages, bounds
<1>2. /\ SessionsTyped' /\ SessionInv'
      /\ \A r \in Sockets : sessions'[r] # NoSession => sessions[r] # NoSession
  BY <1>1, SessionStopped DEF room
<1>3. sessions'[s] = NoSession
  BY <1>1 DEF StopSessions
<1>4. Types'
  <2>1. up' \in [Sockets -> Seq(Requests)]
    BY <1>1, TakenTypes
  <2> QED
    BY <1>1, <1>2, <2>1 DEF Types, StoreTyped, RoomTyped, PagesTyped, WiresTyped, store, room
<1>5. AskInv'
  BY <1>1, <1>2, <1>3, AskTaken
<1>6. BeliefInv' /\ MirrorInv'
  BY <1>1, NothingTold DEF store, room
<1> QED
  BY <1>2, <1>4, <1>5, <1>6

LEMMA DisconnectStep ==
  ASSUME IInv, NEW s \in Sockets, Disconnect(s) PROVE IInv'
<1> USE DEF IInv
<1> DEFINE ss == {sessions[s]} \ {NoSession}
<1>1. /\ live' = live \ {s} /\ joined' = joined \ {s}
      /\ up' = [up EXCEPT ![s] = <<>>] /\ StopSessions(ss)
      /\ UNCHANGED <<store, refining, owner, orphans,
                     opened, sock, outbox, seen, mic, mirror, down, era, turns>>
  BY DEF Disconnect, pages, bounds
<1>2. /\ SessionsTyped' /\ SessionInv'
      /\ \A r \in Sockets : sessions'[r] # NoSession => sessions[r] # NoSession
  BY <1>1, SessionStopped
<1>3. sessions'[s] = NoSession
  BY <1>1 DEF StopSessions
<1>4. /\ up' \in [Sockets -> Seq(Requests)] /\ up'[s] = <<>>
      /\ \A r \in Sockets \ {s} : up'[r] = up[r]
  BY <1>1 DEF Types, WiresTyped
<1>5. Types'
  BY <1>1, <1>2, <1>4 DEF Types, StoreTyped, RoomTyped, PagesTyped, WiresTyped, store
<1>6. AskInv'
  <2> SUFFICES ASSUME NEW t \in Tabs PROVE AskedOf(t)'
    BY DEF AskInv
  <2>1. Asked(t)' = Asked(t) /\ (Contributes(t, seen, mic)' <=> Contributes(t, seen, mic))
    BY <1>1 DEF Asked, Contributes
  <2>2. CASE sock[t] = s /\ s # NoSocket
    BY <1>1, <1>3, <1>4, <2>2, NothingComing DEF AskedOf
  <2>3. CASE sock[t] # s /\ sock[t] # NoSocket
    <3>1. sock[t] \in Sockets
      BY <2>3, Connections
    <3> QED
      BY <1>1, <1>2, <1>4, <2>1, <2>3, <3>1 DEF AskInv, AskedOf
  <2>4. CASE sock[t] = NoSocket
    BY <1>1, <2>1, <2>4 DEF AskInv, AskedOf
  <2> QED
    BY <2>2, <2>3, <2>4
<1>7. BeliefInv' /\ MirrorInv'
  BY <1>1, NothingTold DEF store
<1> QED
  BY <1>2, <1>5, <1>6, <1>7

-----------------------------------------------------------------------------
(* the providers *)

(* a session goes on by itself *)
LEMMA StageMoved ==
  ASSUME IInv, NEW x \in Sessions, NEW to \in Stages, stage' = [stage EXCEPT ![x] = to],
         stage[x] # "none", to # "none",
         x \in stopping => to = "closed", to \in Running => stage[x] \in Running,
         UNCHANGED <<server, owner, stopping, orphans, pages, up, down, bounds>>
  PROVE  IInv'
<1> USE DEF IInv
<1>1. UNCHANGED <<active, entries, nextSequence, sessions, refining, live, joined, owner, stopping, orphans,
                  opened, sock, outbox, seen, mic, mirror, up, down, era, turns>>
  BY DEF server, store, room, pages, bounds
<1>2. stage \in [Sessions -> Stages]
  BY DEF Types, SessionsTyped
<1>3. \A y \in Sessions : stage'[y] = IF y = x THEN to ELSE stage[y]
  BY <1>2
<1>4. Types'
  BY <1>1, <1>2 DEF Types, StoreTyped, RoomTyped, SessionsTyped, PagesTyped, WiresTyped
<1>5. SessionInv'
  <2>1. Started' /\ Ending'
    BY <1>1, <1>3 DEF SessionInv, Started, Ending, Types, SessionsTyped
  <2>2. Mapped'
    BY <1>1, <1>3 DEF SessionInv, Mapped, Types, SessionsTyped
  <2>3. Found'
    BY <1>1, <1>3 DEF SessionInv, Found
  <2> QED
    BY <2>1, <2>2, <2>3 DEF SessionInv
<1>6. AskInv'
  BY <1>1, AskKept
<1>7. BeliefInv' /\ MirrorInv'
  BY <1>1, NothingTold
<1> QED
  BY <1>4, <1>5, <1>6, <1>7

LEMMA ProviderStep ==
  ASSUME IInv, NEW x \in Sessions,
         ProviderAnswered(x) \/ ProviderOpened(x) \/ ProviderClosed(x)
  PROVE  IInv'
<1>1. CASE ProviderAnswered(x)
  <2> DEFINE to == IF x \in stopping THEN "closed" ELSE "opening"
  <2>1. /\ stage[x] = "connecting" /\ stage' = [stage EXCEPT ![x] = to]
        /\ UNCHANGED <<server, owner, stopping, orphans, pages, up, down, bounds>>
    BY <1>1 DEF ProviderAnswered
  <2>2. to \in Stages /\ to # "none" /\ (x \in stopping => to = "closed")
    BY DEF Stages
  <2>3. stage[x] # "none" /\ stage[x] \in Running
    BY <2>1 DEF Running
  <2> HIDE DEF to
  <2> QED
    BY <2>1, <2>2, <2>3, StageMoved
<1>2. CASE ProviderOpened(x)
  <2>1. /\ stage[x] = "opening" /\ stage' = [stage EXCEPT ![x] = "open"]
        /\ UNCHANGED <<server, owner, stopping, orphans, pages, up, down, bounds>>
    BY <1>2 DEF ProviderOpened
  <2>2. "open" \in Stages /\ "open" # "none" /\ x \notin stopping
    BY <2>1 DEF Stages, IInv, SessionInv, Ending
  <2>3. stage[x] # "none" /\ stage[x] \in Running
    BY <2>1 DEF Running
  <2> QED
    BY <2>1, <2>2, <2>3, StageMoved
<1>3. CASE ProviderClosed(x)
  <2>1. /\ stage[x] = "open" /\ stage' = [stage EXCEPT ![x] = "opening"]
        /\ UNCHANGED <<server, owner, stopping, orphans, pages, up, down, bounds>>
    BY <1>3 DEF ProviderClosed
  <2>2. "opening" \in Stages /\ x \notin stopping
    BY <2>1 DEF Stages, IInv, SessionInv, Ending
  <2>3. stage[x] # "none" /\ stage[x] \in Running
    BY <2>1 DEF Running
  <2> QED
    BY <2>1, <2>2, <2>3, StageMoved
<1> QED
  BY <1>1, <1>2, <1>3

LEMMA ProviderRefusedStep ==
  ASSUME IInv, NEW x \in Sessions, ProviderRefused(x) PROVE IInv'
<1> USE DEF IInv
<1> DEFINE s == owner[x]
           y == sessions[s]
<1>1. /\ stage[x] = "connecting" /\ stage' = [stage EXCEPT ![x] = "closed"]
      /\ sessions' = [sessions EXCEPT ![s] = NoSession]
      /\ orphans' = orphans \cup ({y} \ {x, NoSession})
      /\ UNCHANGED <<active, entries, nextSequence, refining, live, joined, owner, stopping,
                     opened, sock, outbox, seen, mic, mirror, up, down, era, turns>>
  BY DEF ProviderRefused, store, room, pages, bounds
<1>2. /\ stage \in [Sessions -> Stages] /\ sessions \in [Sockets -> Sessions \cup {NoSession}]
      /\ s \in Sockets /\ y \in Sessions \cup {NoSession}
  BY <1>1 DEF Types, SessionsTyped, SessionInv, Started
<1>3. /\ \A z \in Sessions : stage'[z] = IF z = x THEN "closed" ELSE stage[z]
      /\ \A r \in Sockets : sessions'[r] = IF r = s THEN NoSession ELSE sessions[r]
  BY <1>1, <1>2
<1>4. Types'
  <2>1. SessionsTyped'
    BY <1>1, <1>2 DEF Types, SessionsTyped, Stages
  <2> QED
    BY <1>1, <2>1 DEF Types, StoreTyped, RoomTyped, PagesTyped, WiresTyped
<1>5. SessionInv'
  <2>1. Started' /\ Ending'
    BY <1>1, <1>3 DEF SessionInv, Started, Ending, Types, SessionsTyped
  <2>2. Mapped'
    BY <1>1, <1>2, <1>3 DEF SessionInv, Mapped
  <2>3. Found'
    <3> SUFFICES ASSUME NEW z \in Sessions \ (stopping \cup orphans'), stage'[z] \in Running
                 PROVE  sessions'[owner[z]] = z
      BY <1>1 DEF Found
    <3>1. z # x /\ stage[z] \in Running /\ z \notin orphans
      BY <1>1, <1>3 DEF Running
    <3>2. sessions[owner[z]] = z /\ owner[z] \in Sockets
      BY <3>1 DEF SessionInv, Found, Started, Running
    <3>3. owner[z] # s
      BY <1>1, <3>1, <3>2, TranscriptConstants
    <3> QED
      BY <1>3, <3>2, <3>3
  <2> QED
    BY <2>1, <2>2, <2>3 DEF SessionInv
<1>6. AskInv'
  <2>1. \A r \in Sockets : sessions'[r] # NoSession => sessions[r] # NoSession
    BY <1>3
  <2> HIDE DEF s, y
  <2>2. \A t \in Tabs : sock[t] # NoSocket =>
          /\ up'[sock[t]] = up[sock[t]]
          /\ sessions'[sock[t]] # NoSession => sessions[sock[t]] # NoSession
    BY <1>1, <2>1, Connections
  <2> QED
    BY <1>1, <2>2, AskKept
<1>7. BeliefInv' /\ MirrorInv'
  BY <1>1, NothingTold
<1> QED
  BY <1>4, <1>5, <1>6, <1>7

(* the entry of a turn: at the end of those kept, perhaps in place of the first *)
LEMMA KeptAppended ==
  ASSUME StoreTyped, NEW e \in Entries, AppendSegment(e)
  PROVE  entries' \in Seq(Entries) /\ Kept' \subseteq Kept \cup {e}
<1> DEFINE all == Append(entries, e)
<1>1. /\ all \in Seq(Entries) /\ DOMAIN all = 1..(Len(entries) + 1) /\ all # <<>>
      /\ DOMAIN entries = 1..Len(entries) /\ Len(entries) \in Nat
      /\ all[Len(entries) + 1] = e /\ \A i \in 1..Len(entries) : all[i] = entries[i]
  <2>1. entries \in Seq(Entries)
    BY DEF StoreTyped
  <2>2. /\ all \in Seq(Entries) /\ DOMAIN all = 1..(Len(entries) + 1)
        /\ DOMAIN entries = 1..Len(entries) /\ Len(entries) \in Nat
        /\ all[Len(entries) + 1] = e /\ \A i \in 1..Len(entries) : all[i] = entries[i]
    BY <2>1, AppendEntries
  <2>3. Len(entries) + 1 \in DOMAIN all
    BY <2>2
  <2>4. all # <<>>
    BY <2>2, <2>3
  <2> QED
    BY <2>2, <2>4
<1>2. \A i \in DOMAIN all : all[i] \in Kept \cup {e}
  BY <1>1 DEF Kept
<1>3. entries' = all \/ entries' = Tail(all)
  BY DEF AppendSegment
<1> HIDE DEF all
<1>4. CASE entries' = all
  BY <1>1, <1>2, <1>4 DEF Kept
<1>5. CASE entries' = Tail(all)
  <2>1. /\ Tail(all) \in Seq(Entries) /\ Len(Tail(all)) \in Nat
        /\ DOMAIN Tail(all) = 1..Len(Tail(all)) /\ DOMAIN all = 1..(Len(Tail(all)) + 1)
        /\ \A i \in 1..Len(Tail(all)) : Tail(all)[i] = all[i + 1]
    BY <1>1, TailEntries
  <2>2. \A i \in DOMAIN Tail(all) : i + 1 \in DOMAIN all /\ Tail(all)[i] = all[i + 1]
    BY <2>1
  <2> QED
    BY <1>2, <1>5, <2>1, <2>2 DEF Kept
<1> QED
  BY <1>3, <1>4, <1>5

LEMMA TurnHeardStep ==
  ASSUME IInv, NEW x \in Sessions, TurnHeard(x) PROVE IInv'
<1> USE DEF IInv
<1> DEFINE e == [id |-> nextSequence, era |-> era, refined |-> FALSE]
<1>1. /\ turns < MaxTurns /\ turns' = turns + 1 /\ nextSequence' = nextSequence + 1
      /\ AppendSegment(e) /\ down' = Broadcast(Segment(e))
      /\ refining' \subseteq refining \cup {e}
      /\ UNCHANGED <<active, sessions, live, joined, stage, owner, stopping, orphans,
                     opened, sock, outbox, seen, mic, mirror, up, era>>
  BY DEF TurnHeard, OnFinal, room, providers, pages
<1>2. /\ nextSequence \in 1..(turns + 1) /\ turns \in 0..MaxTurns /\ MaxTurns \in Nat
      /\ era \in Nat /\ StoreTyped
  BY TranscriptConstants DEF Types, StoreTyped
<1>3. e \in Entries /\ e.id = nextSequence
  BY <1>2 DEF Entries
<1> HIDE DEF e
<1>4. entries' \in Seq(Entries) /\ Kept' \subseteq Kept \cup {e}
  BY <1>1, <1>2, <1>3, KeptAppended
<1>5. Types'
  <2>1. down' \in [Sockets -> Seq(Notices)]
    BY <1>1, <1>3, NoticeKinds, Emitted DEF Broadcast
  <2>2. turns' \in 0..MaxTurns /\ nextSequence' \in 1..(turns' + 1)
    BY <1>1, <1>2
  <2>3. StoreTyped'
    BY <1>1, <1>2, <1>3, <1>4, <2>2 DEF StoreTyped
  <2> QED
    BY <1>1, <2>1, <2>3 DEF Types, RoomTyped, SessionsTyped, PagesTyped, WiresTyped
<1>6. SessionInv' /\ AskInv'
  BY <1>1, SessionKept, AskKept
<1>7. \A d \in Kept : d \in Entries /\ d.id \in 1..(nextSequence - 1)
  BY KeptIds DEF MirrorInv, Numbered, Types
<1>8. \A d \in Kept : d.id # e.id /\ d.id \in 1..nextSequence
  BY <1>2, <1>3, <1>7
<1>9. Numbered'
  <2>1. e.id \in 1..(nextSequence' - 1) /\ nextSequence' - 1 = nextSequence
    BY <1>1, <1>2, <1>3
  <2> QED
    BY <1>4, <1>8, <2>1 DEF MirrorInv, Numbered
<1>10. BeliefInv'
  BY <1>1, <1>3, NoticeKinds, BeliefHeard
<1>11. MirrorInv'
  <2>1. ASSUME NEW d \in Kept'
        PROVE  IF Segment(e) \in About(d.id) THEN Segment(e) \in Showing(d) ELSE d \in Kept
    <3>1. CASE d = e
      BY <1>3, <3>1, NoticeKinds DEF Entries
    <3>2. CASE d # e
      <4>1. d \in Kept /\ d.id \in Nat /\ d.id # e.id
        BY <1>4, <1>7, <1>8, <3>2
      <4> QED
        BY <1>3, <4>1, NoticeKinds
    <3> QED
      BY <3>1, <3>2
  <2> QED
    BY <1>1, <1>3, <1>9, <2>1, NoticeKinds, MirrorHeard
<1> QED
  BY <1>5, <1>6, <1>10, <1>11

LEMMA RefinedStep ==
  ASSUME IInv, NEW e \in refining, Refined(e) PROVE IInv'
<1> USE DEF IInv
<1> DEFINE r == Refine(e)
<1>1. /\ refining' = refining \ {e}
      /\ IF \E i \in DOMAIN entries : entries[i].id = e.id
         THEN entries' = Revised(r) /\ down' = Broadcast(Segment(r))
         ELSE UNCHANGED <<entries, down>>
      /\ UNCHANGED <<active, nextSequence, sessions, live, joined, stage, owner, stopping, orphans,
                     opened, sock, outbox, seen, mic, mirror, up, era, turns>>
  BY DEF Refined, room, providers, pages, bounds
<1>2. r \in Entries /\ r.id = e.id
  BY DEF Types, StoreTyped, Entries, Refine
<1>3. SessionInv' /\ AskInv'
  BY <1>1, SessionKept, AskKept
<1>4. entries \in Seq(Entries) /\ Types
  BY DEF Types, StoreTyped
<1> HIDE DEF r
<1>5. CASE ~\E i \in DOMAIN entries : entries[i].id = e.id
  <2>1. UNCHANGED <<entries, down>>
    BY <1>1, <1>5
  <2>2. Types'
    BY <1>1, <2>1 DEF Types, StoreTyped, RoomTyped, SessionsTyped, PagesTyped, WiresTyped
  <2>3. BeliefInv' /\ MirrorInv'
    BY <1>1, <2>1, NothingTold
  <2> QED
    BY <1>3, <2>2, <2>3
<1>6. CASE \E i \in DOMAIN entries : entries[i].id = e.id
  <2>1. entries' = Revised(r) /\ down' = Broadcast(Segment(r))
    BY <1>1, <1>6
  <2>2. /\ DOMAIN entries' = DOMAIN entries
        /\ \A i \in DOMAIN entries : entries'[i] = IF entries[i].id = r.id THEN r ELSE entries[i]
    BY <2>1 DEF Revised
  <2>3. entries' \in Seq(Entries)
    <3>1. PICK n \in Nat : DOMAIN entries = 1..n
      BY <1>4
    <3>2. \A i \in 1..n : Revised(r)[i] \in Entries
      BY <1>2, <1>4, <2>1, <2>2, <3>1
    <3> QED
      BY <2>1, <3>1, <3>2 DEF Revised
  <2>4. \A d \in Kept' : d = r \/ (d \in Kept /\ d.id # r.id)
    BY <2>2 DEF Kept
  <2>5. r.id \in 1..(nextSequence - 1) /\ \A d \in Kept : d \in Entries
    BY <1>2, <1>4, <1>6, KeptIds DEF Kept, MirrorInv, Numbered, Types
  <2>6. Types'
    <3>1. down' \in [Sockets -> Seq(Notices)]
      BY <1>2, <2>1, NoticeKinds, Emitted DEF Broadcast
    <3> QED
      BY <1>1, <2>3, <3>1 DEF Types, StoreTyped, RoomTyped, SessionsTyped, PagesTyped, WiresTyped
  <2>7. Numbered'
    BY <1>1, <2>4, <2>5 DEF MirrorInv, Numbered
  <2>8. BeliefInv'
    BY <1>1, <1>2, <2>1, NoticeKinds, BeliefHeard
  <2>9. MirrorInv'
    <3>1. ASSUME NEW d \in Kept'
          PROVE  IF Segment(r) \in About(d.id) THEN Segment(r) \in Showing(d) ELSE d \in Kept
      <4>1. CASE d = r
        BY <1>2, <4>1, NoticeKinds DEF Entries
      <4>2. CASE d # r
        <5>1. d \in Kept /\ d.id # r.id /\ d.id \in Nat
          BY <2>4, <2>5, <4>2 DEF Entries
        <5> QED
          BY <1>2, <5>1, NoticeKinds
      <4> QED
        BY <4>1, <4>2
    <3> QED
      BY <1>1, <1>2, <2>1, <2>7, <3>1, NoticeKinds, MirrorHeard
  <2> QED
    BY <1>3, <2>6, <2>8, <2>9
<1> QED
  BY <1>5, <1>6

-----------------------------------------------------------------------------
(* the end of the transcript, of its sessions, and of the process *)

(* the store's part in both: the transcript ends now, or awaits a flush *)
LEMMA EndedOrWaiting ==
  ASSUME IInv, Deactivate \/ UNCHANGED <<active, down>>,
         UNCHANGED <<entries, nextSequence, joined, sock, seen, mirror>>
  PROVE  /\ active' \in BOOLEAN /\ down' \in [Sockets -> Seq(Notices)]
         /\ BeliefInv' /\ MirrorInv'
<1>1. CASE Deactivate
  <2>1. active' = FALSE /\ down' = Broadcast(State(FALSE))
    BY <1>1 DEF Deactivate
  <2> QED
    BY <2>1, StateTold
<1>2. CASE UNCHANGED <<active, down>>
  <2>1. BeliefInv' /\ MirrorInv'
    BY <1>2, NothingTold
  <2> QED
    BY <1>2, <2>1 DEF IInv, Types, StoreTyped, WiresTyped
<1> QED
  BY <1>1, <1>2

LEMMA StopTranscriptStep == IInv /\ StopTranscript => IInv'
<1> SUFFICES ASSUME IInv, StopTranscript PROVE IInv'
  OBVIOUS
<1> USE DEF IInv
<1> DEFINE ss == {sessions[s] : s \in Sockets} \ {NoSession}
<1>1. /\ StopSessions(ss)
      /\ Deactivate \/ UNCHANGED <<active, down>>
      /\ UNCHANGED <<entries, nextSequence, refining, room, owner, orphans,
                     opened, sock, outbox, seen, mic, mirror, up, era, turns>>
  BY DEF StopTranscript, pages
<1>2. /\ SessionsTyped' /\ SessionInv'
      /\ \A r \in Sockets : sessions'[r] # NoSession => sessions[r] # NoSession
  <2>1. ss \subseteq {sessions[s] : s \in Sockets} \ {NoSession}
    OBVIOUS
  <2>2. UNCHANGED <<owner, orphans, joined>>
    BY <1>1 DEF room
  <2> HIDE DEF ss
  <2> QED
    BY <1>1, <2>1, <2>2, SessionStopped
<1>3. /\ active' \in BOOLEAN /\ down' \in [Sockets -> Seq(Notices)]
      /\ BeliefInv' /\ MirrorInv'
  BY <1>1, EndedOrWaiting DEF room
<1>4. Types'
  BY <1>1, <1>2, <1>3 DEF Types, StoreTyped, RoomTyped, PagesTyped, WiresTyped, room
<1>5. AskInv'
  <2>1. \A t \in Tabs : sock[t] # NoSocket =>
          /\ up'[sock[t]] = up[sock[t]]
          /\ sessions'[sock[t]] # NoSession => sessions[sock[t]] # NoSession
    BY <1>1, <1>2, Connections
  <2> QED
    BY <1>1, <2>1, AskKept
<1> QED
  BY <1>2, <1>3, <1>4, <1>5

LEMMA FlushedStep ==
  ASSUME IInv, NEW x \in Sessions, Flushed(x) PROVE IInv'
<1> USE DEF IInv
<1>1. /\ stage[x] = "flushing" /\ stage' = [stage EXCEPT ![x] = "closed"]
      /\ Deactivate \/ UNCHANGED <<active, down>>
      /\ UNCHANGED <<entries, nextSequence, sessions, refining, live, joined, owner, stopping, orphans,
                     opened, sock, outbox, seen, mic, mirror, up, era, turns>>
  BY DEF Flushed, room, pages, bounds
<1>2. stage \in [Sessions -> Stages]
  BY DEF Types, SessionsTyped
<1>3. \A y \in Sessions : stage'[y] = IF y = x THEN "closed" ELSE stage[y]
  BY <1>1, <1>2
<1>4. /\ active' \in BOOLEAN /\ down' \in [Sockets -> Seq(Notices)]
      /\ BeliefInv' /\ MirrorInv'
  BY <1>1, EndedOrWaiting
<1>5. Types'
  <2>1. SessionsTyped'
    BY <1>1, <1>2 DEF Types, SessionsTyped, Stages
  <2> QED
    BY <1>1, <1>4, <2>1 DEF Types, StoreTyped, RoomTyped, PagesTyped, WiresTyped
<1>6. SessionInv'
  <2>1. Started' /\ Ending'
    BY <1>1, <1>3 DEF SessionInv, Started, Ending, Types, SessionsTyped
  <2>2. Mapped'
    BY <1>1, <1>3 DEF SessionInv, Mapped, Types, SessionsTyped
  <2>3. Found'
    BY <1>1, <1>3 DEF SessionInv, Found, Running
  <2> QED
    BY <2>1, <2>2, <2>3 DEF SessionInv
<1>7. AskInv'
  BY <1>1, AskKept
<1> QED
  BY <1>4, <1>5, <1>6, <1>7

LEMMA RestartStep == IInv /\ Restart => IInv'
<1> SUFFICES ASSUME IInv, Restart PROVE IInv'
  OBVIOUS
<1> USE DEF IInv
<1>1. /\ era' = era + 1 /\ active' = FALSE /\ entries' = <<>> /\ nextSequence' = 1
      /\ sessions' = [s \in Sockets |-> NoSession] /\ refining' = {}
      /\ live' = {} /\ joined' = {} /\ up' = [s \in Sockets |-> <<>>]
      /\ stage' = [x \in Sessions |-> IF stage[x] = "none" THEN "none" ELSE "closed"]
      /\ UNCHANGED <<owner, stopping, orphans,
                     opened, sock, outbox, seen, mic, mirror, down, turns>>
  BY DEF Restart, pages
<1>2. Types'
  <2>1. <<>> \in Seq(Entries) /\ <<>> \in Seq(Requests)
    OBVIOUS
  <2>2. turns \in 0..MaxTurns /\ MaxTurns \in Nat /\ era \in Nat
    BY TranscriptConstants DEF Types, StoreTyped
  <2>3. 1 \in 1..(turns + 1) /\ era + 1 \in Nat
    BY <2>2
  <2>4. StoreTyped'
    BY <1>1, <2>1, <2>2, <2>3 DEF StoreTyped
  <2>5. RoomTyped' /\ PagesTyped'
    BY <1>1 DEF Types, RoomTyped, PagesTyped
  <2>6. SessionsTyped' /\ WiresTyped'
    BY <1>1, <2>1 DEF Types, SessionsTyped, WiresTyped, Stages
  <2> QED
    BY <2>4, <2>5, <2>6 DEF Types
<1>3. SessionInv'
  <2>1. \A x \in Sessions : stage'[x] = IF stage[x] = "none" THEN "none" ELSE "closed"
    BY <1>1
  <2>2. Started' /\ Ending'
    BY <1>1, <2>1 DEF SessionInv, Started, Ending, Types, SessionsTyped
  <2>3. Mapped' /\ Found'
    BY <1>1, <2>1 DEF Mapped, Found, Running
  <2> QED
    BY <2>2, <2>3 DEF SessionInv
<1>4. AskInv'
  <2> SUFFICES ASSUME NEW t \in Tabs PROVE AskedOf(t)'
    BY DEF AskInv
  <2>1. Asked(t)' = Asked(t)
    BY <1>1 DEF Asked, Contributes
  <2>2. CASE sock[t] = NoSocket
    BY <1>1, <2>1, <2>2 DEF AskInv, AskedOf
  <2>3. CASE sock[t] # NoSocket
    <3>1. sock[t] \in Sockets
      BY <2>3, Connections
    <3>2. up'[sock[t]] = <<>> /\ sessions'[sock[t]] = NoSession
      BY <1>1, <3>1
    <3> QED
      BY <1>1, <2>3, <3>2, NothingComing DEF AskedOf
  <2> QED
    BY <2>2, <2>3
<1>5. BeliefInv'
  BY <1>1 DEF BeliefInv, BelievedBy
<1>6. MirrorInv'
  <2>1. Kept' = {}
    BY <1>1 DEF Kept
  <2> QED
    BY <2>1 DEF MirrorInv, Numbered, Mirrored
<1> QED
  BY <1>2, <1>3, <1>4, <1>5, <1>6

-----------------------------------------------------------------------------
(* every step *)

LEMMA NothingHappens == IInv /\ UNCHANGED vars => IInv'
<1> SUFFICES ASSUME IInv, UNCHANGED vars PROVE IInv'
  OBVIOUS
<1> USE DEF IInv
<1>1. UNCHANGED <<active, entries, nextSequence, sessions, refining, live, joined, stage, owner,
                  stopping, orphans, opened, sock, outbox, seen, mic, mirror, up, down, era, turns>>
  BY DEF vars, server, store, room, providers, pages, bounds
<1>2. Types'
  BY <1>1 DEF Types, StoreTyped, RoomTyped, SessionsTyped, PagesTyped, WiresTyped
<1>3. SessionInv' /\ AskInv'
  BY <1>1, SessionKept, AskKept
<1>4. BeliefInv' /\ MirrorInv'
  BY <1>1, NothingTold
<1> QED
  BY <1>2, <1>3, <1>4

LEMMA NextIInv == IInv /\ [Next]_vars => IInv'
<1> SUFFICES ASSUME IInv, [Next]_vars PROVE IInv'
  OBVIOUS
<1>1. ASSUME NEW t \in Tabs, Page(t) PROVE IInv'
  BY <1>1, ToggleMicStep, LoseConnectionStep, ReceiveStep, ConnectStep DEF Page
<1>2. ASSUME NEW s \in Sockets, Handler(s) \/ Disconnect(s) PROVE IInv'
  BY <1>2, JoinRoomStep, RefuseContributorStep, StartContributorStep, StopContributorStep,
     DisconnectStep DEF Handler
<1>3. ASSUME NEW x \in Sessions, Provider(x) \/ TurnHeard(x) \/ Flushed(x) PROVE IInv'
  BY <1>3, ProviderStep, ProviderRefusedStep, TurnHeardStep, FlushedStep DEF Provider
<1>4. ASSUME NEW e \in refining, Refined(e) PROVE IInv'
  BY <1>4, RefinedStep
<1>5. CASE StartTranscript \/ StopTranscript \/ Restart
  BY <1>5, StartTranscriptStep, StopTranscriptStep, RestartStep
<1>6. CASE UNCHANGED vars
  BY <1>6, NothingHappens
<1> QED
  BY <1>1, <1>2, <1>3, <1>4, <1>5, <1>6 DEF Next

(* RoomPage.tsx:238-250, handlers.ts:165-216 and meeting-transcription.ts:  *)
(* the relations above hold in every state that pages, handlers and         *)
(* providers can bring about together.                                      *)
THEOREM InvAlways == Spec => []IInv
<1>1. Init => IInv
  BY Initially
<1>2. IInv /\ [Next]_vars => IInv'
  BY NextIInv
<1> QED
  BY <1>1, <1>2, PTL DEF Spec

-----------------------------------------------------------------------------
(* meeting-transcription.ts:34-90: stopContributor, stopRoom and the        *)
(* disconnect find in the Map every session that runs and was not told to   *)
(* stop, whatever order starts, answers and failures come in; the exception *)
(* is a session whose place a predecessor's late failure cleared.           *)
THEOREM SessionsAlwaysReachable == Spec => []SessionsReachable
<1>1. IInv => SessionsReachable
  BY DEF IInv, SessionInv, Found, Mapped, Running, SessionsReachable
<1> QED
  BY <1>1, InvAlways, PTL

(* handlers.ts and RoomPage.tsx together: with the transcript stopped and   *)
(* nothing on its way, no session runs: its page, which has been told,      *)
(* would have asked for it to stop, unless the page had gone, and then the  *)
(* disconnect stopped it.                                                   *)
THEOREM StoppedAlwaysMeansIdle == Spec => []StoppedMeansIdle
<1>1. ASSUME IInv, Quiet, ~active, NEW x \in Sessions \ orphans
      PROVE  stage[x] \in {"none", "closed"}
  <2> SUFFICES ASSUME stage[x] \notin {"none", "closed"} PROVE FALSE
    OBVIOUS
  <2>1. stage[x] \in {"opening", "open"}
    BY <1>1 DEF Quiet, IInv, Types, SessionsTyped, Stages
  <2>2. x \notin stopping
    BY <1>1, <2>1 DEF IInv, SessionInv, Ending
  <2> DEFINE s == owner[x]
             t == TabOf[s]
  <2>3. s \in Sockets /\ sessions[s] = x /\ x # NoSession
    BY <1>1, <2>1, <2>2, TranscriptConstants DEF IInv, SessionInv, Started, Found, Running
  <2>4. s \in joined /\ s \in live
    BY <1>1, <2>3 DEF IInv, SessionInv, Mapped, Types, RoomTyped
  <2>5. t \in Tabs /\ sock[t] = s /\ s # NoSocket /\ up[s] = <<>> /\ down[s] = <<>>
    BY <1>1, <2>3, <2>4, TranscriptConstants DEF Quiet, Attached
  <2> HIDE DEF s, t
  <2>6. Contributes(t, seen, mic)
    BY <1>1, <2>3, <2>5, NothingComing DEF IInv, AskInv, AskedOf
  <2>7. t \in seen <=> active
    BY <1>1, <2>4, <2>5, NothingComing DEF IInv, BeliefInv, BelievedBy
  <2> QED
    BY <1>1, <2>6, <2>7 DEF Contributes
<1>2. IInv => StoppedMeansIdle
  BY <1>1 DEF StoppedMeansIdle
<1> QED
  BY <1>2, InvAlways, PTL

(* transcript-manager.ts:34-36: the copy of a page with nothing on its way  *)
(* holds every entry the store keeps in its latest wording, and the page    *)
(* knows whether the transcript is active, for any number of pages and      *)
(* connections and however long the transcript.                             *)
THEOREM MirrorsAlwaysFollowStore == Spec => []MirrorsFollowStore
<1>1. ASSUME IInv, NEW t \in Tabs, Connected(t)
      PROVE  /\ \A i \in DOMAIN entries : mirror[t][entries[i].id] = entries[i]
             /\ t \in seen <=> active
  <2>1. sock[t] \in joined /\ down[sock[t]] = <<>>
    BY <1>1 DEF Connected
  <2>2. \A e \in Kept : mirror[t][e.id] = e
    BY <1>1, <2>1, NothingComing DEF IInv, MirrorInv, Mirrored, ShownTo
  <2>3. t \in seen <=> active
    BY <1>1, <2>1, NothingComing DEF IInv, BeliefInv, BelievedBy
  <2> QED
    BY <2>2, <2>3 DEF Kept
<1>2. IInv => MirrorsFollowStore
  BY <1>1 DEF MirrorsFollowStore
<1> QED
  BY <1>2, InvAlways, PTL
=============================================================================
