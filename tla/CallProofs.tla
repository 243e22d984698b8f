----------------------------- MODULE CallProofs -----------------------------
(***************************************************************************)
(* What holds of a call page, of the stages of all pages and of the mini   *)
(* player for any bounds: types, an inductive invariant, and the           *)
(* properties of CallPage, CallStage and MiniPlayer that follow from it.   *)
(***************************************************************************)
EXTENDS Call, SequenceTheorems, TLAPS

-----------------------------------------------------------------------------
(* types *)

Ops == {"pause", "resume"}
PageStates ==
  [panel : Panels, unread : Nat, audio : BOOLEAN, prompt : BOOLEAN, active : BOOLEAN,
   consent : BOOLEAN, dialog : BOOLEAN, input : Nat, sending : Nat, error : BOOLEAN]
Requests ==
  [type : {"chat"}, draft : Nat, n : Nat] \cup [type : {"start"}, asked : BOOLEAN]
    \cup [type : {"stop"} \cup Ops]
Events ==
  [type : {"chat"}, own : BOOLEAN] \cup [type : {"sent"}, n : Nat, draft : Nat, ok : BOOLEAN]
    \cup [type : {"state"}, active : BOOLEAN] \cup [type : {"started"}, ok : BOOLEAN]
    \cup [type : {"muted", "unmute", "snapshot"}]
Talks ==
  [clicks : Nat, events : Nat, mutes : Nat, typed : Nat, sent : Seq(Nat), unseen : Nat,
   missed : Nat, delivered : SUBSET Nat, failed : SUBSET Nat, asked : BOOLEAN]

Works ==
  [reads : Nat, worker : Seq([op : Ops, forced : BOOLEAN]), refused : BOOLEAN,
   scribes : [BOOLEAN -> Nat]]

PageTyped == page \in PageStates /\ seen \in PageStates
TalkTyped == talk \in Talks
WireTyped == toServer \in Seq(Requests) /\ toPage \in Seq(Events)
RoomTyped ==
  /\ wanted \in BOOLEAN /\ starting \in BOOLEAN
  /\ room \in [paused : BOOLEAN, active : BOOLEAN, host : BOOLEAN]
  /\ work \in Works
PageTypes == PageTyped /\ TalkTyped /\ WireTyped /\ RoomTyped

-----------------------------------------------------------------------------
(* the page's part of the invariant *)

(* the chat is opened by clicks only, which are rendered at once *)
BadgeCounts ==
  /\ page.panel = "chat" => seen.panel = "chat" /\ page.unread = 0
  /\ page.unread + talk.missed = talk.unseen

(* messages on the wire are of those sent, and no draft is free to be sent  *)
(* again unless each message that carried it has failed                     *)
OnTheWire ==
  /\ \A m \in ToSet(toServer) : m.type = "chat" => m.n \in DOMAIN talk.sent /\ m.draft = talk.sent[m.n]
  /\ \A e \in ToSet(toPage) : e.type = "sent" =>
       /\ e.n \in DOMAIN talk.sent
       /\ e.ok => e.n \in talk.delivered /\ e.draft = talk.sent[e.n]
Messages ==
  /\ \A n \in DOMAIN talk.sent : talk.sent[n] \in 1..talk.typed
  /\ talk.delivered \subseteq DOMAIN talk.sent /\ talk.failed \subseteq DOMAIN talk.sent
  /\ page.sending # 0 => page.sending \in DOMAIN talk.sent
  /\ seen.sending = 0 => page.sending = 0 /\ page.input = seen.input
Composer ==
  /\ page.input = talk.typed \/ (page.input = 0 /\ Reached(talk.typed))
  /\ page.input # 0 =>
       \A n \in DOMAIN talk.sent :
         talk.sent[n] = page.input => n \in talk.failed \/ n = page.sending
Resent ==
  \A m, n \in DOMAIN talk.sent : m < n /\ talk.sent[m] = talk.sent[n] => m \in talk.failed
Drafts == OnTheWire /\ Messages /\ Composer /\ Resent

(* what the server will have made of the microphone once it has carried out *)
(* all that was asked, unless the last to be handled was refused            *)
MicAsked == \E m \in ToSet(toServer) : m.type \in Ops
LastAsked(op) ==
  \E i \in DOMAIN toServer :
    toServer[i].type = op /\ \A j \in DOMAIN toServer : j > i => toServer[j].type \notin Ops
Decided(op) ==
  IF MicAsked THEN LastAsked(op)
  ELSE IF work.worker # <<>> THEN work.worker[Len(work.worker)].op = op
  ELSE room.paused = (op = "pause")
Requested(op) == MicAsked => LastAsked(op)
Wish == IF wanted THEN "resume" ELSE "pause"
MutedComing ==
  \/ \E w \in ToSet(work.worker) : w.forced
  \/ \E e \in ToSet(toPage) : e.type = "muted"
Mic ==
  /\ wanted = page.audio
  /\ page.audio => seen.audio
  /\ Requested(Wish)
  /\ work.refused \/ Decided(Wish) \/ (wanted /\ MutedComing /\ Decided("pause"))

(* a start waits for the answer to a question that is shown *)
Starts ==
  /\ \A m \in ToSet(toServer) : m.type = "start" => m.asked
  /\ starting => talk.asked /\ page.dialog /\ seen.dialog

PageInv == PageTypes /\ BadgeCounts /\ Drafts /\ Mic /\ Starts

-----------------------------------------------------------------------------
(* the stage's part of the invariant *)

Media == [kind : {"tile", "screen"}, of : Nat, n : Nat]
Keys  == {q \in Seq(Nat) : \A i, j \in DOMAIN q : q[i] = q[j] => i = j}
Views ==
  [coming : SUBSET Media, landed : SUBSET Media, resuming : SUBSET Media, lost : SUBSET Media,
   known : SUBSET Nat, tiles : Keys, screens : Keys, hands : SUBSET Nat, hand : BOOLEAN,
   spotlight : Nat, pin : Nat, layout : Modes, grid : Nat, share : Nat]
Relays ==
  [type : {"producer", "closed"}, of : Nat, media : Media]
    \cup [type : {"gone", "spotlight"}, of : Nat]
    \cup [type : {"hand"}, of : Nat, up : BOOLEAN]
Pasts ==
  [sockets : Nat, acts : Nat, choices : Nat, last : Nat, told : SUBSET Users,
   blind : SUBSET (Users \X Nat), refused : SUBSET Nat]

StageTyped ==
  /\ sock \in [Users -> Nat] /\ open \in SUBSET Media /\ view \in [Users -> Views]
  /\ inbox \in [Users -> Seq(Relays)] /\ asks \in Seq(Nat) /\ past \in Pasts

(* a socket is used once, and a page without one hears and has nothing *)
Empty(w) ==
  /\ w.coming = {} /\ w.landed = {} /\ w.resuming = {} /\ w.lost = {} /\ w.known = {}
  /\ w.tiles = <<>> /\ w.screens = <<>> /\ w.hands = {}
Sockets ==
  /\ \A u \in Users : sock[u] <= past.sockets
  /\ \A u, v \in In : u # v => sock[u] # sock[v]
  /\ \A u \in Users \ In : inbox[u] = <<>> /\ Empty(view[u])
  /\ \A u \in In : Tile(sock[u]) \in open

(* nothing that is still to come to be is spoken of *)
Used(p) == p.of \in 1..past.sockets /\ p.n <= past.acts
Held(w) == w.coming \cup w.landed
Spoken ==
  /\ \A p \in open : Used(p)
  /\ \A u \in Users : \A p \in Held(view[u]) \cup view[u].lost : Used(p)
  /\ \A u \in Users : \A e \in ToSet(inbox[u]) :
       /\ e.type # "spotlight" => e.of \in 1..past.sockets
       /\ e.type \in {"producer", "closed"} => Used(e.media)

(* what is on the stage has landed, and what is there is not taken for lost *)
KeysOf(m, kind) == {p.of : p \in {q \in m : q.kind = kind}}
Landed(w) ==
  /\ w.coming \cap w.landed = {} /\ w.resuming \subseteq w.landed \ w.lost
  /\ ToSet(w.tiles) = KeysOf(w.landed, "tile") /\ ToSet(w.screens) = KeysOf(w.landed, "screen")
  /\ w.hands \subseteq w.known
OnStage ==
  \A u \in In : /\ Landed(view[u]) /\ view[u].lost \cap open = {}
                /\ \A p \in Held(view[u]) : p.of # sock[u]

(* what a page has, but for what it was told has ended, and whom it knows,  *)
(* are there, or it will hear of the end; what is there it has or will hear *)
(* of; and of no end does it hear too soon                                  *)
Has(w) == Held(w) \ w.lost
Ends(p) == {e \in Relays : (e.type = "closed" /\ e.media = p) \/ (e.type = "gone" /\ e.of = p.of)}
GoneOf(k) == {e \in Relays : e.type = "gone" /\ e.of = k}
Begins(p) == {e \in Relays : e.type = "producer" /\ e.media = p}
Knows(w) == w.known \cup {p.of : p \in Has(w)}
Coming(u, A) == ToSet(inbox[u]) \cap A # {}
Told(u) ==
  /\ \A p \in Has(view[u]) : p \in open \/ Coming(u, Ends(p))
  /\ \A k \in Knows(view[u]) : k \in Peers \/ Coming(u, GoneOf(k))
  /\ \A p \in open : p.of # sock[u] => p \in Has(view[u]) \/ Coming(u, Begins(p))
  /\ \A e \in ToSet(inbox[u]) :
       /\ e.type = "closed" => e.media.kind = "screen" /\ e.media \notin open
       /\ e.type = "gone" => e.of \notin Peers
       /\ e.type = "producer" => e.media.of # sock[u]
AllTold == \A u \in In : Told(u)

(* of what is on its way to a page, q, the latest of the events A is one of *)
(* the events G                                                             *)
NoneOf(q, A) == ToSet(q) \cap A = {}
LatestOf(q, A, G) ==
  \A i \in DOMAIN q :
    q[i] \in A /\ (\A j \in DOMAIN q : j > i => q[j] \notin A) => q[i] \in G

HandsOf(k) == {e \in Relays : e.type = "hand" /\ e.of = k}
Up(b)      == {e \in Relays : e.type = "hand" /\ e.up = b}
Spots      == {e \in Relays : e.type = "spotlight"}
Named(k)   == {e \in Relays : e.of = k}

HandSeen(u, v) ==
  IF sock[v] \in view[u].known
  THEN <<u, sock[v]>> \in past.blind \/ (view[v].hand <=> sock[v] \in view[u].hands)
  ELSE view[v].hand => <<u, sock[v]>> \in past.blind
HandsTold ==
  \A u, v \in In : u # v /\ sock[v] \notin past.refused =>
    /\ LatestOf(inbox[u], HandsOf(sock[v]), Up(view[v].hand))
    /\ NoneOf(inbox[u], HandsOf(sock[v])) => HandSeen(u, v)

SpotlightTold ==
  /\ past.told \subseteq In
  /\ \A u \in past.told :
       /\ LatestOf(inbox[u], Spots, Named(past.last))
       /\ NoneOf(inbox[u], Spots) => view[u].spotlight = past.last

StageInv ==
  StageTyped /\ Sockets /\ Spoken /\ OnStage /\ AllTold /\ HandsTold /\ SpotlightTold

-----------------------------------------------------------------------------
(* the mini player's part of the invariant *)

Calls ==
  [by : {"menu", "tab", "cleanup"}, op : {"enter", "exit"}, at : {"browser", "metadata"}, n : Nat]
MiniTyped ==
  /\ player \in [mounted : BOOLEAN, ready : BOOLEAN, active : BOOLEAN, seen : BOOLEAN, busy : BOOLEAN]
  /\ screen \in [hidden : BOOLEAN, open : BOOLEAN, by : {"nobody", "menu", "tab", "cleanup", "late"}]
  /\ calls \in SUBSET Calls /\ events \in Seq({"enter", "leave"}) /\ views \in Nat

(* the last event on its way, or what the hook made of it, is the truth *)
EventsTell ==
  IF player.mounted
  THEN IF events = <<>> THEN player.active = screen.open
       ELSE screen.open = (events[Len(events)] = "enter")
  ELSE events = <<>>

(* a window nobody asked to have is being closed *)
Closing == \E c \in calls : c.op = "exit" /\ c.at = "browser"
WindowWanted ==
  screen.open /\ screen.by # "late" =>
    (player.mounted /\ (screen.by = "menu" \/ screen.hidden)) \/ Closing

Enterers == \A c \in calls : c.op = "enter" => c.by # "cleanup"

MiniInv == MiniTyped /\ EventsTell /\ Enterers /\ WindowWanted

IInv == PageInv /\ StageInv /\ MiniInv

-----------------------------------------------------------------------------
(* sequences *)

LEMMA AppendEntries ==
  ASSUME NEW S, NEW q \in Seq(S), NEW e \in S
  PROVE  /\ Append(q, e) \in Seq(S) /\ Append(q, e) # <<>>
         /\ Len(Append(q, e)) = Len(q) + 1
         /\ Append(q, e)[Len(q) + 1] = e
         /\ \A i \in 1..Len(q) : Append(q, e)[i] = q[i]
         /\ ToSet(Append(q, e)) = ToSet(q) \cup {e}
<1>1. /\ Append(q, e) \in Seq(S) /\ Len(Append(q, e)) = Len(q) + 1
      /\ Append(q, e)[Len(q) + 1] = e
      /\ \A i \in 1..Len(q) : Append(q, e)[i] = q[i]
  OBVIOUS
<1>2. DOMAIN Append(q, e) = 1..(Len(q) + 1) /\ DOMAIN q = 1..Len(q) /\ Len(q) \in Nat
  BY <1>1
<1>3. ToSet(Append(q, e)) = ToSet(q) \cup {e}
  BY <1>1, <1>2 DEF ToSet
<1>4. Append(q, e) # <<>>
  BY <1>2, <1>1, Len(q) + 1 # 0
<1> QED
  BY <1>1, <1>3, <1>4

LEMMA TailEntries ==
  ASSUME NEW S, NEW q \in Seq(S), q # <<>>
  PROVE  /\ Head(q) \in S /\ Head(q) = q[1] /\ Tail(q) \in Seq(S)
         /\ Len(q) \in Nat \ {0} /\ Len(Tail(q)) = Len(q) - 1
         /\ \A i \in 1..(Len(q) - 1) : Tail(q)[i] = q[i + 1]
         /\ ToSet(q) = ToSet(Tail(q)) \cup {Head(q)}
<1>1. /\ Head(q) \in S /\ Head(q) = q[1] /\ Tail(q) \in Seq(S)
      /\ Len(q) \in Nat \ {0} /\ Len(Tail(q)) = Len(q) - 1
      /\ \A i \in 1..(Len(q) - 1) : Tail(q)[i] = q[i + 1]
  OBVIOUS
<1>2. DOMAIN Tail(q) = 1..(Len(q) - 1) /\ DOMAIN q = 1..Len(q)
  BY <1>1
<1>3. \A i \in 1..Len(q) : i = 1 \/ (i - 1 \in 1..(Len(q) - 1) /\ Tail(q)[i - 1] = q[i])
  BY <1>1
<1>4. \A i \in 1..(Len(q) - 1) : i + 1 \in 1..Len(q)
  BY <1>1
<1>5. ASSUME NEW i \in 1..Len(q) PROVE q[i] \in ToSet(Tail(q)) \cup {Head(q)}
  <2>1. CASE i = 1
    BY <2>1, <1>1
  <2>2. CASE i # 1
    BY <2>2, <1>2, <1>3 DEF ToSet
  <2> QED
    BY <2>1, <2>2
<1>6. ToSet(Tail(q)) \cup {Head(q)} \subseteq ToSet(q)
  BY <1>1, <1>2, <1>4 DEF ToSet
<1>7. ToSet(q) \subseteq ToSet(Tail(q)) \cup {Head(q)}
  BY <1>2, <1>5 DEF ToSet
<1> QED
  BY <1>1, <1>6, <1>7

-----------------------------------------------------------------------------
(* the mini player *)

LEMMA MiniInitially == MiniInit => MiniInv
<1> SUFFICES ASSUME MiniInit PROVE MiniInv
  OBVIOUS
<1> QED
  BY DEF MiniInit, MiniInv, MiniTyped, EventsTell, Enterers, WindowWanted

LEMMA MiniKept == MiniInv /\ UNCHANGED miniVars => MiniInv'
  BY DEF miniVars, MiniInv, MiniTyped, EventsTell, Enterers, WindowWanted, Closing

(* a call that joins the others *)
LEMMA CallTyped ==
  ASSUME MiniTyped, NEW by \in {"menu", "tab", "cleanup"}, NEW op \in {"enter", "exit"},
         NEW at \in {"browser", "metadata"}
  PROVE  /\ Call(by, op, at) \in Calls /\ Call(by, op, at).op = op
         /\ Call(by, op, at).at = at /\ Call(by, op, at).by = by
  BY DEF MiniTyped, Call, Calls

LEMMA Firing ==
  ASSUME MiniTyped, NEW e \in {"enter", "leave"}, Fires(e)
  PROVE  /\ events' \in Seq({"enter", "leave"})
         /\ player.mounted => events' # <<>> /\ events'[Len(events')] = e
         /\ ~player.mounted => events' = events
  BY AppendEntries DEF MiniTyped, Fires

LEMMA MiniStep == MiniInv /\ MiniNext => MiniInv'
<1> SUFFICES ASSUME MiniInv, MiniNext PROVE MiniInv'
  OBVIOUS
<1> USE DEF MiniInv
<1> DEFINE Players == [mounted : BOOLEAN, ready : BOOLEAN, active : BOOLEAN, seen : BOOLEAN, busy : BOOLEAN]
           Screens == [hidden : BOOLEAN, open : BOOLEAN, by : {"nobody", "menu", "tab", "cleanup", "late"}]
<1>t. player \in Players /\ screen \in Screens /\ views \in Nat
  BY DEF MiniTyped
<1>1. CASE MetadataLoaded
  <2>1. player' \in Players /\ player'.active = player.active /\ player'.mounted = player.mounted
    BY <1>1, <1>t DEF MetadataLoaded
  <2> DEFINE loaded(c) == [c EXCEPT !.at = "browser"]
  <2>a. \A c \in Calls : loaded(c) \in Calls /\ loaded(c).op = c.op /\ loaded(c).at = "browser" /\ loaded(c).by = c.by
    BY DEF Calls
  <2>b. calls' = {loaded(c) : c \in calls} /\ calls \subseteq Calls
    BY <1>1 DEF MetadataLoaded, MiniTyped
  <2> HIDE DEF loaded
  <2>2. /\ \A c \in calls : \E d \in calls' : d.op = c.op /\ d.at = "browser"
        /\ \A d \in calls' : d \in Calls /\ \E c \in calls : d.op = c.op /\ d.by = c.by
    BY <2>a, <2>b
  <2>3. UNCHANGED <<screen, events, views>>
    BY <1>1 DEF MetadataLoaded
  <2> QED
    BY <2>1, <2>2, <2>3 DEF MiniTyped, EventsTell, Enterers, WindowWanted, Closing
<1>2. CASE TogglePiP
  <2> DEFINE p == [player EXCEPT !.busy = TRUE]
  <2>1. p \in Players /\ p.active = player.active /\ p.mounted = player.mounted
    BY <1>t
  <2>2. UNCHANGED <<screen, events>> /\ views' \in Nat
    BY <1>2, <1>t DEF TogglePiP, Uses
  <2>3. CASE screen.open
    <3>1. calls' = calls \cup {Call("menu", "exit", "browser")} /\ player' = p
      BY <1>2, <2>3 DEF TogglePiP, Stop
    <3> HIDE DEF p
    <3> QED
      BY <2>1, <2>2, <3>1, CallTyped DEF MiniTyped, EventsTell, Enterers, WindowWanted, Closing
  <2>4. CASE ~screen.open
    <3>1. PICK at \in {"browser", "metadata"} : calls' = calls \cup {Call("menu", "enter", at)} /\ player' = p
      BY <1>2, <2>4 DEF TogglePiP, Start
    <3> HIDE DEF p
    <3> QED
      BY <2>1, <2>2, <3>1, CallTyped DEF MiniTyped, EventsTell, Enterers, WindowWanted, Closing
  <2> QED
    BY <2>3, <2>4, <1>t
<1>3. CASE TabHidden
  <2>1. /\ screen' \in Screens /\ screen'.hidden /\ screen'.open = screen.open /\ screen'.by = screen.by
        /\ events' = events
    BY <1>3, <1>t DEF TabHidden
  <2>4. views' \in Nat
    BY <1>3, <1>t DEF TabHidden, Uses
  <2>3. player' = player
    BY <1>3 DEF TabHidden, Start
  <2>2. PICK at \in {"browser", "metadata"} :
          calls' = calls \cup {Call("tab", "enter", at)} \/ calls' = calls
    BY <1>3 DEF TabHidden, Start
  <2> QED
    BY <2>1, <2>2, <2>3, <2>4, CallTyped DEF MiniTyped, EventsTell, Enterers, WindowWanted, Closing
<1>4. CASE TabShown
  <2>1. /\ screen' \in Screens /\ screen'.open = screen.open /\ screen'.by = screen.by
        /\ UNCHANGED <<events, views>>
    BY <1>4, <1>t DEF TabShown
  <2>2. CASE screen.open /\ player.mounted
    <3>1. calls' = calls \cup {Call("tab", "exit", "browser")} /\ player' = player
      BY <1>4, <2>2 DEF TabShown, Stop, ToBeClosed
    <3>2. Closing' /\ MiniTyped'
      BY <2>1, <3>1, CallTyped DEF MiniTyped, Closing
    <3> QED
      BY <2>1, <3>1, <3>2, CallTyped DEF MiniTyped, EventsTell, Enterers, WindowWanted
  <2>3. CASE screen.open /\ ~player.mounted
    <3>1. UNCHANGED <<calls, player>>
      BY <1>4, <2>3 DEF TabShown, ToBeClosed
    <3> QED
      BY <2>1, <2>3, <3>1 DEF MiniTyped, EventsTell, Enterers, WindowWanted, Closing
  <2>4. CASE ~screen.open
    <3>1. /\ calls' = calls
          /\ player' = player \/ player' = [player EXCEPT !.active = FALSE]
      BY <1>4, <2>4 DEF TabShown, Stop
    <3>2. player' \in Players /\ player'.mounted = player.mounted /\ player'.active \in {player.active, FALSE}
      BY <3>1, <1>t
    <3> QED
      BY <2>1, <2>4, <3>1, <3>2 DEF MiniTyped, EventsTell, Enterers, WindowWanted, Closing
  <2> QED
    BY <2>2, <2>3, <2>4, <1>t
<1>5. CASE HearEvent
  <2>1. /\ player' \in Players /\ player'.mounted = player.mounted
        /\ player'.active = (Head(events) = "enter") /\ UNCHANGED <<screen, calls, views>>
    BY <1>5, <1>t DEF HearEvent
  <2>2. /\ events \in Seq({"enter", "leave"}) /\ events # <<>> /\ events' = Tail(events)
        /\ player.mounted
    BY <1>5 DEF HearEvent, MiniTyped, EventsTell
  <2>3. /\ events' \in Seq({"enter", "leave"}) /\ Len(events') = Len(events) - 1 /\ Head(events) = events[1]
        /\ \A i \in 1..(Len(events) - 1) : events'[i] = events[i + 1]
        /\ Len(events) \in Nat \ {0}
    BY <2>2, TailEntries
  <2>4. screen.open = (events[Len(events)] = "enter")
    BY <2>2 DEF EventsTell
  <2>5. CASE events' = <<>>
    <3>1. Len(events') = 0
      BY <2>5
    <3>2. Len(events) = 1
      BY <2>3, <3>1
    <3>3. events[Len(events)] = Head(events)
      BY <2>3, <3>2
    <3> QED
      BY <2>1, <2>2, <2>3, <2>4, <2>5, <3>3 DEF MiniTyped, EventsTell, Enterers, WindowWanted, Closing
  <2>6. CASE events' # <<>>
    <3>1. Len(events') \in 1..(Len(events) - 1)
      BY <2>3, <2>6
    <3>2. events'[Len(events')] = events[Len(events)]
      BY <2>3, <3>1
    <3> QED
      BY <2>1, <2>2, <2>3, <2>4, <2>6, <3>2 DEF MiniTyped, EventsTell, Enterers, WindowWanted, Closing
  <2> QED
    BY <2>5, <2>6
<1>6. CASE Rendered
  <2>1. /\ player' \in Players /\ player'.mounted = player.mounted /\ player'.active = player.active
        /\ UNCHANGED <<screen, calls, events, views>>
    BY <1>6, <1>t DEF Rendered
  <2> QED
    BY <2>1 DEF MiniTyped, EventsTell, Enterers, WindowWanted, Closing
<1>7. CASE Unmount
  <2>1. /\ player' \in Players /\ ~player'.mounted /\ events' = <<>> /\ UNCHANGED <<screen, views>>
    BY <1>7, <1>t DEF Unmount
  <2>2. /\ screen.open => Call("cleanup", "exit", "browser") \in calls'
        /\ \A c \in calls' : c \in calls \/ c = Call("cleanup", "exit", "browser")
    BY <1>7 DEF Unmount
  <2>3. calls' \in SUBSET Calls
    BY <2>2, CallTyped DEF MiniTyped
  <2> QED
    BY <2>1, <2>2, <2>3, CallTyped DEF MiniTyped, EventsTell, Enterers, WindowWanted, Closing
<1>8. ASSUME NEW c \in calls, Granted(c) \/ Refused(c) \/ Exited(c) PROVE MiniInv'
  <2> DEFINE p == Over(c, player)
  <2>1. p \in Players /\ p.active = player.active /\ p.mounted = player.mounted
    BY <1>t DEF Over
  <2>2. /\ calls' = calls \ {c} /\ views' = views /\ c \in Calls /\ c.at = "browser"
        /\ c.op = "enter" => c.by \in {"menu", "tab"}
    BY <1>8 DEF Granted, Refused, Exited, Asked, MiniTyped, Enterers, Calls
  <2>3. calls' \in SUBSET Calls /\ Enterers'
    BY <2>2 DEF MiniTyped, Enterers
  <2>4. c.op = "enter" => (Closing' <=> Closing)
    BY <2>2 DEF Closing
  <2>5. CASE Granted(c)
    <3>1. c.op = "enter" /\ player' = p
      BY <2>5 DEF Granted
    <3> HIDE DEF p
    <3>2. CASE screen.open
      <4>1. UNCHANGED <<screen, events>>
        BY <2>5, <3>2 DEF Granted
      <4> QED
        BY <2>1, <2>2, <2>3, <2>4, <3>1, <4>1 DEF MiniTyped, EventsTell, WindowWanted
    <3>3. CASE ~screen.open
      <4>1. /\ Fires("enter")
            /\ screen' = [screen EXCEPT !.open = TRUE,
                 !.by = IF ~player.mounted \/ (c.by = "tab" /\ ~screen.hidden) THEN "late" ELSE c.by]
        BY <2>5, <3>3 DEF Granted
      <4>2. /\ screen' \in Screens /\ screen'.open /\ screen'.hidden = screen.hidden
            /\ screen'.by # "late" => player.mounted /\ (screen'.by = "menu" \/ screen'.hidden)
        BY <4>1, <2>2, <3>1, <1>t
      <4>3. /\ events' \in Seq({"enter", "leave"})
            /\ player.mounted => events' # <<>> /\ events'[Len(events')] = "enter"
            /\ ~player.mounted => events' = events
        BY <4>1, Firing
      <4> QED
        BY <2>1, <2>2, <2>3, <3>1, <4>2, <4>3 DEF MiniTyped, EventsTell, WindowWanted
    <3> QED
      BY <3>2, <3>3, <1>t
  <2>6. CASE Refused(c)
    <3>1. /\ c.op = "enter" /\ ~screen.open /\ player' = [p EXCEPT !.active = FALSE]
          /\ UNCHANGED <<screen, events>>
      BY <2>6 DEF Refused
    <3> HIDE DEF p
    <3>2. player' \in Players /\ player'.mounted = player.mounted /\ ~player'.active
      BY <3>1, <2>1
    <3> QED
      BY <2>1, <2>2, <2>3, <3>1, <3>2 DEF MiniTyped, EventsTell, WindowWanted
  <2>7. CASE Exited(c)
    <3>1. /\ player' = [p EXCEPT !.active = FALSE]
          /\ screen' = [screen EXCEPT !.open = FALSE, !.by = "nobody"]
          /\ IF screen.open THEN Fires("leave") ELSE UNCHANGED events
      BY <2>7 DEF Exited
    <3> HIDE DEF p
    <3>2. /\ player' \in Players /\ player'.mounted = player.mounted /\ ~player'.active
          /\ screen' \in Screens /\ ~screen'.open
      BY <3>1, <2>1, <1>t
    <3>3. CASE screen.open
      BY <2>1, <2>2, <2>3, <3>1, <3>2, <3>3, Firing DEF MiniTyped, EventsTell, WindowWanted
    <3>4. CASE ~screen.open
      BY <2>1, <2>2, <2>3, <3>1, <3>2, <3>4 DEF MiniTyped, EventsTell, WindowWanted
    <3> QED
      BY <3>3, <3>4, <1>t
  <2> QED
    BY <1>8, <2>5, <2>6, <2>7
<1>9. CASE WindowClosed
  <2>1. /\ Fires("leave") /\ screen' \in Screens /\ ~screen'.open
        /\ UNCHANGED <<player, calls>>
    BY <1>9, <1>t DEF WindowClosed
  <2>2. views' \in Nat
    BY <1>9, <1>t DEF WindowClosed, Uses
  <2> QED
    BY <2>1, <2>2, Firing DEF MiniTyped, EventsTell, Enterers, WindowWanted
<1> QED
  BY <1>1, <1>2, <1>3, <1>4, <1>5, <1>6, <1>7, <1>8, <1>9 DEF MiniNext

-----------------------------------------------------------------------------
(* the page: what an action that leaves a part alone does to it *)

LEMMA ConcatEntries ==
  ASSUME NEW S, NEW q \in Seq(S), NEW r \in Seq(S)
  PROVE  q \o r \in Seq(S) /\ ToSet(q \o r) = ToSet(q) \cup ToSet(r)
<1>1. /\ q \o r \in Seq(S) /\ Len(q \o r) = Len(q) + Len(r)
      /\ \A i \in 1..(Len(q) + Len(r)) : (q \o r)[i] = IF i <= Len(q) THEN q[i] ELSE r[i - Len(q)]
  BY ConcatProperties
<1>2. /\ DOMAIN (q \o r) = 1..(Len(q) + Len(r)) /\ DOMAIN q = 1..Len(q) /\ DOMAIN r = 1..Len(r)
      /\ Len(q) \in Nat /\ Len(r) \in Nat
  BY <1>1
<1>3. ToSet(q \o r) \subseteq ToSet(q) \cup ToSet(r)
  BY <1>1, <1>2 DEF ToSet
<1>4. ToSet(q) \subseteq ToSet(q \o r)
  BY <1>1, <1>2 DEF ToSet
<1>5. ASSUME NEW i \in 1..Len(r) PROVE r[i] \in ToSet(q \o r)
  <2>1. i + Len(q) \in 1..(Len(q) + Len(r)) /\ ~(i + Len(q) <= Len(q)) /\ (i + Len(q)) - Len(q) = i
    BY <1>2
  <2> QED
    BY <2>1, <1>1, <1>2 DEF ToSet
<1>6. ToSet(r) \subseteq ToSet(q \o r)
  BY <1>2, <1>5 DEF ToSet
<1> QED
  BY <1>1, <1>3, <1>4, <1>6

LEMMA NewTypes ==
  ASSUME page' \in PageStates, seen' \in PageStates, talk' \in Talks, WireTyped', RoomTyped'
  PROVE  PageTypes'
  BY DEF PageTypes, PageTyped, TalkTyped

LEMMA BadgeKept ==
  ASSUME BadgeCounts,
         page'.panel = page.panel, page'.unread = page.unread,
         seen'.panel \in {seen.panel, page.panel},
         talk'.missed = talk.missed, talk'.unseen = talk.unseen
  PROVE  BadgeCounts'
  BY DEF BadgeCounts

(* the rail shows something else *)
LEMMA BadgeKeptElsewhere ==
  ASSUME BadgeCounts,
         page'.panel # "chat", page'.unread = page.unread,
         talk'.missed = talk.missed, talk'.unseen = talk.unseen
  PROVE  BadgeCounts'
  BY DEF BadgeCounts

SameTalk ==
  talk'.typed = talk.typed /\ talk'.sent = talk.sent /\ talk'.delivered = talk.delivered
    /\ talk'.failed = talk.failed

LEMMA ComposerKept ==
  ASSUME Drafts, SameTalk,
         page'.input = page.input, page'.sending = page.sending,
         \/ seen'.input = seen.input /\ seen'.sending = seen.sending
         \/ seen'.input = page.input /\ seen'.sending = page.sending
  PROVE  Messages' /\ Composer' /\ Resent'
  BY DEF Drafts, SameTalk, Messages, Composer, Resent, Reached

LEMMA WireKept ==
  ASSUME Drafts, SameTalk,
         \A m \in ToSet(toServer') : m.type = "chat" => m \in ToSet(toServer),
         \A e \in ToSet(toPage') : e.type = "sent" => e \in ToSet(toPage)
  PROVE  OnTheWire'
  BY DEF Drafts, SameTalk, OnTheWire

(* a step that refuses nothing leaves what is asked of the server to do     *)
Keeps(op) ==
  /\ Decided(op) => work'.refused \/ Decided(op)'
  /\ Requested(op) => Requested(op)'

LEMMA MicKept ==
  ASSUME Mic, wanted \in BOOLEAN, wanted' = wanted, page'.audio = page.audio, page.audio => seen'.audio,
         MutedComing => MutedComing', \A op \in Ops : Keeps(op),
         work.refused => work'.refused \/ Decided(Wish)'
  PROVE  Mic'
<1>1. Wish' = Wish /\ Wish \in Ops /\ "pause" \in Ops
  BY DEF Wish, Ops
<1>2. /\ Decided(Wish) => work'.refused \/ Decided(Wish)'
      /\ Requested(Wish) => Requested(Wish)'
  <2>1. CASE wanted
    BY <2>1, "resume" \in Ops DEF Wish, Ops, Keeps
  <2>2. CASE ~wanted
    BY <2>2, "pause" \in Ops DEF Wish, Ops, Keeps
  <2> QED
    BY <2>1, <2>2
<1>3. Decided("pause") => work'.refused \/ Decided("pause")'
  BY <1>1 DEF Keeps
<1> QED
  BY <1>2, <1>3 DEF Mic

LEMMA StartsKept ==
  ASSUME Starts, starting' = starting, talk'.asked = talk.asked,
         page.dialog => page'.dialog, page.dialog => seen'.dialog,
         \A m \in ToSet(toServer') : m.type = "start" => m \in ToSet(toServer)
  PROVE  Starts'
  BY DEF Starts

-----------------------------------------------------------------------------
(* the page: what was asked for the microphone *)

LEMMA Said ==
  ASSUME NEW m \in Requests, WireTyped, Says(m)
  PROVE  /\ toServer' \in Seq(Requests) /\ ToSet(toServer') = ToSet(toServer) \cup {m}
         /\ Len(toServer') = Len(toServer) + 1 /\ toServer'[Len(toServer) + 1] = m
         /\ \A i \in 1..Len(toServer) : toServer'[i] = toServer[i]
         /\ DOMAIN toServer = 1..Len(toServer) /\ DOMAIN toServer' = 1..(Len(toServer) + 1)
         /\ Len(toServer) \in Nat
<1>1. toServer \in Seq(Requests) /\ toServer' = Append(toServer, m)
  BY DEF WireTyped, Says
<1>2. /\ toServer' \in Seq(Requests) /\ ToSet(toServer') = ToSet(toServer) \cup {m}
      /\ Len(toServer') = Len(toServer) + 1 /\ toServer'[Len(toServer) + 1] = m
      /\ \A i \in 1..Len(toServer) : toServer'[i] = toServer[i]
  BY <1>1, AppendEntries
<1> QED
  BY <1>1, <1>2

LEMMA MicSaid ==
  ASSUME NEW m \in Requests, WireTyped, Says(m), m.type \in Ops
  PROVE  Decided(m.type)' /\ Requested(m.type)'
<1>1. MicAsked'
  BY Said DEF MicAsked
<1>2. LastAsked(m.type)'
  <2>1. /\ Len(toServer) + 1 \in DOMAIN toServer' /\ toServer'[Len(toServer) + 1].type = m.type
        /\ \A j \in DOMAIN toServer' : ~(j > Len(toServer) + 1)
    BY Said
  <2> QED
    BY <2>1 DEF LastAsked
<1> QED
  BY <1>1, <1>2 DEF Decided, Requested

LEMMA OtherSaid ==
  ASSUME NEW m \in Requests, WireTyped, Says(m), m.type \notin Ops,
         work' = work, room'.paused = room.paused, NEW op \in Ops
  PROVE  Keeps(op)
<1>1. MicAsked' <=> MicAsked
  BY Said DEF MicAsked
<1>2. ASSUME LastAsked(op) PROVE LastAsked(op)'
  <2>1. PICK i \in DOMAIN toServer :
          toServer[i].type = op /\ \A j \in DOMAIN toServer : j > i => toServer[j].type \notin Ops
    BY <1>2 DEF LastAsked
  <2>2. i \in DOMAIN toServer' /\ toServer'[i].type = op
    BY <2>1, Said
  <2>3. \A j \in DOMAIN toServer' : j > i => toServer'[j].type \notin Ops
    BY <2>1, Said
  <2> QED
    BY <2>2, <2>3 DEF LastAsked
<1> QED
  BY <1>1, <1>2 DEF Decided, Requested, Keeps

LEMMA NothingSaid ==
  ASSUME toServer' = toServer, work' = work, room'.paused = room.paused, NEW op \in Ops
  PROVE  Keeps(op)
  BY DEF Keeps, Requested, Decided, MicAsked, LastAsked

(* the head of the queue has been heard *)
LEMMA Taken ==
  ASSUME WireTyped, toServer # <<>>, toServer' = Tail(toServer)
  PROVE  /\ Head(toServer) \in Requests /\ Head(toServer) = toServer[1] /\ toServer' \in Seq(Requests)
         /\ Len(toServer) \in Nat \ {0} /\ Len(toServer') = Len(toServer) - 1
         /\ \A i \in 1..(Len(toServer) - 1) : toServer'[i] = toServer[i + 1]
         /\ ToSet(toServer) = ToSet(toServer') \cup {Head(toServer)}
         /\ DOMAIN toServer = 1..Len(toServer) /\ DOMAIN toServer' = 1..(Len(toServer) - 1)
<1>1. toServer \in Seq(Requests)
  BY DEF WireTyped
<1>2. /\ Head(toServer) \in Requests /\ Head(toServer) = toServer[1] /\ toServer' \in Seq(Requests)
      /\ Len(toServer) \in Nat \ {0} /\ Len(toServer') = Len(toServer) - 1
      /\ \A i \in 1..(Len(toServer) - 1) : toServer'[i] = toServer[i + 1]
      /\ ToSet(toServer) = ToSet(toServer') \cup {Head(toServer)}
  BY <1>1, TailEntries
<1> QED
  BY <1>1, <1>2

LEMMA LaterAsked ==
  ASSUME WireTyped, toServer # <<>>, toServer' = Tail(toServer), MicAsked', NEW op \in Ops, LastAsked(op)
  PROVE  LastAsked(op)'
<1>1. PICK i \in 1..Len(toServer) :
        toServer[i].type = op /\ \A j \in 1..Len(toServer) : j > i => toServer[j].type \notin Ops
  BY Taken DEF LastAsked
<1>2. PICK k \in 1..(Len(toServer) - 1) : toServer[k + 1].type \in Ops
  BY Taken DEF MicAsked, ToSet
<1>3. i # 1
  <2>1. k + 1 \in 1..Len(toServer) /\ k + 1 > 1
    BY Taken
  <2> QED
    BY <2>1, <1>1, <1>2
<1>4. i - 1 \in 1..(Len(toServer) - 1) /\ (i - 1) + 1 = i
  BY <1>1, <1>3, Taken
<1>5. toServer'[i - 1].type = op
  BY <1>1, <1>4, Taken
<1>6. ASSUME NEW j \in 1..(Len(toServer) - 1), j > i - 1 PROVE toServer'[j].type \notin Ops
  <2>1. j + 1 \in 1..Len(toServer) /\ j + 1 > i /\ toServer'[j] = toServer[j + 1]
    BY <1>6, <1>1, Taken
  <2> QED
    BY <2>1, <1>1
<1> QED
  BY <1>4, <1>5, <1>6, Taken DEF LastAsked

LEMMA OtherTaken ==
  ASSUME WireTyped, toServer # <<>>, toServer' = Tail(toServer), Head(toServer).type \notin Ops,
         work'.worker = work.worker, room'.paused = room.paused, NEW op \in Ops
  PROVE  Keeps(op)
<1>1. MicAsked' <=> MicAsked
  BY Taken DEF MicAsked
<1> QED
  BY <1>1, LaterAsked DEF Decided, Requested, Keeps

LEMMA MicTaken ==
  ASSUME WireTyped, RoomTyped, toServer # <<>>, toServer' = Tail(toServer), Head(toServer).type \in Ops,
         NEW forced \in BOOLEAN,
         work'.worker = Append(work.worker, [op |-> Head(toServer).type, forced |-> forced]), NEW op \in Ops
  PROVE  Keeps(op)
<1>5. Requested(op) => Requested(op)'
  BY Taken, LaterAsked DEF Requested, MicAsked
<1> SUFFICES ASSUME Decided(op) PROVE Decided(op)'
  BY <1>5 DEF Keeps
<1>1. MicAsked
  BY Taken DEF MicAsked
<1>2. LastAsked(op)
  BY <1>1 DEF Decided
<1>3. CASE MicAsked'
  BY <1>2, <1>3, LaterAsked DEF Decided
<1>4. CASE ~MicAsked'
  <2>1. PICK i \in 1..Len(toServer) : toServer[i].type = op
    BY <1>2, Taken DEF LastAsked
  <2>2. i = 1
    <3>1. ASSUME i # 1 PROVE FALSE
      <4>1. i - 1 \in 1..(Len(toServer) - 1) /\ (i - 1) + 1 = i
        BY <3>1, Taken
      <4>2. toServer'[i - 1].type = op /\ i - 1 \in DOMAIN toServer'
        BY <4>1, <2>1, Taken
      <4> QED
        BY <4>2, <1>4 DEF MicAsked, ToSet
    <3> QED
      BY <3>1
  <2>3. Head(toServer).type = op
    BY <2>1, <2>2, Taken
  <2>4. work'.worker # <<>> /\ work'.worker[Len(work'.worker)].op = op
    <3>1. work.worker \in Seq([op : Ops, forced : BOOLEAN])
      BY DEF RoomTyped, Works
    <3>2. [op |-> Head(toServer).type, forced |-> forced] \in [op : Ops, forced : BOOLEAN]
      OBVIOUS
    <3> QED
      BY <2>3, <3>1, <3>2, AppendEntries
  <2> QED
    BY <1>4, <2>4 DEF Decided
<1> QED
  BY <1>3, <1>4

LEMMA SingleEvent ==
  ASSUME NEW e \in Events
  PROVE  <<e>> \in Seq(Events) /\ ToSet(<<e>>) = {e}
<1>1. <<e>> \in Seq(Events) /\ DOMAIN <<e>> = {1} /\ <<e>>[1] = e
  OBVIOUS
<1> QED
  BY <1>1 DEF ToSet

LEMMA NoEvent == <<>> \in Seq(Events) /\ ToSet(<<>>) = {}
<1>1. <<>> \in Seq(Events) /\ DOMAIN <<>> = {}
  OBVIOUS
<1> QED
  BY <1>1 DEF ToSet

-----------------------------------------------------------------------------
(* the page: its actions *)

LEMMA PageInitially == PageInit => PageInv
<1> SUFFICES ASSUME PageInit PROVE PageInv
  OBVIOUS
<1>1. PICK on \in BOOLEAN, consent \in BOOLEAN, host \in BOOLEAN, running \in BOOLEAN :
        /\ page = [panel |-> "none", unread |-> 0, audio |-> on, prompt |-> FALSE,
                   active |-> FALSE, consent |-> consent, dialog |-> FALSE,
                   input |-> 0, sending |-> 0, error |-> FALSE]
        /\ wanted = on
        /\ room = [paused |-> ~on, active |-> running, host |-> host]
        /\ toPage = IF running THEN <<[type |-> "snapshot"]>> ELSE <<>>
  BY DEF PageInit
<1>2. /\ seen = page /\ starting = FALSE /\ toServer = <<>>
      /\ work = [reads |-> 0, worker |-> <<>>, refused |-> FALSE, scribes |-> [way \in BOOLEAN |-> 0]]
      /\ talk = [clicks |-> 0, events |-> 0, mutes |-> 0, typed |-> 0, sent |-> <<>>,
                 unseen |-> 0, missed |-> 0, delivered |-> {}, failed |-> {}, asked |-> FALSE]
  BY DEF PageInit
<1>3. page \in PageStates /\ seen \in PageStates
  BY <1>1, <1>2 DEF PageStates, Panels
<1>4. talk \in Talks
  BY <1>2 DEF Talks
<1>5. WireTyped /\ RoomTyped /\ \A e \in ToSet(toPage) : e.type = "snapshot"
  <2> DEFINE e == [type |-> "snapshot"]
  <2>1. <<>> \in Seq(Requests) /\ <<>> \in Seq([op : Ops, forced : BOOLEAN])
    OBVIOUS
  <2>2. e \in Events /\ e.type = "snapshot"
    BY DEF Events
  <2>3. toPage \in {<<>>, <<e>>}
    BY <1>1
  <2> HIDE DEF e
  <2>4. toPage \in Seq(Events) /\ \A d \in ToSet(toPage) : d.type = "snapshot"
    BY <2>2, <2>3, SingleEvent, NoEvent
  <2>5. work \in Works
    BY <1>2, <2>1 DEF Works
  <2>6. room \in [paused : BOOLEAN, active : BOOLEAN, host : BOOLEAN]
    BY <1>1
  <2> QED
    BY <1>1, <1>2, <2>1, <2>4, <2>5, <2>6 DEF WireTyped, RoomTyped
<1>6. ToSet(toServer) = {} /\ DOMAIN talk.sent = {}
  BY <1>2 DEF ToSet
<1>7. BadgeCounts /\ Drafts
  BY <1>1, <1>2, <1>5, <1>6 DEF BadgeCounts, Drafts, OnTheWire, Messages, Composer, Resent, Reached
<1>8. Mic
  <2>1. ~MicAsked
    BY <1>6 DEF MicAsked
  <2>2. room.paused = (Wish = "pause")
    BY <1>1 DEF Wish
  <2> QED
    BY <1>1, <1>2, <2>1, <2>2 DEF Mic, Decided, Requested
<1> QED
  BY <1>2, <1>3, <1>4, <1>5, <1>6, <1>7, <1>8 DEF PageInv, PageTypes, PageTyped, TalkTyped, Starts

LEMMA PageKept == PageInv /\ UNCHANGED pageVars => PageInv'
<1> SUFFICES ASSUME PageInv, UNCHANGED pageVars PROVE PageInv'
  OBVIOUS
<1>1. UNCHANGED <<page, seen, wanted, starting, toServer, toPage, room, work, talk>>
  BY DEF pageVars
<1>2. PageTypes'
  BY <1>1 DEF PageInv, PageTypes, PageTyped, TalkTyped, WireTyped, RoomTyped
<1>3. BadgeCounts' /\ Drafts'
  BY <1>1 DEF PageInv, BadgeCounts, Drafts, OnTheWire, Messages, Composer, Resent, Reached
<1>4. Mic' /\ Starts'
  BY <1>1 DEF PageInv, Mic, Starts, Requested, Decided, MicAsked, LastAsked, Wish, MutedComing
<1> QED
  BY <1>2, <1>3, <1>4 DEF PageInv

LEMMA TalkFields ==
  ASSUME talk \in Talks
  PROVE  /\ talk.clicks \in Nat /\ talk.events \in Nat /\ talk.mutes \in Nat /\ talk.typed \in Nat
         /\ talk.unseen \in Nat /\ talk.missed \in Nat /\ talk.asked \in BOOLEAN
         /\ talk.clicks + 1 \in Nat /\ talk.typed + 1 \in Nat /\ talk.events + 1 \in Nat
         /\ talk.mutes + 1 \in Nat /\ talk.unseen + 1 \in Nat /\ talk.missed + 1 \in Nat
         /\ talk.sent \in Seq(Nat) /\ talk.delivered \in SUBSET Nat /\ talk.failed \in SUBSET Nat
<1>1. /\ talk.clicks \in Nat /\ talk.events \in Nat /\ talk.mutes \in Nat /\ talk.typed \in Nat
      /\ talk.unseen \in Nat /\ talk.missed \in Nat /\ talk.asked \in BOOLEAN
  BY DEF Talks
<1>2. talk.sent \in Seq(Nat) /\ talk.delivered \in SUBSET Nat /\ talk.failed \in SUBSET Nat
  BY DEF Talks
<1>3. \A n \in Nat : n + 1 \in Nat
  OBVIOUS
<1> QED
  BY <1>1, <1>2, <1>3

(* a click that says at most something of another kind *)
Quietly == toServer' = toServer \/ \E m \in Requests : Says(m) /\ m.type \notin Ops \cup {"chat", "start"}

LEMMA QuietClick ==
  ASSUME PageInv, page' \in PageStates, seen' = page', Quietly, talk' \in Talks,
         UNCHANGED <<wanted, toPage, room, work>>
  PROVE  /\ WireTyped'
         /\ SameTalk => OnTheWire'
         /\ page'.audio = page.audio => Mic'
         /\ starting' = starting /\ talk'.asked = talk.asked /\ page'.dialog = page.dialog => Starts'
<1>1. /\ toServer' \in Seq(Requests)
      /\ \A m \in ToSet(toServer') : m.type \in {"chat", "start"} => m \in ToSet(toServer)
  BY Said DEF Quietly, PageInv, PageTypes, WireTyped
<1>2. WireTyped'
  BY <1>1 DEF PageInv, PageTypes, WireTyped
<1>3. SameTalk => OnTheWire'
  BY <1>1, WireKept DEF PageInv
<1>4. \A op \in Ops : Keeps(op)
  BY OtherSaid, NothingSaid DEF Quietly, PageInv, PageTypes
<1>5. page'.audio = page.audio => Mic'
  BY <1>4, MicKept DEF PageInv, PageTypes, RoomTyped, MutedComing
<1>6. starting' = starting /\ talk'.asked = talk.asked /\ page'.dialog = page.dialog => Starts'
  BY <1>1, StartsKept DEF PageInv
<1> QED
  BY <1>2, <1>3, <1>5, <1>6

LEMMA OpenChatStep == PageInv /\ OpenChat => PageInv'
<1> SUFFICES ASSUME PageInv, OpenChat PROVE PageInv'
  OBVIOUS
<1>t. page \in PageStates /\ talk \in Talks /\ RoomTyped
  BY DEF PageInv, PageTypes, PageTyped, TalkTyped
<1>1. /\ page' = [page EXCEPT !.panel = "chat", !.unread = 0] /\ seen' = page'
      /\ talk' = [talk EXCEPT !.unseen = 0, !.missed = 0, !.clicks = talk.clicks + 1]
      /\ UNCHANGED <<wanted, starting, toServer, toPage, room, work>>
  BY <1>t DEF OpenChat, Clicked, Opened, Counted, ChatOpened, Silent, Talks
<1>2. /\ page' \in PageStates /\ page'.panel = "chat" /\ page'.unread = 0
      /\ page'.input = page.input /\ page'.sending = page.sending /\ page'.audio = page.audio
      /\ page'.dialog = page.dialog
  BY <1>1, <1>t DEF PageStates, Panels
<1>3. talk' \in Talks /\ SameTalk /\ talk'.asked = talk.asked /\ talk'.unseen = 0 /\ talk'.missed = 0
  BY <1>1, <1>t, TalkFields DEF Talks, SameTalk
<1>4. BadgeCounts'
  BY <1>1, <1>2, <1>3 DEF BadgeCounts
<1>5. Messages' /\ Composer' /\ Resent'
  BY <1>1, <1>2, <1>3, ComposerKept DEF PageInv
<1>6. WireTyped' /\ OnTheWire' /\ Mic' /\ Starts'
  BY <1>1, <1>2, <1>3, QuietClick DEF Quietly
<1>7. RoomTyped'
  BY <1>1, <1>t DEF RoomTyped
<1> QED
  BY <1>1, <1>2, <1>3, <1>4, <1>5, <1>6, <1>7, NewTypes DEF PageInv, Drafts

(* clicks that change only what is shown *)
LEMMA ShownStep ==
  ASSUME PageInv, page' \in PageStates, seen' = page', talk' \in Talks, SameTalk,
         Quietly, UNCHANGED <<wanted, starting, toPage, room, work>>,
         talk'.unseen = talk.unseen, talk'.missed = talk.missed, talk'.asked = talk.asked,
         page'.audio = page.audio, page'.dialog = page.dialog, page'.unread = page.unread,
         page'.input = page.input, page'.sending = page.sending,
         page'.panel = page.panel \/ page'.panel # "chat"
  PROVE  PageInv'
<1>1. BadgeCounts'
  BY BadgeKept, BadgeKeptElsewhere DEF PageInv
<1>2. Messages' /\ Composer' /\ Resent'
  BY ComposerKept DEF PageInv
<1>3. WireTyped' /\ OnTheWire' /\ Mic' /\ Starts'
  BY QuietClick
<1>4. RoomTyped'
  BY DEF PageInv, PageTypes, RoomTyped
<1> QED
  BY <1>1, <1>2, <1>3, <1>4, NewTypes DEF PageInv, Drafts

LEMMA ClickCounted ==
  ASSUME PageInv, ByClick
  PROVE  /\ talk' \in Talks /\ SameTalk /\ talk'.unseen = talk.unseen /\ talk'.missed = talk.missed
         /\ talk'.asked = talk.asked
<1>1. talk \in Talks /\ talk' = [talk EXCEPT !.clicks = talk.clicks + 1]
  BY DEF PageInv, PageTypes, TalkTyped, Talks, ByClick, Counted
<1> QED
  BY <1>1, TalkFields DEF Talks, SameTalk

LEMMA SwitchPanelStep ==
  ASSUME PageInv, NEW panel \in Panels, SwitchPanel(panel)
  PROVE  PageInv'
<1>1. /\ page' = [page EXCEPT !.panel = panel] /\ seen' = page' /\ panel # "chat" /\ ByClick
      /\ UNCHANGED <<toServer, wanted, starting, toPage, room, work>>
  BY DEF SwitchPanel, Clicked, Silent
<1>2. /\ page' \in PageStates /\ page'.panel # "chat"
      /\ page'.audio = page.audio /\ page'.dialog = page.dialog /\ page'.unread = page.unread
      /\ page'.input = page.input /\ page'.sending = page.sending
  BY <1>1 DEF PageInv, PageTypes, PageTyped, PageStates
<1> QED
  BY <1>1, <1>2, ClickCounted, ShownStep DEF Quietly

LEMMA DismissPromptStep ==
  ASSUME PageInv, DismissPrompt
  PROVE  PageInv'
<1>1. /\ page' = [page EXCEPT !.prompt = FALSE] /\ seen' = page' /\ ByClick
      /\ UNCHANGED <<toServer, wanted, starting, toPage, room, work>>
  BY DEF DismissPrompt, Clicked, Silent
<1>2. /\ page' \in PageStates /\ page'.panel = page.panel
      /\ page'.audio = page.audio /\ page'.dialog = page.dialog /\ page'.unread = page.unread
      /\ page'.input = page.input /\ page'.sending = page.sending
  BY <1>1 DEF PageInv, PageTypes, PageTyped, PageStates
<1> QED
  BY <1>1, <1>2, ClickCounted, ShownStep DEF Quietly

LEMMA TypeStep ==
  ASSUME PageInv, Type
  PROVE  PageInv'
<1>t. page \in PageStates /\ talk \in Talks /\ RoomTyped
  BY DEF PageInv, PageTypes, PageTyped, TalkTyped
<1>1. /\ page' = [page EXCEPT !.input = talk.typed + 1, !.error = FALSE] /\ seen' = page'
      /\ talk' = [talk EXCEPT !.typed = talk.typed + 1, !.clicks = talk.clicks + 1]
      /\ UNCHANGED <<toServer, wanted, starting, toPage, room, work>>
  BY <1>t DEF Type, Clicked, Silent, Counted, Talks
<1>2. /\ page' \in PageStates /\ page'.panel = page.panel /\ page'.audio = page.audio
      /\ page'.dialog = page.dialog /\ page'.unread = page.unread
      /\ page'.input = talk.typed + 1 /\ page'.sending = page.sending
  BY <1>1, <1>t, TalkFields DEF PageStates
<1>3. /\ talk' \in Talks /\ talk'.unseen = talk.unseen /\ talk'.missed = talk.missed /\ talk'.asked = talk.asked
      /\ talk'.typed = talk.typed + 1 /\ talk'.sent = talk.sent /\ talk'.delivered = talk.delivered
      /\ talk'.failed = talk.failed /\ talk.typed \in Nat
  BY <1>1, <1>t, TalkFields DEF Talks
<1>4. BadgeCounts'
  BY <1>1, <1>2, <1>3, BadgeKept DEF PageInv
<1>5. Messages' /\ Composer' /\ Resent' /\ OnTheWire'
  <2>1. Messages'
    BY <1>1, <1>2, <1>3 DEF PageInv, Drafts, Messages
  <2>2. Composer'
    BY <1>1, <1>2, <1>3 DEF PageInv, Drafts, Messages, Composer
  <2>3. Resent' /\ OnTheWire'
    BY <1>1, <1>3 DEF PageInv, Drafts, Resent, OnTheWire
  <2> QED
    BY <2>1, <2>2, <2>3
<1>6. WireTyped' /\ Mic' /\ Starts'
  BY <1>1, <1>2, <1>3, QuietClick DEF Quietly
<1>7. RoomTyped'
  BY <1>1, <1>t DEF RoomTyped
<1> QED
  BY <1>1, <1>2, <1>3, <1>4, <1>5, <1>6, <1>7, NewTypes DEF PageInv, Drafts

LEMMA SendStep ==
  ASSUME PageInv, Send
  PROVE  PageInv'
<1> DEFINE N == Len(talk.sent) + 1
           M == [type |-> "chat", draft |-> seen.input, n |-> N]
<1>t. page \in PageStates /\ seen \in PageStates /\ talk \in Talks /\ RoomTyped /\ WireTyped
  BY DEF PageInv, PageTypes, PageTyped, TalkTyped
<1>s. seen.input \in Nat /\ talk.sent \in Seq(Nat) /\ Len(talk.sent) \in Nat
  BY <1>t DEF PageStates, Talks
<1>a. /\ Append(talk.sent, seen.input) \in Seq(Nat)
      /\ DOMAIN Append(talk.sent, seen.input) = 1..N /\ DOMAIN talk.sent = 1..Len(talk.sent)
      /\ Append(talk.sent, seen.input)[N] = seen.input
      /\ \A i \in 1..Len(talk.sent) : Append(talk.sent, seen.input)[i] = talk.sent[i]
  BY <1>s, AppendEntries
<1>1. /\ seen.input # 0 /\ seen.sending = 0
      /\ page' = [page EXCEPT !.sending = N] /\ seen' = page'
      /\ talk' = [talk EXCEPT !.sent = Append(talk.sent, seen.input), !.clicks = talk.clicks + 1]
      /\ Says(M) /\ UNCHANGED <<wanted, starting, toPage, room, work>>
  BY <1>t DEF Send, MaySend, Clicked, Counted, Talks
<1>2. /\ page' \in PageStates /\ page'.panel = page.panel /\ page'.audio = page.audio
      /\ page'.dialog = page.dialog /\ page'.unread = page.unread
      /\ page'.input = page.input /\ page'.sending = N
  BY <1>1, <1>t, <1>s DEF PageStates
<1>3. /\ talk' \in Talks /\ talk'.unseen = talk.unseen /\ talk'.missed = talk.missed /\ talk'.asked = talk.asked
      /\ talk'.typed = talk.typed /\ talk'.sent = Append(talk.sent, seen.input)
      /\ talk'.delivered = talk.delivered /\ talk'.failed = talk.failed /\ talk.typed \in Nat
  <2> DEFINE sent == Append(talk.sent, seen.input)
  <2>1. sent \in Seq(Nat)
    BY <1>a
  <2>2. talk' = [talk EXCEPT !.sent = sent, !.clicks = talk.clicks + 1]
    BY <1>1
  <2> HIDE DEF sent
  <2>3. /\ talk' \in Talks /\ talk'.unseen = talk.unseen /\ talk'.missed = talk.missed
        /\ talk'.asked = talk.asked /\ talk'.typed = talk.typed /\ talk'.sent = sent
        /\ talk'.delivered = talk.delivered /\ talk'.failed = talk.failed /\ talk.typed \in Nat
    BY <1>t, <2>1, <2>2, TalkFields DEF Talks
  <2> QED
    BY <2>3 DEF sent
<1>4. M \in Requests /\ M.type = "chat" /\ M.n = N /\ M.draft = seen.input
  BY <1>s DEF Requests
<1> HIDE DEF M
<1>5. BadgeCounts'
  BY <1>1, <1>2, <1>3, BadgeKept DEF PageInv
<1>f. /\ page.sending = 0 /\ page.input = seen.input /\ page.input = talk.typed
      /\ \A n \in DOMAIN talk.sent : talk.sent[n] = page.input => n \in talk.failed
  BY <1>1, <1>a, <1>s DEF PageInv, Drafts, Messages, Composer
<1>6. Messages' /\ Composer' /\ Resent'
  <2>1. Messages'
    BY <1>1, <1>2, <1>3, <1>a, <1>f, <1>s DEF PageInv, Drafts, Messages
  <2>2. Composer'
    BY <1>1, <1>2, <1>3, <1>a, <1>f, <1>s DEF Composer
  <2>3. Resent'
    BY <1>1, <1>3, <1>a, <1>f, <1>s DEF PageInv, Drafts, Resent
  <2> QED
    BY <2>1, <2>2, <2>3
<1>7. /\ toServer' \in Seq(Requests) /\ ToSet(toServer') = ToSet(toServer) \cup {M}
  BY <1>1, <1>4, <1>t, Said
<1>8. OnTheWire'
  BY <1>1, <1>3, <1>4, <1>7, <1>a, <1>s DEF PageInv, Drafts, OnTheWire, Messages
<1>9. Mic'
  <2>1. \A op \in Ops : Keeps(op)
    BY <1>1, <1>4, <1>t, OtherSaid DEF Ops
  <2> QED
    BY <2>1, <1>1, <1>2, <1>t, MicKept DEF PageInv, RoomTyped, MutedComing
<1>10. Starts'
  BY <1>1, <1>2, <1>3, <1>4, <1>7, StartsKept DEF PageInv
<1>11. RoomTyped' /\ WireTyped'
  BY <1>1, <1>7, <1>t DEF RoomTyped, WireTyped
<1> QED
  BY <1>1, <1>2, <1>3, <1>5, <1>6, <1>8, <1>9, <1>10, <1>11, NewTypes DEF PageInv, Drafts

(* the microphone is turned on or off by this page *)
LEMMA Flip ==
  ASSUME WireTyped, wanted \in BOOLEAN, FlipMic
  PROVE  /\ wanted' = ~wanted /\ Decided(Wish)' /\ Requested(Wish)' /\ toServer' \in Seq(Requests)
         /\ \A m \in ToSet(toServer') : m.type \in {"chat", "start"} => m \in ToSet(toServer)
<1>1. wanted' = ~wanted /\ Says([type |-> IF wanted THEN "pause" ELSE "resume"])
  BY DEF FlipMic
<1>2. PICK op \in Ops : Says([type |-> op]) /\ (op = "pause" <=> wanted)
  BY <1>1 DEF Ops
<1>3. [type |-> op] \in Requests
  BY DEF Requests
<1>4. Decided(op)' /\ Requested(op)'
  BY <1>2, <1>3, MicSaid
<1>5. Decided(Wish)' /\ Requested(Wish)'
  <2>1. CASE wanted
    BY <1>1, <1>2, <1>4, <2>1 DEF Wish
  <2>2. CASE ~wanted
    BY <1>1, <1>2, <1>4, <2>2 DEF Wish, Ops
  <2> QED
    BY <2>1, <2>2
<1>6. ToSet(toServer') = ToSet(toServer) \cup {[type |-> op]} /\ toServer' \in Seq(Requests)
  BY <1>2, <1>3, Said
<1> QED
  BY <1>1, <1>5, <1>6 DEF Ops

(* a click on the microphone's button, or on the prompt to unmute *)
LEMMA FlipClick ==
  ASSUME PageInv, FlipMic, ByClick, seen' = page', page' \in PageStates,
         UNCHANGED <<starting, toPage, room, work>>,
         page'.audio = ~wanted, page'.panel = page.panel, page'.unread = page.unread,
         page'.dialog = page.dialog, page'.input = page.input, page'.sending = page.sending
  PROVE  PageInv'
<1>t. WireTyped /\ RoomTyped /\ wanted \in BOOLEAN
  BY DEF PageInv, PageTypes, RoomTyped
<1>1. BadgeCounts'
  BY ClickCounted, BadgeKept DEF PageInv
<1>2. Messages' /\ Composer' /\ Resent'
  BY ClickCounted, ComposerKept DEF PageInv
<1>3. WireTyped' /\ RoomTyped'
  BY <1>t, Flip DEF WireTyped, RoomTyped
<1>4. OnTheWire'
  BY <1>t, Flip, ClickCounted, WireKept DEF PageInv
<1>5. Mic'
  BY <1>t, Flip DEF Mic
<1>6. Starts'
  BY <1>t, Flip, ClickCounted, StartsKept DEF PageInv
<1> QED
  BY <1>1, <1>2, <1>3, <1>4, <1>5, <1>6, ClickCounted, NewTypes DEF PageInv, Drafts

LEMMA ToggleMicStep ==
  ASSUME PageInv, ToggleMic
  PROVE  PageInv'
<1>1. /\ page' = [page EXCEPT !.audio = ~wanted] /\ seen' = page' /\ ByClick /\ FlipMic
      /\ UNCHANGED <<starting, toPage, room, work>>
  BY DEF ToggleMic, Clicked, Flipped
<1>2. /\ page' \in PageStates /\ page'.panel = page.panel
      /\ page'.audio = ~wanted /\ page'.dialog = page.dialog /\ page'.unread = page.unread
      /\ page'.input = page.input /\ page'.sending = page.sending
  BY <1>1 DEF PageInv, PageTypes, PageTyped, PageStates
<1> QED
  BY <1>1, <1>2, FlipClick

LEMMA AnswerPromptStep ==
  ASSUME PageInv, AnswerPrompt
  PROVE  PageInv'
<1>1. CASE seen.audio
  <2>1. /\ page' = [page EXCEPT !.prompt = FALSE] /\ seen' = page' /\ ByClick
        /\ UNCHANGED <<toServer, wanted, starting, toPage, room, work>>
    BY <1>1 DEF AnswerPrompt, Clicked, Silent
  <2>2. /\ page' \in PageStates /\ page'.panel = page.panel
        /\ page'.audio = page.audio /\ page'.dialog = page.dialog /\ page'.unread = page.unread
        /\ page'.input = page.input /\ page'.sending = page.sending
    BY <2>1 DEF PageInv, PageTypes, PageTyped, PageStates
  <2> QED
    BY <2>1, <2>2, ClickCounted, ShownStep DEF Quietly
<1>2. CASE ~seen.audio
  <2>1. /\ page' = [[page EXCEPT !.audio = ~wanted] EXCEPT !.prompt = FALSE] /\ seen' = page'
        /\ ByClick /\ FlipMic /\ UNCHANGED <<starting, toPage, room, work>>
    BY <1>2 DEF AnswerPrompt, Clicked, Flipped
  <2>2. /\ page' \in PageStates /\ page'.panel = page.panel
        /\ page'.audio = ~wanted /\ page'.dialog = page.dialog /\ page'.unread = page.unread
        /\ page'.input = page.input /\ page'.sending = page.sending
    BY <2>1 DEF PageInv, PageTypes, PageTyped, PageStates
  <2> QED
    BY <2>1, <2>2, FlipClick
<1> QED
  BY <1>1, <1>2

(* clicks about the transcript leave the badge, the composer and the         *)
(* microphone alone                                                          *)
LEMMA TranscriptClick ==
  ASSUME PageInv, page' \in PageStates, seen' = page', talk' \in Talks, SameTalk,
         toServer' = toServer \/ \E m \in Requests : Says(m) /\ m.type \notin Ops \cup {"chat"},
         starting' \in BOOLEAN, UNCHANGED <<wanted, toPage, room, work>>,
         talk'.unseen = talk.unseen, talk'.missed = talk.missed,
         page'.audio = page.audio, page'.unread = page.unread,
         page'.input = page.input, page'.sending = page.sending,
         page'.panel = page.panel \/ page'.panel # "chat",
         Starts'
  PROVE  PageInv'
<1>1. BadgeCounts'
  BY BadgeKept, BadgeKeptElsewhere DEF PageInv
<1>2. Messages' /\ Composer' /\ Resent'
  BY ComposerKept DEF PageInv
<1>3. /\ toServer' \in Seq(Requests)
      /\ \A m \in ToSet(toServer') : m.type = "chat" => m \in ToSet(toServer)
  BY Said DEF PageInv, PageTypes, WireTyped
<1>4. OnTheWire'
  BY <1>3, WireKept DEF PageInv
<1>5. \A op \in Ops : Keeps(op)
  BY OtherSaid, NothingSaid DEF PageInv, PageTypes
<1>6. Mic'
  BY <1>5, MicKept DEF PageInv, PageTypes, RoomTyped, MutedComing
<1>7. WireTyped' /\ RoomTyped'
  BY <1>3 DEF PageInv, PageTypes, WireTyped, RoomTyped
<1> QED
  BY <1>1, <1>2, <1>4, <1>6, <1>7, NewTypes DEF PageInv, Drafts

LEMMA ToggleTranscriptStep ==
  ASSUME PageInv, ToggleTranscript
  PROVE  PageInv'
<1>t. page \in PageStates /\ seen \in PageStates /\ talk \in Talks /\ starting \in BOOLEAN /\ WireTyped
  BY DEF PageInv, PageTypes, PageTyped, TalkTyped, RoomTyped
<1>u. UNCHANGED <<wanted, toPage, room, work>>
  BY DEF ToggleTranscript
<1>1. PICK entries \in BOOLEAN :
        IF seen.active \/ entries
        THEN /\ Clicked([page EXCEPT !.panel = IF @ = "transcript" THEN "none" ELSE "transcript",
                          !.dialog = @ \/ ~seen.consent])
             /\ ByClick /\ Silent /\ UNCHANGED starting
        ELSE /\ room.host
             /\ talk' = Counted([talk EXCEPT !.asked = TRUE])
             /\ Clicked([page EXCEPT !.dialog = @ \/ ~seen.consent])
             /\ starting' = (starting \/ ~seen.consent)
             /\ IF seen.consent THEN Says([type |-> "start", asked |-> TRUE]) ELSE Silent
  BY DEF ToggleTranscript
<1>2. CASE seen.active \/ entries
  <2>1. /\ page' = [page EXCEPT !.panel = IF page.panel = "transcript" THEN "none" ELSE "transcript",
                      !.dialog = page.dialog \/ ~seen.consent]
        /\ seen' = page' /\ ByClick /\ UNCHANGED <<toServer, starting>>
    BY <1>1, <1>2, <1>t DEF Clicked, Silent, PageStates
  <2>2. /\ page' \in PageStates /\ page'.panel # "chat" /\ page'.audio = page.audio
        /\ page.dialog => page'.dialog /\ page'.unread = page.unread
        /\ page'.input = page.input /\ page'.sending = page.sending
    BY <2>1, <1>t DEF PageStates, Panels
  <2>3. page'.unread = page.unread /\ page'.input = page.input /\ page'.sending = page.sending
    BY <2>1, <1>t DEF PageStates
  <2>4. Starts'
    BY <2>1, <2>2, ClickCounted, StartsKept DEF PageInv
  <2> QED
    BY <1>t, <1>u, <2>1, <2>2, <2>3, <2>4, ClickCounted, TranscriptClick
<1>3. CASE ~(seen.active \/ entries)
  <2>1. /\ page' = [page EXCEPT !.dialog = page.dialog \/ ~seen.consent] /\ seen' = page'
        /\ talk' = [talk EXCEPT !.asked = TRUE, !.clicks = talk.clicks + 1]
        /\ starting' = (starting \/ ~seen.consent)
        /\ IF seen.consent THEN Says([type |-> "start", asked |-> TRUE]) ELSE Silent
    BY <1>1, <1>3, <1>t DEF Clicked, Counted, PageStates, Talks
  <2>2. /\ page' \in PageStates /\ page'.panel = page.panel /\ page'.audio = page.audio
        /\ page'.dialog = (page.dialog \/ ~seen.consent) /\ page'.unread = page.unread
        /\ page'.input = page.input /\ page'.sending = page.sending
    BY <2>1, <1>t DEF PageStates
  <2>3. /\ talk' \in Talks /\ SameTalk /\ talk'.unseen = talk.unseen /\ talk'.missed = talk.missed
        /\ talk'.asked
    BY <2>1, <1>t, TalkFields DEF Talks, SameTalk
  <2> DEFINE m == [type |-> "start", asked |-> TRUE]
  <2>4. m \in Requests /\ m.type = "start" /\ m.asked /\ m.type \notin Ops \cup {"chat"}
    BY DEF Requests, Ops
  <2>5. (Says(m) \/ toServer' = toServer) /\ starting' \in BOOLEAN
    BY <2>1, <1>t DEF Silent
  <2> HIDE DEF m
  <2>6. \A x \in ToSet(toServer') : x \in ToSet(toServer) \/ x = m
    BY <2>4, <2>5, <1>t, Said
  <2>7. starting' => page'.dialog
    BY <2>1, <2>2, <1>t DEF PageInv, Starts
  <2>8. Starts'
    BY <2>1, <2>3, <2>4, <2>6, <2>7 DEF PageInv, Starts
  <2> QED
    BY <1>u, <2>1, <2>2, <2>3, <2>4, <2>5, <2>8, TranscriptClick
<1> QED
  BY <1>2, <1>3, <1>t DEF PageStates

LEMMA EnableContributionStep ==
  ASSUME PageInv, EnableContribution
  PROVE  PageInv'
<1>1. /\ page' = [page EXCEPT !.dialog = TRUE] /\ seen' = page' /\ ByClick
      /\ UNCHANGED <<toServer, wanted, starting, toPage, room, work>>
  BY DEF EnableContribution, Clicked, Silent
<1>2. /\ page' \in PageStates /\ page'.panel = page.panel /\ page'.audio = page.audio /\ page'.dialog
      /\ page'.unread = page.unread /\ page'.input = page.input /\ page'.sending = page.sending
  BY <1>1 DEF PageInv, PageTypes, PageTyped, PageStates
<1>3. Starts'
  BY <1>1, <1>2, ClickCounted, StartsKept DEF PageInv
<1>4. starting' \in BOOLEAN
  BY <1>1 DEF PageInv, PageTypes, RoomTyped
<1> QED
  BY <1>1, <1>2, <1>3, <1>4, ClickCounted, TranscriptClick

LEMMA AcceptStep ==
  ASSUME PageInv, Accept
  PROVE  PageInv'
<1>t. page \in PageStates /\ talk \in Talks /\ starting \in BOOLEAN /\ WireTyped
  BY DEF PageInv, PageTypes, PageTyped, TalkTyped, RoomTyped
<1> DEFINE m == [type |-> "start", asked |-> talk.asked]
<1>1. /\ page' = [page EXCEPT !.consent = TRUE, !.dialog = FALSE] /\ seen' = page' /\ ByClick
      /\ (starting /\ Says(m)) \/ toServer' = toServer
      /\ starting' = FALSE /\ UNCHANGED <<wanted, toPage, room, work>>
  BY DEF Accept, Clicked, Silent, StartRequest
<1>2. /\ page' \in PageStates /\ page'.panel = page.panel /\ page'.audio = page.audio
      /\ page'.unread = page.unread /\ page'.input = page.input /\ page'.sending = page.sending
  BY <1>1, <1>t DEF PageStates
<1>3. m \in Requests /\ m.asked = talk.asked /\ m.type \notin Ops \cup {"chat"}
  BY <1>t DEF Requests, Ops, Talks
<1> HIDE DEF m
<1>4. \A x \in ToSet(toServer') : x \in ToSet(toServer) \/ (x = m /\ starting)
  BY <1>1, <1>3, <1>t, Said
<1>5. Starts'
  BY <1>1, <1>3, <1>4 DEF PageInv, Starts
<1> QED
  BY <1>1, <1>2, <1>3, <1>5, ClickCounted, TranscriptClick

LEMMA DeclineStep ==
  ASSUME PageInv, Decline
  PROVE  PageInv'
<1>t. page \in PageStates /\ talk \in Talks
  BY DEF PageInv, PageTypes, PageTyped, TalkTyped
<1>1. /\ page' = [page EXCEPT !.dialog = FALSE] /\ seen' = page'
      /\ talk' = [talk EXCEPT !.asked = FALSE, !.clicks = talk.clicks + 1]
      /\ starting' = FALSE /\ UNCHANGED <<toServer, wanted, toPage, room, work>>
  BY <1>t DEF Decline, Clicked, Silent, Counted, Talks, StartAfterDecline
<1>2. /\ page' \in PageStates /\ page'.panel = page.panel /\ page'.audio = page.audio
      /\ page'.unread = page.unread /\ page'.input = page.input /\ page'.sending = page.sending
  BY <1>1, <1>t DEF PageStates
<1>3. talk' \in Talks /\ SameTalk /\ talk'.unseen = talk.unseen /\ talk'.missed = talk.missed
  BY <1>1, <1>t, TalkFields DEF Talks, SameTalk
<1>4. Starts'
  BY <1>1 DEF PageInv, Starts
<1> QED
  BY <1>1, <1>2, <1>3, <1>4, TranscriptClick

(* the dialog that asks is modal: with it open nothing is stopped *)
LEMMA StopTranscriptStep ==
  ASSUME PageInv, StopTranscript, ~seen.dialog
  PROVE  PageInv'
<1>t. page \in PageStates /\ talk \in Talks /\ WireTyped
  BY DEF PageInv, PageTypes, PageTyped, TalkTyped
<1> DEFINE m == [type |-> "stop"]
<1>1. /\ page' = page /\ seen' = page' /\ Says(m)
      /\ talk' = [talk EXCEPT !.asked = FALSE, !.clicks = talk.clicks + 1]
      /\ UNCHANGED <<starting, wanted, toPage, room, work>>
  BY <1>t DEF StopTranscript, Clicked, Counted, Talks
<1>3. talk' \in Talks /\ SameTalk /\ talk'.unseen = talk.unseen /\ talk'.missed = talk.missed
  BY <1>1, <1>t, TalkFields DEF Talks, SameTalk
<1>4. m \in Requests /\ m.type = "stop" /\ m.type \notin Ops \cup {"chat"}
  BY DEF Requests, Ops
<1> HIDE DEF m
<1>5. ~starting
  BY DEF PageInv, Starts
<1>6. Starts'
  BY <1>1, <1>4, <1>5, <1>t, Said DEF PageInv, Starts
<1>7. starting' \in BOOLEAN
  BY <1>1, <1>5 DEF PageInv, PageTypes, RoomTyped
<1> QED
  BY <1>1, <1>t, <1>3, <1>4, <1>6, <1>7, TranscriptClick

LEMMA ParticipantStep == PageInv /\ Participant => PageInv'
<1> SUFFICES ASSUME PageInv, Participant PROVE PageInv'
  OBVIOUS
<1>1. ASSUME NEW panel \in Panels, SwitchPanel(panel) PROVE PageInv'
  BY <1>1, SwitchPanelStep
<1>2. CASE OpenChat
  BY <1>2, OpenChatStep
<1>3. CASE Type
  BY <1>3, TypeStep
<1>4. CASE Send
  BY <1>4, SendStep
<1>5. CASE ToggleMic
  BY <1>5, ToggleMicStep
<1>6. CASE AnswerPrompt
  BY <1>6, AnswerPromptStep
<1>7. CASE DismissPrompt
  BY <1>7, DismissPromptStep
<1>8. CASE ToggleTranscript
  BY <1>8, ToggleTranscriptStep
<1>9. CASE EnableContribution
  BY <1>9, EnableContributionStep
<1>10. CASE ~seen.dialog /\ StopTranscript
  BY <1>10, StopTranscriptStep
<1>11. CASE Accept
  BY <1>11, AcceptStep
<1>12. CASE Decline
  BY <1>12, DeclineStep
<1> QED
  BY <1>1, <1>2, <1>3, <1>4, <1>5, <1>6, <1>7, <1>8, <1>9, <1>10, <1>11, <1>12 DEF Participant

-----------------------------------------------------------------------------
(* the page: what its listeners do *)

LEMMA HeardEntries ==
  ASSUME PageInv, toPage # <<>>, Heard
  PROVE  /\ Head(toPage) \in Events /\ Head(toPage) \in ToSet(toPage) /\ toPage' \in Seq(Events)
         /\ ToSet(toPage) = ToSet(toPage') \cup {Head(toPage)}
         /\ UNCHANGED <<seen, starting, room, work>>
  BY TailEntries DEF PageInv, PageTypes, WireTyped, Heard

LEMMA HeardOther ==
  ASSUME PageInv, toPage # <<>>, Heard, Head(toPage).type # "muted", NoMic,
         page' \in PageStates, page'.audio = page.audio
  PROVE  /\ WireTyped' /\ RoomTyped' /\ Mic'
         /\ SameTalk => OnTheWire'
         /\ talk'.asked = talk.asked /\ (page.dialog => page'.dialog) => Starts'
<1>1. UNCHANGED <<seen, starting, room, work, wanted, toServer>>
  BY HeardEntries DEF NoMic
<1>2. WireTyped' /\ RoomTyped'
  BY <1>1, HeardEntries DEF PageInv, PageTypes, WireTyped, RoomTyped
<1>3. SameTalk => OnTheWire'
  BY <1>1, HeardEntries, WireKept DEF PageInv
<1>4. MutedComing => MutedComing'
  BY <1>1, HeardEntries DEF MutedComing
<1>5. Mic'
  <2>1. page.audio => seen'.audio
    BY <1>1 DEF PageInv, Mic
  <2> QED
    BY <1>1, <1>4, <2>1, NothingSaid, MicKept DEF PageInv, PageTypes, RoomTyped
<1>6. talk'.asked = talk.asked /\ (page.dialog => page'.dialog) => Starts'
  BY <1>1 DEF PageInv, Starts
<1> QED
  BY <1>2, <1>3, <1>5, <1>6

(* a listener that touches neither the badge nor the composer *)
LEMMA HeardElsewhere ==
  ASSUME PageInv, toPage # <<>>, Heard, Head(toPage).type # "muted", NoMic, UNCHANGED talk,
         page' \in PageStates, page'.audio = page.audio, page.dialog => page'.dialog,
         page'.input = page.input, page'.sending = page.sending, page'.unread = page.unread,
         page'.panel = page.panel \/ page'.panel # "chat"
  PROVE  PageInv'
<1>1. SameTalk /\ talk' \in Talks /\ seen' = seen /\ seen' \in PageStates
  BY HeardEntries DEF SameTalk, PageInv, PageTypes, PageTyped, TalkTyped
<1>2. BadgeCounts'
  BY <1>1, BadgeKept, BadgeKeptElsewhere DEF PageInv
<1>3. Messages' /\ Composer' /\ Resent'
  BY <1>1, ComposerKept DEF PageInv
<1> QED
  BY <1>1, <1>2, <1>3, HeardOther, NewTypes DEF PageInv, Drafts

LEMMA RenderStep ==
  ASSUME PageInv, Render
  PROVE  PageInv'
<1>1. seen' = page /\ UNCHANGED <<page, wanted, starting, toServer, toPage, room, work, talk>>
  BY DEF Render
<1>2. SameTalk
  BY <1>1 DEF SameTalk
<1>3. BadgeCounts'
  BY <1>1, BadgeKept DEF PageInv
<1>4. Messages' /\ Composer' /\ Resent'
  BY <1>1, <1>2, ComposerKept DEF PageInv
<1>5. OnTheWire'
  BY <1>1, <1>2, WireKept DEF PageInv
<1>6. Mic'
  BY <1>1, NothingSaid, MicKept DEF PageInv, PageTypes, RoomTyped, MutedComing
<1>7. Starts'
  BY <1>1 DEF PageInv, Starts
<1>8. PageTypes'
  BY <1>1 DEF PageInv, PageTypes, PageTyped, TalkTyped, WireTyped, RoomTyped
<1> QED
  BY <1>3, <1>4, <1>5, <1>6, <1>7, <1>8 DEF PageInv, Drafts

LEMMA HearChatStep ==
  ASSUME PageInv, HearChat
  PROVE  PageInv'
<1> DEFINE other == ~Head(toPage).own
           badge == other /\ seen.panel # "chat"
           closed == other /\ page.panel # "chat"
<1>t. page \in PageStates /\ seen \in PageStates /\ talk \in Talks
  BY DEF PageInv, PageTypes, PageTyped, TalkTyped
<1>1. /\ toPage # <<>> /\ Head(toPage).type # "muted" /\ Heard /\ NoMic
      /\ page' = IF badge THEN [page EXCEPT !.unread = page.unread + 1] ELSE page
      /\ talk' = [talk EXCEPT !.unseen = IF closed THEN talk.unseen + 1 ELSE talk.unseen,
                    !.missed = IF closed /\ ~badge THEN talk.missed + 1 ELSE talk.missed]
  BY <1>t DEF HearChat, Is, Talks, PageStates
<1> HIDE DEF other
<1>2. page.unread \in Nat /\ page.unread + 1 \in Nat
  BY <1>t DEF PageStates
<1>3. /\ page' \in PageStates /\ page'.panel = page.panel /\ page'.audio = page.audio
      /\ page'.dialog = page.dialog /\ page'.input = page.input /\ page'.sending = page.sending
      /\ page'.unread = IF badge THEN page.unread + 1 ELSE page.unread
  BY <1>1, <1>2, <1>t DEF PageStates
<1>4. /\ talk' \in Talks /\ SameTalk /\ talk'.asked = talk.asked
      /\ talk'.unseen = IF closed THEN talk.unseen + 1 ELSE talk.unseen
      /\ talk'.missed = IF closed /\ ~badge THEN talk.missed + 1 ELSE talk.missed
  BY <1>1, <1>t, TalkFields DEF Talks, SameTalk
<1>5. seen' = seen
  BY <1>1, HeardEntries
<1>b. /\ page.panel = "chat" => seen.panel = "chat" /\ page.unread = 0
      /\ page.unread + talk.missed = talk.unseen /\ talk.missed \in Nat /\ talk.unseen \in Nat
  BY <1>t, TalkFields DEF PageInv, BadgeCounts
<1>6. BadgeCounts'
  <2>1. CASE badge
    <3>1. closed
      BY <2>1, <1>b
    <3> QED
      BY <2>1, <3>1, <1>b, <1>2, <1>3, <1>4, <1>5 DEF BadgeCounts
  <2>2. CASE ~badge /\ closed
    BY <2>2, <1>b, <1>2, <1>3, <1>4, <1>5 DEF BadgeCounts
  <2>3. CASE ~badge /\ ~closed
    BY <2>3, <1>b, <1>2, <1>3, <1>4, <1>5 DEF BadgeCounts
  <2> QED
    BY <2>1, <2>2, <2>3
<1>7. Messages' /\ Composer' /\ Resent'
  BY <1>3, <1>4, <1>5, ComposerKept DEF PageInv
<1> QED
  BY <1>1, <1>3, <1>4, <1>5, <1>6, <1>7, <1>t, HeardOther, NewTypes DEF PageInv, Drafts

LEMMA HearSnapshotStep ==
  ASSUME PageInv, HearSnapshot
  PROVE  PageInv'
<1>t. page \in PageStates
  BY DEF PageInv, PageTypes, PageTyped
<1>1. /\ toPage # <<>> /\ Head(toPage).type # "muted" /\ Heard /\ NoMic /\ UNCHANGED talk
      /\ page' = [page EXCEPT !.active = TRUE, !.dialog = page.dialog \/ ~page.consent]
  BY <1>t DEF HearSnapshot, Is, PageStates
<1>2. /\ page' \in PageStates /\ page'.audio = page.audio /\ (page.dialog => page'.dialog)
      /\ page'.input = page.input /\ page'.sending = page.sending /\ page'.unread = page.unread
      /\ page'.panel = page.panel
  BY <1>1, <1>t DEF PageStates
<1> QED
  BY <1>1, <1>2, HeardElsewhere

LEMMA HearStateStep ==
  ASSUME PageInv, HearState
  PROVE  PageInv'
<1>t. page \in PageStates
  BY DEF PageInv, PageTypes, PageTyped
<1>1. /\ toPage # <<>> /\ Head(toPage).type # "muted" /\ Heard /\ NoMic /\ UNCHANGED talk
      /\ page' = IF Head(toPage).active
                 THEN [page EXCEPT !.active = TRUE, !.panel = "transcript",
                        !.dialog = page.dialog \/ ~page.consent]
                 ELSE [page EXCEPT !.active = FALSE]
  BY <1>t DEF HearState, Is, PageStates
<1>2. /\ page' \in PageStates /\ page'.audio = page.audio /\ (page.dialog => page'.dialog)
      /\ page'.input = page.input /\ page'.sending = page.sending /\ page'.unread = page.unread
      /\ page'.panel = page.panel \/ page'.panel # "chat"
  BY <1>1, <1>t DEF PageStates, Panels
<1> QED
  BY <1>1, <1>2, HeardElsewhere

LEMMA HearStartedStep ==
  ASSUME PageInv, HearStarted
  PROVE  PageInv'
<1>t. page \in PageStates
  BY DEF PageInv, PageTypes, PageTyped
<1>1. /\ toPage # <<>> /\ Head(toPage).type # "muted" /\ Heard /\ NoMic /\ UNCHANGED talk
      /\ page' = IF Head(toPage).ok THEN [page EXCEPT !.panel = "transcript"] ELSE page
  BY DEF HearStarted, Is
<1>2. /\ page' \in PageStates /\ page'.audio = page.audio /\ (page.dialog => page'.dialog)
      /\ page'.input = page.input /\ page'.sending = page.sending /\ page'.unread = page.unread
      /\ page'.panel = page.panel \/ page'.panel # "chat"
  BY <1>1, <1>t DEF PageStates, Panels
<1> QED
  BY <1>1, <1>2, HeardElsewhere

LEMMA HearUnmuteRequestStep ==
  ASSUME PageInv, HearUnmuteRequest
  PROVE  PageInv'
<1>1. /\ toPage # <<>> /\ Head(toPage).type # "muted" /\ Heard /\ NoMic /\ UNCHANGED talk
      /\ page' = [page EXCEPT !.prompt = TRUE]
  BY DEF HearUnmuteRequest, Is
<1>2. /\ page' \in PageStates /\ page'.audio = page.audio /\ (page.dialog => page'.dialog)
      /\ page'.input = page.input /\ page'.sending = page.sending /\ page'.unread = page.unread
      /\ page'.panel = page.panel
  BY <1>1 DEF PageInv, PageTypes, PageTyped, PageStates
<1> QED
  BY <1>1, <1>2, HeardElsewhere

(* a page that was muted by the host and shows the microphone on says that  *)
(* it is off; one that shows it off already had the server told             *)
LEMMA HearMutedStep ==
  ASSUME PageInv, HearMuted
  PROVE  PageInv'
<1>t. /\ page \in PageStates /\ seen \in PageStates /\ talk \in Talks
      /\ WireTyped /\ wanted \in BOOLEAN
  BY DEF PageInv, PageTypes, PageTyped, TalkTyped, RoomTyped
<1>1. toPage # <<>> /\ Heard /\ UNCHANGED talk
  BY DEF HearMuted, Is
<1>2. UNCHANGED <<seen, starting, room, work>> /\ toPage' \in Seq(Events)
  BY <1>1, HeardEntries
<1>3. SameTalk
  BY <1>1 DEF SameTalk
<1>4. /\ page' \in PageStates /\ (page.dialog => page'.dialog) /\ page'.panel = page.panel
      /\ page'.input = page.input /\ page'.sending = page.sending /\ page'.unread = page.unread
  BY <1>t DEF HearMuted, Flipped, PageStates
<1>5. /\ wanted' \in BOOLEAN /\ toServer' \in Seq(Requests) /\ Mic'
      /\ \A m \in ToSet(toServer') : m.type \in {"chat", "start"} => m \in ToSet(toServer)
  <2>1. CASE seen.audio
    <3>1. page' = [page EXCEPT !.audio = ~wanted] /\ FlipMic
      BY <2>1 DEF HearMuted, Flipped
    <3>2. page'.audio = ~wanted
      BY <3>1, <1>t DEF PageStates
    <3> QED
      BY <2>1, <3>1, <3>2, <1>2, <1>t, Flip DEF Mic
  <2>2. CASE ~seen.audio
    <3>1. UNCHANGED <<page, wanted, toServer>>
      BY <2>2 DEF HearMuted, NoMic
    <3>2. ~wanted /\ ~page.audio
      BY <2>2 DEF PageInv, Mic
    <3>3. (work.refused \/ Decided("pause")) /\ Requested("pause")
      BY <3>2 DEF PageInv, Mic, Wish
    <3>4. (work'.refused \/ Decided("pause")') /\ Requested("pause")'
      BY <3>1, <3>3, <1>2, NothingSaid DEF Ops, Keeps
    <3>5. (work'.refused \/ Decided(Wish)') /\ Requested(Wish)'
      BY <3>1, <3>2, <3>4 DEF Wish
    <3>6. wanted' = page'.audio /\ ~page'.audio
      BY <3>1, <3>2 DEF PageInv, Mic
    <3>7. Mic'
      BY <3>5, <3>6 DEF Mic
    <3> QED
      BY <3>1, <3>7, <1>t DEF WireTyped
  <2> QED
    BY <2>1, <2>2
<1>6. BadgeCounts'
  BY <1>1, <1>2, <1>4, BadgeKept DEF PageInv
<1>7. Messages' /\ Composer' /\ Resent'
  BY <1>2, <1>3, <1>4, ComposerKept DEF PageInv
<1>8. OnTheWire'
  BY <1>1, <1>3, <1>5, HeardEntries, WireKept DEF PageInv
<1>9. Starts'
  BY <1>1, <1>2, <1>4, <1>5 DEF PageInv, Starts
<1>10. WireTyped' /\ RoomTyped'
  BY <1>2, <1>5 DEF PageInv, PageTypes, WireTyped, RoomTyped
<1> QED
  BY <1>1, <1>2, <1>4, <1>5, <1>6, <1>7, <1>8, <1>9, <1>10, <1>t, NewTypes DEF PageInv, Drafts

(* an answer that is awaited frees the composer *)
LEMMA HearSentStep ==
  ASSUME PageInv, HearSent
  PROVE  PageInv'
<1> DEFINE m == Head(toPage)
           awaited == page.sending = m.n
           done == [page EXCEPT !.sending = 0]
<1>t. page \in PageStates /\ seen \in PageStates /\ talk \in Talks
  BY DEF PageInv, PageTypes, PageTyped, TalkTyped
<1>1. /\ toPage # <<>> /\ m.type = "sent" /\ Heard /\ NoMic
      /\ page' = IF ~awaited THEN page ELSE IF m.ok THEN Cleared(done, m.draft) ELSE [done EXCEPT !.error = TRUE]
      /\ talk' = IF awaited /\ ~m.ok THEN [talk EXCEPT !.failed = talk.failed \cup {m.n}] ELSE talk
  BY <1>t DEF HearSent, Is, Talks
<1>2. /\ m.n \in DOMAIN talk.sent /\ m.n \in Nat \ {0} /\ m.ok \in BOOLEAN /\ m.draft \in Nat
      /\ m.ok => m.n \in talk.delivered /\ m.draft = talk.sent[m.n]
  <2>1. m \in Events /\ m \in ToSet(toPage)
    BY <1>1, HeardEntries
  <2>2. m.n \in Nat /\ m.ok \in BOOLEAN /\ m.draft \in Nat
    BY <2>1, <1>1 DEF Events
  <2>3. DOMAIN talk.sent = 1..Len(talk.sent) /\ Len(talk.sent) \in Nat
    BY <1>t, TalkFields
  <2> QED
    BY <1>1, <2>1, <2>2, <2>3 DEF PageInv, Drafts, OnTheWire
<1>3. seen' = seen
  BY <1>1, HeardEntries
<1> HIDE DEF m
<1>4. CASE ~awaited
  <2>1. page' = page /\ talk' = talk /\ SameTalk
    BY <1>1, <1>4 DEF SameTalk
  <2>2. BadgeCounts' /\ Messages' /\ Composer' /\ Resent'
    BY <1>3, <2>1, BadgeKept, ComposerKept DEF PageInv
  <2> QED
    BY <1>1, <1>3, <2>1, <2>2, <1>t, HeardOther, NewTypes DEF m, PageInv, Drafts
<1>5. CASE awaited
  <2>1. done \in PageStates /\ done.sending = 0 /\ done.panel = page.panel /\ done.audio = page.audio
        /\ done.dialog = page.dialog /\ done.unread = page.unread /\ done.input = page.input
    BY <1>t DEF PageStates
  <2>2. seen.sending # 0 /\ page.sending = m.n
    BY <1>2, <1>5 DEF PageInv, Drafts, Messages
  <2> HIDE DEF done
  <2>3. page' = IF m.ok THEN [done EXCEPT !.input = IF done.input = m.draft THEN 0 ELSE done.input, !.error = FALSE]
                ELSE [done EXCEPT !.error = TRUE]
    BY <1>1, <1>5, <2>1 DEF Cleared, PageStates
  <2>4. /\ page' \in PageStates /\ page'.sending = 0 /\ page'.panel = page.panel /\ page'.audio = page.audio
        /\ page'.dialog = page.dialog /\ page'.unread = page.unread
        /\ page'.input = IF m.ok /\ page.input = m.draft THEN 0 ELSE page.input
    BY <1>2, <2>1, <2>3 DEF PageStates
  <2>5. /\ talk' \in Talks /\ talk'.asked = talk.asked /\ talk'.unseen = talk.unseen /\ talk'.missed = talk.missed
        /\ talk'.typed = talk.typed /\ talk'.sent = talk.sent /\ talk'.delivered = talk.delivered
        /\ talk'.failed = IF m.ok THEN talk.failed ELSE talk.failed \cup {m.n}
    <3>1. CASE m.ok
      BY <1>1, <1>5, <1>t, <3>1
    <3>2. CASE ~m.ok
      <4> DEFINE failed == talk.failed \cup {m.n}
      <4>1. failed \in SUBSET Nat /\ talk' = [talk EXCEPT !.failed = failed]
        BY <1>1, <1>2, <1>5, <3>2, <1>t, TalkFields
      <4> HIDE DEF failed
      <4>2. /\ talk' \in Talks /\ talk'.asked = talk.asked /\ talk'.unseen = talk.unseen
            /\ talk'.missed = talk.missed /\ talk'.typed = talk.typed /\ talk'.sent = talk.sent
            /\ talk'.delivered = talk.delivered /\ talk'.failed = failed
        BY <4>1, <1>t, TalkFields DEF Talks
      <4> QED
        BY <4>2, <3>2 DEF failed
    <3> QED
      BY <3>1, <3>2, <1>2
  <2>6. BadgeCounts'
    BY <1>3, <2>4, <2>5, BadgeKept DEF PageInv
  <2>7. Messages'
    BY <1>2, <1>3, <2>2, <2>4, <2>5 DEF PageInv, Drafts, Messages
  <2>8. Composer'
    <3> DEFINE Got(d) == \E n \in talk'.delivered : talk'.sent[n] = d
    <3>1. m.ok /\ page.input = m.draft => Got(page.input)
      BY <1>2, <2>5
    <3>2. Reached(talk.typed) => Got(talk.typed)
      BY <2>5 DEF Reached
    <3>e. page.input = talk.typed \/ (page.input = 0 /\ Reached(talk.typed))
      BY DEF PageInv, Drafts, Composer
    <3> HIDE DEF Got
    <3>3. page'.input = talk'.typed \/ (page'.input = 0 /\ Got(talk'.typed))
      <4>1. CASE m.ok /\ page.input = m.draft
        BY <2>4, <2>5, <3>1, <3>2, <3>e, <4>1
      <4>2. CASE ~(m.ok /\ page.input = m.draft)
        BY <2>4, <2>5, <3>2, <3>e, <4>2
      <4> QED
        BY <4>1, <4>2
    <3>4. page'.input # 0 =>
            \A n \in DOMAIN talk'.sent : talk'.sent[n] = page'.input => n \in talk'.failed \/ n = page'.sending
      BY <1>2, <2>2, <2>4, <2>5 DEF PageInv, Drafts, Composer
    <3> QED
      BY <2>5, <3>3, <3>4 DEF Composer, Reached, Got
  <2>9. Resent' /\ OnTheWire'
    <3>1. Resent'
      BY <2>5 DEF PageInv, Drafts, Resent
    <3>2. toServer' = toServer /\ ToSet(toPage') \subseteq ToSet(toPage)
      BY <1>1, HeardEntries DEF NoMic
    <3> QED
      BY <2>5, <3>1, <3>2 DEF PageInv, Drafts, OnTheWire
  <2> QED
    BY <1>1, <1>3, <2>4, <2>5, <2>6, <2>7, <2>8, <2>9, <1>t, HeardOther, NewTypes DEF m, PageInv, Drafts
<1> QED
  BY <1>4, <1>5

LEMMA SendTimesOutStep ==
  ASSUME PageInv, SendTimesOut
  PROVE  PageInv'
<1>t. page \in PageStates /\ seen \in PageStates /\ talk \in Talks
  BY DEF PageInv, PageTypes, PageTyped, TalkTyped
<1>1. /\ page.sending # 0 /\ page' = [page EXCEPT !.sending = 0, !.error = TRUE]
      /\ talk' = [talk EXCEPT !.failed = talk.failed \cup {page.sending}]
      /\ UNCHANGED <<seen, wanted, starting, toServer, toPage, room, work>>
  BY <1>t DEF SendTimesOut, Talks
<1>2. /\ page' \in PageStates /\ page'.sending = 0 /\ page'.panel = page.panel /\ page'.audio = page.audio
      /\ page'.dialog = page.dialog /\ page'.unread = page.unread /\ page'.input = page.input
  BY <1>1, <1>t DEF PageStates
<1>3. page.sending \in DOMAIN talk.sent /\ page.sending \in Nat /\ seen.sending # 0
  BY <1>1, <1>t DEF PageInv, Drafts, Messages, PageStates
<1>4. /\ talk' \in Talks /\ talk'.asked = talk.asked /\ talk'.unseen = talk.unseen /\ talk'.missed = talk.missed
      /\ talk'.typed = talk.typed /\ talk'.sent = talk.sent /\ talk'.delivered = talk.delivered
      /\ talk'.failed = talk.failed \cup {page.sending}
  <2> DEFINE failed == talk.failed \cup {page.sending}
  <2>1. failed \in SUBSET Nat /\ talk' = [talk EXCEPT !.failed = failed]
    BY <1>1, <1>3, <1>t, TalkFields
  <2> HIDE DEF failed
  <2>2. /\ talk' \in Talks /\ talk'.asked = talk.asked /\ talk'.unseen = talk.unseen
        /\ talk'.missed = talk.missed /\ talk'.typed = talk.typed /\ talk'.sent = talk.sent
        /\ talk'.delivered = talk.delivered /\ talk'.failed = failed
    BY <2>1, <1>t, TalkFields DEF Talks
  <2> QED
    BY <2>2 DEF failed
<1>5. BadgeCounts'
  BY <1>1, <1>2, <1>4, BadgeKept DEF PageInv
<1>6. Messages' /\ Composer' /\ Resent' /\ OnTheWire'
  <2>1. Messages'
    BY <1>1, <1>2, <1>3, <1>4 DEF PageInv, Drafts, Messages
  <2>2. Composer'
    BY <1>1, <1>2, <1>3, <1>4 DEF PageInv, Drafts, Composer, Reached
  <2>3. Resent' /\ OnTheWire'
    BY <1>1, <1>4 DEF PageInv, Drafts, Resent, OnTheWire
  <2> QED
    BY <2>1, <2>2, <2>3
<1>7. Mic'
  <2>1. page.audio => seen'.audio
    BY <1>1 DEF PageInv, Mic
  <2> QED
    BY <1>1, <1>2, <2>1, NothingSaid, MicKept DEF PageInv, PageTypes, RoomTyped, MutedComing
<1>8. Starts'
  BY <1>1, <1>2, <1>4 DEF PageInv, Starts
<1>9. WireTyped' /\ RoomTyped'
  BY <1>1 DEF PageInv, PageTypes, WireTyped, RoomTyped
<1> QED
  BY <1>1, <1>2, <1>4, <1>5, <1>6, <1>7, <1>8, <1>9, <1>t, NewTypes DEF PageInv, Drafts

LEMMA ListenersStep == PageInv /\ Listeners => PageInv'
<1> SUFFICES ASSUME PageInv, Listeners PROVE PageInv'
  OBVIOUS
<1> QED
  BY RenderStep, HearChatStep, HearSnapshotStep, HearStateStep, HearStartedStep, HearMutedStep, HearUnmuteRequestStep,
     HearSentStep, SendTimesOutStep DEF Listeners

-----------------------------------------------------------------------------
(* the page: the server and the others *)

(* what is sent to a page that keeps its state *)
LEMMA Emitted ==
  ASSUME PageInv, NEW ms \in Seq(Events), Emits(ms), PageStays,
         room' \in [paused : BOOLEAN, active : BOOLEAN, host : BOOLEAN],
         work' \in Works,
         toServer' = toServer \/ (toServer # <<>> /\ toServer' = Tail(toServer)),
         talk' \in Talks, SameTalk,
         talk'.unseen = talk.unseen, talk'.missed = talk.missed, talk'.asked = talk.asked,
         \A e \in ToSet(ms) : e.type # "sent",
         MutedComing => MutedComing',
         \A op \in Ops : Keeps(op), work.refused => work'.refused \/ Decided(Wish)'
  PROVE  PageInv'
<1>1. UNCHANGED <<page, seen, wanted, starting>>
  BY DEF PageStays
<1>2. toPage' \in Seq(Events) /\ ToSet(toPage') = ToSet(toPage) \cup ToSet(ms)
  BY ConcatEntries DEF PageInv, PageTypes, WireTyped, Emits
<1>3. toServer' \in Seq(Requests) /\ ToSet(toServer') \subseteq ToSet(toServer)
  BY Taken DEF PageInv, PageTypes, WireTyped
<1>4. PageTypes'
  BY <1>1, <1>2, <1>3 DEF PageInv, PageTypes, PageTyped, TalkTyped, WireTyped, RoomTyped
<1>5. BadgeCounts'
  BY <1>1, BadgeKept DEF PageInv
<1>6. Messages' /\ Composer' /\ Resent'
  BY <1>1, ComposerKept DEF PageInv
<1>7. OnTheWire'
  BY <1>2, <1>3, WireKept DEF PageInv
<1>8. Mic'
  <2>1. page.audio => seen'.audio
    BY <1>1 DEF PageInv, Mic
  <2> QED
    BY <1>1, <2>1, MicKept DEF PageInv, PageTypes, RoomTyped
<1>9. Starts'
  BY <1>1, <1>3 DEF PageInv, Starts
<1> QED
  BY <1>4, <1>5, <1>6, <1>7, <1>8, <1>9 DEF PageInv, Drafts

(* what the others do *)
LEMMA Overheard ==
  ASSUME PageInv, NEW ms \in Seq(Events), Emits(ms), PageStays, UNCHANGED <<toServer, work>>,
         room' \in [paused : BOOLEAN, active : BOOLEAN, host : BOOLEAN], room'.paused = room.paused,
         talk' \in Talks, SameTalk,
         talk'.unseen = talk.unseen, talk'.missed = talk.missed, talk'.asked = talk.asked,
         \A e \in ToSet(ms) : e.type # "sent"
  PROVE  PageInv'
<1>1. MutedComing => MutedComing'
  BY ConcatEntries DEF MutedComing, Emits, PageInv, PageTypes, WireTyped
<1> QED
  BY <1>1, NothingSaid, Emitted DEF PageInv, PageTypes, RoomTyped

LEMMA TwoEvents ==
  ASSUME NEW d \in Events, NEW e \in Events
  PROVE  <<d, e>> \in Seq(Events) /\ ToSet(<<d, e>>) = {d, e}
<1>1. <<d, e>> \in Seq(Events) /\ DOMAIN <<d, e>> = 1..2 /\ <<d, e>>[1] = d /\ <<d, e>>[2] = e
  OBVIOUS
<1> QED
  BY <1>1 DEF ToSet

LEMMA EventsJoined ==
  ASSUME NEW q \in Seq(Events), NEW ms \in Seq(Events)
  PROVE  q \o ms \in Seq(Events) /\ ToSet(q \o ms) = ToSet(q) \cup ToSet(ms)
  BY ConcatEntries

LEMMA WorkAdded ==
  ASSUME NEW q \in Seq([op : Ops, forced : BOOLEAN]), NEW w \in [op : Ops, forced : BOOLEAN]
  PROVE  /\ Append(q, w) \in Seq([op : Ops, forced : BOOLEAN]) /\ Append(q, w) # <<>>
         /\ Append(q, w)[Len(Append(q, w))] = w /\ ToSet(Append(q, w)) = ToSet(q) \cup {w}
<1> DEFINE W == [op : Ops, forced : BOOLEAN]
<1>1. q \in Seq(W) /\ w \in W
  OBVIOUS
<1> HIDE DEF W
<1>2. /\ Append(q, w) \in Seq(W) /\ Append(q, w) # <<>>
      /\ Append(q, w)[Len(Append(q, w))] = w /\ ToSet(Append(q, w)) = ToSet(q) \cup {w}
  BY <1>1, AppendEntries
<1> QED
  BY <1>2 DEF W

LEMMA ChatTyped ==
  ASSUME NEW m \in Requests, m.type = "chat"
  PROVE  m.n \in Nat /\ m.draft \in Nat
  BY DEF Requests, Ops

LEMMA EventCounted ==
  ASSUME PageInv, talk' = [talk EXCEPT !.events = talk.events + 1]
                  \/ talk' = [talk EXCEPT !.events = talk.events + 1, !.mutes = talk.mutes + 1]
  PROVE  /\ talk' \in Talks /\ SameTalk /\ talk'.unseen = talk.unseen /\ talk'.missed = talk.missed
         /\ talk'.asked = talk.asked
<1>1. talk \in Talks
  BY DEF PageInv, PageTypes, TalkTyped
<1> QED
  BY <1>1, TalkFields DEF Talks, SameTalk

LEMMA OtherSpeaksStep == ASSUME PageInv, OtherSpeaks PROVE PageInv'
<1>t. talk \in Talks /\ room \in [paused : BOOLEAN, active : BOOLEAN, host : BOOLEAN]
  BY DEF PageInv, PageTypes, TalkTyped, RoomTyped
<1> DEFINE e == [type |-> "chat", own |-> FALSE]
<1>1. /\ talk' = [talk EXCEPT !.events = talk.events + 1] /\ Emits(<<e>>) /\ PageStays
      /\ UNCHANGED <<toServer, room, work>>
  BY <1>t DEF OtherSpeaks, Talks
<1>2. e \in Events /\ e.type # "sent"
  BY DEF Events
<1> HIDE DEF e
<1> QED
  BY <1>1, <1>2, <1>t, EventCounted, SingleEvent, Overheard

LEMMA OtherScribesStep == ASSUME PageInv, OtherScribes PROVE PageInv'
<1>t. talk \in Talks /\ room \in [paused : BOOLEAN, active : BOOLEAN, host : BOOLEAN]
  BY DEF PageInv, PageTypes, TalkTyped, RoomTyped
<1> DEFINE e == [type |-> "state", active |-> ~room.active]
<1>1. /\ talk' = [talk EXCEPT !.events = talk.events + 1] /\ Emits(<<e>>) /\ PageStays
      /\ room' = [room EXCEPT !.active = ~room.active] /\ UNCHANGED <<toServer, work>>
  BY <1>t DEF OtherScribes, Talks, State
<1>2. e \in Events /\ e.type # "sent"
  BY <1>t DEF Events
<1> HIDE DEF e
<1>3. room' \in [paused : BOOLEAN, active : BOOLEAN, host : BOOLEAN] /\ room'.paused = room.paused
  BY <1>1, <1>t
<1> QED
  BY <1>1, <1>2, <1>3, EventCounted, SingleEvent, Overheard

LEMMA HostAsksToUnmuteStep == ASSUME PageInv, HostAsksToUnmute PROVE PageInv'
<1>t. talk \in Talks /\ room \in [paused : BOOLEAN, active : BOOLEAN, host : BOOLEAN]
  BY DEF PageInv, PageTypes, TalkTyped, RoomTyped
<1> DEFINE e == [type |-> "unmute"]
<1>1. /\ talk' = [talk EXCEPT !.events = talk.events + 1] /\ Emits(<<e>>) /\ PageStays
      /\ UNCHANGED <<toServer, room, work>>
  BY <1>t DEF HostAsksToUnmute, Talks
<1>2. e \in Events /\ e.type # "sent"
  BY DEF Events
<1> HIDE DEF e
<1> QED
  BY <1>1, <1>2, <1>t, EventCounted, SingleEvent, Overheard

LEMMA NothingEmitted == ASSUME PageInv, UNCHANGED toPage PROVE Emits(<<>>)
<1>1. toPage \in Seq(Events)
  BY DEF PageInv, PageTypes, WireTyped
<1>2. toPage \o <<>> = toPage
  BY <1>1
<1> QED
  BY <1>2 DEF Emits

(* a step of the server's handlers changes one or two fields of work *)
LEMMA WorkTyped ==
  ASSUME work \in Works
  PROVE  /\ work.reads \in Nat /\ work.worker \in Seq([op : Ops, forced : BOOLEAN])
         /\ work.scribes \in [BOOLEAN -> Nat]
  BY DEF Works

LEMMA Reading ==
  ASSUME work \in Works, NEW n \in Nat, work' = [work EXCEPT !.reads = n]
  PROVE  work' \in Works /\ work'.worker = work.worker /\ work'.refused = work.refused
  BY DEF Works

LEMMA Working ==
  ASSUME work \in Works, NEW q \in Seq([op : Ops, forced : BOOLEAN]), NEW n \in Nat,
         work' = [work EXCEPT !.worker = q] \/ work' = [work EXCEPT !.reads = n, !.worker = q]
  PROVE  work' \in Works /\ work'.worker = q /\ work'.refused = work.refused
  BY DEF Works

LEMMA Accepting ==
  ASSUME work \in Works, NEW q \in Seq([op : Ops, forced : BOOLEAN]),
         work' = [work EXCEPT !.worker = q, !.refused = FALSE]
  PROVE  work' \in Works /\ work'.worker = q
  BY DEF Works

LEMMA Refusing ==
  ASSUME work \in Works, work' = [work EXCEPT !.refused = TRUE]
  PROVE  work' \in Works /\ work'.worker = work.worker /\ work'.refused
  BY DEF Works

LEMMA Scribing ==
  ASSUME work \in Works, NEW s \in [BOOLEAN -> Nat], work' = [work EXCEPT !.scribes = s]
  PROVE  work' \in Works /\ work'.worker = work.worker /\ work'.refused = work.refused
  BY DEF Works

LEMMA HostMutesStep == ASSUME PageInv, HostMutes PROVE PageInv'
<1>t. /\ talk \in Talks /\ room \in [paused : BOOLEAN, active : BOOLEAN, host : BOOLEAN]
      /\ work \in Works
  BY DEF PageInv, PageTypes, TalkTyped, RoomTyped
<1>1. /\ talk' = [talk EXCEPT !.events = talk.events + 1, !.mutes = talk.mutes + 1]
      /\ work' = [work EXCEPT !.reads = work.reads + 1]
      /\ PageStays /\ UNCHANGED <<toServer, toPage, room>>
  BY <1>t DEF HostMutes, Talks
<1>2. work' \in Works /\ work'.worker = work.worker /\ work'.refused = work.refused
  <2>1. work.reads + 1 \in Nat
    BY <1>t, WorkTyped
  <2> QED
    BY <2>1, <1>1, <1>t, Reading
<1>3. \A op \in Ops : Keeps(op)
  BY <1>1, <1>2 DEF Keeps, Requested, Decided, MicAsked, LastAsked
<1>4. MutedComing => MutedComing'
  BY <1>1, <1>2 DEF MutedComing
<1> QED
  BY <1>1, <1>2, <1>3, <1>4, <1>t, EventCounted, NothingEmitted, NoEvent, Emitted

LEMMA ServeStep == ASSUME PageInv, Serve PROVE PageInv'
<1> DEFINE m == Head(toServer)
<1>t. /\ talk \in Talks /\ room \in [paused : BOOLEAN, active : BOOLEAN, host : BOOLEAN]
      /\ work \in Works
      /\ WireTyped /\ RoomTyped
  BY DEF PageInv, PageTypes, TalkTyped, RoomTyped
<1>1. toServer # <<>> /\ toServer' = Tail(toServer) /\ PageStays
  BY DEF Serve
<1>2. m \in Requests /\ m \in ToSet(toServer)
  BY <1>1, <1>t, Taken
<1>3. CASE m.type = "chat" /\ ServeChat(m)
  <2>a. m.n \in DOMAIN talk.sent /\ m.draft = talk.sent[m.n]
    BY <1>2, <1>3 DEF PageInv, Drafts, OnTheWire
  <2>b. m.n \in Nat /\ m.draft \in Nat
    BY <1>2, <1>3, ChatTyped
  <2>1. /\ m.n \in DOMAIN talk.sent /\ m.draft = talk.sent[m.n] /\ m.n \in Nat /\ m.draft \in Nat
    BY <2>a, <2>b
  <2>2. UNCHANGED <<room, work, page, seen, wanted, starting>>
    BY <1>1, <1>3 DEF ServeChat, PageStays
  <2>3. toServer' \in Seq(Requests) /\ ToSet(toServer') \subseteq ToSet(toServer)
    BY <1>1, <1>t, Taken
  <2>4. \A op \in Ops : Keeps(op)
    BY <1>1, <1>3, <1>t, <2>2, OtherTaken DEF Ops
  <2> DEFINE chat == [type |-> "chat", own |-> TRUE]
             sent(ok) == [type |-> "sent", n |-> m.n, draft |-> m.draft, ok |-> ok]
  <2>5. /\ chat \in Events /\ chat.type # "sent"
        /\ \A ok \in BOOLEAN : sent(ok) \in Events /\ sent(ok).n = m.n /\ sent(ok).draft = m.draft /\ sent(ok).ok = ok
    BY <2>1 DEF Events
  <2>6. \/ /\ Emits(<<chat, sent(TRUE)>>) /\ talk' = [talk EXCEPT !.delivered = talk.delivered \cup {m.n}]
        \/ Emits(<<sent(FALSE)>>) /\ talk' = talk
    BY <1>3, <1>t DEF ServeChat, Talks
  <2> HIDE DEF m, chat, sent
  <2>7. /\ talk' \in Talks /\ talk'.asked = talk.asked /\ talk'.unseen = talk.unseen
        /\ talk'.missed = talk.missed /\ talk'.typed = talk.typed /\ talk'.sent = talk.sent
        /\ talk'.failed = talk.failed /\ talk'.delivered \in {talk.delivered, talk.delivered \cup {m.n}}
    <3> DEFINE more == talk.delivered \cup {m.n}
    <3>1. more \in SUBSET Nat /\ (talk' = talk \/ talk' = [talk EXCEPT !.delivered = more])
      BY <2>1, <2>6, <1>t, TalkFields
    <3> HIDE DEF more
    <3>2. /\ talk' \in Talks /\ talk'.asked = talk.asked /\ talk'.unseen = talk.unseen
          /\ talk'.missed = talk.missed /\ talk'.typed = talk.typed /\ talk'.sent = talk.sent
          /\ talk'.failed = talk.failed /\ talk'.delivered \in {talk.delivered, more}
      BY <3>1, <1>t, TalkFields DEF Talks
    <3> QED
      BY <3>2 DEF more
  <2>8. /\ toPage' \in Seq(Events)
        /\ ToSet(toPage) \subseteq ToSet(toPage')
        /\ \A e \in ToSet(toPage') : \/ e \in ToSet(toPage) \/ e = chat \/ e = sent(FALSE)
                                     \/ e = sent(TRUE) /\ m.n \in talk'.delivered
    <3>1. CASE /\ Emits(<<chat, sent(TRUE)>>) /\ talk' = [talk EXCEPT !.delivered = talk.delivered \cup {m.n}]
      <4>1. sent(TRUE) \in Events
        BY <2>5
      <4>2. <<chat, sent(TRUE)>> \in Seq(Events) /\ ToSet(<<chat, sent(TRUE)>>) = {chat, sent(TRUE)}
        BY <2>5, <4>1, TwoEvents
      <4>3. m.n \in talk'.delivered
        BY <3>1, <1>t, TalkFields DEF Talks
      <4>4. toPage' = toPage \o <<chat, sent(TRUE)>> /\ toPage \in Seq(Events)
        BY <3>1, <1>t DEF Emits, WireTyped
      <4>5. toPage' \in Seq(Events) /\ ToSet(toPage') = ToSet(toPage) \cup {chat, sent(TRUE)}
        BY <4>2, <4>4, EventsJoined
      <4> QED
        BY <4>3, <4>5
    <3>2. CASE Emits(<<sent(FALSE)>>)
      <4>1. toPage' = toPage \o <<sent(FALSE)>> /\ toPage \in Seq(Events)
        BY <3>2, <1>t DEF Emits, WireTyped
      <4>2. sent(FALSE) \in Events
        BY <2>5
      <4>3. <<sent(FALSE)>> \in Seq(Events) /\ ToSet(<<sent(FALSE)>>) = {sent(FALSE)}
        BY <4>2, SingleEvent
      <4>4. toPage' \in Seq(Events) /\ ToSet(toPage') = ToSet(toPage) \cup {sent(FALSE)}
        BY <4>1, <4>3, EventsJoined
      <4> QED
        BY <4>4
    <3> QED
      BY <3>1, <3>2, <2>6
  <2>9. PageTypes'
    BY <2>2, <2>3, <2>7, <2>8, <1>t DEF PageInv, PageTypes, PageTyped, TalkTyped, WireTyped, RoomTyped
  <2>10. BadgeCounts'
    BY <2>2, <2>7, BadgeKept DEF PageInv
  <2>11. Messages' /\ Resent'
    BY <2>1, <2>2, <2>7 DEF PageInv, Drafts, Messages, Resent
  <2>12. Composer'
    BY <2>2, <2>7 DEF PageInv, Drafts, Composer, Reached
  <2>13. OnTheWire'
    <3>1. \A x \in ToSet(toServer') : x.type = "chat" => x.n \in DOMAIN talk'.sent /\ x.draft = talk'.sent[x.n]
      BY <2>3, <2>7 DEF PageInv, Drafts, OnTheWire
    <3>2. ASSUME NEW e \in ToSet(toPage'), e.type = "sent"
          PROVE  e.n \in DOMAIN talk'.sent /\ (e.ok => e.n \in talk'.delivered /\ e.draft = talk'.sent[e.n])
      <4>1. CASE e \in ToSet(toPage)
        BY <2>7, <3>2, <4>1 DEF PageInv, Drafts, OnTheWire
      <4>2. CASE e = sent(FALSE)
        BY <2>1, <2>5, <2>7, <4>2
      <4>3. CASE e = sent(TRUE) /\ m.n \in talk'.delivered
        BY <2>1, <2>5, <2>7, <4>3
      <4> QED
        BY <2>5, <2>8, <3>2, <4>1, <4>2, <4>3
    <3> QED
      BY <3>1, <3>2 DEF OnTheWire
  <2>14. Mic'
    <3>1. MutedComing => MutedComing'
      BY <2>2, <2>8 DEF MutedComing
    <3>2. page.audio => seen'.audio
      BY <2>2 DEF PageInv, Mic
    <3> QED
      BY <2>2, <2>4, <3>1, <3>2, <1>t, MicKept DEF PageInv, RoomTyped
  <2>15. Starts'
    BY <2>2, <2>3, <2>7 DEF PageInv, Starts
  <2> QED
    BY <2>9, <2>10, <2>11, <2>12, <2>13, <2>14, <2>15 DEF PageInv, Drafts
<1>4. ASSUME NEW on \in BOOLEAN, m.type \in {"start", "stop"}, ServeTranscript(on) PROVE PageInv'
  <2>1. PICK s \in [BOOLEAN -> Nat] : work' = [work EXCEPT !.scribes = s]
    <3>1. work' = [work EXCEPT !.scribes = [work.scribes EXCEPT ![on] = work.scribes[on] + 1]]
      BY <1>4, <1>t DEF ServeTranscript
    <3>2. work.scribes[on] + 1 \in Nat /\ work.scribes \in [BOOLEAN -> Nat]
      BY <1>t, WorkTyped
    <3>3. [work.scribes EXCEPT ![on] = work.scribes[on] + 1] \in [BOOLEAN -> Nat]
      BY <3>2
    <3> QED
      BY <3>1, <3>3
  <2>2. work' \in Works /\ work'.worker = work.worker /\ work'.refused = work.refused
    BY <2>1, <1>t, Scribing
  <2>3. UNCHANGED <<toPage, room, talk>> /\ SameTalk
    BY <1>4 DEF ServeTranscript, SameTalk
  <2>4. \A op \in Ops : Keeps(op)
    BY <1>1, <1>4, <1>t, <2>2, <2>3, OtherTaken DEF Ops
  <2>5. MutedComing => MutedComing'
    BY <2>2, <2>3 DEF MutedComing
  <2> QED
    BY <1>1, <1>t, <2>2, <2>3, <2>4, <2>5, NothingEmitted, NoEvent, Emitted
<1>5. CASE m.type \in Ops /\ Asks(m.type) /\ UNCHANGED <<toPage, room, talk>>
  <2> DEFINE w == [op |-> m.type, forced |-> FALSE]
             worker == Append(work.worker, w)
  <2>1. /\ work.worker \in Seq([op : Ops, forced : BOOLEAN]) /\ w \in [op : Ops, forced : BOOLEAN]
        /\ work' = [work EXCEPT !.worker = worker, !.refused = FALSE]
    BY <1>5, <1>t, WorkTyped DEF Asks
  <2> HIDE DEF w
  <2>2. worker \in Seq([op : Ops, forced : BOOLEAN]) /\ ToSet(worker) = ToSet(work.worker) \cup {w}
    BY <2>1, WorkAdded
  <2> HIDE DEF worker
  <2>3. work' \in Works /\ work'.worker = worker
    BY <2>1, <2>2, <1>t, Accepting
  <2>4. \A op \in Ops : Keeps(op)
    BY <1>1, <1>5, <1>t, <2>3, MicTaken DEF worker, w
  <2>5. MutedComing => MutedComing'
    BY <1>5, <2>2, <2>3 DEF MutedComing
  <2>6. SameTalk /\ talk' = talk
    BY <1>5 DEF SameTalk
  <2>7. work.refused => work'.refused \/ Decided(Wish)'
    <3>1. MicAsked
      BY <1>2, <1>5 DEF MicAsked
    <3>2. Decided(Wish) /\ Wish \in Ops
      BY <3>1 DEF PageInv, Mic, Requested, Decided, Wish, Ops
    <3>3. Wish' = Wish
      BY <1>1 DEF PageStays, Wish
    <3> QED
      BY <2>4, <3>2, <3>3 DEF Keeps
  <2> QED
    BY <1>1, <1>5, <1>t, <2>3, <2>4, <2>5, <2>6, <2>7, NothingEmitted, NoEvent, Emitted
<1>6. CASE m.type \in Ops /\ Refuses /\ UNCHANGED <<toPage, room, talk>>
  <2>1. work' \in Works /\ work'.worker = work.worker /\ work'.refused
    BY <1>6, <1>t, Refusing DEF Refuses
  <2>2. ASSUME NEW op \in Ops PROVE Keeps(op)
    BY <1>1, <1>t, <2>1, LaterAsked, Taken DEF Keeps, Requested, MicAsked
  <2>3. MutedComing => MutedComing'
    BY <1>6, <2>1 DEF MutedComing
  <2>4. SameTalk /\ talk' = talk
    BY <1>6 DEF SameTalk
  <2> QED
    BY <1>1, <1>6, <1>t, <2>1, <2>2, <2>3, <2>4, NothingEmitted, NoEvent, Emitted
<1> QED
  BY <1>3, <1>4, <1>5, <1>6 DEF Serve, Ops

(* the room of a start or a stop has been read *)
LEMMA TranscriptReadStep == ASSUME PageInv, NEW on \in BOOLEAN, TranscriptRead(on) PROVE PageInv'
<1>t. /\ talk \in Talks /\ room \in [paused : BOOLEAN, active : BOOLEAN, host : BOOLEAN]
      /\ work \in Works /\ WireTyped
  BY DEF PageInv, PageTypes, TalkTyped, RoomTyped
<1>1. PageStays /\ UNCHANGED <<toServer, talk>> /\ SameTalk
  BY DEF TranscriptRead, SameTalk
<1>2. /\ room' \in [paused : BOOLEAN, active : BOOLEAN, host : BOOLEAN] /\ room'.paused = room.paused
  BY <1>t DEF TranscriptRead
<1>3. PICK s \in [BOOLEAN -> Nat] : work' = [work EXCEPT !.scribes = s]
  <2>1. work' = [work EXCEPT !.scribes = [work.scribes EXCEPT ![on] = work.scribes[on] - 1]]
    BY <1>t DEF TranscriptRead
  <2>2. work.scribes[on] - 1 \in Nat /\ work.scribes \in [BOOLEAN -> Nat]
    BY <1>t, WorkTyped DEF TranscriptRead
  <2>3. [work.scribes EXCEPT ![on] = work.scribes[on] - 1] \in [BOOLEAN -> Nat]
    BY <2>2
  <2> QED
    BY <2>1, <2>3
<1>4. work' \in Works /\ work'.worker = work.worker /\ work'.refused = work.refused
  BY <1>3, <1>t, Scribing
<1>5. PICK ms \in Seq(Events) : Emits(ms) /\ \A e \in ToSet(ms) : e.type # "sent"
  <2> DEFINE state == [type |-> "state", active |-> on]
             started(ok) == [type |-> "started", ok |-> ok]
  <2>1. /\ state \in Events /\ state.type # "sent"
        /\ \A ok \in BOOLEAN : started(ok) \in Events /\ started(ok).type # "sent"
    BY DEF Events
  <2>2. \/ Emits(<<state>> \o (IF on THEN <<started(TRUE)>> ELSE <<>>))
        \/ Emits(IF on THEN <<started(FALSE)>> ELSE <<>>)
    BY DEF TranscriptRead, State
  <2> HIDE DEF state, started
  <2>3. \A ok \in BOOLEAN : \A ms \in {<<>>, <<state>>, <<started(ok)>>} :
          ms \in Seq(Events) /\ \A e \in ToSet(ms) : e.type # "sent"
    BY <2>1, SingleEvent, NoEvent
  <2>4. \A r \in {<<>>, <<started(TRUE)>>} :
          <<state>> \o r \in Seq(Events) /\ \A e \in ToSet(<<state>> \o r) : e.type # "sent"
    <3>1. /\ <<state>> \in Seq(Events) /\ (\A e \in ToSet(<<state>>) : e.type # "sent")
      BY <2>3
    <3>2. TAKE r \in {<<>>, <<started(TRUE)>>}
    <3>3. r \in Seq(Events) /\ (\A e \in ToSet(r) : e.type # "sent")
      BY <2>3
    <3>4. <<state>> \o r \in Seq(Events) /\ ToSet(<<state>> \o r) = ToSet(<<state>>) \cup ToSet(r)
      BY <3>1, <3>3, EventsJoined
    <3> QED
      BY <3>1, <3>3, <3>4
  <2> QED
    BY <2>2, <2>3, <2>4
<1>6. \A op \in Ops : Keeps(op)
  BY <1>1, <1>2, <1>4 DEF Keeps, Requested, Decided, MicAsked, LastAsked
<1>7. MutedComing => MutedComing'
  BY <1>4, <1>5, <1>t, ConcatEntries DEF MutedComing, Emits, WireTyped
<1> QED
  BY <1>1, <1>2, <1>4, <1>5, <1>6, <1>7, <1>t, Emitted

(* a host's pause is asked of the worker, or found to be needless *)
LEMMA HostMuteReadStep == ASSUME PageInv, HostMuteRead PROVE PageInv'
<1>t. /\ talk \in Talks /\ room \in [paused : BOOLEAN, active : BOOLEAN, host : BOOLEAN]
      /\ work \in Works
  BY DEF PageInv, PageTypes, TalkTyped, RoomTyped
<1> DEFINE w == [op |-> "pause", forced |-> TRUE]
           more == IF room.paused THEN <<>> ELSE <<w>>
           worker == work.worker \o more
<1>1. /\ work.reads > 0 /\ PageStays /\ work' = [work EXCEPT !.reads = work.reads - 1, !.worker = worker]
      /\ UNCHANGED <<toServer, toPage, room, talk>>
  BY <1>t DEF HostMuteRead
<1>2. SameTalk
  BY <1>1 DEF SameTalk
<1>3. w \in [op : Ops, forced : BOOLEAN] /\ w.op = "pause" /\ w.forced
  BY DEF Ops
<1>4. work.worker \in Seq([op : Ops, forced : BOOLEAN]) /\ work.reads - 1 \in Nat
  BY <1>1, <1>t, WorkTyped
<1> HIDE DEF w
<1>5. CASE room.paused
  <2>1. worker = work.worker
    BY <1>4, <1>5
  <2> HIDE DEF worker, more
  <2>2. work' \in Works /\ work'.worker = work.worker /\ work'.refused = work.refused
    BY <1>1, <1>4, <1>t, <2>1, Working
  <2>3. \A op \in Ops : Keeps(op)
    BY <1>1, <2>2 DEF Keeps, Requested, Decided, MicAsked, LastAsked
  <2>4. MutedComing => MutedComing'
    BY <1>1, <2>2 DEF MutedComing
  <2> QED
    BY <1>1, <1>2, <1>t, <2>2, <2>3, <2>4, NothingEmitted, NoEvent, Emitted
<1>6. CASE ~room.paused
  <2>1. worker = Append(work.worker, w)
    BY <1>3, <1>4, <1>6
  <2> HIDE DEF worker, more
  <2>2. /\ worker \in Seq([op : Ops, forced : BOOLEAN]) /\ worker # <<>>
        /\ worker[Len(worker)] = w /\ ToSet(worker) = ToSet(work.worker) \cup {w}
    BY <1>3, <1>4, <2>1, WorkAdded
  <2>3. work' \in Works /\ work'.worker = worker /\ work'.refused = work.refused
    BY <1>1, <1>4, <1>t, <2>2, Working
  <2>4. MutedComing'
    BY <1>3, <2>2, <2>3 DEF MutedComing
  <2>5. Mic'
    <3>1. UNCHANGED <<page, seen, wanted, toServer>>
      BY <1>1 DEF PageStays
    <3>2. CASE MicAsked
      <4>1. \A op \in Ops : Keeps(op)
        BY <3>1, <3>2 DEF Keeps, Requested, Decided, MicAsked, LastAsked
      <4>2. page.audio => seen'.audio
        BY <3>1 DEF PageInv, Mic
      <4> QED
        BY <3>1, <4>1, <4>2, <2>3, <2>4, MicKept DEF PageInv, PageTypes, RoomTyped
    <3>3. CASE ~MicAsked
      <4>1. Decided("pause")'
        BY <1>3, <2>2, <2>3, <3>1, <3>3 DEF Decided, MicAsked
      <4>2. wanted' \/ Decided(Wish)'
        BY <4>1 DEF Wish
      <4>3. Requested(Wish)'
        BY <3>1, <3>3 DEF Requested, MicAsked
      <4> QED
        BY <3>1, <4>1, <4>2, <4>3, <2>4 DEF PageInv, Mic
    <3> QED
      BY <3>2, <3>3
  <2>6. UNCHANGED <<page, seen, wanted, starting>>
    BY <1>1 DEF PageStays
  <2>7. PageTypes'
    BY <1>1, <2>3, <2>6 DEF PageInv, PageTypes, PageTyped, TalkTyped, WireTyped, RoomTyped
  <2>8. BadgeCounts' /\ Drafts' /\ Starts'
    BY <1>1, <2>6 DEF PageInv, BadgeCounts, Drafts, OnTheWire, Messages, Composer, Resent, Reached, Starts
  <2> QED
    BY <2>5, <2>7, <2>8 DEF PageInv
<1> QED
  BY <1>5, <1>6

(* the worker has carried out a pause or a resume *)
LEMMA WorkerAnswersStep == ASSUME PageInv, WorkerAnswers PROVE PageInv'
<1>t. /\ talk \in Talks /\ room \in [paused : BOOLEAN, active : BOOLEAN, host : BOOLEAN]
      /\ work \in Works /\ WireTyped
  BY DEF PageInv, PageTypes, TalkTyped, RoomTyped
<1> DEFINE W == [op : Ops, forced : BOOLEAN]
           w == Head(work.worker)
           rest == Tail(work.worker)
           ms == IF w.forced THEN <<[type |-> "muted"]>> ELSE <<>>
<1>1. /\ work.worker # <<>> /\ PageStays /\ work' = [work EXCEPT !.worker = rest]
      /\ room' = [room EXCEPT !.paused = w.op = "pause"] /\ Emits(ms) /\ UNCHANGED <<toServer, talk>>
  BY <1>t DEF WorkerAnswers
<1>2. work.worker \in Seq(W)
  BY <1>t, WorkTyped
<1>3. /\ w \in W /\ w = work.worker[1] /\ rest \in Seq(W) /\ Len(work.worker) \in Nat \ {0}
      /\ Len(rest) = Len(work.worker) - 1
      /\ \A i \in 1..(Len(work.worker) - 1) : rest[i] = work.worker[i + 1]
      /\ ToSet(work.worker) = ToSet(rest) \cup {w}
  BY <1>1, <1>2, TailEntries
<1> HIDE DEF w, rest
<1>4. /\ work' \in Works /\ work'.worker = rest /\ work'.refused = work.refused
      /\ room' \in [paused : BOOLEAN, active : BOOLEAN, host : BOOLEAN] /\ room'.paused = (w.op = "pause")
  BY <1>1, <1>2, <1>3, <1>t, 0 \in Nat, Working
<1>5. /\ ms \in Seq(Events) /\ \A e \in ToSet(ms) : e.type # "sent"
      /\ w.forced => \E e \in ToSet(ms) : e.type = "muted"
  <2> DEFINE e == [type |-> "muted"]
  <2>1. e \in Events /\ e.type = "muted"
    BY DEF Events
  <2> HIDE DEF e
  <2>2. ms = IF w.forced THEN <<e>> ELSE <<>>
    BY DEF e
  <2> HIDE DEF ms
  <2>3. CASE w.forced
    BY <2>1, <2>2, <2>3, SingleEvent
  <2>4. CASE ~w.forced
    BY <2>2, <2>4, NoEvent
  <2> QED
    BY <2>3, <2>4
<1> HIDE DEF ms
<1>6. MutedComing => MutedComing'
  <2>1. ToSet(toPage') = ToSet(toPage) \cup ToSet(ms)
    BY <1>1, <1>5, <1>t, ConcatEntries DEF Emits, WireTyped
  <2> QED
    BY <2>1, <1>3, <1>4, <1>5 DEF MutedComing
<1>7. ASSUME NEW op \in Ops, Decided(op) PROVE Decided(op)'
  <2>1. MicAsked' = MicAsked /\ LastAsked(op)' = LastAsked(op)
    BY <1>1 DEF MicAsked, LastAsked
  <2>2. CASE MicAsked
    BY <1>7, <2>1, <2>2 DEF Decided
  <2>3. CASE ~MicAsked /\ rest # <<>>
    <3>1. work.worker[Len(work.worker)].op = op
      BY <1>1, <1>7, <2>3 DEF Decided
    <3>2. Len(rest) \in 1..(Len(work.worker) - 1) /\ Len(rest) + 1 = Len(work.worker)
      BY <1>3, <2>3
    <3>3. rest[Len(rest)] = work.worker[Len(work.worker)]
      BY <1>3, <3>2
    <3> QED
      BY <1>4, <2>1, <2>3, <3>1, <3>3 DEF Decided
  <2>4. CASE ~MicAsked /\ rest = <<>>
    <3>1. work.worker[Len(work.worker)].op = op
      BY <1>1, <1>7, <2>4 DEF Decided
    <3>2. Len(rest) = 0
      BY <2>4
    <3>3. Len(work.worker) = 1
      BY <1>3, <3>2
    <3>4. w.op = op
      BY <1>3, <3>1, <3>3
    <3> QED
      BY <1>4, <2>1, <2>4, <3>4 DEF Decided
  <2> QED
    BY <2>2, <2>3, <2>4
<1>8. SameTalk
  BY <1>1 DEF SameTalk
<1>9. \A op \in Ops : Keeps(op)
  BY <1>1, <1>7 DEF Keeps, Requested, MicAsked, LastAsked
<1> QED
  BY <1>1, <1>4, <1>5, <1>6, <1>8, <1>9, <1>t, Emitted

LEMMA PageStep == PageInv /\ PageNext => PageInv'
<1> SUFFICES ASSUME PageInv, PageNext PROVE PageInv'
  OBVIOUS
<1>1. CASE Participant
  BY <1>1, ParticipantStep
<1>2. CASE Listeners
  BY <1>2, ListenersStep
<1>3. CASE Server
  BY <1>3, ServeStep, TranscriptReadStep, HostMuteReadStep, WorkerAnswersStep DEF Server
<1>4. CASE Others
  BY <1>4, OtherSpeaksStep, OtherScribesStep, HostMutesStep, HostAsksToUnmuteStep DEF Others
<1> QED
  BY <1>1, <1>2, <1>3, <1>4 DEF PageNext

-----------------------------------------------------------------------------
(* the stage: events on their way *)

(* the events on their way, after one more and after the first *)
LEMMA LatestAppended ==
  ASSUME NEW q \in Seq(Relays), NEW e \in Relays, NEW A, NEW G,
         e \in A => e \in G, e \notin A => LatestOf(q, A, G)
  PROVE  LatestOf(Append(q, e), A, G)
<1> DEFINE r == Append(q, e)
<1>1. /\ r \in Seq(Relays) /\ Len(r) = Len(q) + 1 /\ r[Len(q) + 1] = e
      /\ \A i \in 1..Len(q) : r[i] = q[i]
  BY AppendEntries
<1>2. DOMAIN r = 1..(Len(q) + 1) /\ DOMAIN q = 1..Len(q) /\ Len(q) \in Nat
  BY <1>1
<1> HIDE DEF r
<1>3. SUFFICES ASSUME NEW i \in DOMAIN r, r[i] \in A, \A j \in DOMAIN r : j > i => r[j] \notin A
               PROVE  r[i] \in G
  BY DEF LatestOf, r
<1>4. CASE i = Len(q) + 1
  BY <1>1, <1>3, <1>4
<1>5. CASE i \in DOMAIN q
  <2>1. Len(q) + 1 \in DOMAIN r /\ Len(q) + 1 > i
    BY <1>2, <1>5
  <2>2. e \notin A
    BY <1>1, <1>3, <2>1
  <2>3. \A j \in DOMAIN q : j > i => q[j] \notin A
    BY <1>1, <1>2, <1>3
  <2>4. q[i] = r[i]
    BY <1>1, <1>2, <1>5
  <2> QED
    BY <1>3, <1>5, <2>2, <2>3, <2>4 DEF LatestOf
<1> QED
  BY <1>2, <1>3, <1>4, <1>5

LEMMA RelayAppended ==
  ASSUME NEW q \in Seq(Relays), NEW e \in Relays
  PROVE  Append(q, e) \in Seq(Relays) /\ ToSet(Append(q, e)) = ToSet(q) \cup {e}
  BY AppendEntries

LEMMA NoneAppended ==
  ASSUME NEW q \in Seq(Relays), NEW e \in Relays, NEW A
  PROVE  NoneOf(Append(q, e), A) <=> NoneOf(q, A) /\ e \notin A
<1>1. ToSet(Append(q, e)) = ToSet(q) \cup {e}
  BY AppendEntries
<1> QED
  BY <1>1 DEF NoneOf

LEMMA LatestOfTail ==
  ASSUME NEW q \in Seq(Relays), q # <<>>, NEW A, NEW G, LatestOf(q, A, G)
  PROVE  /\ LatestOf(Tail(q), A, G)
         /\ NoneOf(Tail(q), A) => NoneOf(q, A) \/ (Head(q) \in A /\ Head(q) \in G)
<1> DEFINE r == Tail(q)
<1>1. /\ r \in Seq(Relays) /\ Len(r) + 1 = Len(q) /\ Head(q) = q[1]
      /\ \A i \in 1..Len(r) : r[i] = q[i + 1]
  OBVIOUS
<1>2. DOMAIN r = 1..Len(r) /\ DOMAIN q = 1..(Len(r) + 1) /\ Len(r) \in Nat
  BY <1>1
<1> HIDE DEF r
<1>3. LatestOf(r, A, G)
  <2> SUFFICES ASSUME NEW i \in DOMAIN r, r[i] \in A, \A j \in DOMAIN r : j > i => r[j] \notin A
               PROVE  r[i] \in G
    BY DEF LatestOf
  <2>1. i + 1 \in DOMAIN q /\ q[i + 1] = r[i]
    BY <1>1, <1>2
  <2>2. ASSUME NEW j \in DOMAIN q, j > i + 1 PROVE q[j] \notin A
    <3>1. j - 1 \in DOMAIN r /\ j - 1 > i /\ q[(j - 1) + 1] = r[j - 1] /\ (j - 1) + 1 = j
      BY <1>1, <1>2, <2>2
    <3> QED
      BY <3>1
  <2> QED
    BY <2>1, <2>2 DEF LatestOf
<1>4. ASSUME NoneOf(r, A), ~NoneOf(q, A) PROVE q[1] \in A /\ q[1] \in G
  <2>1. PICK i \in DOMAIN q : q[i] \in A
    BY <1>4 DEF NoneOf, ToSet
  <2>2. ASSUME NEW j \in DOMAIN q, j > 1 PROVE q[j] \notin A
    <3>1. j - 1 \in DOMAIN r /\ q[(j - 1) + 1] = r[j - 1] /\ (j - 1) + 1 = j
      BY <1>1, <1>2, <2>2
    <3> QED
      BY <3>1, <1>4 DEF NoneOf, ToSet
  <2>3. i = 1
    BY <1>2, <2>1, <2>2
  <2> QED
    BY <1>2, <2>1, <2>2, <2>3 DEF LatestOf
<1> QED
  BY <1>1, <1>3, <1>4 DEF r

LEMMA NoneOfTail ==
  ASSUME NEW q \in Seq(Relays), q # <<>>
  PROVE  /\ ToSet(q) = {Head(q)} \cup ToSet(Tail(q)) /\ Tail(q) \in Seq(Relays)
         /\ Head(q) \in Relays
         /\ \A A : NoneOf(q, A) => NoneOf(Tail(q), A) /\ Head(q) \notin A
<1>1. ToSet(q) = {Head(q)} \cup ToSet(Tail(q)) /\ Tail(q) \in Seq(Relays) /\ Head(q) \in Relays
  BY TailEntries
<1> QED
  BY <1>1 DEF NoneOf

LEMMA NothingComing ==
  ASSUME NEW A, NEW G PROVE LatestOf(<<>>, A, G) /\ NoneOf(<<>>, A)
  BY DEF LatestOf, NoneOf, ToSet

LEMMA StageInitially == StageInit => StageInv
<1> SUFFICES ASSUME StageInit PROVE StageInv
  OBVIOUS
<1>0. <<>> \in Keys
  BY DEF Keys
<1>1. NewView \in Views /\ Empty(NewView)
  BY <1>0 DEF NewView, Views, Modes, None, Empty
<1>2. StageTyped
  BY <1>1 DEF StageInit, StageTyped, Pasts, None
<1>3. In = {} /\ past.told = {}
  BY DEF StageInit, In
<1>4. ToSet(<<>>) = {}
  BY DEF ToSet
<1>5. Sockets
  BY <1>1, <1>3 DEF StageInit, Sockets, None
<1>6. Spoken
  BY <1>1, <1>4 DEF StageInit, Spoken, Held, Empty
<1> QED
  BY <1>2, <1>3, <1>5, <1>6 DEF StageInv, OnStage, AllTold, HandsTold, SpotlightTold

-----------------------------------------------------------------------------
(* what a page has of the others, which most steps leave as it is *)

SameStage(w, x) ==
  /\ w.coming = x.coming /\ w.landed = x.landed /\ w.resuming = x.resuming /\ w.lost = x.lost
  /\ w.known = x.known /\ w.tiles = x.tiles /\ w.screens = x.screens /\ w.hands = x.hands
SamePast(h) ==
  /\ h.sockets = past.sockets /\ past.acts <= h.acts /\ h.acts \in Nat /\ h.last = past.last
  /\ h.told = past.told /\ h.blind = past.blind

(* a step that sends at most hands and spotlights *)
LEMMA StillTold ==
  ASSUME StageInv, UNCHANGED <<sock, open>>,
         past'.sockets = past.sockets, past.acts <= past'.acts, past'.acts \in Nat,
         \A u \in Users : SameStage(view'[u], view[u]),
         \A u \in Users \ In : inbox'[u] = <<>>,
         \A u \in Users :
           /\ ToSet(inbox[u]) \subseteq ToSet(inbox'[u])
           /\ \A e \in ToSet(inbox'[u]) \ ToSet(inbox[u]) :
                \/ e.type = "spotlight"
                \/ e.type = "hand" /\ e.of \in 1..past.sockets
  PROVE  Sockets' /\ Spoken' /\ OnStage' /\ AllTold'
<1>t. StageTyped
  BY DEF StageInv
<1>1. In' = In /\ In \subseteq Users /\ Peers' = Peers
  BY DEF In, Peers
<1>2. Sockets'
  BY <1>1 DEF StageInv, Sockets, SameStage, Empty
<1>3. \A p \in Media : Used(p) => Used(p)'
  <2>1. past.acts \in Nat /\ \A p \in Media : p.n \in Nat
    BY <1>t DEF StageTyped, Pasts, Media
  <2> QED
    BY <2>1 DEF Used
<1>4. Spoken'
  <2>1. \A p \in open : Used(p)'
    BY <1>3, <1>t DEF StageInv, Spoken, StageTyped
  <2>2. ASSUME NEW u \in Users, NEW p \in Held(view'[u]) \cup view'[u].lost PROVE Used(p)'
    <3>1. p \in Held(view[u]) \cup view[u].lost
      BY <2>2 DEF SameStage, Held
    <3>2. p \in Media
      BY <1>t, <3>1 DEF StageTyped, Views, Held
    <3> QED
      BY <1>3, <3>1, <3>2 DEF StageInv, Spoken
  <2>3. ASSUME NEW u \in Users, NEW e \in ToSet(inbox'[u])
        PROVE  /\ e.type # "spotlight" => e.of \in 1..past.sockets
               /\ e.type \in {"producer", "closed"} => Used(e.media)'
    <3>1. CASE e \in ToSet(inbox[u])
      <4>1. e \in Relays
        BY <1>t, <3>1 DEF StageTyped, ToSet
      <4>2. e.type \in {"producer", "closed"} => e.media \in Media
        BY <4>1 DEF Relays
      <4> QED
        BY <1>3, <3>1, <4>2 DEF StageInv, Spoken
    <3>2. CASE e \notin ToSet(inbox[u])
      BY <2>3, <3>2
    <3> QED
      BY <3>1, <3>2
  <2> QED
    BY <2>1, <2>2, <2>3 DEF Spoken
<1>5. OnStage'
  BY <1>1 DEF StageInv, OnStage, Landed, SameStage, Held
<1>6. ASSUME NEW u \in In PROVE Told(u)'
  <2>1. /\ Has(view'[u]) = Has(view[u]) /\ Knows(view'[u]) = Knows(view[u])
        /\ u \in Users
    BY <1>1, <1>6 DEF Has, Held, Knows, SameStage
  <2>2. \A A : Coming(u, A) => ToSet(inbox'[u]) \cap A # {}
    BY <2>1 DEF Coming
  <2>3. Told(u)
    BY <1>6 DEF StageInv, AllTold
  <2>4. \A e \in ToSet(inbox'[u]) :
          /\ e.type = "closed" => e.media.kind = "screen" /\ e.media \notin open
          /\ e.type = "gone" => e.of \notin Peers
          /\ e.type = "producer" => e.media.of # sock[u]
    BY <2>1, <2>3 DEF Told
  <2> QED
    BY <1>1, <2>1, <2>2, <2>3, <2>4 DEF Told, Coming
<1>7. AllTold'
  BY <1>1, <1>6 DEF AllTold
<1> QED
  BY <1>2, <1>4, <1>5, <1>7

LEMMA StageQuiet ==
  ASSUME StageInv, StageTyped', UNCHANGED <<sock, open, inbox>>, SamePast(past'),
         past'.refused = past.refused,
         \A u \in Users : /\ SameStage(view'[u], view[u]) /\ view'[u].hand = view[u].hand
                          /\ view'[u].spotlight = view[u].spotlight
  PROVE  StageInv'
<1>1. In' = In /\ In \subseteq Users
  BY DEF In
<1>2. \A u \in Users \ In : inbox'[u] = <<>>
  BY DEF StageInv, Sockets
<1>3. Sockets' /\ Spoken' /\ OnStage' /\ AllTold'
  BY <1>2, StillTold DEF SamePast
<1>6. HandsTold'
  BY <1>1 DEF StageInv, HandsTold, HandSeen, SamePast, SameStage
<1>8. SpotlightTold'
  BY <1>1 DEF StageInv, SpotlightTold, SamePast
<1> QED
  BY <1>3, <1>6, <1>8 DEF StageInv

LEMMA StageKept == StageInv /\ UNCHANGED stageVars => StageInv'
<1> SUFFICES ASSUME StageInv, UNCHANGED stageVars PROVE StageInv'
  OBVIOUS
<1>1. StageTyped'
  BY DEF StageInv, StageTyped, stageVars
<1>2. past.acts \in Nat
  BY DEF StageInv, StageTyped, Pasts
<1> QED
  BY <1>1, <1>2, StageQuiet DEF stageVars, SameStage, SamePast

LEMMA ViewSet ==
  ASSUME StageTyped, NEW u \in Users, NEW w \in Views, Set(u, w)
  PROVE  /\ view' \in [Users -> Views] /\ view'[u] = w
         /\ \A v \in Users \ {u} : view'[v] = view[v]
  BY DEF Set, StageTyped

LEMMA PastCounted ==
  ASSUME StageTyped
  PROVE  /\ SamePast(Acted(past)) /\ Acted(past) \in Pasts /\ Acted(past).refused = past.refused
         /\ Acted(past).acts = past.acts + 1
         /\ SamePast([past EXCEPT !.choices = @ + 1]) /\ [past EXCEPT !.choices = @ + 1] \in Pasts
         /\ [past EXCEPT !.choices = @ + 1].refused = past.refused
<1>1. past \in Pasts /\ past.acts \in Nat /\ past.choices \in Nat
  BY DEF StageTyped, Pasts
<1>2. PICK a \in Nat, c \in Nat : a = past.acts + 1 /\ c = past.choices + 1
  BY <1>1
<1> DEFINE h == [past EXCEPT !.acts = a]
           k == [past EXCEPT !.choices = c]
<1>3. Acted(past) = h /\ [past EXCEPT !.choices = @ + 1] = k
  BY <1>2 DEF Acted
<1>4. h \in Pasts /\ k \in Pasts
  BY <1>1 DEF Pasts
<1>5. /\ h.sockets = past.sockets /\ h.acts = a /\ h.last = past.last /\ h.told = past.told
      /\ h.blind = past.blind /\ h.refused = past.refused
      /\ k.sockets = past.sockets /\ k.acts = past.acts /\ k.last = past.last
      /\ k.told = past.told /\ k.blind = past.blind /\ k.refused = past.refused
  BY <1>1 DEF Pasts
<1>6. past.acts <= a /\ past.acts <= past.acts
  BY <1>1, <1>2
<1> HIDE DEF h, k
<1> QED
  BY <1>1, <1>2, <1>3, <1>4, <1>5, <1>6 DEF SamePast

-----------------------------------------------------------------------------
(* choices of a page *)

LEMMA LocalStep ==
  ASSUME StageInv, NEW u \in Users, NEW w \in Views, Local(u, w), SameStage(w, view[u]),
         w.hand = view[u].hand, w.spotlight = view[u].spotlight
  PROVE  StageInv'
<1>t. StageTyped
  BY DEF StageInv
<1>1. /\ view' \in [Users -> Views] /\ view'[u] = w
      /\ \A v \in Users \ {u} : view'[v] = view[v]
  BY <1>t, ViewSet DEF Local
<1>2. SamePast(past') /\ past' \in Pasts /\ past'.refused = past.refused
  BY <1>t, PastCounted DEF Local
<1>3. StageTyped'
  BY <1>t, <1>1, <1>2 DEF StageTyped, Local
<1>4. \A v \in Users : /\ SameStage(view'[v], view[v]) /\ view'[v].hand = view[v].hand
                       /\ view'[v].spotlight = view[v].spotlight
  BY <1>1 DEF SameStage
<1> QED
  BY <1>2, <1>3, <1>4, StageQuiet DEF Local

LEMMA PeopleAreSockets == ASSUME StageTyped, NEW u \in Users PROVE People(u) \subseteq Nat
<1>1. view[u].tiles \in Seq(Nat)
  BY DEF StageTyped, Views, Keys
<1>2. Peers \subseteq Nat
  BY DEF Peers, StageTyped, Media
<1>3. Tiles(u) \subseteq Nat
  BY <1>1 DEF Tiles, ToSet
<1> QED
  BY <1>2, <1>3 DEF People

LEMMA PinStep == ASSUME StageInv, NEW u \in Users, Pin(u) PROVE StageInv'
<1>t. StageTyped
  BY DEF StageInv
<1>1. PICK k \in People(u) : Local(u, [view[u] EXCEPT !.pin = IF @ = k THEN None ELSE k])
  BY DEF Pin
<1>2. (IF view[u].pin = k THEN None ELSE k) \in Nat
  BY <1>t, PeopleAreSockets DEF None
<1> DEFINE w == [view[u] EXCEPT !.pin = IF @ = k THEN None ELSE k]
<1>3. w \in Views /\ SameStage(w, view[u]) /\ w.hand = view[u].hand
      /\ w.spotlight = view[u].spotlight
  BY <1>t, <1>2 DEF StageTyped, Views, SameStage
<1> QED
  BY <1>1, <1>3, LocalStep

LEMMA ChooseStep == ASSUME StageInv, NEW u \in Users, Choose(u) PROVE StageInv'
<1>t. StageTyped
  BY DEF StageInv
<1>1. PICK m \in Modes : Local(u, [view[u] EXCEPT !.layout = m])
  BY DEF Choose
<1> DEFINE w == [view[u] EXCEPT !.layout = m]
<1>3. w \in Views /\ SameStage(w, view[u]) /\ w.hand = view[u].hand
      /\ w.spotlight = view[u].spotlight
  BY <1>t DEF StageTyped, Views, SameStage
<1> QED
  BY <1>1, <1>3, LocalStep

LEMMA SharesTyped ==
  ASSUME StageTyped, NEW u \in Users
  PROVE  /\ Shares(u) \in Seq(Nat)
         /\ \A k \in ToSet(Shares(u)) : k \in ToSet(view[u].screens) \/ (k = sock[u] /\ Sharing(u))
<1> DEFINE own == IF Sharing(u) THEN <<sock[u]>> ELSE <<>>
<1>1. view[u].screens \in Seq(Nat) /\ sock[u] \in Nat
  BY DEF StageTyped, Views, Keys
<1>2. own \in Seq(Nat) /\ \A k \in ToSet(own) : k = sock[u] /\ Sharing(u)
  BY <1>1 DEF ToSet
<1> HIDE DEF own
<1>3. view[u].screens \o own \in Seq(Nat)
      /\ ToSet(view[u].screens \o own) = ToSet(view[u].screens) \cup ToSet(own)
  BY <1>1, <1>2, ConcatEntries
<1> QED
  BY <1>2, <1>3 DEF Shares, own

LEMMA PickShareStep == ASSUME StageInv, NEW u \in Users, PickShare(u) PROVE StageInv'
<1>t. StageTyped
  BY DEF StageInv
<1>1. PICK k \in ToSet(Shares(u)) : Local(u, [view[u] EXCEPT !.share = k])
  BY DEF PickShare
<1>2. k \in Nat
  BY <1>t, SharesTyped DEF ToSet
<1> DEFINE w == [view[u] EXCEPT !.share = k]
<1>3. w \in Views /\ SameStage(w, view[u]) /\ w.hand = view[u].hand
      /\ w.spotlight = view[u].spotlight
  BY <1>t, <1>2 DEF StageTyped, Views, SameStage
<1> QED
  BY <1>1, <1>3, LocalStep

LEMMA Paging ==
  ASSUME StageTyped, NEW u \in Users
  PROVE  Places(u) \in Nat \ {0} /\ PageCount(u) \in Nat
<1>1. view[u].tiles \in Seq(Nat)
  BY DEF StageTyped, Views, Keys
<1>2. Places(u) \in Nat \ {0}
  BY <1>1 DEF Places
<1>3. PageSize \in Nat \ {0}
  BY CallStageConstants
<1>4. \A n \in Nat, p \in Nat \ {0} : n \div p \in Nat
  OBVIOUS
<1>5. Places(u) + PageSize - 1 \in Nat
  BY <1>2, <1>3
<1> QED
  BY <1>2, <1>3, <1>4, <1>5 DEF PageCount

LEMMA TurnPageStep == ASSUME StageInv, NEW u \in Users, TurnPage(u) PROVE StageInv'
<1>t. StageTyped
  BY DEF StageInv
<1>1. PICK g \in Nat : Set(u, [view[u] EXCEPT !.grid = g])
  <2>1. view[u].grid \in Nat /\ PageCount(u) \in Nat
    BY <1>t, Paging DEF StageTyped, Views
  <2>2. CASE GridPage(u) > 0 /\ Set(u, [view[u] EXCEPT !.grid = @ - 1])
    <3>1. view[u].grid # 0
      BY <2>1, <2>2 DEF GridPage, TurnPage
    <3>2. view[u].grid - 1 \in Nat
      BY <2>1, <3>1
    <3> QED
      BY <2>2, <3>2
  <2>3. CASE ~(GridPage(u) > 0 /\ Set(u, [view[u] EXCEPT !.grid = @ - 1]))
    <3> DEFINE next == IF view[u].grid + 1 < PageCount(u) THEN view[u].grid + 1 ELSE PageCount(u) - 1
    <3>1. Set(u, [view[u] EXCEPT !.grid = next])
      BY <2>3 DEF TurnPage
    <3>2. PageCount(u) > 1
      BY DEF TurnPage
    <3>3. next \in Nat
      BY <2>1, <3>2
    <3> QED
      BY <3>1, <3>3
  <2> QED
    BY <2>2, <2>3
<1> DEFINE w == [view[u] EXCEPT !.grid = g]
<1>2. w \in Views /\ SameStage(w, view[u]) /\ w.hand = view[u].hand
      /\ w.spotlight = view[u].spotlight
  BY <1>t DEF StageTyped, Views, SameStage
<1>3. /\ view' \in [Users -> Views] /\ view'[u] = w
      /\ \A v \in Users \ {u} : view'[v] = view[v]
  BY <1>t, <1>1, <1>2, ViewSet
<1>4. UNCHANGED <<sock, open, inbox, asks, past>>
  BY DEF TurnPage
<1>5. StageTyped'
  BY <1>t, <1>3, <1>4 DEF StageTyped
<1>6. \A v \in Users : /\ SameStage(view'[v], view[v]) /\ view'[v].hand = view[v].hand
                       /\ view'[v].spotlight = view[v].spotlight
  BY <1>2, <1>3 DEF SameStage
<1>7. SamePast(past') /\ past'.refused = past.refused
  BY <1>t, <1>4 DEF SamePast, StageTyped, Pasts
<1> HIDE DEF w
<1> QED
  BY <1>4, <1>5, <1>6, <1>7, StageQuiet

LEMMA SpotlightStep == ASSUME StageInv, NEW k \in People(HostUser), Spotlight(k) PROVE StageInv'
<1>t. StageTyped
  BY DEF StageInv
<1>1. SamePast(past') /\ past' \in Pasts /\ past'.refused = past.refused
  BY <1>t, PastCounted DEF Spotlight
<1>2. (IF view[HostUser].spotlight = k THEN None ELSE k) \in Nat
  BY <1>t, PeopleAreSockets, CallStageConstants DEF None
<1>3. asks' \in Seq(Nat)
  BY <1>t, <1>2 DEF StageTyped, Spotlight
<1>4. StageTyped' /\ UNCHANGED <<sock, open, view, inbox>>
  BY <1>t, <1>1, <1>3 DEF StageTyped, Spotlight
<1> QED
  BY <1>1, <1>4, StageQuiet DEF SameStage

-----------------------------------------------------------------------------
(* an event that is relayed *)

Sent(to, e) == inbox' = [v \in Users |-> IF v \in to THEN Append(inbox[v], e) ELSE inbox[v]]

LEMMA EmittedOne ==
  ASSUME StageTyped, NEW e \in Relays, NEW to, Emit(to, <<e>>)
  PROVE  Sent(to, e)
<1>1. \A v \in Users : inbox[v] \in Seq(Relays)
  BY DEF StageTyped
<1>2. \A q \in Seq(Relays) : q \o <<e>> = Append(q, e)
  OBVIOUS
<1> QED
  BY <1>1, <1>2 DEF Emit, Sent

LEMMA SentTyped ==
  ASSUME StageTyped, NEW e \in Relays, NEW to, Sent(to, e)
  PROVE  /\ inbox' \in [Users -> Seq(Relays)]
         /\ \A v \in Users : v \in to => inbox'[v] = Append(inbox[v], e)
         /\ \A v \in Users : v \notin to => inbox'[v] = inbox[v]
  BY DEF Sent, StageTyped

(* a relayed event leaves what is said of everything else as it was *)
LEMMA SentElsewhere ==
  ASSUME StageTyped, NEW e \in Relays, NEW to, Sent(to, e), NEW u \in Users, NEW A, NEW G,
         u \in to => e \notin A, LatestOf(inbox[u], A, G)
  PROVE  LatestOf(inbox'[u], A, G) /\ (NoneOf(inbox'[u], A) => NoneOf(inbox[u], A))
<1>1. inbox[u] \in Seq(Relays)
  BY DEF StageTyped
<1>2. CASE u \in to
  <2>1. inbox'[u] = Append(inbox[u], e)
    BY <1>2, SentTyped
  <2>2. LatestOf(Append(inbox[u], e), A, G)
    BY <1>1, <1>2, LatestAppended
  <2>3. NoneOf(Append(inbox[u], e), A) => NoneOf(inbox[u], A)
    BY <1>1, NoneAppended
  <2> QED
    BY <2>1, <2>2, <2>3
<1>3. CASE u \notin to
  <2>1. inbox'[u] = inbox[u]
    BY <1>3, SentTyped
  <2> QED
    BY <2>1
<1> QED
  BY <1>2, <1>3

LEMMA SentLatest ==
  ASSUME StageTyped, NEW e \in Relays, NEW to, Sent(to, e), NEW u \in Users, u \in to, NEW A, NEW G,
         e \in A, e \in G
  PROVE  LatestOf(inbox'[u], A, G) /\ ~NoneOf(inbox'[u], A)
<1>1. inbox[u] \in Seq(Relays)
  BY DEF StageTyped
<1>2. inbox'[u] = Append(inbox[u], e)
  BY SentTyped
<1>3. LatestOf(Append(inbox[u], e), A, G)
  BY <1>1, LatestAppended
<1>4. ~NoneOf(Append(inbox[u], e), A)
  BY <1>1, NoneAppended
<1> QED
  BY <1>2, <1>3, <1>4

LEMMA SentOne ==
  ASSUME StageTyped, NEW e \in Relays, NEW to, Sent(to, e)
  PROVE  \A u \in Users : ToSet(inbox'[u]) = ToSet(inbox[u]) \cup (IF u \in to THEN {e} ELSE {})
<1> SUFFICES ASSUME NEW u \in Users
             PROVE  ToSet(inbox'[u]) = ToSet(inbox[u]) \cup (IF u \in to THEN {e} ELSE {})
  OBVIOUS
<1>1. inbox[u] \in Seq(Relays)
  BY DEF StageTyped
<1>2. ToSet(Append(inbox[u], e)) = ToSet(inbox[u]) \cup {e}
  BY <1>1, RelayAppended
<1> QED
  BY <1>2, SentTyped

(* a step that sends one event, which is no hand or is not of the spotlight *)
LEMMA SentHands ==
  ASSUME StageInv, NEW e \in Relays, NEW to, Sent(to, e), e.type # "hand",
         UNCHANGED sock, past'.blind = past.blind, past'.refused = past.refused,
         \A u \in Users : /\ view'[u].known = view[u].known /\ view'[u].hands = view[u].hands
                          /\ view'[u].hand = view[u].hand
  PROVE  HandsTold'
<1>t. StageTyped
  BY DEF StageInv
<1>1. In' = In /\ In \subseteq Users
  BY DEF In
<1>2. ASSUME NEW u \in In, NEW v \in In, u # v, sock[v] \notin past.refused
      PROVE  /\ LatestOf(inbox'[u], HandsOf(sock[v]), Up(view[v].hand))
             /\ NoneOf(inbox'[u], HandsOf(sock[v])) => HandSeen(u, v)'
  <2>1. e \notin HandsOf(sock[v]) /\ u \in Users
    BY <1>1 DEF HandsOf
  <2>2. /\ LatestOf(inbox[u], HandsOf(sock[v]), Up(view[v].hand))
        /\ NoneOf(inbox[u], HandsOf(sock[v])) => HandSeen(u, v)
    BY <1>2 DEF StageInv, HandsTold
  <2>3. HandSeen(u, v)' <=> HandSeen(u, v)
    BY <1>1, <1>2 DEF HandSeen
  <2> QED
    BY <1>t, <2>1, <2>2, <2>3, SentElsewhere
<1>3. \A v \in In : view'[v].hand = view[v].hand
  BY <1>1
<1> QED
  BY <1>1, <1>2, <1>3 DEF HandsTold

LEMMA SentSpotlight ==
  ASSUME StageInv, NEW e \in Relays, NEW to, Sent(to, e), e.type # "spotlight",
         UNCHANGED sock, past'.told = past.told, past'.last = past.last,
         \A u \in Users : view'[u].spotlight = view[u].spotlight
  PROVE  SpotlightTold'
<1>t. StageTyped
  BY DEF StageInv
<1>1. In' = In /\ In \subseteq Users
  BY DEF In
<1>2. ASSUME NEW u \in past.told
      PROVE  LatestOf(inbox'[u], Spots, Named(past.last))
             /\ (NoneOf(inbox'[u], Spots) => view[u].spotlight = past.last)
  <2>1. /\ LatestOf(inbox[u], Spots, Named(past.last))
        /\ NoneOf(inbox[u], Spots) => view[u].spotlight = past.last
        /\ u \in Users
    BY <1>1, <1>2 DEF StageInv, SpotlightTold
  <2>2. e \notin Spots
    BY DEF Spots
  <2> QED
    BY <1>t, <2>1, <2>2, SentElsewhere
<1>3. past.told \subseteq Users
  BY <1>1 DEF StageInv, SpotlightTold
<1> QED
  BY <1>1, <1>2, <1>3 DEF StageInv, SpotlightTold

(* the sockets of those connected have been given out, and nobody forgets them *)
LEMMA Connected ==
  ASSUME StageInv, NEW v \in In
  PROVE  v \in Users /\ sock[v] \in 1..past.sockets /\ sock[v] \in Peers
<1>1. v \in Users /\ sock[v] \in Nat /\ sock[v] # 0 /\ sock[v] <= past.sockets
      /\ past.sockets \in Nat
  BY DEF In, None, StageInv, Sockets, StageTyped, Pasts
<1>2. Tile(sock[v]) \in open /\ Tile(sock[v]).of = sock[v]
  BY DEF StageInv, Sockets, Tile
<1>3. sock[v] \in Peers
  BY <1>2 DEF Peers
<1> QED
  BY <1>1, <1>3

LEMMA ToggleHandStep == ASSUME StageInv, NEW x \in Users, ToggleHand(x) PROVE StageInv'
<1>t. StageTyped
  BY DEF StageInv
<1> DEFINE e == [type |-> "hand", of |-> sock[x], up |-> ~view[x].hand]
           to == In \ {x}
           w == [view[x] EXCEPT !.hand = ~@]
<1>1. e \in Relays /\ x \in In /\ sock[x] \in Nat
  BY <1>t DEF Relays, StageTyped, Views, ToggleHand
<1>2. w \in Views /\ SameStage(w, view[x]) /\ w.hand = ~view[x].hand /\ w.spotlight = view[x].spotlight
  BY <1>t DEF StageTyped, Views, SameStage
<1>3. /\ view' \in [Users -> Views] /\ view'[x] = w
      /\ \A v \in Users \ {x} : view'[v] = view[v]
  BY <1>t, <1>2, ViewSet DEF ToggleHand
<1>4. UNCHANGED <<sock, open, asks>> /\ In' = In /\ In \subseteq Users
  BY DEF ToggleHand, In
<1>5. e.type = "hand" /\ e.of = sock[x] /\ e.up = view'[x].hand /\ sock[x] \in 1..past.sockets
  BY <1>1, <1>2, <1>3, Connected
<1>6. \A v \in Users : SameStage(view'[v], view[v]) /\ view'[v].spotlight = view[v].spotlight
  BY <1>2, <1>3 DEF SameStage
<1>7. ASSUME NEW u \in In, NEW v \in In, u # v, v # x, past'.blind = past.blind
      PROVE  HandSeen(u, v)' = HandSeen(u, v) /\ view'[v].hand = view[v].hand /\ sock[v] # sock[x]
  <2>1. view'[v].hand = view[v].hand /\ sock[v] # sock[x]
    BY <1>1, <1>3, <1>4, <1>7 DEF StageInv, Sockets
  <2> QED
    BY <1>4, <1>6, <1>7, <2>1 DEF HandSeen, SameStage
<1>8. CASE Emit(to, <<e>>) /\ past' = [Acted(past) EXCEPT !.refused = @ \ {sock[x]}]
  <2>1. Sent(to, e)
    BY <1>t, <1>1, <1>8, EmittedOne
  <2>2. /\ SamePast(past') /\ past' \in Pasts /\ past'.refused = past.refused \ {sock[x]}
    BY <1>t, <1>8, PastCounted DEF SamePast, Pasts
  <2>3. StageTyped'
    BY <1>t, <1>1, <2>1, <2>2, <1>3, <1>4, SentTyped DEF StageTyped
  <2> HIDE DEF e, w
  <2>4. \A u \in Users : ToSet(inbox'[u]) = ToSet(inbox[u]) \cup (IF u \in to THEN {e} ELSE {})
    BY <1>t, <1>1, <2>1, SentOne
  <2>5. \A u \in Users \ In : inbox'[u] = <<>>
    BY <1>t, <1>1, <2>1, SentTyped DEF StageInv, Sockets
  <2>6. Sockets' /\ Spoken' /\ OnStage' /\ AllTold'
    BY <1>4, <1>5, <1>6, <2>2, <2>4, <2>5, StillTold DEF SamePast
  <2>7. SpotlightTold'
    BY <1>1, <1>4, <1>5, <1>6, <2>1, <2>2, SentSpotlight DEF SamePast
  <2>8. ASSUME NEW u \in In, u # x
        PROVE  /\ LatestOf(inbox'[u], HandsOf(sock[x]), Up(view'[x].hand))
               /\ ~NoneOf(inbox'[u], HandsOf(sock[x]))
    <3>1. e \in HandsOf(sock[x]) /\ e \in Up(view'[x].hand) /\ u \in to /\ u \in Users
      BY <1>1, <1>4, <1>5, <2>8 DEF HandsOf, Up
    <3> QED
      BY <1>1, <1>t, <2>1, <3>1, SentLatest
  <2>9. ASSUME NEW u \in In, NEW v \in In, u # v, v # x, sock[v] \notin past'.refused
        PROVE  /\ LatestOf(inbox'[u], HandsOf(sock[v]), Up(view'[v].hand))
               /\ NoneOf(inbox'[u], HandsOf(sock[v])) => HandSeen(u, v)'
    <3>1. HandSeen(u, v)' = HandSeen(u, v) /\ view'[v].hand = view[v].hand /\ sock[v] # sock[x]
      BY <1>7, <2>2, <2>9 DEF SamePast
    <3>2. e \notin HandsOf(sock[v]) /\ u \in Users /\ sock[v] \notin past.refused
      BY <1>4, <1>5, <2>2, <2>9, <3>1 DEF HandsOf
    <3>3. /\ LatestOf(inbox[u], HandsOf(sock[v]), Up(view[v].hand))
          /\ NoneOf(inbox[u], HandsOf(sock[v])) => HandSeen(u, v)
      BY <2>9, <3>2 DEF StageInv, HandsTold
    <3> QED
      BY <1>1, <1>t, <2>1, <3>1, <3>2, <3>3, SentElsewhere
  <2>10. HandsTold'
    BY <1>4, <2>8, <2>9 DEF HandsTold
  <2> QED
    BY <2>3, <2>6, <2>7, <2>10 DEF StageInv
<1>9. CASE past' = [Acted(past) EXCEPT !.refused = @ \cup {sock[x]}] /\ UNCHANGED inbox
  <2>1. /\ SamePast(past') /\ past' \in Pasts /\ past'.refused = past.refused \cup {sock[x]}
    BY <1>1, <1>t, <1>9, PastCounted DEF SamePast, Pasts
  <2>2. StageTyped'
    BY <1>t, <1>9, <2>1, <1>3, <1>4 DEF StageTyped
  <2>3. \A u \in Users \ In : inbox'[u] = <<>>
    BY <1>9 DEF StageInv, Sockets
  <2>4. Sockets' /\ Spoken' /\ OnStage' /\ AllTold'
    BY <1>4, <1>6, <1>9, <2>1, <2>3, StillTold DEF SamePast
  <2>5. SpotlightTold'
    BY <1>4, <1>6, <1>9, <2>1 DEF StageInv, SpotlightTold, SamePast
  <2>6. ASSUME NEW u \in In, NEW v \in In, u # v, sock[v] \notin past'.refused
        PROVE  /\ LatestOf(inbox[u], HandsOf(sock[v]), Up(view'[v].hand))
               /\ NoneOf(inbox[u], HandsOf(sock[v])) => HandSeen(u, v)'
    <3>1. v # x /\ sock[v] \notin past.refused
      BY <2>1, <2>6
    <3>2. HandSeen(u, v)' = HandSeen(u, v) /\ view'[v].hand = view[v].hand
      BY <1>7, <2>1, <2>6, <3>1 DEF SamePast
    <3> QED
      BY <2>6, <3>1, <3>2 DEF StageInv, HandsTold
  <2>7. HandsTold'
    BY <1>4, <1>9, <2>6 DEF HandsTold
  <2> QED
    BY <2>2, <2>4, <2>5, <2>7 DEF StageInv
<1> QED
  BY <1>8, <1>9 DEF ToggleHand

-----------------------------------------------------------------------------
(* what begins and ends, and is relayed *)

LEMMA StillUsed ==
  ASSUME StageTyped, past.sockets <= past'.sockets, past.acts <= past'.acts,
         past'.sockets \in Nat, past'.acts \in Nat, NEW p \in Media, Used(p)
  PROVE  Used(p)'
<1>1. /\ past.sockets \in Nat /\ past.acts \in Nat /\ p.n \in Nat /\ p.of \in 1..past.sockets
      /\ p.n <= past.acts
  BY DEF StageTyped, Pasts, Media, Used
<1>2. p.of \in 1..past'.sockets /\ p.n <= past'.acts
  BY <1>1
<1> QED
  BY <1>2 DEF Used

LEMMA OpenChanged ==
  ASSUME StageInv, StageTyped', NEW e \in Relays, NEW to, to \subseteq In, Sent(to, e),
         UNCHANGED <<sock, view>>, SamePast(past'), past'.refused = past.refused,
         e.type \in {"producer", "closed", "gone"}, e.of \in 1..past.sockets,
         e.type # "gone" => Used(e.media)',
         \A p \in open' \ open :
           /\ ~Used(p) /\ Used(p)' /\ e \in Begins(p)
           /\ \A u \in In : p.of # sock[u] => u \in to,
         \A p \in open \ open' : e \in Ends(p) /\ \A u \in In : p.of # sock[u] => u \in to,
         Peers' \subseteq Peers,
         \A k \in Peers \ Peers' : e \in GoneOf(k) /\ to = In,
         \A u \in In : Tile(sock[u]) \in open',
         e.type = "closed" => e.media.kind = "screen" /\ e.media \notin open',
         e.type = "gone" => e.of \notin Peers',
         e.type = "producer" => \A u \in to : e.media.of # sock[u]
  PROVE  StageInv'
<1>t. StageTyped
  BY DEF StageInv
<1>1. In' = In /\ In \subseteq Users /\ past.sockets \in Nat /\ past.sockets <= past.sockets
  BY <1>t DEF In, StageTyped, Pasts
<1>2. \A u \in Users : ToSet(inbox'[u]) = ToSet(inbox[u]) \cup (IF u \in to THEN {e} ELSE {})
  BY <1>t, SentOne
<1>3. HandsTold' /\ SpotlightTold'
  BY SentHands, SentSpotlight DEF SamePast
<1>4. \A p \in Media : Used(p) => Used(p)'
  BY <1>t, <1>1, StillUsed DEF SamePast
<1>5. Sockets'
  <2>1. \A u \in Users \ In : inbox'[u] = <<>>
    BY <1>t, SentTyped DEF StageInv, Sockets
  <2> QED
    BY <1>1, <2>1 DEF StageInv, Sockets, SamePast
<1>6. Spoken'
  <2>1. ASSUME NEW p \in open' PROVE Used(p)'
    <3>1. CASE p \in open
      <4>1. p \in Media
        BY <1>t, <3>1 DEF StageTyped
      <4> QED
        BY <1>4, <3>1, <4>1 DEF StageInv, Spoken
    <3> QED
      BY <3>1
  <2>2. ASSUME NEW u \in Users, NEW p \in Held(view[u]) \cup view[u].lost PROVE Used(p)'
    <3>1. p \in Media
      BY <1>t, <2>2 DEF StageTyped, Views, Held
    <3> QED
      BY <1>4, <3>1 DEF StageInv, Spoken
  <2>3. ASSUME NEW u \in Users, NEW d \in ToSet(inbox'[u])
        PROVE  /\ d.type # "spotlight" => d.of \in 1..past.sockets
               /\ d.type \in {"producer", "closed"} => Used(d.media)'
    <3>1. CASE d \in ToSet(inbox[u])
      <4>1. d \in Relays
        BY <1>t, <3>1 DEF StageTyped, ToSet
      <4>2. d.type \in {"producer", "closed"} => d.media \in Media
        BY <4>1 DEF Relays
      <4> QED
        BY <1>4, <3>1, <4>2 DEF StageInv, Spoken
    <3>2. CASE d \notin ToSet(inbox[u])
      BY <1>2, <2>3, <3>2
    <3> QED
      BY <3>1, <3>2
  <2>4. past'.sockets = past.sockets
    BY DEF SamePast
  <2> QED
    BY <2>1, <2>2, <2>3, <2>4 DEF Spoken, Held
<1>7. OnStage'
  <2>1. ASSUME NEW u \in In PROVE view[u].lost \cap open' = {}
    <3>1. \A p \in view[u].lost : Used(p)
      BY <1>1, <2>1 DEF StageInv, Spoken
    <3> QED
      BY <2>1, <3>1 DEF StageInv, OnStage
  <2> QED
    BY <1>1, <2>1 DEF StageInv, OnStage
<1>8. ASSUME NEW u \in In PROVE Told(u)'
  <2>t. Told(u) /\ u \in Users /\ view'[u] = view[u]
    BY <1>1, <1>8 DEF StageInv, AllTold
  <2>1. ToSet(inbox'[u]) = ToSet(inbox[u]) \cup (IF u \in to THEN {e} ELSE {})
    BY <1>2, <2>t
  <2>2. \A A : Coming(u, A) => Coming(u, A)'
    BY <2>1 DEF Coming
  <2>3. ASSUME NEW A, u \in to, e \in A PROVE Coming(u, A)'
    BY <2>1, <2>3 DEF Coming
  <2>4. \A p \in Has(view[u]) : p \in open' \/ Coming(u, Ends(p))'
    <3> SUFFICES ASSUME NEW p \in Has(view[u]), p \in open \ open' PROVE Coming(u, Ends(p))'
      BY <2>t, <2>2 DEF Told
    <3>1. p.of # sock[u]
      BY <1>8 DEF StageInv, OnStage, Has
    <3> QED
      BY <1>8, <2>3, <3>1
  <2>5. \A k \in Knows(view[u]) : k \in Peers' \/ Coming(u, GoneOf(k))'
    <3> SUFFICES ASSUME NEW k \in Knows(view[u]), k \in Peers \ Peers' PROVE Coming(u, GoneOf(k))'
      BY <2>t, <2>2 DEF Told
    <3> QED
      BY <1>8, <2>3
  <2>6. \A p \in open' : p.of # sock[u] => p \in Has(view[u]) \/ Coming(u, Begins(p))'
    <3> SUFFICES ASSUME NEW p \in open', p.of # sock[u], p \notin open PROVE Coming(u, Begins(p))'
      BY <2>t, <2>2 DEF Told
    <3> QED
      BY <1>8, <2>3
  <2>7. ASSUME NEW d \in ToSet(inbox'[u])
        PROVE  /\ d.type = "closed" => d.media.kind = "screen" /\ d.media \notin open'
               /\ d.type = "gone" => d.of \notin Peers'
               /\ d.type = "producer" => d.media.of # sock[u]
    <3>1. CASE d \in ToSet(inbox[u])
      <4>1. d.type = "closed" => Used(d.media)
        BY <2>t, <3>1 DEF StageInv, Spoken
      <4> QED
        BY <2>t, <3>1, <4>1 DEF Told
    <3>2. CASE d = e /\ u \in to
      BY <3>2
    <3> QED
      BY <2>1, <2>7, <3>1, <3>2
  <2> QED
    BY <2>t, <2>4, <2>5, <2>6, <2>7 DEF Told
<1>9. AllTold'
  BY <1>1, <1>8 DEF AllTold
<1> QED
  BY <1>3, <1>5, <1>6, <1>7, <1>9 DEF StageInv

LEMMA ToggleShareStep == ASSUME StageInv, NEW x \in Users, ToggleShare(x) PROVE StageInv'
<1>t. StageTyped
  BY DEF StageInv
<1> DEFINE to == In \ {x}
<1>1. /\ x \in In /\ to \subseteq In /\ UNCHANGED <<sock, view, asks>>
      /\ sock[x] \in 1..past.sockets /\ sock[x] \in Nat /\ open \in SUBSET Media
  BY <1>t, Connected DEF ToggleShare, In, StageTyped
<1>2. \A v \in In : Tile(sock[v]) \in open /\ Tile(sock[v]).kind = "tile" /\ Tile(sock[v]).of = sock[v]
  BY DEF StageInv, Sockets, Tile
<1>3. past.acts \in Nat /\ past.sockets \in Nat
  BY <1>t DEF StageTyped, Pasts
<1>4. \A v \in In : v \notin to => sock[v] = sock[x]
  OBVIOUS
<1>0. \A v \in to : sock[v] # sock[x]
  BY <1>1 DEF StageInv, Sockets
<1>5. CASE /\ open' = open \cup {Share(sock[x], past.acts + 1)} /\ past' = Acted(past)
           /\ Emit(to, <<[type |-> "producer", of |-> sock[x],
                          media |-> Share(sock[x], past.acts + 1)]>>)
  <2>0. Share(sock[x], past.acts + 1) \in Media
    BY <1>1, <1>3 DEF Share, Media
  <2>1. PICK b \in Media : b = Share(sock[x], past.acts + 1)
    BY <2>0
  <2>b. b.of = sock[x] /\ b.n = past.acts + 1 /\ b.kind = "screen"
    BY <2>1 DEF Share
  <2>r. [type |-> "producer", of |-> sock[x], media |-> b] \in Relays
    BY <1>1 DEF Relays
  <2>e. PICK e \in Relays : e = [type |-> "producer", of |-> sock[x], media |-> b]
    BY <2>r
  <2>2. e.type = "producer" /\ e.of = sock[x] /\ e.media = b
    BY <2>e
  <2>3. /\ SamePast(past') /\ past' \in Pasts /\ past'.refused = past.refused
        /\ past'.acts = past.acts + 1 /\ past'.sockets = past.sockets
    BY <1>t, <1>5, PastCounted DEF SamePast
  <2>4. Sent(to, e)
    BY <1>t, <1>5, <2>1, <2>e, EmittedOne
  <2>5. open' = open \cup {b}
    BY <1>5, <2>1
  <2>6. StageTyped'
    BY <1>t, <1>1, <2>1, <2>2, <2>3, <2>4, <2>5, SentTyped DEF StageTyped
  <2>7. ~Used(b) /\ Used(b)'
    <3>1. ~(past.acts + 1 <= past.acts) /\ past.acts + 1 <= past.acts + 1
      BY <1>3
    <3> QED
      BY <1>1, <2>b, <2>3, <3>1 DEF Used
  <2>8. e \in Begins(b)
    BY <2>2 DEF Begins
  <2>9. Peers' = Peers
    <3>1. b.of = Tile(sock[x]).of /\ Tile(sock[x]) \in open
      BY <1>1, <1>2, <2>b
    <3> QED
      BY <2>5, <3>1 DEF Peers
  <2>10. /\ open \ open' = {}
         /\ \A q \in open' \ open :
              /\ ~Used(q) /\ Used(q)' /\ e \in Begins(q)
              /\ \A u \in In : q.of # sock[u] => u \in to
    BY <1>4, <2>b, <2>5, <2>7, <2>8
  <2>11. \A u \in In : Tile(sock[u]) \in open'
    BY <1>2, <2>5
  <2> HIDE DEF to
  <2> QED
    BY <1>0, <1>1, <2>b, <2>2, <2>3, <2>4, <2>6, <2>7, <2>9, <2>10, <2>11, OpenChanged
<1>6. ASSUME NEW p \in SharesOn(sock[x]), open' = open \ {p}, UNCHANGED past,
             Emit(to, <<[type |-> "closed", of |-> sock[x], media |-> p]>>)
      PROVE  StageInv'
  <2>1. p \in Media /\ p.of = sock[x] /\ p.kind = "screen" /\ p \in open
    BY <1>1 DEF SharesOn
  <2>r. [type |-> "closed", of |-> sock[x], media |-> p] \in Relays
    BY <1>1, <2>1 DEF Relays
  <2>e. PICK e \in Relays : e = [type |-> "closed", of |-> sock[x], media |-> p]
    BY <2>r
  <2>2. e.type = "closed" /\ e.of = sock[x] /\ e.media = p
    BY <2>e
  <2>3. SamePast(past') /\ past' \in Pasts /\ past'.refused = past.refused
    BY <1>t, <1>3, <1>6 DEF SamePast, StageTyped
  <2>4. Sent(to, e)
    BY <1>t, <1>6, <2>e, EmittedOne
  <2>6. StageTyped'
    BY <1>t, <1>1, <1>6, <2>2, <2>3, <2>4, SentTyped DEF StageTyped
  <2>7. Used(p)'
    BY <1>6, <2>1 DEF StageInv, Spoken, Used
  <2>8. e \in Ends(p)
    BY <2>2 DEF Ends
  <2>11. \A u \in In : Tile(sock[u]) \in open'
    BY <1>2, <1>6, <2>1
  <2>9. Peers' = Peers
    <3>1. Tile(sock[x]) \in open' /\ Tile(sock[x]).of = p.of
      BY <1>1, <1>2, <2>1, <2>11
    <3> QED
      BY <1>6, <3>1 DEF Peers
  <2>10. open' \ open = {} /\ open \ open' \subseteq {p}
    BY <1>6
  <2> HIDE DEF to
  <2> QED
    BY <1>0, <1>1, <1>4, <1>6, <2>1, <2>2, <2>3, <2>4, <2>6, <2>7, <2>8, <2>9, <2>10, <2>11, OpenChanged
<1> QED
  BY <1>5, <1>6 DEF ToggleShare

LEMMA NoticedStep == ASSUME StageInv, NEW s \in Peers, Noticed(s) PROVE StageInv'
<1>t. StageTyped
  BY DEF StageInv
<1> DEFINE e == [type |-> "gone", of |-> s]
<1>1. PICK q \in open : q.of = s
  BY DEF Peers
<1>2. s \in 1..past.sockets /\ s \in Nat /\ past.acts \in Nat
  BY <1>1, <1>t DEF StageInv, Spoken, Used, StageTyped, Pasts
<1>3. /\ s \notin {sock[v] : v \in In} /\ open' = {p \in open : p.of # s}
      /\ UNCHANGED <<sock, view, asks, past>> /\ Emit(In, <<e>>)
  BY DEF Noticed
<1>4. e \in Relays /\ e.type = "gone" /\ e.of = s
  BY <1>2 DEF Relays
<1>5. Sent(In, e)
  BY <1>t, <1>3, <1>4, EmittedOne
<1> HIDE DEF e
<1>6. SamePast(past') /\ past'.refused = past.refused
  BY <1>2, <1>3 DEF SamePast
<1>7. StageTyped'
  BY <1>t, <1>3, <1>4, <1>5, SentTyped DEF StageTyped
<1>8. open' \ open = {} /\ \A p \in open \ open' : e \in Ends(p)
  BY <1>3, <1>4 DEF Ends
<1>9. Peers' = Peers \ {s} /\ e \in GoneOf(s)
  BY <1>3, <1>4 DEF Peers, GoneOf
<1>10. \A u \in In : Tile(sock[u]) \in open'
  BY <1>3 DEF StageInv, Sockets, Tile
<1> QED
  BY <1>2, <1>3, <1>4, <1>5, <1>6, <1>7, <1>8, <1>9, <1>10, OpenChanged

LEMMA SpotlightRelayedStep ==
  ASSUME StageInv, NEW i \in DOMAIN asks, SpotlightRelayed(i) PROVE StageInv'
<1>t. StageTyped
  BY DEF StageInv
<1> DEFINE e == [type |-> "spotlight", of |-> asks[i]]
<1>1. e \in Relays /\ asks[i] \in Nat
  BY <1>t DEF Relays, StageTyped
<1>2. Sent(In, e)
  BY <1>t, <1>1, EmittedOne DEF SpotlightRelayed, ToRoom
<1>3. asks' \in Seq(Nat)
  <2>1. asks \in Seq(Nat) /\ i \in 1..Len(asks)
    BY <1>t DEF StageTyped
  <2>2. SubSeq(asks, 1, i - 1) \in Seq(Nat) /\ SubSeq(asks, i + 1, Len(asks)) \in Seq(Nat)
    BY <2>1
  <2> QED
    BY <2>2 DEF SpotlightRelayed, RemoveAt
<1>4. /\ UNCHANGED <<sock, open, view>> /\ In' = In /\ In \subseteq Users
      /\ past' = [past EXCEPT !.last = asks[i], !.told = In]
  BY DEF SpotlightRelayed, In
<1>5. /\ past' \in Pasts /\ past'.last = e.of /\ past'.told = In /\ past'.sockets = past.sockets
      /\ past'.blind = past.blind /\ past'.refused = past.refused /\ past'.acts = past.acts
      /\ past.acts \in Nat
  BY <1>t, <1>1, <1>4 DEF StageTyped, Pasts
<1>6. StageTyped'
  BY <1>t, <1>1, <1>2, <1>3, <1>4, <1>5, SentTyped DEF StageTyped
<1>7. e.type = "spotlight"
  OBVIOUS
<1> HIDE DEF e
<1>8. Sockets' /\ Spoken' /\ OnStage' /\ AllTold'
  <2>1. \A u \in Users : ToSet(inbox'[u]) = ToSet(inbox[u]) \cup (IF u \in In THEN {e} ELSE {})
    BY <1>t, <1>1, <1>2, SentOne
  <2>2. \A u \in Users \ In : inbox'[u] = <<>>
    BY <1>1, <1>2, <1>t, SentTyped DEF StageInv, Sockets
  <2>3. /\ past.acts <= past'.acts /\ past'.acts \in Nat /\ past'.sockets = past.sockets
        /\ UNCHANGED <<sock, open>> /\ \A u \in Users : SameStage(view'[u], view[u])
    BY <1>4, <1>5 DEF SameStage
  <2>4. \A u \in Users :
          /\ ToSet(inbox[u]) \subseteq ToSet(inbox'[u])
          /\ \A d \in ToSet(inbox'[u]) \ ToSet(inbox[u]) : d.type = "spotlight"
    BY <1>7, <2>1
  <2> QED
    BY <2>2, <2>3, <2>4, StillTold
<1>9. SpotlightTold'
  <2>1. ASSUME NEW u \in In
        PROVE  LatestOf(inbox'[u], Spots, Named(past'.last)) /\ ~NoneOf(inbox'[u], Spots)
    <3>1. e \in Spots /\ e \in Named(past'.last) /\ u \in Users
      BY <1>1, <1>4, <1>5, <1>7, <2>1 DEF Spots, Named
    <3> QED
      BY <1>1, <1>2, <1>t, <2>1, <3>1, SentLatest
  <2> QED
    BY <1>4, <1>5, <2>1 DEF SpotlightTold
<1>10. HandsTold'
  BY <1>1, <1>2, <1>4, <1>5, <1>7, SentHands
<1> QED
  BY <1>6, <1>8, <1>9, <1>10 DEF StageInv

-----------------------------------------------------------------------------
(* lists of keys *)

LEMMA KeyedEntries ==
  ASSUME NEW q \in Keys, NEW k \in Nat
  PROVE  Keyed(q, k) \in Keys /\ ToSet(Keyed(q, k)) = ToSet(q) \cup {k}
<1>q. q \in Seq(Nat) /\ DOMAIN q = 1..Len(q) /\ Len(q) \in Nat
  BY DEF Keys
<1>1. CASE k \in ToSet(q)
  BY <1>1 DEF Keyed
<1>2. CASE k \notin ToSet(q)
  <2> DEFINE r == Append(q, k)
  <2>1. /\ r \in Seq(Nat) /\ Len(r) = Len(q) + 1 /\ r[Len(q) + 1] = k
        /\ \A i \in 1..Len(q) : r[i] = q[i]
        /\ ToSet(r) = ToSet(q) \cup {k}
    BY <1>q, AppendEntries
  <2>2. DOMAIN r = 1..(Len(q) + 1)
    BY <2>1
  <2> HIDE DEF r
  <2>3. ASSUME NEW i \in DOMAIN r, NEW j \in DOMAIN r, r[i] = r[j] PROVE i = j
    <3>1. \A n \in 1..Len(q) : r[n] # k
      BY <1>2, <1>q, <2>1 DEF ToSet
    <3>2. i \in 1..Len(q) <=> j \in 1..Len(q)
      BY <1>q, <2>1, <2>2, <2>3, <3>1
    <3>3. CASE i \in 1..Len(q) /\ j \in 1..Len(q)
      BY <1>q, <2>1, <2>3, <3>3 DEF Keys
    <3> QED
      BY <1>q, <2>2, <3>2, <3>3
  <2>4. r \in Keys
    BY <2>1, <2>3 DEF Keys
  <2> QED
    BY <1>2, <2>1, <2>4 DEF Keyed, r
<1> QED
  BY <1>1, <1>2

LEMMA WithoutOne ==
  ASSUME NEW S, NEW q \in Seq(S), NEW i \in 1..Len(q)
  PROVE  /\ RemoveAt(q, i) \in Seq(S) /\ Len(RemoveAt(q, i)) = Len(q) - 1
         /\ \A n \in 1..(Len(q) - 1) : RemoveAt(q, i)[n] = IF n < i THEN q[n] ELSE q[n + 1]
<1> DEFINE a == SubSeq(q, 1, i - 1)
           b == SubSeq(q, i + 1, Len(q))
<1>q. Len(q) \in Nat /\ i \in Nat /\ 1 <= i /\ i <= Len(q)
  OBVIOUS
<1>1. /\ a \in Seq(S) /\ Len(a) = i - 1 /\ \A n \in 1..(i - 1) : a[n] = q[n]
  BY <1>q
<1>2. /\ b \in Seq(S) /\ Len(b) = Len(q) - i /\ \A n \in 1..(Len(q) - i) : b[n] = q[i + n]
  BY <1>q
<1> HIDE DEF a, b
<1>3. /\ a \o b \in Seq(S) /\ Len(a \o b) = Len(a) + Len(b)
      /\ \A n \in 1..(Len(a) + Len(b)) : (a \o b)[n] = IF n <= Len(a) THEN a[n] ELSE b[n - Len(a)]
  BY <1>1, <1>2, ConcatProperties
<1>4. Len(a) + Len(b) = Len(q) - 1
  BY <1>q, <1>1, <1>2
<1>5. ASSUME NEW n \in 1..(Len(q) - 1) PROVE (a \o b)[n] = IF n < i THEN q[n] ELSE q[n + 1]
  <2>1. (a \o b)[n] = IF n <= Len(a) THEN a[n] ELSE b[n - Len(a)]
    BY <1>3, <1>4
  <2>2. CASE n < i
    <3>1. n <= Len(a) /\ n \in 1..(i - 1)
      BY <1>q, <1>1, <2>2
    <3> QED
      BY <1>1, <2>1, <2>2, <3>1
  <2>3. CASE ~(n < i)
    <3>1. ~(n <= Len(a)) /\ n - Len(a) \in 1..(Len(q) - i) /\ i + (n - Len(a)) = n + 1
      BY <1>q, <1>1, <2>3
    <3> QED
      BY <1>2, <2>1, <2>3, <3>1
  <2> QED
    BY <2>2, <2>3
<1> QED
  BY <1>3, <1>4, <1>5 DEF RemoveAt, a, b

LEMMA DroppedEntries ==
  ASSUME NEW q \in Keys, NEW k \in Nat
  PROVE  Dropped(q, k) \in Keys /\ ToSet(Dropped(q, k)) = ToSet(q) \ {k}
<1>1. CASE k \notin ToSet(q)
  BY <1>1 DEF Dropped
<1>2. CASE k \in ToSet(q)
  <2>q. q \in Seq(Nat) /\ DOMAIN q = 1..Len(q) /\ Len(q) \in Nat
    BY DEF Keys
  <2>1. PICK i \in 1..Len(q) : q[i] = k /\ Dropped(q, k) = RemoveAt(q, i)
    BY <1>2, <2>q DEF ToSet, Dropped
  <2>2. PICK len \in Nat : len = Len(q)
    BY <2>q, Zenon
  <2> DEFINE r == RemoveAt(q, i)
  <2>3. /\ r \in Seq(Nat) /\ Len(r) = len - 1
        /\ \A n \in 1..(len - 1) : r[n] = IF n < i THEN q[n] ELSE q[n + 1]
    BY <2>q, <2>1, <2>2, WithoutOne
  <2>4. DOMAIN r = 1..(len - 1)
    BY <2>3
  <2> HIDE DEF r
  <2>5. i \in 1..len /\ DOMAIN q = 1..len
    BY <2>q, <2>1, <2>2
  <2>6. \A m \in 1..len : q[m] = k <=> m = i
    BY <2>1, <2>5 DEF Keys
  <2>7. ASSUME NEW n \in 1..(len - 1), NEW m \in 1..(len - 1), r[n] = r[m] PROVE n = m
    <3> DEFINE x == IF n < i THEN n ELSE n + 1
               y == IF m < i THEN m ELSE m + 1
    <3>1. x \in 1..len /\ y \in 1..len /\ (x = y => n = m)
      BY <2>2, <2>5
    <3>2. q[x] = r[n] /\ q[y] = r[m]
      BY <2>3
    <3> HIDE DEF x, y
    <3>3. x = y
      BY <2>5, <2>7, <3>1, <3>2 DEF Keys
    <3> QED
      BY <3>1, <3>3
  <2>8. ASSUME NEW n \in 1..(len - 1) PROVE r[n] \in ToSet(q) \ {k}
    <3> DEFINE x == IF n < i THEN n ELSE n + 1
    <3>1. x \in 1..len /\ x # i
      BY <2>2, <2>5
    <3>2. q[x] = r[n]
      BY <2>3
    <3> QED
      BY <2>5, <2>6, <3>1, <3>2 DEF ToSet
  <2>9. ASSUME NEW m \in 1..len, m # i PROVE \E n \in 1..(len - 1) : r[n] = q[m]
    <3> DEFINE n == IF m < i THEN m ELSE m - 1
    <3>1. n \in 1..(len - 1) /\ (IF n < i THEN n ELSE n + 1) = m
      BY <2>2, <2>5, <2>9
    <3>2. r[n] = q[m]
      BY <2>3, <3>1
    <3> QED
      BY <3>1, <3>2
  <2>10. r \in Keys
    BY <2>3, <2>4, <2>7 DEF Keys
  <2>11. ToSet(r) = ToSet(q) \ {k}
    BY <2>4, <2>5, <2>6, <2>8, <2>9 DEF ToSet
  <2> QED
    BY <2>1, <2>10, <2>11 DEF r
<1> QED
  BY <1>1, <1>2

-----------------------------------------------------------------------------
(* media that arrive *)

(* a page that has no less of what is there and knows nobody it did not have *)
LEMMA ViewStep ==
  ASSUME StageInv, NEW x \in In, NEW w \in Views, Set(x, w),
         UNCHANGED <<sock, open, inbox, asks, past>>,
         Landed(w), Held(w) \subseteq Held(view[x]), w.lost \subseteq view[x].lost,
         Has(w) \subseteq Has(view[x]), Has(view[x]) \cap open \subseteq w.coming \cup w.landed,
         view[x].known \subseteq w.known, w.known \subseteq Knows(view[x]),
         w.hands = view[x].hands, w.hand = view[x].hand, w.spotlight = view[x].spotlight
  PROVE  StageInv'
<1> DEFINE b == view[x]
<1>t. StageTyped /\ x \in Users
  BY DEF StageInv, In
<1>1. /\ view' \in [Users -> Views] /\ view'[x] = w
      /\ \A v \in Users \ {x} : view'[v] = view[v]
  BY <1>t, ViewSet
<1>2. In' = In /\ In \subseteq Users /\ Peers' = Peers
  BY DEF In, Peers
<1>3. StageTyped'
  BY <1>t, <1>1 DEF StageTyped
<1>4. Sockets'
  BY <1>1, <1>2 DEF StageInv, Sockets
<1>5. Spoken'
  <2>1. ASSUME NEW u \in Users, NEW p \in Held(view'[u]) \cup view'[u].lost PROVE Used(p)
    <3>1. CASE u = x
      BY <1>1, <1>t, <2>1, <3>1 DEF StageInv, Spoken
    <3>2. CASE u # x
      BY <1>1, <2>1, <3>2 DEF StageInv, Spoken
    <3> QED
      BY <3>1, <3>2
  <2> QED
    BY <2>1 DEF StageInv, Spoken, Used, Held
<1>6. OnStage'
  <2>1. Landed(w) /\ w.lost \cap open = {} /\ \A p \in Held(w) : p.of # sock[x]
    BY DEF StageInv, OnStage
  <2> QED
    BY <1>1, <1>2, <2>1 DEF StageInv, OnStage, Landed, Held
<1>7. AllTold'
  <2>1. Told(x) /\ b.lost \cap open = {}
    BY DEF StageInv, AllTold, OnStage
  <2>2. Has(b) \cap open \subseteq Has(w)
    BY <2>1 DEF Has, Held
  <2>3. Knows(w) \subseteq Knows(b)
    BY DEF Knows
  <2>4. /\ \A p \in Has(w) : p \in open \/ Coming(x, Ends(p))
        /\ \A k \in Knows(w) : k \in Peers \/ Coming(x, GoneOf(k))
        /\ \A p \in open : p.of # sock[x] => p \in Has(w) \/ Coming(x, Begins(p))
    BY <2>1, <2>2, <2>3 DEF Told
  <2>5. \A u \in In : \A A : Coming(u, A)' <=> Coming(u, A)
    BY DEF Coming
  <2>6. ASSUME NEW u \in In, u # x PROVE Told(u)'
    <3>1. view'[u] = view[u] /\ Told(u)
      BY <1>1, <1>2, <2>6 DEF StageInv, AllTold
    <3> QED
      BY <1>2, <2>5, <3>1 DEF Told
  <2>7. Told(x)'
    <3>1. \A e \in ToSet(inbox[x]) :
            /\ e.type = "closed" => e.media.kind = "screen" /\ e.media \notin open
            /\ e.type = "gone" => e.of \notin Peers
            /\ e.type = "producer" => e.media.of # sock[x]
      BY <2>1 DEF Told
    <3> QED
      BY <1>1, <1>2, <2>4, <2>5, <3>1 DEF Told
  <2> QED
    BY <1>2, <2>6, <2>7 DEF AllTold
<1>8. \A v \in Users : /\ view'[v].hand = view[v].hand /\ view'[v].spotlight = view[v].spotlight
                       /\ view'[v].hands = view[v].hands /\ view[v].known \subseteq view'[v].known
  BY <1>1
<1>9. HandsTold'
  <2>1. ASSUME NEW u \in In, NEW v \in In, HandSeen(u, v) PROVE HandSeen(u, v)'
    <3>1. view[u].hands \subseteq view[u].known
      BY DEF StageInv, OnStage, Landed
    <3>2. view[v].hand \in BOOLEAN
      BY <1>2, <1>t DEF StageTyped, Views
    <3> QED
      BY <1>2, <1>8, <2>1, <3>1, <3>2 DEF HandSeen
  <2> QED
    BY <1>2, <1>8, <2>1 DEF StageInv, HandsTold
<1>10. SpotlightTold'
  BY <1>2, <1>8 DEF StageInv, SpotlightTold
<1> QED
  BY <1>3, <1>4, <1>5, <1>6, <1>7, <1>9, <1>10 DEF StageInv

LEMMA ArrivesStep ==
  ASSUME StageInv, NEW x \in Users, NEW p \in view[x].coming, Arrives(x, p) PROVE StageInv'
<1>t. StageTyped
  BY DEF StageInv
<1> DEFINE b == view[x]
<1>1. /\ b \in Views /\ p \in Media /\ p.of \in Nat /\ p.kind \in {"tile", "screen"} /\ x \in In
      /\ b.tiles \in Keys /\ b.screens \in Keys
  BY <1>t DEF StageTyped, Views, Media, Arrives
<1>0. Landed(b)
  BY <1>1 DEF StageInv, OnStage
<1>2. PICK w \in Views :
        /\ Set(x, w) /\ w.coming = b.coming \ {p} /\ w.landed = b.landed \cup {p}
        /\ w.resuming = b.resuming \cup ({p} \ b.lost) /\ w.lost = b.lost /\ w.known = b.known
        /\ w.hands = b.hands /\ w.hand = b.hand /\ w.spotlight = b.spotlight
        /\ ToSet(w.tiles) = ToSet(b.tiles) \cup (IF p.kind = "tile" THEN {p.of} ELSE {})
        /\ ToSet(w.screens) = ToSet(b.screens) \cup (IF p.kind = "screen" THEN {p.of} ELSE {})
  <2> DEFINE c == b.coming \ {p}
             l == b.landed \cup {p}
             r == b.resuming \cup ({p} \ b.lost)
             ts == Keyed(b.tiles, p.of)
             ss == Keyed(b.screens, p.of)
             W == [b EXCEPT !.coming = c, !.landed = l, !.resuming = r]
  <2>1. c \in SUBSET Media /\ l \in SUBSET Media /\ r \in SUBSET Media
    BY <1>1 DEF Views
  <2>2. /\ ts \in Keys /\ ToSet(ts) = ToSet(b.tiles) \cup {p.of}
        /\ ss \in Keys /\ ToSet(ss) = ToSet(b.screens) \cup {p.of}
    BY <1>1, KeyedEntries
  <2>3. \/ p.kind = "tile" /\ Set(x, [W EXCEPT !.tiles = ts])
        \/ p.kind = "screen" /\ Set(x, [W EXCEPT !.screens = ss])
    <3>1. W.tiles = b.tiles /\ W.screens = b.screens
      BY <1>1 DEF Views
    <3> QED
      BY <3>1 DEF Arrives
  <2> HIDE DEF c, l, r, ts, ss
  <2>4. /\ W \in Views /\ W.coming = c /\ W.landed = l /\ W.resuming = r /\ W.lost = b.lost
        /\ W.known = b.known /\ W.tiles = b.tiles /\ W.screens = b.screens
        /\ W.hands = b.hands /\ W.hand = b.hand /\ W.spotlight = b.spotlight
    BY <1>1, <2>1 DEF Views
  <2> HIDE DEF W
  <2>5. CASE p.kind = "tile" /\ Set(x, [W EXCEPT !.tiles = ts])
    <3> DEFINE w == [W EXCEPT !.tiles = ts]
    <3>1. w \in Views
      BY <2>2, <2>4 DEF Views
    <3>2. /\ w.coming = W.coming /\ w.landed = W.landed /\ w.resuming = W.resuming
          /\ w.lost = W.lost /\ w.known = W.known /\ w.tiles = ts /\ w.screens = W.screens
          /\ w.hands = W.hands /\ w.hand = W.hand /\ w.spotlight = W.spotlight
      BY <2>4 DEF Views
    <3> HIDE DEF w
    <3> QED
      BY <2>2, <2>4, <2>5, <3>1, <3>2 DEF c, l, r, w
  <2>6. CASE p.kind = "screen" /\ Set(x, [W EXCEPT !.screens = ss])
    <3> DEFINE w == [W EXCEPT !.screens = ss]
    <3>1. w \in Views
      BY <2>2, <2>4 DEF Views
    <3>2. /\ w.coming = W.coming /\ w.landed = W.landed /\ w.resuming = W.resuming
          /\ w.lost = W.lost /\ w.known = W.known /\ w.tiles = W.tiles /\ w.screens = ss
          /\ w.hands = W.hands /\ w.hand = W.hand /\ w.spotlight = W.spotlight
      BY <2>4 DEF Views
    <3> HIDE DEF w
    <3> QED
      BY <2>2, <2>4, <2>6, <3>1, <3>2 DEF c, l, r, w
  <2> QED
    BY <2>3, <2>5, <2>6
<1>3. Landed(w)
  <2>1. \A kind : KeysOf(w.landed, kind) = KeysOf(b.landed, kind) \cup (IF p.kind = kind THEN {p.of} ELSE {})
    BY <1>2 DEF KeysOf
  <2>2. ToSet(w.tiles) = KeysOf(w.landed, "tile") /\ ToSet(w.screens) = KeysOf(w.landed, "screen")
    BY <1>0, <1>2, <2>1 DEF Landed
  <2>3. w.coming \cap w.landed = {} /\ w.resuming \subseteq w.landed \ w.lost
    BY <1>0, <1>2 DEF Landed
  <2> QED
    BY <1>0, <1>2, <2>2, <2>3 DEF Landed
<1>4. Held(w) = Held(b) /\ Has(w) = Has(b)
  BY <1>2 DEF Held, Has
<1>5. Has(b) \cap open \subseteq w.coming \cup w.landed
  BY <1>2 DEF Has, Held
<1>6. b.known \subseteq w.known /\ w.known \subseteq Knows(b) /\ w.lost \subseteq b.lost
  BY <1>2 DEF Knows
<1>7. UNCHANGED <<sock, open, inbox, asks, past>>
  BY DEF Arrives
<1> QED
  BY <1>1, <1>2, <1>3, <1>4, <1>5, <1>6, <1>7, ViewStep

LEMMA DeniedStep ==
  ASSUME StageInv, NEW x \in Users, NEW p \in view[x].coming, Denied(x, p) PROVE StageInv'
<1>t. StageTyped
  BY DEF StageInv
<1> DEFINE b == view[x]
           c == b.coming \ {p}
           l == b.lost \ {p}
           w == [b EXCEPT !.coming = c, !.lost = l]
<1>1. b \in Views /\ x \in In /\ p \notin open /\ Set(x, w)
      /\ UNCHANGED <<sock, open, inbox, asks, past>>
  BY <1>t DEF StageTyped, Denied
<1>2. c \in SUBSET Media /\ l \in SUBSET Media
  BY <1>1 DEF Views
<1>0. Landed(b)
  BY <1>1 DEF StageInv, OnStage
<1> HIDE DEF c, l
<1>3. w \in Views
  BY <1>1, <1>2 DEF Views
<1>4. /\ w.coming = c /\ w.landed = b.landed /\ w.resuming = b.resuming /\ w.lost = l
      /\ w.known = b.known /\ w.tiles = b.tiles /\ w.screens = b.screens
      /\ w.hands = b.hands /\ w.hand = b.hand /\ w.spotlight = b.spotlight
  BY <1>1 DEF Views
<1> HIDE DEF w
<1>5. Landed(w)
  BY <1>0, <1>4 DEF Landed, c, l
<1>6. p \notin b.landed
  BY <1>0 DEF Landed
<1>7. /\ Held(w) \subseteq Held(b) /\ Has(w) \subseteq Has(b) /\ w.lost \subseteq b.lost
      /\ Has(b) \cap open \subseteq w.coming \cup w.landed
  BY <1>1, <1>4, <1>6 DEF Held, Has, c, l
<1>8. b.known \subseteq w.known /\ w.known \subseteq Knows(b)
  BY <1>4 DEF Knows
<1> QED
  BY <1>1, <1>3, <1>4, <1>5, <1>7, <1>8, ViewStep

LEMMA ResumedStep ==
  ASSUME StageInv, NEW x \in Users, NEW p \in view[x].resuming, Resumed(x, p) PROVE StageInv'
<1>t. StageTyped
  BY DEF StageInv
<1> DEFINE b == view[x]
           r == b.resuming \ {p}
           n == b.known \cup {p.of}
           w == [b EXCEPT !.resuming = r, !.known = n]
<1>1. b \in Views /\ x \in In /\ Set(x, w) /\ p \in Media /\ p.of \in Nat
      /\ UNCHANGED <<sock, open, inbox, asks, past>>
  BY <1>t DEF StageTyped, Resumed, Views, Media
<1>2. r \in SUBSET Media /\ n \in SUBSET Nat
  BY <1>1 DEF Views
<1>0. Landed(b)
  BY <1>1 DEF StageInv, OnStage
<1> HIDE DEF r, n
<1>3. w \in Views
  BY <1>1, <1>2 DEF Views
<1>4. /\ w.coming = b.coming /\ w.landed = b.landed /\ w.resuming = r /\ w.lost = b.lost
      /\ w.known = n /\ w.tiles = b.tiles /\ w.screens = b.screens
      /\ w.hands = b.hands /\ w.hand = b.hand /\ w.spotlight = b.spotlight
  BY <1>1 DEF Views
<1> HIDE DEF w
<1>5. Landed(w)
  BY <1>0, <1>4 DEF Landed, r, n
<1>6. p \in Has(b)
  BY <1>0 DEF Landed, Has, Held
<1>7. Held(w) = Held(b) /\ Has(w) = Has(b) /\ Has(b) \cap open \subseteq w.coming \cup w.landed
  BY <1>4 DEF Held, Has
<1>8. b.known \subseteq w.known /\ w.known \subseteq Knows(b)
  BY <1>4, <1>6 DEF Knows, n
<1> QED
  BY <1>1, <1>3, <1>4, <1>5, <1>7, <1>8, ViewStep

-----------------------------------------------------------------------------
(* what a page makes of an event *)

Makes(b, e, w) ==
  /\ w.coming = b.coming \cup (IF e.type = "producer" THEN ({e.media} \cap open) \ b.landed ELSE {})
  /\ w.landed = CASE e.type = "closed" -> b.landed \ {e.media}
                  [] e.type = "gone" -> {p \in b.landed : p.of # e.of}
                  [] OTHER -> b.landed
  /\ w.resuming = CASE e.type = "closed" -> b.resuming \ {e.media}
                    [] e.type = "gone" -> {p \in b.resuming : p.of # e.of}
                    [] OTHER -> b.resuming
  /\ w.lost = CASE e.type = "closed" -> b.lost \cup ({e.media} \cap b.coming)
                [] e.type = "gone" -> {p \in b.lost : p.of # e.of} \cup {p \in b.coming : p.of = e.of}
                [] OTHER -> b.lost
  /\ w.known = IF e.type = "gone" THEN b.known \ {e.of} ELSE b.known
  /\ w.hands = CASE e.type = "gone" -> b.hands \ {e.of}
                 [] e.type = "hand" /\ e.of \in b.known ->
                      IF e.up THEN b.hands \cup {e.of} ELSE b.hands \ {e.of}
                 [] OTHER -> b.hands
  /\ ToSet(w.tiles) = IF e.type = "gone" THEN ToSet(b.tiles) \ {e.of} ELSE ToSet(b.tiles)
  /\ ToSet(w.screens) =
       IF e.type = "gone" \/ (e.type = "closed" /\ e.media \in b.landed /\ ~OtherShare(b, e.media))
       THEN ToSet(b.screens) \ {IF e.type = "gone" THEN e.of ELSE e.media.of}
       ELSE ToSet(b.screens)
  /\ w.hand = b.hand
  /\ w.spotlight = IF e.type = "spotlight" THEN e.of ELSE b.spotlight

LEMMA Made ==
  ASSUME StageTyped, NEW x \in Users, Hear(x)
  PROVE  \E w \in Views : Set(x, w) /\ Makes(view[x], Head(inbox[x]), w)
<1>0. view[x] \in Views /\ open \in SUBSET Media /\ inbox[x] \in Seq(Relays) /\ inbox[x] # <<>>
  BY DEF StageTyped, Hear
<1>1. PICK b \in Views : b = view[x]
  BY <1>0
<1>2. Head(inbox[x]) \in Relays
  BY <1>0, NoneOfTail
<1>e. PICK e \in Relays : e = Head(inbox[x])
  BY <1>2
<1> DEFINE W == CASE e.type = "producer"  -> Announced(b, e.media)
                  [] e.type = "closed"    -> ShareEnded(b, e.media)
                  [] e.type = "gone"      -> RemovePeer(b, e.of)
                  [] e.type = "hand"      -> HandHeard(b, e)
                  [] e.type = "spotlight" -> [b EXCEPT !.spotlight = e.of]
<1>3. Set(x, W)
  BY <1>1, <1>e DEF Hear
<1> HIDE DEF W
<1>4. /\ e.type \in {"producer", "closed", "gone", "hand", "spotlight"} /\ e.of \in Nat
      /\ e.type \in {"producer", "closed"} => e.media \in Media /\ e.media.of \in Nat
      /\ e.type = "hand" => e.up \in BOOLEAN
  BY DEF Relays, Media
<1>5. /\ b.tiles \in Keys /\ b.screens \in Keys /\ b.coming \in SUBSET Media
      /\ b.landed \in SUBSET Media /\ b.resuming \in SUBSET Media /\ b.lost \in SUBSET Media
      /\ b.known \in SUBSET Nat /\ b.hands \in SUBSET Nat
  BY DEF Views
<1> SUFFICES W \in Views /\ Makes(b, e, W)
  BY <1>1, <1>e, <1>3
<1>7. CASE e.type = "producer"
  <2> DEFINE c == b.coming \cup (({e.media} \cap open) \ b.landed)
  <2>1. c \in SUBSET Media
    BY <1>0, <1>5
  <2>2. W = [b EXCEPT !.coming = c]
    BY <1>7 DEF W, Announced
  <2> HIDE DEF c
  <2>3. W \in Views
    BY <2>1, <2>2 DEF Views
  <2>4. /\ W.coming = c /\ W.landed = b.landed /\ W.resuming = b.resuming /\ W.lost = b.lost
        /\ W.known = b.known /\ W.tiles = b.tiles /\ W.screens = b.screens /\ W.hands = b.hands
        /\ W.hand = b.hand /\ W.spotlight = b.spotlight
    BY <2>2 DEF Views
  <2>5. Makes(b, e, W)
    BY <1>7, <2>4 DEF Makes, c
  <2> QED
    BY <2>3, <2>5
<1>8. CASE e.type = "closed"
  <2> DEFINE l == b.landed \ {e.media}
             r == b.resuming \ {e.media}
             o == b.lost \cup ({e.media} \cap b.coming)
             ss == IF e.media \in b.landed /\ ~OtherShare(b, e.media)
                   THEN Dropped(b.screens, e.media.of) ELSE b.screens
  <2>1. /\ l \in SUBSET Media /\ r \in SUBSET Media /\ o \in SUBSET Media
        /\ Dropped(b.screens, e.media.of) \in Keys
        /\ ToSet(Dropped(b.screens, e.media.of)) = ToSet(b.screens) \ {e.media.of}
    BY <1>4, <1>5, <1>8, DroppedEntries
  <2>2. W = [b EXCEPT !.landed = l, !.resuming = r, !.lost = o, !.screens = ss]
    BY <1>8 DEF W, ShareEnded
  <2>3. /\ ss \in Keys
        /\ ToSet(ss) = IF e.media \in b.landed /\ ~OtherShare(b, e.media)
                       THEN ToSet(b.screens) \ {e.media.of} ELSE ToSet(b.screens)
    BY <1>5, <2>1
  <2> HIDE DEF l, r, o, ss
  <2>4. W \in Views
    BY <2>1, <2>2, <2>3 DEF Views
  <2>5. /\ W.coming = b.coming /\ W.landed = l /\ W.resuming = r /\ W.lost = o
        /\ W.known = b.known /\ W.tiles = b.tiles /\ W.screens = ss /\ W.hands = b.hands
        /\ W.hand = b.hand /\ W.spotlight = b.spotlight
    BY <2>2 DEF Views
  <2>6. Makes(b, e, W)
    BY <1>8, <2>3, <2>5 DEF Makes, l, r, o
  <2> QED
    BY <2>4, <2>6
<1>9. CASE e.type = "gone"
  <2> DEFINE l == {p \in b.landed : p.of # e.of}
             r == {p \in b.resuming : p.of # e.of}
             o == {p \in b.lost : p.of # e.of} \cup {p \in b.coming : p.of = e.of}
             n == b.known \ {e.of}
             h == b.hands \ {e.of}
             ts == Dropped(b.tiles, e.of)
             ss == Dropped(b.screens, e.of)
  <2>1. /\ l \in SUBSET Media /\ r \in SUBSET Media /\ o \in SUBSET Media
        /\ n \in SUBSET Nat /\ h \in SUBSET Nat
        /\ ss \in Keys /\ ToSet(ss) = ToSet(b.screens) \ {e.of}
        /\ ts \in Keys /\ ToSet(ts) = ToSet(b.tiles) \ {e.of}
    BY <1>4, <1>5, DroppedEntries
  <2>2. W = [b EXCEPT !.landed = l, !.resuming = r, !.lost = o, !.known = n, !.hands = h,
                      !.tiles = ts, !.screens = ss]
    BY <1>9 DEF W, RemovePeer
  <2> HIDE DEF l, r, o, n, h, ts, ss
  <2>3. W \in Views
    BY <2>1, <2>2 DEF Views
  <2>4. /\ W.coming = b.coming /\ W.landed = l /\ W.resuming = r /\ W.lost = o /\ W.known = n
        /\ W.tiles = ts /\ W.screens = ss /\ W.hands = h /\ W.hand = b.hand
        /\ W.spotlight = b.spotlight
    BY <2>2 DEF Views
  <2>5. Makes(b, e, W)
    BY <1>9, <2>1, <2>4 DEF Makes, l, r, o, n, h
  <2> QED
    BY <2>3, <2>5
<1>10. CASE e.type = "hand" /\ e.of \notin b.known
  <2>1. W = b
    BY <1>10 DEF W, HandHeard
  <2>2. Makes(b, e, W)
    BY <1>10, <2>1 DEF Makes
  <2> QED
    BY <2>1, <2>2
<1>11. CASE e.type = "hand" /\ e.of \in b.known
  <2> DEFINE h == IF e.up THEN b.hands \cup {e.of} ELSE b.hands \ {e.of}
  <2>1. h \in SUBSET Nat
    BY <1>4, <1>5
  <2>2. W = [b EXCEPT !.hands = h]
    BY <1>11 DEF W, HandHeard
  <2> HIDE DEF h
  <2>3. W \in Views
    BY <2>1, <2>2 DEF Views
  <2>4. /\ W.coming = b.coming /\ W.landed = b.landed /\ W.resuming = b.resuming /\ W.lost = b.lost
        /\ W.known = b.known /\ W.tiles = b.tiles /\ W.screens = b.screens /\ W.hands = h
        /\ W.hand = b.hand /\ W.spotlight = b.spotlight
    BY <2>2 DEF Views
  <2>5. Makes(b, e, W)
    BY <1>11, <2>4 DEF Makes, h
  <2> QED
    BY <2>3, <2>5
<1>12. CASE e.type = "spotlight"
  <2>2. W = [b EXCEPT !.spotlight = e.of]
    BY <1>12 DEF W
  <2>3. W \in Views
    BY <1>4, <2>2 DEF Views
  <2>4. /\ W.coming = b.coming /\ W.landed = b.landed /\ W.resuming = b.resuming /\ W.lost = b.lost
        /\ W.known = b.known /\ W.tiles = b.tiles /\ W.screens = b.screens /\ W.hands = b.hands
        /\ W.hand = b.hand /\ W.spotlight = e.of
    BY <2>2 DEF Views
  <2>5. Makes(b, e, W)
    BY <1>12, <2>4 DEF Makes
  <2> QED
    BY <2>3, <2>5
<1> QED
  BY <1>4, <1>7, <1>8, <1>9, <1>10, <1>11, <1>12

LEMMA Blinded ==
  ASSUME StageTyped, NEW x \in Users, Hear(x)
  PROVE  /\ past' \in Pasts /\ past'.sockets = past.sockets /\ past'.acts = past.acts
         /\ past'.last = past.last /\ past'.told = past.told /\ past'.refused = past.refused
         /\ \A y, k : y # x \/ k # Head(inbox[x]).of \/ Head(inbox[x]).type # "hand" =>
              (<<y, k>> \in past'.blind <=> <<y, k>> \in past.blind)
         /\ Head(inbox[x]).type = "hand" /\ Head(inbox[x]).of \notin view[x].known =>
              (Head(inbox[x]).up => <<x, Head(inbox[x]).of>> \in past'.blind)
<1> DEFINE e == Head(inbox[x])
           B == IF e.up /\ e.of \notin view[x].known THEN past.blind \cup {<<x, e.of>>}
                ELSE past.blind \ {<<x, e.of>>}
<1>1. inbox[x] \in Seq(Relays) /\ inbox[x] # <<>> /\ past \in Pasts
  BY DEF StageTyped, Hear
<1>2. e.of \in Nat
  BY <1>1, NoneOfTail DEF Relays
<1>3. past' = IF e.type # "hand" THEN past ELSE [past EXCEPT !.blind = B]
  BY DEF Hear
<1>4. /\ B \in SUBSET (Users \X Nat)
      /\ \A y, k : y # x \/ k # e.of => (<<y, k>> \in B <=> <<y, k>> \in past.blind)
      /\ e.up /\ e.of \notin view[x].known => <<x, e.of>> \in B
  <2>1. past.blind \in SUBSET (Users \X Nat)
    BY <1>1 DEF Pasts
  <2> QED
    BY <1>2, <2>1
<1> HIDE DEF e, B
<1>5. CASE e.type = "hand"
  <2>1. past' = [past EXCEPT !.blind = B]
    BY <1>3, <1>5
  <2>2. /\ past' \in Pasts /\ past'.sockets = past.sockets /\ past'.acts = past.acts
        /\ past'.last = past.last /\ past'.told = past.told /\ past'.refused = past.refused
        /\ past'.blind = B
    BY <1>1, <1>4, <2>1 DEF Pasts
  <2> QED
    BY <1>4, <1>5, <2>2 DEF e
<1>6. CASE e.type # "hand"
  <2>1. past' = past
    BY <1>3, <1>6
  <2> QED
    BY <1>1, <1>6, <2>1 DEF e
<1> QED
  BY <1>5, <1>6

LEMMA HeardStage ==
  ASSUME NEW b \in Views, NEW e \in Relays, NEW w \in Views, Makes(b, e, w), Landed(b),
         b.lost \cap open = {},
         e.type = "closed" => e.media.kind = "screen" /\ e.media \notin open,
         e.type = "gone" => e.of \notin Peers
  PROVE  Landed(w) /\ w.lost \cap open = {}
<1>1. w.coming \cap w.landed = {} /\ w.resuming \subseteq w.landed \ w.lost /\ w.hands \subseteq w.known
  <2>1. w.coming \cap w.landed = {}
    BY DEF Makes, Landed
  <2>2. CASE e.type = "closed"
    BY <2>2 DEF Makes, Landed
  <2>3. CASE e.type = "gone"
    BY <2>3 DEF Makes, Landed
  <2>4. CASE e.type \notin {"closed", "gone"}
    <3>1. /\ w.landed = b.landed /\ w.resuming = b.resuming /\ w.lost = b.lost
          /\ w.known = b.known /\ w.hands \subseteq b.hands \cup (b.known \cap {e.of})
      BY <2>4 DEF Makes
    <3> QED
      BY <2>1, <3>1 DEF Landed
  <2> QED
    BY <2>1, <2>2, <2>3, <2>4
<1>2. w.lost \cap open = {}
  <2>1. CASE e.type = "closed"
    BY <2>1 DEF Makes
  <2>2. CASE e.type = "gone"
    <3>1. \A p \in open : p.of # e.of
      BY <2>2 DEF Peers
    <3> QED
      BY <2>2, <3>1 DEF Makes
  <2>3. CASE e.type \notin {"closed", "gone"}
    BY <2>3 DEF Makes
  <2> QED
    BY <2>1, <2>2, <2>3
<1>3. ToSet(w.tiles) = KeysOf(w.landed, "tile") /\ ToSet(w.screens) = KeysOf(w.landed, "screen")
  <2>t. ToSet(b.tiles) = KeysOf(b.landed, "tile") /\ ToSet(b.screens) = KeysOf(b.landed, "screen")
    BY DEF Landed
  <2>1. CASE e.type = "closed"
    <3>1. w.landed = b.landed \ {e.media} /\ ToSet(w.tiles) = ToSet(b.tiles)
      BY <2>1 DEF Makes
    <3>2. KeysOf(w.landed, "tile") = KeysOf(b.landed, "tile")
      BY <2>1, <3>1 DEF KeysOf
    <3>3. CASE e.media \in b.landed /\ ~OtherShare(b, e.media)
      <4>1. \A q \in b.landed \ {e.media} : q.kind = "screen" => q.of # e.media.of
        BY <3>3 DEF OtherShare
      <4>2. KeysOf(w.landed, "screen") = KeysOf(b.landed, "screen") \ {e.media.of}
        BY <2>1, <3>1, <3>3, <4>1 DEF KeysOf
      <4>3. ToSet(w.screens) = ToSet(b.screens) \ {e.media.of}
        BY <2>1, <3>3 DEF Makes
      <4> QED
        BY <2>t, <3>1, <3>2, <4>2, <4>3
    <3>4. CASE e.media \in b.landed /\ OtherShare(b, e.media)
      <4>1. PICK q \in b.landed \ {e.media} : q.kind = "screen" /\ q.of = e.media.of
        BY <3>4 DEF OtherShare
      <4>2. KeysOf(w.landed, "screen") = KeysOf(b.landed, "screen")
        BY <2>1, <3>1, <4>1 DEF KeysOf
      <4>3. ToSet(w.screens) = ToSet(b.screens)
        BY <2>1, <3>4 DEF Makes
      <4> QED
        BY <2>t, <3>1, <3>2, <4>2, <4>3
    <3>5. CASE e.media \notin b.landed
      <4>1. w.landed = b.landed /\ ToSet(w.screens) = ToSet(b.screens)
        BY <2>1, <3>1, <3>5 DEF Makes
      <4> QED
        BY <2>t, <3>1, <4>1
    <3> QED
      BY <3>3, <3>4, <3>5
  <2>2. CASE e.type = "gone"
    <3>1. /\ w.landed = {p \in b.landed : p.of # e.of}
          /\ ToSet(w.tiles) = ToSet(b.tiles) \ {e.of} /\ ToSet(w.screens) = ToSet(b.screens) \ {e.of}
      BY <2>2 DEF Makes
    <3>2. \A kind : KeysOf(w.landed, kind) = KeysOf(b.landed, kind) \ {e.of}
      BY <3>1 DEF KeysOf
    <3> QED
      BY <2>t, <3>1, <3>2
  <2>3. CASE e.type \notin {"closed", "gone"}
    <3>1. w.landed = b.landed /\ ToSet(w.tiles) = ToSet(b.tiles) /\ ToSet(w.screens) = ToSet(b.screens)
      BY <2>3 DEF Makes
    <3> QED
      BY <2>t, <3>1
  <2> QED
    BY <2>1, <2>2, <2>3
<1> QED
  BY <1>1, <1>2, <1>3 DEF Landed

(* what the page then has and knows, and what it still has to hear of *)
LEMMA HeardTold ==
  ASSUME NEW b \in Views, NEW e \in Relays, NEW w \in Views, Makes(b, e, w), Landed(b),
         b.lost \cap open = {},
         e.type = "closed" => e.media \notin open, e.type = "gone" => e.of \notin Peers
  PROVE  /\ \A p \in Has(w) : (p \in Has(b) \/ p \in open) /\ e \notin Ends(p)
         /\ \A k \in Knows(w) : (k \in Knows(b) \/ k \in Peers) /\ e \notin GoneOf(k)
         /\ \A p \in open : p \in Has(b) \/ e \in Begins(p) => p \in Has(w)
         /\ Held(w) \cup w.lost \subseteq
              Held(b) \cup b.lost \cup (IF e.type = "producer" THEN {e.media} \cap open ELSE {})
<1>1. ASSUME NEW p \in Has(w) PROVE (p \in Has(b) \/ p \in open) /\ e \notin Ends(p)
  <2>1. CASE e.type = "closed"
    BY <1>1, <2>1 DEF Makes, Has, Held, Ends
  <2>2. CASE e.type = "gone"
    BY <1>1, <2>2 DEF Makes, Has, Held, Ends
  <2>3. CASE e.type = "producer"
    BY <1>1, <2>3 DEF Makes, Has, Held, Ends
  <2>4. CASE e.type \notin {"closed", "gone", "producer"}
    BY <1>1, <2>4 DEF Makes, Has, Held, Ends
  <2> QED
    BY <2>1, <2>2, <2>3, <2>4
<1>2. ASSUME NEW k \in Knows(w) PROVE (k \in Knows(b) \/ k \in Peers) /\ e \notin GoneOf(k)
  <2>1. CASE k \in w.known
    <3>1. k \in b.known /\ (e.type = "gone" => k # e.of)
      BY <2>1 DEF Makes
    <3> QED
      BY <3>1 DEF Knows, GoneOf
  <2>2. ASSUME NEW p \in Has(w), k = p.of PROVE (k \in Knows(b) \/ k \in Peers) /\ e \notin GoneOf(k)
    BY <1>1, <2>2 DEF Knows, Peers, GoneOf, Ends
  <2> QED
    BY <1>2, <2>1, <2>2 DEF Knows
<1>3. ASSUME NEW p \in open, p \in Has(b) \/ e \in Begins(p) PROVE p \in Has(w)
  <2>1. CASE e.type = "closed"
    BY <1>3, <2>1 DEF Makes, Has, Held, Begins
  <2>2. CASE e.type = "gone"
    <3>1. p.of # e.of
      BY <2>2 DEF Peers
    <3> QED
      BY <1>3, <2>2, <3>1 DEF Makes, Has, Held, Begins
  <2>3. CASE e.type = "producer"
    <3>1. w.coming = b.coming \cup (({e.media} \cap open) \ b.landed) /\ w.landed = b.landed
          /\ w.lost = b.lost
      BY <2>3 DEF Makes
    <3>2. p = e.media \/ p \in Held(b)
      BY <1>3 DEF Has, Begins
    <3> QED
      BY <3>1, <3>2 DEF Has, Held
  <2>4. CASE e.type \notin {"closed", "gone", "producer"}
    BY <1>3, <2>4 DEF Makes, Has, Held, Begins
  <2> QED
    BY <2>1, <2>2, <2>3, <2>4
<1>4. Held(w) \cup w.lost \subseteq
        Held(b) \cup b.lost \cup (IF e.type = "producer" THEN {e.media} \cap open ELSE {})
  <2>1. CASE e.type = "closed"
    BY <2>1 DEF Makes, Held
  <2>2. CASE e.type = "gone"
    BY <2>2 DEF Makes, Held
  <2>3. CASE e.type \notin {"closed", "gone"}
    BY <2>3 DEF Makes, Held
  <2> QED
    BY <2>1, <2>2, <2>3
<1> QED
  BY <1>1, <1>2, <1>3, <1>4

LEMMA HearStep == ASSUME StageInv, NEW x \in Users, Hear(x) PROVE StageInv'
<1>t. StageTyped
  BY DEF StageInv
<1>0. /\ inbox[x] \in Seq(Relays) /\ inbox[x] # <<>> /\ x \in In /\ view[x] \in Views
      /\ inbox' = [inbox EXCEPT ![x] = Tail(@)] /\ UNCHANGED <<sock, open, asks>>
  BY <1>t DEF StageTyped, Hear
<1>a. Head(inbox[x]) \in Relays /\ Tail(inbox[x]) \in Seq(Relays)
  BY <1>0, NoneOfTail
<1>b. PICK e \in Relays, q \in Seq(Relays), r \in Seq(Relays), b \in Views :
        e = Head(inbox[x]) /\ q = inbox[x] /\ r = Tail(inbox[x]) /\ b = view[x]
  BY <1>0, <1>a
<1>1. PICK w \in Views : Set(x, w) /\ Makes(b, e, w)
  BY <1>b, <1>t, Made
<1>3. /\ view' \in [Users -> Views] /\ view'[x] = w
      /\ \A v \in Users \ {x} : view'[v] = view[v]
  BY <1>t, <1>1, ViewSet
<1>4. /\ past' \in Pasts /\ past'.sockets = past.sockets /\ past'.acts = past.acts
      /\ past'.last = past.last /\ past'.told = past.told /\ past'.refused = past.refused
      /\ \A y, k : y # x \/ k # e.of \/ e.type # "hand" =>
           (<<y, k>> \in past'.blind <=> <<y, k>> \in past.blind)
      /\ e.type = "hand" /\ e.of \notin b.known => (e.up => <<x, e.of>> \in past'.blind)
  BY <1>b, <1>t, Blinded
<1>5. /\ ToSet(q) = {e} \cup ToSet(r) /\ \A A : NoneOf(q, A) => NoneOf(r, A) /\ e \notin A
  BY <1>0, <1>b, NoneOfTail
<1>6. \A A, G : LatestOf(q, A, G) =>
        LatestOf(r, A, G) /\ (NoneOf(r, A) => NoneOf(q, A) \/ (e \in A /\ e \in G))
  BY <1>0, <1>b, LatestOfTail
<1>7. inbox' \in [Users -> Seq(Relays)] /\ inbox'[x] = r
      /\ \A v \in Users \ {x} : inbox'[v] = inbox[v]
  BY <1>0, <1>b, <1>t DEF StageTyped
<1>8. StageTyped'
  BY <1>t, <1>0, <1>3, <1>4, <1>7 DEF StageTyped
<1>9. In' = In /\ In \subseteq Users /\ Peers' = Peers
  BY <1>0 DEF In, Peers
<1>10. Sockets'
  BY <1>0, <1>3, <1>4, <1>7, <1>9 DEF StageInv, Sockets
<1>11. Told(x) /\ Landed(b) /\ b.lost \cap open = {} /\ e \in ToSet(inbox[x])
       /\ \A p \in Held(b) : p.of # sock[x]
  BY <1>0, <1>5, <1>b DEF StageInv, AllTold, OnStage
<1>12. /\ e.type = "closed" => e.media.kind = "screen" /\ e.media \notin open
       /\ e.type = "gone" => e.of \notin Peers
       /\ e.type = "producer" => e.media.of # sock[x]
  BY <1>11 DEF Told
<1>13. Landed(w) /\ w.lost \cap open = {}
  BY <1>1, <1>11, <1>12, HeardStage
<1>14. /\ \A p \in Has(w) : (p \in Has(b) \/ p \in open) /\ e \notin Ends(p)
       /\ \A k \in Knows(w) : (k \in Knows(b) \/ k \in Peers) /\ e \notin GoneOf(k)
       /\ \A p \in open : p \in Has(b) \/ e \in Begins(p) => p \in Has(w)
       /\ Held(w) \cup w.lost \subseteq
            Held(b) \cup b.lost \cup (IF e.type = "producer" THEN {e.media} \cap open ELSE {})
  BY <1>1, <1>11, <1>12, HeardTold
<1>15. Spoken'
  <2>1. \A p \in Held(w) \cup w.lost : Used(p)
    BY <1>b, <1>14 DEF StageInv, Spoken
  <2>2. \A u \in Users : ToSet(inbox'[u]) \subseteq ToSet(inbox[u])
    BY <1>5, <1>7, <1>b
  <2>3. \A p : Used(p)' <=> Used(p)
    BY <1>4 DEF Used
  <2>4. ASSUME NEW u \in Users, NEW p \in Held(view'[u]) \cup view'[u].lost PROVE Used(p)
    <3>1. CASE u = x
      BY <1>3, <2>1, <2>4, <3>1
    <3>2. CASE u # x
      BY <1>3, <2>4, <3>2 DEF StageInv, Spoken
    <3> QED
      BY <3>1, <3>2
  <2>5. ASSUME NEW u \in Users, NEW d \in ToSet(inbox'[u])
        PROVE  /\ d.type # "spotlight" => d.of \in 1..past.sockets
               /\ d.type \in {"producer", "closed"} => Used(d.media)
    BY <2>2 DEF StageInv, Spoken
  <2>6. \A p \in open' : Used(p)
    BY <1>0 DEF StageInv, Spoken
  <2> QED
    BY <1>4, <2>3, <2>4, <2>5, <2>6 DEF Spoken, Held
<1>16. OnStage'
  <2>1. \A p \in Held(w) : p.of # sock[x]
    <3>1. \A p \in Held(w) : p \in Held(b) \/ (e.type = "producer" /\ p = e.media)
      <4>1. w.landed \subseteq b.landed
        BY <1>1 DEF Makes
      <4>2. \A p \in w.coming : p \in b.coming \/ (e.type = "producer" /\ p = e.media)
        BY <1>1 DEF Makes
      <4> QED
        BY <4>1, <4>2 DEF Held
    <3> QED
      BY <1>11, <1>12, <3>1
  <2>2. \A u \in In : u # x => view'[u] = view[u]
    BY <1>3, <1>9
  <2> QED
    BY <1>0, <1>3, <1>9, <1>13, <2>1, <2>2 DEF StageInv, OnStage
<1>17. AllTold'
  <2>1. ASSUME NEW u \in In, u # x PROVE Told(u)'
    <3>1. view'[u] = view[u] /\ inbox'[u] = inbox[u] /\ Told(u)
      BY <1>3, <1>7, <1>9, <2>1 DEF StageInv, AllTold
    <3> QED
      BY <1>0, <1>9, <3>1 DEF Told, Coming
  <2>2. \A A : Coming(x, A) /\ e \notin A => ToSet(r) \cap A # {}
    BY <1>5, <1>b DEF Coming
  <2>3. /\ \A p \in Has(b) : p \in open \/ Coming(x, Ends(p))
        /\ \A k \in Knows(b) : k \in Peers \/ Coming(x, GoneOf(k))
        /\ \A p \in open : p.of # sock[x] => p \in Has(b) \/ Coming(x, Begins(p))
        /\ \A d \in ToSet(q) :
             /\ d.type = "closed" => d.media.kind = "screen" /\ d.media \notin open
             /\ d.type = "gone" => d.of \notin Peers
             /\ d.type = "producer" => d.media.of # sock[x]
    BY <1>11, <1>b DEF Told
  <2>4. \A p \in Has(w) : p \in open \/ ToSet(r) \cap Ends(p) # {}
    BY <1>14, <2>2, <2>3
  <2>5. \A k \in Knows(w) : k \in Peers \/ ToSet(r) \cap GoneOf(k) # {}
    BY <1>14, <2>2, <2>3
  <2>6. \A p \in open : p.of # sock[x] => p \in Has(w) \/ ToSet(r) \cap Begins(p) # {}
    BY <1>14, <2>2, <2>3
  <2>7. \A d \in ToSet(r) :
             /\ d.type = "closed" => d.media.kind = "screen" /\ d.media \notin open
             /\ d.type = "gone" => d.of \notin Peers
             /\ d.type = "producer" => d.media.of # sock[x]
    BY <1>5, <2>3
  <2>8. Told(x)'
    BY <1>0, <1>3, <1>7, <1>9, <2>4, <2>5, <2>6, <2>7 DEF Told, Coming
  <2> QED
    BY <1>9, <2>1, <2>8 DEF AllTold
<1>19. \A v \in Users : view'[v].hand = view[v].hand
  BY <1>1, <1>3, <1>b DEF Makes
<1>18. /\ w.known = IF e.type = "gone" THEN b.known \ {e.of} ELSE b.known
       /\ w.hands = CASE e.type = "gone" -> b.hands \ {e.of}
                      [] e.type = "hand" /\ e.of \in b.known ->
                           IF e.up THEN b.hands \cup {e.of} ELSE b.hands \ {e.of}
                      [] OTHER -> b.hands
       /\ w.spotlight = IF e.type = "spotlight" THEN e.of ELSE b.spotlight
  BY <1>1 DEF Makes
<1>20. HandsTold'
  <2>0. ASSUME NEW v \in In PROVE ~(e.type = "gone" /\ e.of = sock[v])
    BY <1>12, <2>0, Connected
  <2>1. ASSUME NEW v \in In, v # x, sock[v] \notin past.refused
        PROVE  /\ LatestOf(r, HandsOf(sock[v]), Up(view[v].hand))
               /\ NoneOf(r, HandsOf(sock[v])) => HandSeen(x, v)'
    <3>1. /\ LatestOf(q, HandsOf(sock[v]), Up(view[v].hand))
          /\ NoneOf(q, HandsOf(sock[v])) => HandSeen(x, v)
      BY <1>0, <1>b, <2>1 DEF StageInv, HandsTold
    <3>2. sock[v] \in w.known <=> sock[v] \in b.known
      BY <1>18, <2>0, <2>1
    <3>3. CASE NoneOf(q, HandsOf(sock[v]))
      <4>1. ~(e.type = "hand" /\ e.of = sock[v])
        BY <1>5, <3>3 DEF HandsOf
      <4>2. sock[v] \in w.hands <=> sock[v] \in b.hands
        BY <1>18, <2>0, <2>1, <4>1
      <4>3. <<x, sock[v]>> \in past'.blind <=> <<x, sock[v]>> \in past.blind
        BY <1>4, <4>1
      <4>4. HandSeen(x, v)'
        BY <1>0, <1>3, <1>19, <1>9, <1>b, <2>1, <3>1, <3>2, <3>3, <4>2, <4>3 DEF HandSeen
      <4> QED
        BY <1>6, <3>1, <4>4
    <3>4. CASE e \in HandsOf(sock[v]) /\ e \in Up(view[v].hand)
      <4>1. e.type = "hand" /\ e.of = sock[v] /\ e.up = view[v].hand
        BY <3>4 DEF HandsOf, Up
      <4>2. sock[v] \in b.known => (sock[v] \in w.hands <=> view[v].hand)
        <5>1. view[v].hand \in BOOLEAN
          BY <1>9, <1>t, <2>1 DEF StageTyped, Views
        <5>2. CASE view[v].hand
          BY <1>18, <4>1, <5>2
        <5>3. CASE ~view[v].hand
          BY <1>18, <4>1, <5>3
        <5> QED
          BY <5>1, <5>2, <5>3
      <4>3. sock[v] \notin b.known => (view[v].hand => <<x, sock[v]>> \in past'.blind)
        BY <1>4, <4>1
      <4>4. HandSeen(x, v)'
        BY <1>0, <1>3, <1>19, <1>9, <2>1, <3>2, <4>2, <4>3 DEF HandSeen
      <4> QED
        BY <1>6, <3>1, <4>4
    <3> QED
      BY <1>6, <3>1, <3>3, <3>4
  <2>2. ASSUME NEW u \in In, NEW v \in In, u # v, u # x
        PROVE  HandSeen(u, v)' <=> HandSeen(u, v)
    <3>1. view'[u] = view[u] /\ view'[v].hand = view[v].hand /\ sock' = sock
          /\ (<<u, sock[v]>> \in past'.blind <=> <<u, sock[v]>> \in past.blind)
      BY <1>0, <1>3, <1>4, <1>9, <1>19, <2>2
    <3> QED
      BY <3>1 DEF HandSeen
  <2>3. ASSUME NEW u \in In, u # x PROVE inbox'[u] = inbox[u]
    BY <1>7, <1>9, <2>3
  <2>4. \A v \in In : view'[v].hand = view[v].hand
    BY <1>9, <1>19
  <2>5. ASSUME NEW u \in In, NEW v \in In, u # v, sock[v] \notin past.refused
        PROVE  /\ LatestOf(inbox'[u], HandsOf(sock[v]), Up(view[v].hand))
               /\ NoneOf(inbox'[u], HandsOf(sock[v])) => HandSeen(u, v)'
    <3>1. CASE u = x
      BY <1>7, <2>1, <2>5, <3>1
    <3>2. CASE u # x
      <4>1. /\ LatestOf(inbox[u], HandsOf(sock[v]), Up(view[v].hand))
            /\ NoneOf(inbox[u], HandsOf(sock[v])) => HandSeen(u, v)
        BY <2>5 DEF StageInv, HandsTold
      <4> QED
        BY <2>2, <2>3, <2>5, <3>2, <4>1
    <3> QED
      BY <3>1, <3>2
  <2> QED
    BY <1>0, <1>4, <1>9, <2>4, <2>5 DEF HandsTold
<1>22. SpotlightTold'
  <2>1. ASSUME x \in past.told
        PROVE  LatestOf(r, Spots, Named(past.last))
               /\ (NoneOf(r, Spots) => w.spotlight = past.last)
    <3>1. LatestOf(q, Spots, Named(past.last)) /\ (NoneOf(q, Spots) => b.spotlight = past.last)
      BY <1>b, <2>1 DEF StageInv, SpotlightTold
    <3>2. CASE NoneOf(q, Spots)
      <4>1. e.type # "spotlight"
        BY <1>5, <3>2 DEF Spots
      <4> QED
        BY <1>6, <1>18, <3>1, <3>2, <4>1
    <3>3. CASE e \in Spots /\ e \in Named(past.last)
      <4>1. e.type = "spotlight" /\ e.of = past.last
        BY <3>3 DEF Spots, Named
      <4> QED
        BY <1>6, <1>18, <3>1, <4>1
    <3> QED
      BY <1>6, <3>1, <3>2, <3>3
  <2>2. ASSUME NEW u \in past.told, u # x
        PROVE  inbox'[u] = inbox[u] /\ view'[u].spotlight = view[u].spotlight
    BY <1>3, <1>7, <1>9, <2>2 DEF StageInv, SpotlightTold
  <2> QED
    BY <1>3, <1>4, <1>7, <1>9, <2>1, <2>2 DEF StageInv, SpotlightTold
<1> QED
  BY <1>8, <1>10, <1>15, <1>16, <1>17, <1>20, <1>22 DEF StageInv

-----------------------------------------------------------------------------
(* coming and going *)

LEMMA PartStep == ASSUME StageInv, NEW x \in Users, Part(x) PROVE StageInv'
<1>t. StageTyped
  BY DEF StageInv
<1>k. <<>> \in Keys
  BY DEF Keys
<1>1. PICK w \in Views : Set(x, w) /\ Empty(w)
  <2>1. PICK b \in Views : b = view[x]
    BY <1>t DEF StageTyped
  <2>2. NewView \in Views /\ Empty(NewView)
    BY <1>k DEF NewView, Views, Modes, None, Empty
  <2>3. Bare(b) \in Views /\ Empty(Bare(b))
    BY <1>k DEF Views, Bare, Empty
  <2> QED
    BY <2>1, <2>2, <2>3 DEF Part
<1>2. /\ view' \in [Users -> Views] /\ view'[x] = w /\ \A v \in Users \ {x} : view'[v] = view[v]
  BY <1>t, <1>1, ViewSet
<1>3. /\ x \in In /\ In \subseteq Users /\ In' = In \ {x} /\ sock' \in [Users -> Nat] /\ sock'[x] = 0
      /\ \A v \in Users \ {x} : sock'[v] = sock[v]
      /\ UNCHANGED <<open, asks>> /\ Peers' = Peers
  BY <1>t DEF Part, In, StageTyped, None, Peers
<1>4. /\ inbox' \in [Users -> Seq(Relays)] /\ inbox'[x] = <<>>
      /\ \A v \in Users \ {x} : inbox'[v] = inbox[v]
  BY <1>t DEF Part, StageTyped
<1>5. /\ past' \in Pasts /\ past'.sockets = past.sockets /\ past'.acts = past.acts
      /\ past'.last = past.last /\ past'.refused = past.refused /\ past'.told = past.told \ {x}
      /\ \A y, k : y # x => (<<y, k>> \in past'.blind <=> <<y, k>> \in past.blind)
  <2> DEFINE B == {b \in past.blind : b[1] # x}
             T == past.told \ {x}
  <2>1. past \in Pasts
    BY <1>t DEF StageTyped
  <2>2. past.blind \in SUBSET (Users \X Nat) /\ T \in SUBSET Users
    BY <2>1 DEF Pasts
  <2>3. B \in SUBSET (Users \X Nat)
    BY <2>2
  <2>4. \A y, k : y # x => (<<y, k>> \in B <=> <<y, k>> \in past.blind)
    OBVIOUS
  <2>5. past' = [past EXCEPT !.told = T, !.blind = B]
    BY DEF Part
  <2> HIDE DEF B, T
  <2>6. /\ past' \in Pasts /\ past'.sockets = past.sockets /\ past'.acts = past.acts
        /\ past'.last = past.last /\ past'.refused = past.refused /\ past'.told = T
        /\ past'.blind = B
    BY <2>1, <2>2, <2>3, <2>5 DEF Pasts
  <2> QED
    BY <2>4, <2>6 DEF T
<1>6. StageTyped'
  BY <1>t, <1>2, <1>3, <1>4, <1>5 DEF StageTyped
<1>7. ASSUME NEW u \in In'
      PROVE  /\ u \in In /\ u \in Users /\ u # x
             /\ sock'[u] = sock[u] /\ view'[u] = view[u] /\ inbox'[u] = inbox[u]
  BY <1>2, <1>3, <1>4, <1>7
<1>8. Sockets'
  <2>1. 0 <= past.sockets
    BY <1>t DEF StageTyped, Pasts
  <2>2. \A u \in Users : sock'[u] <= past.sockets
    BY <1>3, <2>1 DEF StageInv, Sockets
  <2>3. \A u, v \in In' : u # v => sock'[u] # sock'[v]
    BY <1>7 DEF StageInv, Sockets
  <2>4. \A u \in Users \ In' : inbox'[u] = <<>> /\ Empty(view'[u])
    BY <1>1, <1>2, <1>3, <1>4 DEF StageInv, Sockets
  <2>5. \A u \in In' : Tile(sock'[u]) \in open
    BY <1>7 DEF StageInv, Sockets
  <2> QED
    BY <1>3, <1>5, <2>2, <2>3, <2>4, <2>5 DEF Sockets, Empty
<1>9. Spoken'
  <2>1. \A p : Used(p)' <=> Used(p)
    BY <1>5 DEF Used
  <2>2. ASSUME NEW u \in Users, NEW p \in Held(view'[u]) \cup view'[u].lost PROVE Used(p)
    <3>1. u # x
      BY <1>1, <1>2, <2>2 DEF Empty, Held
    <3> QED
      BY <1>2, <2>2, <3>1 DEF StageInv, Spoken
  <2>3. ASSUME NEW u \in Users, NEW d \in ToSet(inbox'[u])
        PROVE  /\ d.type # "spotlight" => d.of \in 1..past.sockets
               /\ d.type \in {"producer", "closed"} => Used(d.media)
    <3>1. u # x
      BY <1>4, <2>3 DEF ToSet
    <3> QED
      BY <1>4, <2>3, <3>1 DEF StageInv, Spoken
  <2>4. \A p \in open' : Used(p)
    BY <1>3 DEF StageInv, Spoken
  <2> QED
    BY <1>5, <2>1, <2>2, <2>3, <2>4 DEF Spoken, Held
<1>10. OnStage'
  BY <1>3, <1>7 DEF StageInv, OnStage, Landed, Held
<1>11. AllTold'
  <2>1. ASSUME NEW u \in In' PROVE Told(u)'
    <3>1. Told(u)
      BY <1>7 DEF StageInv, AllTold
    <3> QED
      BY <1>3, <1>7, <3>1 DEF Told, Coming
  <2> QED
    BY <2>1 DEF AllTold
<1>12. HandsTold'
  <2>1. ASSUME NEW u \in In', NEW v \in In', u # v, sock'[v] \notin past'.refused
        PROVE  /\ LatestOf(inbox'[u], HandsOf(sock'[v]), Up(view'[v].hand))
               /\ NoneOf(inbox'[u], HandsOf(sock'[v])) => HandSeen(u, v)'
    <3>1. /\ sock'[u] = sock[u] /\ view'[u] = view[u] /\ inbox'[u] = inbox[u]
          /\ sock'[v] = sock[v] /\ view'[v] = view[v] /\ u # x /\ u \in In /\ v \in In
      BY <1>7
    <3>2. HandSeen(u, v)' <=> HandSeen(u, v)
      BY <1>5, <3>1 DEF HandSeen
    <3> QED
      BY <1>5, <2>1, <3>1, <3>2 DEF StageInv, HandsTold
  <2> QED
    BY <2>1 DEF HandsTold
<1>13. SpotlightTold'
  BY <1>3, <1>5, <1>7 DEF StageInv, SpotlightTold
<1> QED
  BY <1>6, <1>8, <1>9, <1>10, <1>11, <1>12, <1>13 DEF StageInv

LEMMA JoinStep == ASSUME StageInv, NEW x \in Users, Join(x) PROVE StageInv'
<1>t. StageTyped
  BY DEF StageInv
<1>1. /\ x \notin In /\ In \subseteq Users /\ In \ {x} = In /\ asks' = asks
      /\ sock \in [Users -> Nat] /\ past \in Pasts /\ view[x] \in Views /\ open \in SUBSET Media
      /\ past.sockets \in Nat /\ past.acts \in Nat
  BY <1>t DEF Join, In, StageTyped, Pasts
<1>b. PICK b \in Views : b = view[x]
  BY <1>1
<1>s. PICK s \in Nat : s = past.sockets + 1
  BY <1>1
<1>2. s # 0 /\ s \notin 1..past.sockets /\ past.sockets < s /\ \A k \in 1..past.sockets : k \in 1..s
  BY <1>1, <1>s
<1>k. Tile(s) \in Media
  BY <1>1, <1>2 DEF Tile, Media
<1>j. PICK m \in Media : m = Tile(s)
  BY <1>k
<1>l. m.of = s /\ m.n = 0 /\ m.kind = "tile"
  BY <1>j DEF Tile
<1>m. m = Tile(s) /\ m.of = s /\ m.n = 0 /\ m.kind = "tile"
  BY <1>j, <1>l
<1>r. [type |-> "producer", of |-> s, media |-> m] \in Relays /\ [type |-> "hand", of |-> s, up |-> TRUE] \in Relays
  BY DEF Relays
<1>p. PICK p \in Relays, h \in Relays :
        p = [type |-> "producer", of |-> s, media |-> m] /\ h = [type |-> "hand", of |-> s, up |-> TRUE]
  BY <1>r
<1>3. /\ p.type = "producer" /\ p.of = s /\ p.media = m
      /\ h.type = "hand" /\ h.of = s /\ h.up = TRUE
  BY <1>p
<1>4. \A v \in In : v \in Users /\ v # x /\ sock[v] \in 1..past.sockets /\ sock[v] # s /\ sock[v] \in Nat
  BY <1>1, <1>2, Connected
<1>5. /\ sock' \in [Users -> Nat] /\ sock'[x] = s /\ In' = In \cup {x}
      /\ \A v \in Users \ {x} : sock'[v] = sock[v]
  <2>1. sock' = [sock EXCEPT ![x] = s]
    BY <1>s DEF Join
  <2>2. sock' \in [Users -> Nat] /\ sock'[x] = s /\ \A v \in Users \ {x} : sock'[v] = sock[v]
    BY <1>1, <2>1
  <2> QED
    BY <1>2, <2>2 DEF In, None
<1>o. open' = open \cup {m} /\ Peers' = Peers \cup {s}
  <2>1. open' = open \cup {m}
    BY <1>s, <1>m DEF Join
  <2> QED
    BY <1>m, <2>1 DEF Peers
<1>7. Set(x, [b EXCEPT !.coming = open])
  BY <1>b DEF Join
<1> DEFINE B == past.blind \cup {<<x, sock[v]>> : v \in {y \in In : view[y].hand}}
<1>8. past' = [past EXCEPT !.sockets = s, !.blind = B]
  BY <1>1, <1>s DEF Join
<1>9. B \in SUBSET (Users \X Nat)
  <2>1. past.blind \in SUBSET (Users \X Nat)
    BY <1>1 DEF Pasts
  <2> QED
    BY <1>4, <2>1
<1>d. \A v \in In : view[v].hand => <<x, sock[v]>> \in B
  OBVIOUS
<1>e. past.blind \subseteq B
  OBVIOUS
<1> HIDE DEF B
<1>10. \A v \in Users : inbox'[v] =
         IF v \in In THEN inbox[v] \o (<<p>> \o HandReasserted(x, s)) ELSE inbox[v]
  BY <1>1, <1>s, <1>m, <1>p DEF Join, Emit
<1>11. DOMAIN inbox' = Users /\ inbox' = [v \in Users |-> inbox'[v]]
  BY DEF Join, Emit
<1>w. PICK w \in Views : w = [b EXCEPT !.coming = open]
  BY <1>1 DEF Views
<1>12. /\ w.coming = open /\ w.landed = b.landed /\ w.resuming = b.resuming /\ w.lost = b.lost
       /\ w.known = b.known /\ w.tiles = b.tiles /\ w.screens = b.screens /\ w.hands = b.hands
       /\ w.hand = b.hand /\ w.spotlight = b.spotlight /\ b.hand \in BOOLEAN
  BY <1>w DEF Views
<1>x. Empty(b)
  BY <1>1, <1>b DEF StageInv, Sockets
<1>13. /\ view' \in [Users -> Views] /\ view'[x] = w
       /\ \A v \in Users \ {x} : view'[v] = view[v]
  BY <1>t, <1>7, <1>w, ViewSet
<1>14. /\ past' \in Pasts /\ past'.sockets = s /\ past'.last = past.last /\ past'.acts = past.acts
       /\ past'.told = past.told /\ past'.blind = B /\ past'.refused = past.refused
  BY <1>1, <1>8, <1>9 DEF Pasts
<1>15. ASSUME NEW u \in In
       PROVE  /\ inbox[u] \in Seq(Relays) /\ Append(inbox[u], p) \in Seq(Relays)
              /\ inbox'[u] = IF b.hand THEN Append(Append(inbox[u], p), h) ELSE Append(inbox[u], p)
  <2>1. inbox[u] \in Seq(Relays)
    BY <1>4, <1>t DEF StageTyped
  <2>2. Append(inbox[u], p) \in Seq(Relays)
    BY <2>1, RelayAppended
  <2>3. inbox'[u] = inbox[u] \o (<<p>> \o HandReasserted(x, s))
    BY <1>4, <1>10
  <2>4. HandReasserted(x, s) = IF b.hand THEN <<h>> ELSE <<>>
    BY <1>b, <1>p DEF HandReasserted
  <2>5. \A q \in Seq(Relays) : /\ q \o (<<p>> \o <<>>) = Append(q, p)
                               /\ q \o (<<p>> \o <<h>>) = Append(Append(q, p), h)
    OBVIOUS
  <2> QED
    BY <2>1, <2>2, <2>3, <2>4, <2>5
<1>16. /\ \A u \in Users \ In : inbox'[u] = <<>>
       /\ inbox' \in [Users -> Seq(Relays)]
  <2>1. \A u \in Users \ In : inbox'[u] = <<>>
    BY <1>10 DEF StageInv, Sockets
  <2>2. \A u \in In : inbox'[u] \in Seq(Relays)
    <3>1. ASSUME NEW u \in In PROVE inbox'[u] \in Seq(Relays)
      <4>1. Append(inbox[u], p) \in Seq(Relays)
        BY <1>15
      <4>2. Append(Append(inbox[u], p), h) \in Seq(Relays)
        BY <4>1, RelayAppended
      <4> QED
        BY <1>15, <4>1, <4>2
    <3> QED
      BY <3>1
  <2>4. <<>> \in Seq(Relays)
    OBVIOUS
  <2>3. \A u \in Users : inbox'[u] \in Seq(Relays)
    BY <2>1, <2>2, <2>4
  <2> QED
    BY <1>11, <2>1, <2>3
<1>17. StageTyped'
  BY <1>t, <1>1, <1>o, <1>5, <1>13, <1>14, <1>16 DEF StageTyped
<1>18. ASSUME NEW u \in In, NEW A, NEW G, p \notin A, b.hand => h \notin A, LatestOf(inbox[u], A, G)
       PROVE  LatestOf(inbox'[u], A, G) /\ (NoneOf(inbox'[u], A) => NoneOf(inbox[u], A))
  <2>1. inbox[u] \in Seq(Relays) /\ Append(inbox[u], p) \in Seq(Relays)
    BY <1>15
  <2>2. LatestOf(Append(inbox[u], p), A, G)
    BY <1>18, <2>1, LatestAppended
  <2>3. NoneOf(Append(inbox[u], p), A) => NoneOf(inbox[u], A)
    BY <2>1, NoneAppended
  <2>4. CASE b.hand
    <3>1. LatestOf(Append(Append(inbox[u], p), h), A, G)
      BY <1>18, <2>1, <2>2, <2>4, LatestAppended
    <3>2. NoneOf(Append(Append(inbox[u], p), h), A) => NoneOf(Append(inbox[u], p), A)
      BY <2>1, NoneAppended
    <3> QED
      BY <1>15, <2>3, <2>4, <3>1, <3>2
  <2>5. CASE ~b.hand
    BY <1>15, <2>2, <2>3, <2>5
  <2> QED
    BY <2>4, <2>5
<1>19. ASSUME NEW u \in In
       PROVE  /\ ToSet(inbox[u]) \cup {p} \subseteq ToSet(inbox'[u])
              /\ ToSet(inbox'[u]) \subseteq ToSet(inbox[u]) \cup {p, h}
  <2>1. inbox[u] \in Seq(Relays) /\ Append(inbox[u], p) \in Seq(Relays)
    BY <1>15
  <2>2. ToSet(Append(inbox[u], p)) = ToSet(inbox[u]) \cup {p}
    BY <2>1, RelayAppended
  <2>3. ToSet(Append(Append(inbox[u], p), h)) = ToSet(Append(inbox[u], p)) \cup {h}
    BY <2>1, RelayAppended
  <2> QED
    BY <1>15, <2>2, <2>3
<1>26. \A v \in In : view'[v] = view[v] /\ sock'[v] = sock[v]
  BY <1>4, <1>5, <1>13
<1>u. \A q \in Media : Used(q) => Used(q)' /\ q.of # s /\ q # m
  <2>1. past.sockets <= past'.sockets /\ past.acts <= past'.acts
    BY <1>1, <1>2, <1>14
  <2>2. \A q \in Media : Used(q) => Used(q)'
    BY <1>t, <1>1, <1>14, <2>1, StillUsed
  <2> QED
    BY <1>2, <1>m, <2>2 DEF Used
<1>v. Used(m)'
  <2>1. s \in 1..s /\ 0 <= past.acts
    BY <1>1, <1>2
  <2> QED
    BY <1>14, <1>m, <2>1 DEF Used
<1>21. Sockets'
  <2>1. \A u \in Users : sock'[u] <= s
    <3>1. \A u \in Users : sock[u] <= past.sockets /\ sock[u] \in Nat
      BY <1>1 DEF StageInv, Sockets
    <3> QED
      BY <1>1, <1>2, <1>5, <3>1
  <2>2. \A u, v \in In' : u # v => sock'[u] # sock'[v]
    BY <1>4, <1>5 DEF StageInv, Sockets
  <2>3. \A u \in Users \ In' : inbox'[u] = <<>> /\ Empty(view'[u])
    BY <1>5, <1>13, <1>16 DEF StageInv, Sockets
  <2>4. \A u \in In' : Tile(sock'[u]) \in open'
    BY <1>5, <1>26, <1>m, <1>o DEF StageInv, Sockets
  <2> QED
    BY <1>5, <1>14, <2>1, <2>2, <2>3, <2>4 DEF Sockets, Empty
<1>22. Spoken'
  <2>1. \A q \in open' : Used(q)'
    BY <1>1, <1>o, <1>u, <1>v DEF StageInv, Spoken
  <2>2. ASSUME NEW u \in Users, NEW q \in Held(view'[u]) \cup view'[u].lost PROVE Used(q)'
    <3>1. CASE u = x
      <4>1. q \in open
        BY <1>12, <1>13, <1>x, <2>2, <3>1 DEF Held, Empty
      <4> QED
        BY <1>o, <2>1, <4>1
    <3>2. CASE u # x
      <4>1. q \in Held(view[u]) \cup view[u].lost
        BY <1>13, <2>2, <3>2
      <4>2. q \in Media
        BY <1>t, <4>1 DEF StageTyped, Views, Held
      <4> QED
        BY <1>u, <4>1, <4>2 DEF StageInv, Spoken
    <3> QED
      BY <3>1, <3>2
  <2>3. ASSUME NEW u \in Users, NEW d \in ToSet(inbox'[u])
        PROVE  /\ d.type # "spotlight" => d.of \in 1..s
               /\ d.type \in {"producer", "closed"} => Used(d.media)'
    <3>1. CASE u \in In
      <4>1. CASE d \in ToSet(inbox[u])
        <5>1. d \in Relays
          BY <1>t, <4>1 DEF StageTyped, ToSet
        <5>2. d.type \in {"producer", "closed"} => d.media \in Media
          BY <5>1 DEF Relays
        <5> QED
          BY <1>2, <1>u, <4>1, <5>2 DEF StageInv, Spoken
      <4>2. CASE d \in {p, h}
        BY <1>2, <1>3, <1>v, <4>2
      <4> QED
        BY <1>19, <2>3, <3>1, <4>1, <4>2
    <3>2. CASE u \notin In
      BY <1>16, <2>3, <3>2 DEF ToSet
    <3> QED
      BY <3>1, <3>2
  <2> QED
    BY <1>14, <2>1, <2>2, <2>3 DEF Spoken, Held
<1>23. ASSUME NEW u \in In, NEW q \in Held(view[u]) \cup view[u].lost \cup open PROVE q # m /\ q.of # s
  <2>1. q \in Media /\ Used(q)
    BY <1>1, <1>23, <1>t DEF StageTyped, Views, Held, StageInv, Spoken
  <2> QED
    BY <1>u, <2>1
<1>24. OnStage'
  <2>1. ASSUME NEW u \in In
        PROVE  Landed(view[u]) /\ view[u].lost \cap open' = {} /\ \A q \in Held(view[u]) : q.of # sock[u]
    BY <1>o, <1>23 DEF StageInv, OnStage
  <2>2. \A q \in open : q.of # s
    BY <1>1, <1>u DEF StageInv, Spoken
  <2>3. Landed(w) /\ w.lost \cap open' = {} /\ \A q \in Held(w) : q.of # s
    BY <1>12, <1>x, <2>2 DEF Landed, Empty, Held, KeysOf, ToSet
  <2> QED
    BY <1>5, <1>13, <1>26, <2>1, <2>3 DEF OnStage, Landed, Held
<1>25. AllTold'
  <2>1. ASSUME NEW u \in In PROVE Told(u)'
    <3>t. Told(u) /\ view'[u] = view[u] /\ sock'[u] = sock[u]
      BY <1>26, <2>1 DEF StageInv, AllTold
    <3>1. \A A : Coming(u, A) \/ p \in A => Coming(u, A)'
      BY <1>19, <2>1 DEF Coming
    <3>2. \A q \in Has(view[u]) : q \in open' \/ Coming(u, Ends(q))'
      BY <1>o, <3>t, <3>1 DEF Told
    <3>3. \A k \in Knows(view[u]) : k \in Peers' \/ Coming(u, GoneOf(k))'
      BY <1>o, <3>t, <3>1 DEF Told
    <3>4. \A q \in open' : q.of # sock[u] => q \in Has(view[u]) \/ Coming(u, Begins(q))'
      <4>1. p \in Begins(m)
        BY <1>3 DEF Begins
      <4> QED
        BY <1>o, <3>t, <3>1, <4>1 DEF Told
    <3>5. ASSUME NEW d \in ToSet(inbox'[u])
          PROVE  /\ d.type = "closed" => d.media.kind = "screen" /\ d.media \notin open'
                 /\ d.type = "gone" => d.of \notin Peers'
                 /\ d.type = "producer" => d.media.of # sock[u]
      <4>1. CASE d \in ToSet(inbox[u])
        <5>1. d.type = "closed" => d.media # m
          BY <1>m, <3>t, <4>1 DEF Told
        <5>2. d.type = "gone" => d.of # s
          BY <1>2, <1>4, <2>1, <4>1 DEF StageInv, Spoken
        <5> QED
          BY <1>o, <3>t, <4>1, <5>1, <5>2 DEF Told
      <4>2. CASE d \in {p, h}
        BY <1>3, <1>4, <1>m, <2>1, <4>2
      <4> QED
        BY <1>19, <2>1, <3>5, <4>1, <4>2
    <3> QED
      BY <3>t, <3>2, <3>3, <3>4, <3>5 DEF Told
  <2>2. Told(x)'
    <3>1. Has(w) = open /\ Knows(w) = Peers
      BY <1>12, <1>x DEF Has, Held, Knows, Empty, Peers
    <3>2. inbox'[x] = <<>>
      BY <1>1, <1>16
    <3>3. \A d : d \notin ToSet(inbox'[x])
      BY <3>2 DEF ToSet
    <3>4. \A q \in open' : q.of # s => q \in open
      BY <1>o, <1>m
    <3> QED
      BY <1>o, <1>5, <1>13, <3>1, <3>3, <3>4 DEF Told
  <2> QED
    BY <1>5, <2>1, <2>2 DEF AllTold
<1>28. HandsTold'
  <2>1. ASSUME NEW u \in In, NEW v \in In, u # v, sock[v] \notin past.refused
        PROVE  /\ LatestOf(inbox'[u], HandsOf(sock[v]), Up(view[v].hand))
               /\ NoneOf(inbox'[u], HandsOf(sock[v])) => HandSeen(u, v)'
    <3>1. p \notin HandsOf(sock[v]) /\ h \notin HandsOf(sock[v])
      BY <1>3, <1>4 DEF HandsOf
    <3>2. /\ LatestOf(inbox[u], HandsOf(sock[v]), Up(view[v].hand))
          /\ NoneOf(inbox[u], HandsOf(sock[v])) => HandSeen(u, v)
      BY <2>1 DEF StageInv, HandsTold
    <3>3. /\ view'[u] = view[u] /\ view'[v] = view[v] /\ sock'[v] = sock[v]
          /\ (<<u, sock[v]>> \in past.blind => <<u, sock[v]>> \in past'.blind)
      BY <1>14, <1>26, <1>e, <2>1
    <3>4. HandSeen(u, v) => HandSeen(u, v)'
      BY <3>3 DEF HandSeen
    <3> QED
      BY <1>18, <2>1, <3>1, <3>2, <3>4
  <2>2. ASSUME NEW u \in In
        PROVE  /\ LatestOf(inbox'[u], HandsOf(s), Up(w.hand))
               /\ NoneOf(inbox'[u], HandsOf(s)) => HandSeen(u, x)'
    <3>2. LatestOf(inbox[u], HandsOf(s), Up(w.hand))
      <4>1. \A d \in ToSet(inbox[u]) : d \notin HandsOf(s)
        BY <1>2, <1>4, <2>2 DEF StageInv, Spoken, HandsOf
      <4> QED
        BY <4>1 DEF LatestOf, ToSet
    <3>3. p \notin HandsOf(s)
      BY <1>3 DEF HandsOf
    <3>4. CASE b.hand
      <4>1. inbox[u] \in Seq(Relays) /\ Append(inbox[u], p) \in Seq(Relays)
            /\ inbox'[u] = Append(Append(inbox[u], p), h)
        BY <1>15, <2>2, <3>4
      <4>2. h \in HandsOf(s) /\ h \in Up(w.hand)
        BY <1>3, <1>12, <3>4 DEF HandsOf, Up
      <4>3. LatestOf(Append(Append(inbox[u], p), h), HandsOf(s), Up(w.hand))
        BY <4>1, <4>2, LatestAppended
      <4>4. ~NoneOf(Append(Append(inbox[u], p), h), HandsOf(s))
        BY <4>1, <4>2, NoneAppended
      <4> QED
        BY <4>1, <4>3, <4>4
    <3>5. CASE ~b.hand
      <4>1. LatestOf(inbox'[u], HandsOf(s), Up(w.hand))
        BY <1>18, <2>2, <3>2, <3>3, <3>5
      <4>2. s \notin view[u].known
        <5>1. ASSUME s \in view[u].known PROVE FALSE
          <6>1. s \in Peers \/ Coming(u, GoneOf(s))
            BY <2>2, <5>1 DEF StageInv, AllTold, Told, Knows
          <6>2. s \notin Peers
            BY <1>2 DEF StageInv, Spoken, Used, Peers
          <6>3. ~Coming(u, GoneOf(s))
            BY <1>2, <1>4, <2>2 DEF StageInv, Spoken, Coming, GoneOf
          <6> QED
            BY <6>1, <6>2, <6>3
        <5> QED
          BY <5>1
      <4>3. HandSeen(u, x)'
        BY <1>5, <1>12, <1>13, <1>26, <2>2, <3>5, <4>2 DEF HandSeen
      <4> QED
        BY <4>1, <4>3
    <3> QED
      BY <3>4, <3>5
  <2>3. ASSUME NEW v \in In PROVE HandSeen(x, v)'
    <3>1. w.known = {}
      BY <1>12, <1>x DEF Empty
    <3> QED
      BY <1>d, <1>13, <1>14, <1>26, <2>3, <3>1 DEF HandSeen
  <2>4. inbox'[x] = <<>>
    BY <1>1, <1>16
  <2>5. \A A, G : LatestOf(<<>>, A, G)
    BY NothingComing
  <2>6. ASSUME NEW u \in In', NEW v \in In', u # v, sock'[v] \notin past'.refused
        PROVE  /\ LatestOf(inbox'[u], HandsOf(sock'[v]), Up(view'[v].hand))
               /\ NoneOf(inbox'[u], HandsOf(sock'[v])) => HandSeen(u, v)'
    <3>1. CASE u \in In /\ v \in In
      BY <1>14, <1>26, <2>1, <2>6, <3>1
    <3>2. CASE v = x
      BY <1>5, <1>13, <2>2, <2>6, <3>2
    <3>3. CASE u = x
      BY <1>5, <2>3, <2>4, <2>5, <2>6, <3>3
    <3> QED
      BY <1>5, <3>1, <3>2, <3>3
  <2> QED
    BY <2>6 DEF HandsTold
<1>30. SpotlightTold'
  <2>1. ASSUME NEW u \in past.told
        PROVE  /\ LatestOf(inbox'[u], Spots, Named(past.last))
               /\ NoneOf(inbox'[u], Spots) => view'[u].spotlight = past.last
    <3>1. u \in In /\ LatestOf(inbox[u], Spots, Named(past.last))
          /\ (NoneOf(inbox[u], Spots) => view[u].spotlight = past.last)
      BY <2>1 DEF StageInv, SpotlightTold
    <3>2. p \notin Spots /\ h \notin Spots
      BY <1>3 DEF Spots
    <3> QED
      BY <1>18, <1>26, <2>1, <3>1, <3>2
  <2>2. past.told \subseteq In
    BY DEF StageInv, SpotlightTold
  <2> QED
    BY <1>5, <1>14, <2>1, <2>2 DEF SpotlightTold
<1> QED
  BY <1>17, <1>21, <1>22, <1>24, <1>25, <1>28, <1>30 DEF StageInv

LEMMA StageStep == StageInv /\ StageNext => StageInv'
<1> SUFFICES ASSUME StageInv, StageNext PROVE StageInv'
  OBVIOUS
<1>1. ASSUME NEW u \in Users, \/ Join(u) \/ Part(u) \/ Hear(u) \/ ToggleHand(u) \/ ToggleShare(u)
                              \/ Pin(u) \/ Choose(u) \/ PickShare(u) \/ TurnPage(u)
      PROVE  StageInv'
  BY <1>1, JoinStep, PartStep, HearStep, ToggleHandStep, ToggleShareStep, PinStep, ChooseStep,
     PickShareStep, TurnPageStep
<1>2. ASSUME NEW u \in Users, NEW p \in view[u].coming, Arrives(u, p) \/ Denied(u, p) PROVE StageInv'
  BY <1>2, ArrivesStep, DeniedStep
<1>3. ASSUME NEW u \in Users, NEW p \in view[u].resuming, Resumed(u, p) PROVE StageInv'
  BY <1>3, ResumedStep
<1>4. ASSUME NEW s \in Peers, Noticed(s) PROVE StageInv'
  BY <1>4, NoticedStep
<1>5. ASSUME NEW k \in People(HostUser), Spotlight(k) PROVE StageInv'
  BY <1>5, SpotlightStep
<1>6. ASSUME NEW i \in DOMAIN asks, SpotlightRelayed(i) PROVE StageInv'
  BY <1>6, SpotlightRelayedStep
<1> QED
  BY <1>1, <1>2, <1>3, <1>4, <1>5, <1>6 DEF StageNext

-----------------------------------------------------------------------------
(* what the stage of a page shows *)

(* what a page whose events are handled has on its stage is there, or has   *)
(* landed after its end was told                                            *)
LEMMA ShownAreHere ==
  ASSUME StageInv, NEW u \in In, inbox[u] = <<>>
  PROVE  /\ Tiles(u) \subseteq Peers \cup Ghosts(u, "tile")
         /\ \A k \in ToSet(view[u].screens) : SharesOn(k) # {} \/ k \in Ghosts(u, "screen")
         /\ sock[u] \in Peers /\ sock[u] \notin Tiles(u)
<1> DEFINE b == view[u]
<1>1. /\ ToSet(b.tiles) = KeysOf(b.landed, "tile") /\ ToSet(b.screens) = KeysOf(b.landed, "screen")
      /\ \A p \in Held(b) : p.of # sock[u]
  BY DEF StageInv, OnStage, Landed
<1>2. \A p \in b.landed \ b.lost : p \in open
  <2>1. \A A : ~Coming(u, A)
    BY DEF Coming, ToSet
  <2> QED
    BY <2>1 DEF StageInv, AllTold, Told, Has, Held
<1>3. ASSUME NEW k \in Tiles(u) PROVE k \in Peers \cup Ghosts(u, "tile")
  <2>1. PICK p \in b.landed : p.kind = "tile" /\ p.of = k
    BY <1>1, <1>3 DEF Tiles, KeysOf
  <2> QED
    BY <1>2, <2>1 DEF Ghosts, Peers
<1>4. ASSUME NEW k \in ToSet(b.screens) PROVE SharesOn(k) # {} \/ k \in Ghosts(u, "screen")
  <2>1. PICK p \in b.landed : p.kind = "screen" /\ p.of = k
    BY <1>1, <1>4 DEF KeysOf
  <2> QED
    BY <1>2, <2>1 DEF Ghosts, SharesOn
<1>5. sock[u] \notin Tiles(u)
  BY <1>1 DEF Tiles, KeysOf, Held
<1> QED
  BY <1>3, <1>4, <1>5, Connected

(* of any number of tiles, the page of the grid that is shown has one *)
LEMMA PagesDivide ==
  ASSUME NEW L \in Nat \ {0}, NEW P \in Nat \ {0}, NEW g \in Nat, g < (L + P - 1) \div P
  PROVE  g * P + 1 \in 1..L /\ (g * P) \div P = g
<1> DEFINE n == (L + P - 1) \div P
<1>1. n \in Nat /\ P * n <= L + P - 1
  <2>1. \A a \in Nat, b \in Nat \ {0} : a \div b \in Nat /\ b * (a \div b) <= a
    OBVIOUS
  <2>2. L + P - 1 \in Nat
    OBVIOUS
  <2> QED
    BY <2>1, <2>2
<1>2. g + 1 <= n
  BY <1>1
<1> HIDE DEF n
<1>3. P * (g + 1) <= P * n
  BY <1>1, <1>2
<1>4. P * (g + 1) = g * P + P
  OBVIOUS
<1>5. g * P \in Nat
  OBVIOUS
<1>6. g * P + P <= L + P - 1
  BY <1>1, <1>3, <1>4, <1>5
<1>7. g * P + 1 \in 1..L
  BY <1>5, <1>6
<1>8. (g * P) \div P = g
  OBVIOUS
<1> QED
  BY <1>7, <1>8

LEMMA GridHasTiles == ASSUME StageTyped, NEW u \in Users PROVE OnGrid(u) # {}
<1> DEFINE L == Places(u)
           P == PageSize
           g == GridPage(u)
<1>1. L \in Nat \ {0} /\ P \in Nat \ {0} /\ PageCount(u) \in Nat /\ view[u].grid \in Nat
  BY Paging, CallStageConstants DEF StageTyped, Views
<1>2. PageCount(u) = (L + P - 1) \div P
  BY DEF PageCount
<1>3. PageCount(u) # 0
  <2>1. \A a \in Nat, b \in Nat \ {0} : b <= a => a \div b # 0
    OBVIOUS
  <2>2. L + P - 1 \in Nat /\ P <= L + P - 1
    BY <1>1
  <2> QED
    BY <1>1, <1>2, <2>1, <2>2
<1>4. g \in Nat /\ g < PageCount(u)
  BY <1>1, <1>3 DEF GridPage
<1>5. g * P + 1 \in 1..L /\ (g * P) \div P = g
  BY <1>1, <1>2, <1>4, PagesDivide
<1>6. (g * P + 1) - 1 = g * P
  BY <1>1, <1>4
<1>7. g * P + 1 \in OnGrid(u)
  BY <1>5, <1>6 DEF OnGrid
<1> QED
  BY <1>7

LEMMA StageShown == StageInv => StageIsSound
<1> SUFFICES ASSUME StageInv, NEW u \in In, inbox[u] = <<>>
             PROVE  LET here == Peers \cup Ghosts(u, "tile")
                    IN /\ Kind(u) = "presentation" =>
                            SharesOn(PinnedShare(u)) # {} \/ PinnedShare(u) \in Ghosts(u, "screen")
                       /\ Kind(u) = "focus" =>
                            \A speaker \in 0..past.sockets :
                              Focus(u, speaker) \in here \cap Cameras(u)
                       /\ Kind(u) = "grid" => OnGrid(u) # {}
                       /\ Kind(u) = "solo" => view[u].tiles[1] \in here \ {sock[u]}
  BY DEF StageIsSound
<1> DEFINE here == Peers \cup Ghosts(u, "tile")
<1>t. StageTyped /\ u \in Users /\ view[u].tiles \in Seq(Nat) /\ sock[u] \in Nat \ {0}
  BY DEF StageInv, StageTyped, Views, Keys, In, None
<1>1. /\ Tiles(u) \subseteq here /\ sock[u] \in here /\ sock[u] \notin Tiles(u)
      /\ \A k \in ToSet(view[u].screens) : SharesOn(k) # {} \/ k \in Ghosts(u, "screen")
  BY ShownAreHere
<1>k. /\ Kind(u) = "presentation" => HasScreen(u)
      /\ Kind(u) = "solo" => view[u].tiles # <<>>
  BY DEF Kind
<1>e. view[u].tiles # <<>> => view[u].tiles[1] \in Tiles(u)
  BY <1>t DEF Tiles, ToSet
<1>2. Kind(u) = "presentation" =>
        SharesOn(PinnedShare(u)) # {} \/ PinnedShare(u) \in Ghosts(u, "screen")
  <2> SUFFICES ASSUME HasScreen(u)
               PROVE  SharesOn(PinnedShare(u)) # {} \/ PinnedShare(u) \in Ghosts(u, "screen")
    BY <1>k
  <2>1. /\ Shares(u) \in Seq(Nat)
        /\ \A k \in ToSet(Shares(u)) : k \in ToSet(view[u].screens) \/ (k = sock[u] /\ Sharing(u))
    BY <1>t, SharesTyped
  <2>2. Shares(u)[1] \in ToSet(Shares(u))
    BY <2>1 DEF HasScreen, ToSet
  <2>3. PinnedShare(u) \in ToSet(Shares(u))
    BY <2>2 DEF PinnedShare
  <2> QED
    BY <1>1, <2>1, <2>3 DEF Sharing
<1>3. \A speaker \in 0..past.sockets : Focus(u, speaker) \in here \cap Cameras(u)
  <2>1. \A k : Present(u, k) => k \in here \cap Cameras(u)
    BY <1>1 DEF Present, Cameras
  <2>2. Explicit(u) # None => Present(u, Explicit(u))
    BY DEF Explicit
  <2>3. ASSUME NEW speaker PROVE Fallback(u, speaker) \in here \cap Cameras(u)
    BY <1>1, <1>e, <2>1 DEF Fallback, Cameras
  <2> QED
    BY <2>1, <2>2, <2>3 DEF Focus
<1>4. OnGrid(u) # {}
  BY <1>t, GridHasTiles
<1>5. Kind(u) = "solo" => view[u].tiles[1] \in here \ {sock[u]}
  BY <1>1, <1>e, <1>k
<1> QED
  BY <1>2, <1>3, <1>4, <1>5

LEMMA PagesShowTheSame == StageInv => PagesAgree
<1> SUFFICES ASSUME StageInv PROVE PagesAgree
  OBVIOUS
<1>1. \A A : NoneOf(<<>>, A)
  BY NothingComing
<1>2. SpotlightAgrees
  BY <1>1 DEF StageInv, SpotlightTold, SpotlightAgrees
<1>3. HandsAgree
  <2> SUFFICES ASSUME NEW u \in In, NEW v \in In, u # v, inbox[u] = <<>>,
                      <<u, sock[v]>> \notin past.blind, sock[v] \notin past.refused
               PROVE  view[v].hand <=> sock[v] \in view[u].hands
    BY DEF HandsAgree
  <2>1. HandSeen(u, v)
    BY <1>1 DEF StageInv, HandsTold
  <2>2. view[u].hands \subseteq view[u].known
    BY DEF StageInv, OnStage, Landed
  <2>3. view[v].hand \in BOOLEAN
    BY Connected DEF StageInv, StageTyped, Views
  <2> QED
    BY <2>1, <2>2, <2>3 DEF HandSeen
<1>4. SharesAgree
  <2> SUFFICES ASSUME NEW u \in In, NEW v \in In, u # v, inbox[u] = <<>>, view[u].coming = {}
               PROVE  LET shown == sock[v] \in ToSet(view[u].screens)
                      IN /\ Sharing(v) => shown
                         /\ shown => Sharing(v) \/ sock[v] \in Ghosts(u, "screen")
    BY DEF SharesAgree
  <2>1. ASSUME Sharing(v) PROVE sock[v] \in ToSet(view[u].screens)
    <3>1. PICK p \in open : p.kind = "screen" /\ p.of = sock[v]
      BY <2>1 DEF Sharing, SharesOn
    <3>2. p.of # sock[u]
      BY <3>1 DEF StageInv, Sockets
    <3>3. ~Coming(u, Begins(p))
      BY DEF Coming, ToSet
    <3>4. p \in view[u].landed
      BY <3>2, <3>3 DEF StageInv, AllTold, Told, Has, Held
    <3> QED
      BY <3>1, <3>4 DEF StageInv, OnStage, Landed, KeysOf
  <2>2. sock[v] \in ToSet(view[u].screens) => Sharing(v) \/ sock[v] \in Ghosts(u, "screen")
    BY ShownAreHere DEF Sharing
  <2> QED
    BY <2>1, <2>2
<1> QED
  BY <1>2, <1>3, <1>4 DEF PagesAgree

-----------------------------------------------------------------------------
(* the theorems *)

LEMMA Initially == Init => IInv
  BY PageInitially, StageInitially, MiniInitially DEF Init, IInv

LEMMA Step == IInv /\ [Next]_callVars => IInv'
<1> SUFFICES ASSUME IInv, [Next]_callVars PROVE IInv'
  OBVIOUS
<1>1. CASE part = "page" /\ PageNext /\ UNCHANGED <<part, stageVars, miniVars>>
  BY <1>1, PageStep, StageKept, MiniKept DEF IInv
<1>2. CASE part = "stage" /\ StageNext /\ UNCHANGED <<part, pageVars, miniVars>>
  BY <1>2, PageKept, StageStep, MiniKept DEF IInv
<1>3. CASE part = "mini" /\ MiniNext /\ UNCHANGED <<part, pageVars, stageVars>>
  BY <1>3, PageKept, StageKept, MiniStep DEF IInv
<1>4. CASE UNCHANGED callVars
  BY <1>4, PageKept, StageKept, MiniKept DEF IInv, callVars
<1> QED
  BY <1>1, <1>2, <1>3, <1>4 DEF Next

(* Types and the relations between a page, the server and what is on its way *)
(* between them; between what a page has of the others' media, those who     *)
(* have left, those whose end it was told too early to find them and those   *)
(* on their way included, what the server has, and what the page has still   *)
(* to hear of; and between the mini player's hook, its window and the        *)
(* browser's events (RoomPage.tsx:348-546, useMediasoup.ts:438-605,          *)
(* usePictureInPicture.ts:105-187).                                          *)
THEOREM InvAlways == Spec => []IInv
<1> QED
  BY Initially, Step, PTL DEF Spec

(* However the participant's clicks, a host's mutes and the renders come,    *)
(* the server has the microphone paused exactly if the page shows it off,    *)
(* once nothing is under way and unless the last flip was refused            *)
(* (RoomPage.tsx:448-452, useMediasoup.ts:197-216, sfu-handlers.ts:330-366,  *)
(* 470-479).                                                                 *)
THEOREM MuteAlwaysAgrees == Spec => []MuteAgrees
<1>1. IInv => MuteAgrees
  <2> SUFFICES ASSUME IInv, Quiet PROVE (work.refused \/ room.paused = ~page.audio) /\ wanted = page.audio
    BY DEF MuteAgrees
  <2>1. toServer = <<>> /\ toPage = <<>> /\ work.worker = <<>>
    BY DEF Quiet
  <2>2. ToSet(<<>>) = {}
    BY NoEvent
  <2>3. ~MicAsked /\ ~MutedComing
    BY <2>1, <2>2 DEF MicAsked, MutedComing
  <2>4. (work.refused \/ Decided(Wish)) /\ wanted = page.audio
    BY <2>3 DEF IInv, PageInv, Mic
  <2>5. work.refused \/ room.paused = (Wish = "pause")
    BY <2>1, <2>3, <2>4 DEF Decided
  <2>6. room.paused \in BOOLEAN /\ wanted \in BOOLEAN
    BY DEF IInv, PageInv, PageTypes, RoomTyped
  <2>7. (Wish = "pause") <=> ~wanted
    BY <2>6 DEF Wish
  <2> QED
    BY <2>4, <2>5, <2>6, <2>7
<1> QED
  BY <1>1, InvAlways, PTL

(* The badge counts every message of another participant since the chat was  *)
(* closed, except those handled after a transcript took the rail over and    *)
(* before that was rendered; and a draft leaves the composer only when it    *)
(* was delivered, and is delivered again only when its earlier sending had   *)
(* been reported to have failed (RoomPage.tsx:353-375, 469-499).             *)
THEOREM ChatAlwaysHonest == Spec => []ChatIsHonest
<1>1. IInv => ChatIsHonest
  <2> SUFFICES ASSUME IInv PROVE ChatIsHonest
    OBVIOUS
  <2>1. BadgeIsTrue
    BY DEF IInv, PageInv, BadgeCounts, BadgeIsTrue
  <2>2. DraftsAreSentOnce
    BY DEF IInv, PageInv, Drafts, Messages, Composer, Resent, DraftsAreSentOnce
  <2> QED
    BY <2>1, <2>2 DEF ChatIsHonest
<1> QED
  BY <1>1, InvAlways, PTL

(* This page starts a transcript only for a participant who asked for it and *)
(* has not taken it back (RoomPage.tsx:376-400, 512-546).                    *)
THEOREM StartsAlwaysWanted == Spec => []StartsAreWanted
<1>1. IInv => StartsAreWanted
  BY DEF IInv, PageInv, Starts, StartsAreWanted, ToSet
<1> QED
  BY <1>1, InvAlways, PTL

(* Whatever stays set of those who left, the stage of a page that has        *)
(* handled its events shows whom the server has in the call: a share, a      *)
(* participant in focus, a page of the grid. The exceptions are the media    *)
(* that landed after the page was told of their end, which it goes on        *)
(* showing, and no others (useRoomLayout.ts:73-98, useScreenShare.ts:84-95,  *)
(* RoomPage.tsx:968-978, useMediasoup.ts:472-497, 535-581).                  *)
THEOREM StageAlwaysSound == Spec => []StageIsSound
<1>1. IInv => StageIsSound
  BY StageShown DEF IInv
<1> QED
  BY <1>1, InvAlways, PTL

(* The spotlight, the raised hands and the shares that pages show come to be *)
(* the same on all of them, whatever overtakes what. Excepted are a hand     *)
(* that went up before the page knew of its owner, the hand of one whose     *)
(* last word on it the limiter refused, and a share that landed after the    *)
(* page was told of its end (useMediasoup.ts:472-497, 599-604, 770-785, sfu- *)
(* handlers.ts:394-407, 549-562).                                            *)
THEOREM PagesAlwaysAgree == Spec => []PagesAgree
<1>1. IInv => PagesAgree
  BY PagesShowTheSame DEF IInv
<1> QED
  BY <1>1, InvAlways, PTL

(* Once everything is answered and rendered, the menu says whether the mini  *)
(* player is open, which it is only at the participant's wish or with the    *)
(* tab hidden, unless the browser was late (usePictureInPicture.ts:105-147). *)
THEOREM MiniPlayerAlwaysTrue == Spec => []MiniPlayerIsTrue
<1>1. IInv => MiniPlayerIsTrue
  <2> SUFFICES ASSUME IInv, calls = {}, events = <<>>
               PROVE  /\ player.mounted => player.active = screen.open
                      /\ screen.open /\ screen.by # "late" =>
                           player.mounted /\ (screen.by = "menu" \/ screen.hidden)
    BY DEF MiniPlayerIsTrue
  <2>1. ~Closing
    BY DEF Closing
  <2> QED
    BY <2>1 DEF IInv, MiniInv, EventsTell, WindowWanted
<1> QED
  BY <1>1, InvAlways, PTL

=============================================================================
