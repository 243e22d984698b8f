----------------------------- MODULE CallStage -----------------------------
(***************************************************************************)
(* What each participant's call page has on its stage: the tiles of the    *)
(* others, shared screens, raised hands, the host's spotlight, the pin and *)
(* the layout chosen (useRoomLayout.ts, useScreenShare.ts,                 *)
(* useHostModeration.ts, the tiles and layouts of RoomPage.tsx), and the   *)
(* events the server relays to them (sfu-handlers.ts).                     *)
(*                                                                         *)
(* A page that loses its connection keeps its state and comes back on a    *)
(* new socket, maybe before the server has noticed; what is sent meanwhile *)
(* is lost to it.  A tile is known by the socket of its participant.  A    *)
(* camera and its microphone are one medium here, and so are a screen and  *)
(* its sound.  How a page is set up, and media whose consume times out,    *)
(* are MediaSetup's.                                                       *)
(***************************************************************************)
EXTENDS Naturals, Sequences, FiniteSets, SequencesExt

CONSTANTS
  Users,       \* one call page each
  Watched,     \* the pages whose pins, layouts and grids are looked at
  HostUser,    \* the room's admin
  PageSize,    \* tiles on a page of the grid
  MaxSockets,  \* a bound: connections
  MaxMoves     \* a bound: connections, what the participants do that others
               \* are told of (a share's end apart), what they choose for themselves

ASSUME CallStageConstants ==
  /\ HostUser \in Users /\ Watched \subseteq Users /\ PageSize \in Nat \ {0} /\ MaxSockets \in Nat /\ MaxMoves \in Nat

None  == 0
Modes == {"auto", "tiled", "spotlight", "sidebar"}

Tile(s)     == [kind |-> "tile", of |-> s, n |-> 0]
Share(s, n) == [kind |-> "screen", of |-> s, n |-> n]   \* its n-th act began it

VARIABLES
  sock,    \* page |-> its socket, None while it has none
  open,    \* the media of the server's peers: those of pages, and of sockets
           \* whose loss it has not noticed
  view,    \* page |-> its state
  inbox,   \* page |-> events on their way to it, in order
  asks,    \* sfu-spotlight requests whose room is being read
  past     \* history and bounds

stageVars == <<sock, open, view, inbox, asks, past>>

(* coming: media whose consume is awaited; landed: those consumed, of which *)
(* the resuming await their first packet; lost: those whose end was told    *)
(* while their consume was awaited.  known: the peerStates                  *)
NewView == [coming |-> {}, landed |-> {}, resuming |-> {}, lost |-> {}, known |-> {},
            tiles |-> <<>>, screens |-> <<>>, hands |-> {}, hand |-> FALSE,
            spotlight |-> None, pin |-> None, layout |-> "auto", grid |-> 0, share |-> None]

(* past: the spotlight relayed last, the pages it was sent to and that have *)
(* stayed; pairs of a page and a socket whose hand went up before the page  *)
(* knew of it; the sockets whose last word on their hand the limiter        *)
(* refused                                                                  *)
StageInit ==
  /\ sock = [u \in Users |-> None] /\ open = {} /\ view = [u \in Users |-> NewView]
  /\ inbox = [u \in Users |-> <<>>] /\ asks = <<>>
  /\ past = [sockets |-> 0, acts |-> 0, choices |-> 0, last |-> None,
             told |-> {}, blind |-> {}, refused |-> {}]

In == {u \in Users : sock[u] # None}
Peers == {p.of : p \in open}
SharesOn(s) == {p \in open : p.kind = "screen" /\ p.of = s}
Sharing(u) == SharesOn(sock[u]) # {}
Tiles(u) == ToSet(view[u].tiles)

(* remoteStreams and remoteScreens are records: a key has one place, which *)
(* it keeps when it is set again                                           *)
Keyed(s, k)   == IF k \in ToSet(s) THEN s ELSE Append(s, k)
Dropped(s, k) == IF k \in ToSet(s) THEN RemoveAt(s, CHOOSE i \in DOMAIN s : s[i] = k) ELSE s

Emit(to, es) == inbox' = [v \in Users |-> IF v \in to THEN inbox[v] \o es ELSE inbox[v]]
Set(u, w) == view' = [view EXCEPT ![u] = w]
MayMove == past.sockets + past.acts + past.choices < MaxMoves
Acted(h) == [h EXCEPT !.acts = @ + 1]

-----------------------------------------------------------------------------
(* joining and leaving *)

HandNotReasserted(u, s) == <<>>
HandReasserted(u, s) ==
  IF view[u].hand THEN <<[type |-> "hand", of |-> s, up |-> TRUE]>> ELSE <<>>

(* clearRemoteState; nothing reads what a page without a connection has of *)
(* the others, so that it is cleared here when the connection is lost, not *)
(* by the next set-up                                                      *)
Bare(w) ==
  [w EXCEPT !.coming = {}, !.landed = {}, !.resuming = {}, !.lost = {},
            !.known = {}, !.tiles = <<>>, !.screens = <<>>, !.hands = {}]

(* the set-up of a page, which asks for the producers of all other sockets, *)
(* one of its own that the server still holds too, and says again that its  *)
(* hand is up                                                               *)
Join(u) ==
  LET s == past.sockets + 1
      Others == In \ {u}
  IN /\ u \notin In /\ MayMove /\ s <= MaxSockets
     /\ sock' = [sock EXCEPT ![u] = s] /\ open' = open \cup {Tile(s)}
     /\ Set(u, [view[u] EXCEPT !.coming = open])
     /\ Emit(Others, <<[type |-> "producer", of |-> s, media |-> Tile(s)]>> \o HandReasserted(u, s))
     /\ past' = [past EXCEPT !.sockets = s,
                  !.blind = @ \cup {<<u, sock[v]>> : v \in {w \in Others : view[w].hand}}]
     /\ UNCHANGED asks

(* a page that is left is gone, one that lost its connection stays *)
Part(u) ==
  /\ u \in In
  /\ sock' = [sock EXCEPT ![u] = None]
  /\ \E w \in {NewView, Bare(view[u])} : Set(u, w)
  /\ inbox' = [inbox EXCEPT ![u] = <<>>]
  /\ past' = [past EXCEPT !.told = @ \ {u}, !.blind = {b \in @ : b[1] # u}]
  /\ UNCHANGED <<open, asks>>

(* the server notices, its disconnect handler closes the transports *)
Noticed(s) ==
  /\ s \in Peers \ {sock[v] : v \in In}
  /\ open' = {p \in open : p.of # s}
  /\ Emit(In, <<[type |-> "gone", of |-> s]>>)
  /\ UNCHANGED <<sock, view, asks, past>>

-----------------------------------------------------------------------------
(* what a page hears *)

(* onHandRaiseUpdate: of a participant the page knows nothing of, nothing *)
HandHeard(w, e) ==
  IF e.of \notin w.known THEN w
  ELSE [w EXCEPT !.hands = IF e.up THEN @ \cup {e.of} ELSE @ \ {e.of}]

(* removePeer and closeConsumerById find what is landed; what is coming has *)
(* no entry yet, and lands later                                            *)
RemovePeerKeepsShare(w, s) ==
  [w EXCEPT !.landed = {p \in @ : p.of # s}, !.resuming = {p \in @ : p.of # s},
            !.lost = {p \in @ : p.of # s} \cup {p \in w.coming : p.of = s},
            !.known = @ \ {s}, !.hands = @ \ {s}, !.tiles = Dropped(@, s)]
RemovePeer(w, s) ==
  [w EXCEPT !.landed = {p \in @ : p.of # s}, !.resuming = {p \in @ : p.of # s},
            !.lost = {p \in @ : p.of # s} \cup {p \in w.coming : p.of = s},
            !.known = @ \ {s}, !.hands = @ \ {s},
            !.tiles = Dropped(@, s), !.screens = Dropped(@, s)]

(* the share of one who shares again stays while a track of it is left *)
OtherShare(w, p) == \E q \in w.landed \ {p} : q.kind = "screen" /\ q.of = p.of
ShareEnded(w, p) ==
  [w EXCEPT !.landed = @ \ {p}, !.resuming = @ \ {p}, !.lost = @ \cup ({p} \cap w.coming),
            !.screens = IF p \in w.landed /\ ~OtherShare(w, p) THEN Dropped(@, p.of) ELSE @]

(* what is consumed is not consumed again, and of a producer that is no     *)
(* more the consume is refused                                              *)
Announced(w, p) == [w EXCEPT !.coming = @ \cup (({p} \cap open) \ w.landed)]

Hear(u) ==
  LET e == Head(inbox[u])
      w == view[u]
  IN /\ u \in In /\ inbox[u] # <<>>
     /\ inbox' = [inbox EXCEPT ![u] = Tail(@)]
     /\ Set(u, CASE e.type = "producer"  -> Announced(w, e.media)
                 [] e.type = "closed"    -> ShareEnded(w, e.media)
                 [] e.type = "gone"      -> RemovePeer(w, e.of)
                 [] e.type = "hand"      -> HandHeard(w, e)
                 [] e.type = "spotlight" -> [w EXCEPT !.spotlight = e.of])
     /\ past' = IF e.type # "hand" THEN past
                ELSE [past EXCEPT !.blind = IF e.up /\ e.of \notin w.known THEN @ \cup {<<u, e.of>>}
                                            ELSE @ \ {<<u, e.of>>}]
     /\ UNCHANGED <<sock, open, asks>>

(* consumeProducer: a medium lands on the stage, a camera's or a screen's *)
Arrives(u, p) ==
  LET w == [view[u] EXCEPT !.coming = @ \ {p}, !.landed = @ \cup {p},
                           !.resuming = @ \cup ({p} \ view[u].lost)]
  IN /\ u \in In /\ p \in view[u].coming
     /\ \/ p.kind = "tile" /\ Set(u, [w EXCEPT !.tiles = Keyed(@, p.of)])
        \/ p.kind = "screen" /\ Set(u, [w EXCEPT !.screens = Keyed(@, p.of)])
     /\ UNCHANGED <<sock, open, inbox, asks, past>>

(* the consume is refused, its producer being closed *)
Denied(u, p) ==
  /\ u \in In /\ p \in view[u].coming \ open
  /\ Set(u, [view[u] EXCEPT !.coming = @ \ {p}, !.lost = @ \ {p}])
  /\ UNCHANGED <<sock, open, inbox, asks, past>>

(* it is resumed, and its participant known; one whose end was told is not *)
Resumed(u, p) ==
  /\ u \in In /\ p \in view[u].resuming
  /\ Set(u, [view[u] EXCEPT !.resuming = @ \ {p}, !.known = @ \cup {p.of}])
  /\ UNCHANGED <<sock, open, inbox, asks, past>>

-----------------------------------------------------------------------------
(* what a participant does *)

(* toggleHand: the page takes it as done; sfu-raise-hand goes to the others *)
(* unless the limiter refuses it                                            *)
ToggleHand(u) ==
  /\ u \in In /\ MayMove
  /\ Set(u, [view[u] EXCEPT !.hand = ~@])
  /\ \/ /\ Emit(In \ {u}, <<[type |-> "hand", of |-> sock[u], up |-> ~view[u].hand]>>)
        /\ past' = [Acted(past) EXCEPT !.refused = @ \ {sock[u]}]
     \/ /\ past' = [Acted(past) EXCEPT !.refused = @ \cup {sock[u]}]
        /\ UNCHANGED inbox
  /\ UNCHANGED <<sock, open, asks>>

(* shareScreen and stopScreenShare, once the stream is there *)
ToggleShare(u) ==
  LET begun == Share(sock[u], past.acts + 1)
  IN /\ u \in In
     /\ \/ /\ ~Sharing(u) /\ MayMove /\ open' = open \cup {begun} /\ past' = Acted(past)
           /\ Emit(In \ {u}, <<[type |-> "producer", of |-> sock[u], media |-> begun]>>)
        \/ \E p \in SharesOn(sock[u]) :
             /\ open' = open \ {p} /\ UNCHANGED past
             /\ Emit(In \ {u}, <<[type |-> "closed", of |-> sock[u], media |-> p]>>)
     /\ UNCHANGED <<sock, view, asks>>

Shares(u)  == view[u].screens \o (IF Sharing(u) THEN <<sock[u]>> ELSE <<>>)
HasScreen(u) == Shares(u) # <<>>
PinnedShare(u) == IF view[u].share \in ToSet(Shares(u)) THEN view[u].share ELSE Shares(u)[1]

(* a choice of a page changes that page only *)
Local(u, w) ==
  /\ u \in In \cap Watched /\ MayMove
  /\ past' = [past EXCEPT !.choices = @ + 1]
  /\ Set(u, w) /\ UNCHANGED <<sock, open, inbox, asks>>

(* those a page lists: who has a tile, and who the server says is present *)
People(u) == Tiles(u) \cup Peers

(* handlePin, the layout menu, the share switcher *)
Pin(u) ==
  \E k \in People(u) : Local(u, [view[u] EXCEPT !.pin = IF @ = k THEN None ELSE k])
Choose(u) == \E m \in Modes \ {view[u].layout} : Local(u, [view[u] EXCEPT !.layout = m])
PickShare(u) ==
  /\ HasScreen(u)
  /\ \E k \in ToSet(Shares(u)) \ {PinnedShare(u)} : Local(u, [view[u] EXCEPT !.share = k])

(* handleSpotlight, of the host's page *)
Spotlight(k) ==
  /\ HostUser \in In /\ MayMove /\ past' = Acted(past)
  /\ asks' = Append(asks, IF view[HostUser].spotlight = k THEN None ELSE k)
  /\ UNCHANGED <<sock, open, view, inbox>>

-----------------------------------------------------------------------------
(* what the server relays *)

ToRoom == In

(* the reads of the room come back in any order *)
SpotlightRelayed(i) ==
  /\ i \in DOMAIN asks /\ asks' = RemoveAt(asks, i)
  /\ Emit(ToRoom, <<[type |-> "spotlight", of |-> asks[i]]>>)
  /\ past' = [past EXCEPT !.last = asks[i], !.told = In]
  /\ UNCHANGED <<sock, open, view>>

-----------------------------------------------------------------------------
(* the stage of a page *)

Present(u, k) == k # None /\ k \in Tiles(u) \cup {sock[u]}

Explicit(u) ==
  IF Present(u, view[u].spotlight) THEN view[u].spotlight
  ELSE IF Present(u, view[u].pin) THEN view[u].pin ELSE None

(* the participant reported to speak last can be any there has been *)
Fallback(u, speaker) ==
  IF Present(u, speaker) THEN speaker
  ELSE IF view[u].tiles # <<>> THEN view[u].tiles[1] ELSE sock[u]

Focus(u, speaker) == IF Explicit(u) # None THEN Explicit(u) ELSE Fallback(u, speaker)
Kind(u) ==
  CASE HasScreen(u) -> "presentation"
    [] ~HasScreen(u) /\ (Explicit(u) # None \/ view[u].layout \in {"spotlight", "sidebar"}) -> "focus"
    [] OTHER -> IF view[u].layout = "tiled" \/ Len(view[u].tiles) > 1 THEN "grid"
                ELSE IF view[u].tiles = <<>> THEN "alone" ELSE "solo"

(* cameraTiles, whose order (raised hands first) no property tells apart; *)
(* renderGridLayout                                                       *)
Cameras(u) == {sock[u]} \cup Tiles(u)
Places(u) == 1 + Len(view[u].tiles)
PageCount(u) == (Places(u) + PageSize - 1) \div PageSize
GridPage(u) == IF view[u].grid < PageCount(u) THEN view[u].grid ELSE PageCount(u) - 1
OnGrid(u) == {k \in 1..Places(u) : (k - 1) \div PageSize = GridPage(u)}

(* the arrows clamp the page they start from *)
TurnPage(u) ==
  LET next == IF view[u].grid + 1 < PageCount(u) THEN view[u].grid + 1 ELSE PageCount(u) - 1
  IN /\ u \in In \cap Watched /\ Kind(u) = "grid" /\ PageCount(u) > 1
     /\ \/ GridPage(u) > 0 /\ Set(u, [view[u] EXCEPT !.grid = @ - 1])
        \/ GridPage(u) < PageCount(u) - 1 /\ Set(u, [view[u] EXCEPT !.grid = next])
     /\ UNCHANGED <<sock, open, inbox, asks, past>>

-----------------------------------------------------------------------------

StageNext ==
  \/ \E u \in Users : \/ Join(u) \/ Part(u) \/ Hear(u) \/ ToggleHand(u) \/ ToggleShare(u)
                      \/ Pin(u) \/ Choose(u) \/ PickShare(u) \/ TurnPage(u)
                      \/ \E p \in view[u].coming : Arrives(u, p) \/ Denied(u, p)
                      \/ \E p \in view[u].resuming : Resumed(u, p)
  \/ \E s \in Peers : Noticed(s)
  \/ \E k \in People(HostUser) : Spotlight(k)
  \/ \E i \in DOMAIN asks : SpotlightRelayed(i)

(* what a page shows of media whose end it was told while it was awaiting *)
(* their consume                                                          *)
Ghosts(u, kind) == {p.of : p \in {q \in view[u].landed \cap view[u].lost : q.kind = kind}}

(* Whatever stays set of a participant who left, the stage of a page that  *)
(* has handled its events shows who the server has in the call: a share    *)
(* that is on; failing that the spotlighted or pinned participant, or who  *)
(* speaks; failing that a page of the grid that is not empty - but for     *)
(* media that landed after their end was told, and those only              *)
(* (useRoomLayout.ts:73-98, useScreenShare.ts:84-95, RoomPage.tsx:968-978, *)
(* 1078-1084, useMediasoup.ts:472-497).                                    *)
StageIsSound ==
  \A u \in In : inbox[u] = <<>> =>
    LET here == Peers \cup Ghosts(u, "tile")
    IN /\ Kind(u) = "presentation" =>
            SharesOn(PinnedShare(u)) # {} \/ PinnedShare(u) \in Ghosts(u, "screen")
       /\ Kind(u) = "focus" =>
            \A speaker \in 0..past.sockets : Focus(u, speaker) \in here \cap Cameras(u)
       /\ Kind(u) = "grid" => OnGrid(u) # {}
       /\ Kind(u) = "solo" => view[u].tiles[1] \in here \ {sock[u]}

(* The pages a spotlight was relayed to and that stayed connected all show *)
(* the latest one, the host's page too ("all peers (including the host)    *)
(* converge", useHostModeration.ts:13-14), however the host's requests     *)
(* overtook one another.                                                   *)
SpotlightAgrees ==
  \A u \in past.told : inbox[u] = <<>> => view[u].spotlight = past.last

(* A hand is shown up exactly if it is, on every page, unless it went up   *)
(* before the page knew of its owner or the limiter refused to relay it; a *)
(* hand that is up survives its owner's reconnect (useMediasoup.ts:        *)
(* 599-604, 782-785, sfu-handlers.ts:394-407).                             *)
HandsAgree ==
  \A u, v \in In :
    /\ u # v /\ inbox[u] = <<>>
    /\ <<u, sock[v]>> \notin past.blind /\ sock[v] \notin past.refused
    => (view[v].hand <=> sock[v] \in view[u].hands)

(* A page that has handled its events and got the media they announced     *)
(* shows the shares that are on, one who joined during a share too, and no *)
(* other but one that landed after its end was told (useMediasoup.ts:      *)
(* 486-491, 535-552, 570-581, 770-774).                                    *)
SharesAgree ==
  \A u, v \in In :
    u # v /\ inbox[u] = <<>> /\ view[u].coming = {} =>
      LET shown == sock[v] \in ToSet(view[u].screens)
      IN (Sharing(v) => shown) /\ (shown => Sharing(v) \/ sock[v] \in Ghosts(u, "screen"))

(* What every page is to show the same is the same.                        *)
PagesAgree == SpotlightAgrees /\ HandsAgree /\ SharesAgree

(* What useRoomLayout.ts:43-44 says: "A focus key is only honoured while   *)
(* that participant is still present, so a stale pin/spotlight (someone    *)
(* who left) cleanly falls back."  A tile that lands after its participant *)
(* left keeps the pin (useMediasoup.ts:472-497, 570-581).                  *)
FocusIsPresent ==
  \A u \in In : inbox[u] = <<>> /\ Explicit(u) # None => Explicit(u) \in Peers

=============================================================================
