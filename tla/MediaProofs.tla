---------------------------- MODULE MediaProofs ----------------------------
(***************************************************************************)
(* What holds of one participant's media, for any bounds, any number of    *)
(* producers and any owners of them.                                       *)
(*                                                                         *)
(* First the devices, from the lobby to the end of the call: types, an     *)
(* inductive invariant, and the properties of Devices that follow from it. *)
(* Then the set-up of the media and the remote tiles, the same for         *)
(* MediaSetup.  The two share no variable.                                 *)
(***************************************************************************)
EXTENDS Devices, MediaSetup, FiniteSetTheorems, TLAPS

-----------------------------------------------------------------------------
(* types *)

AllKinds  == Kinds \cup {"screen"}
Tracks    == [kind : AllKinds, id : Nat]
AskStates == [for : {"preview", "switch", "capture", "toggle", "share"}, kind : AllKinds, n : Nat, of : Nat]
Works     == [job : {"setup", "replace", "produce", "share", "shareAudio"}, track : Tracks, of : Nat]
ProducerStates == [kind : AllKinds, id : Nat, track : Tracks, paused : BOOLEAN]

LobbyStates == [stream : SUBSET Tracks, enabled : SUBSET Tracks, on : SUBSET Kinds, listed : BOOLEAN, gone : BOOLEAN]
CallStates  == [stream : SUBSET Tracks, captured : BOOLEAN, desired : SUBSET Kinds, shown : SUBSET Kinds]
SendStates  == [n : Nat, at : {"idle", "waiting", "signalling", "mic", "cam"}, up : BOOLEAN, map : [Kinds -> Nat]]
ShareStates == [producer : Nat, stream : SUBSET Tracks, shown : BOOLEAN, heard : SUBSET Tracks]
Histories   == [captures : Nat, clicks : Nat, producers : Nat, stray : SUBSET Tracks, overlapped : SUBSET AllKinds]

PageTyped ==
  /\ phase \in {"lobby", "call", "left"} /\ live \in SUBSET Tracks
  /\ asks \in SUBSET AskStates /\ lobby \in LobbyStates /\ call \in CallStates
WireTyped ==
  /\ send \in SendStates /\ open \in SUBSET ProducerStates /\ work \in SUBSET Works
  /\ share \in ShareStates /\ hist \in Histories
Typed == PageTyped /\ WireTyped

-----------------------------------------------------------------------------
(* the invariant: what is asked for, what is under way and what is held *)

Turning    == Asking("toggle", "cam")
Picking    == Asking("share", "screen")
Capturing  == {a \in asks : a.for = "capture"}
SettingUp  == Working({"setup"})
Adding     == Working({"replace", "produce"})
Publishing == Working({"share", "shareAudio"})
Cams       == Of("cam", call.stream)
FreeCams   == Of("cam", live \ hist.stray)
Screens    == Of("screen", live)

AsksSound ==
  \A a \in asks :
    /\ a.for = "toggle" => a.kind = "cam"
    /\ a.for = "share" => a.kind = "screen"
    /\ a.for \in {"switch", "capture"} => a.kind \in Kinds
    /\ a.of <= send.n
WorkSound ==
  \A w \in work :
    /\ w.job \in {"share", "shareAudio"} <=> w.track.kind = "screen"
    /\ w.job \in {"replace", "produce"} => w.track.kind = "cam"
    /\ w.of <= IF w.job = "replace" THEN hist.producers ELSE send.n
    /\ w.track.id <= hist.captures

(* no track is newer than the last one granted *)
Known == live \cup lobby.stream \cup call.stream \cup share.stream \cup share.heard \cup hist.stray
Granteds == \A t \in Known : t.id <= hist.captures

Streams ==
  /\ lobby.enabled \subseteq lobby.stream
  /\ \A t \in lobby.stream \cup call.stream : t.kind \in Kinds
  /\ \A t, u \in call.stream : t.kind = u.kind => t = u
  /\ \A t \in share.stream \cup share.heard : t.kind = "screen"
  /\ share.shown <=> share.stream # {}
Numbers ==
  /\ \A p \in open : 0 < p.id /\ p.id <= hist.producers
  /\ \A p, q \in open : p.id = q.id => p = q
  /\ \A k \in Kinds : send.map[k] <= hist.producers
  /\ share.producer <= hist.producers /\ \A p \in open : p.id = share.producer => p.kind = "screen"

(* in the lobby everything that captures is the preview's *)
InLobby ==
  IF phase = "lobby"
  THEN /\ ~lobby.gone /\ live = lobby.stream /\ call.stream = {} /\ ~call.captured /\ hist.stray = {}
       /\ \A a \in asks : a.for \in {"preview", "switch"}
       /\ lobby.listed => \A a \in asks : a.for # "preview"
       /\ ~lobby.listed => /\ lobby.stream = {} /\ lobby.on = {}
                           /\ \A a, b \in asks : a.for = "preview" /\ a = b
  ELSE lobby.gone /\ lobby.stream = {}
Preview ==
  phase = "lobby" => \A k \in Kinds \ hist.overlapped :
    IF Asking("switch", k) = {} THEN LobbyIsTrue(k)
    ELSE Of(k, lobby.stream) = {} /\ \A a, b \in Asking("switch", k) : a = b

(* before the capture has ended there is nothing of the call *)
Idle ==
  /\ work = {} /\ open = {} /\ ~send.up /\ send.at = "idle"
  /\ share.producer = 0 /\ share.stream = {} /\ share.heard = {}
  /\ \A a \in asks : a.for \notin {"toggle", "share"}
Early ==
  ~call.captured =>
    Idle /\ live \subseteq lobby.stream \cup call.stream \cup hist.stray /\ call.shown = {}
Captures ==
  /\ \A a, b \in Capturing : a = b
  /\ \A a \in Capturing :
       /\ phase # "lobby" /\ ~call.captured
       /\ a.kind = "mic" => call.stream = {}
       /\ a.kind = "cam" =>
            /\ Cams = {}
            /\ phase = "call" /\ "cam" \notin hist.overlapped => "cam" \in call.desired

Sending ==
  /\ ~send.up => open = {}
  /\ phase # "call" => ~send.up
  /\ phase = "call" /\ send.at \in {"mic", "cam"} => send.up
  /\ \A v, w \in SettingUp : v = w
  /\ \A w \in SettingUp :
       /\ send.at = w.track.kind /\ w.of = send.n
       /\ w.track \in live => w.track \in call.stream
       /\ phase = "call" /\ w.track.kind = "mic" => w.track \in call.stream
  /\ \A p \in open : \A k \in Kinds : p.id = send.map[k] => p.kind = k
  /\ \A p \in open : \A w \in work : w.job = "replace" /\ p.id = w.of => p.kind = "cam"

(* the microphone is captured once; its producer is paused when it is off *)
Mic ==
  phase = "call" =>
    /\ call.captured => ("mic" \in call.shown <=> "mic" \in call.desired /\ Of("mic", call.stream) # {})
    /\ send.at # "waiting" =>
         \A p \in Of("mic", open) : p.id = send.map["mic"] /\ p.paused = ("mic" \notin call.desired)
    /\ send.at \in {"signalling", "mic"} => Of("mic", open) = {}

(* the camera comes and goes: at most one click or call about it is under way *)
CamHeld ==
  /\ Cams # {} => "cam" \in call.desired
  /\ "cam" \in call.shown <=> Cams # {}
  /\ Cams \subseteq FreeCams
  /\ \A t \in FreeCams : t \in Cams \/ \E w \in Adding : w.track = t
CamBusyOnce ==
  /\ \A w \in Adding : w.track \in FreeCams
  /\ Turning = {} \/ Adding = {}
  /\ \A a, b \in Turning : a = b
  /\ \A v, w \in Adding : v = w
  /\ Turning \cup Adding # {} => "cam" \in call.desired /\ Cams = {}
  /\ \A w \in SettingUp : w.track.kind = "cam" => w.track \in call.stream /\ send.map["cam"] = 0
CamSent ==
  send.at # "waiting" =>
    /\ \A p \in Of("cam", open) :
         p.id = send.map["cam"] /\ p.paused = ("cam" \notin call.desired \/ Turning \cup Adding # {})
    /\ \A w \in Adding : w.job = "produce" /\ OnTransport(w) => send.map["cam"] = 0
Cam == phase = "call" /\ call.captured /\ "cam" \notin hist.overlapped => CamHeld /\ CamBusyOnce /\ CamSent

(* one share at a time, from the picker to its end *)
ShareOnce ==
  /\ \A a, b \in Picking : a = b
  /\ \A v, w \in Publishing : v = w
  /\ Picking = {} \/ Publishing = {}
ShareHeld ==
  /\ share.shown => /\ Picking = {} /\ Publishing = {} /\ share.producer # 0
                    /\ share.stream \subseteq Screens /\ \E p \in open : p.id = share.producer /\ p.track \in share.stream
  /\ share.stream \subseteq share.heard /\ \A t \in Screens : t \in share.heard => t \in share.stream
  /\ share.producer # 0 => share.shown \/ \E w \in Publishing : w.job = "shareAudio"
  /\ \A w \in Publishing : w.job = "shareAudio" /\ OnTransport(w) =>
       share.producer # 0 /\ \E p \in open : p.id = share.producer /\ p.track = w.track
Sharing == "screen" \notin hist.overlapped => ShareOnce /\ ShareHeld

Sound     == AsksSound /\ WorkSound /\ Granteds /\ Streams /\ Numbers
DevicesIInv == Typed /\ Sound /\ InLobby /\ Preview /\ Early /\ Captures /\ Sending /\ Mic /\ Cam /\ Sharing /\ NoLostCapture

-----------------------------------------------------------------------------
(* the initial state *)

LEMMA DevicesInitially == Init => DevicesIInv
<1> SUFFICES ASSUME Init PROVE DevicesIInv
  OBVIOUS
<1>1. Typed
  BY DEF Init, Typed, PageTyped, WireTyped, NoProducer, Kinds, AllKinds, AskStates,
         LobbyStates, CallStates, SendStates, ShareStates, Histories
<1>2. Sound
  BY DEF Init, Sound, AsksSound, WorkSound, Granteds, Known, Streams, Numbers, NoProducer, Kinds
<1>3. InLobby /\ Early /\ Captures
  BY DEF Init, InLobby, Early, Idle, Captures, Capturing
<1>4. Preview
  <2> SUFFICES ASSUME NEW k \in Kinds PROVE Asking("switch", k) = {} /\ LobbyIsTrue(k)
    BY DEF Preview
  <2> QED BY DEF Init, Asking, LobbyIsTrue, Of
<1>5. Sending /\ Mic
  BY DEF Init, Sending, Mic, SettingUp, Working, Of
<1>6. Cam /\ NoLostCapture
  BY DEF Init, Cam, NoLostCapture
<1>7. Sharing
  BY DEF Init, Sharing, ShareOnce, ShareHeld, Picking, Publishing, Asking, Working, Screens, Of
<1> QED BY <1>1, <1>2, <1>3, <1>4, <1>5, <1>6, <1>7 DEF DevicesIInv

-----------------------------------------------------------------------------
(* what leaves a part of the invariant as it is *)

LEMMA Clicked ==
  ASSUME Typed, NEW K \in SUBSET AllKinds, Click(K)
  PROVE  /\ hist' \in Histories
         /\ hist'.captures = hist.captures /\ hist'.producers = hist.producers /\ hist'.stray = hist.stray
         /\ hist'.overlapped = hist.overlapped \cup K
<1>1. hist \in Histories /\ hist' = [hist EXCEPT !.clicks = @ + 1, !.overlapped = @ \cup K]
  BY DEF Click, Typed, WireTyped
<1>2. hist.clicks + 1 \in Nat /\ hist.overlapped \cup K \in SUBSET AllKinds
  BY <1>1 DEF Histories
<1> QED BY <1>1, <1>2 DEF Histories

LEMMA GrantedTyped ==
  ASSUME hist \in Histories
  PROVE  /\ Granted(hist) \in Histories /\ Granted(hist).captures = hist.captures + 1
         /\ Granted(hist).producers = hist.producers /\ Granted(hist).stray = hist.stray
         /\ Granted(hist).overlapped = hist.overlapped
BY DEF Granted, Histories

LEMMA LobbyGone ==
  ASSUME InLobby, phase # "lobby", phase' # "lobby", lobby'.gone = lobby.gone, lobby'.stream = lobby.stream
  PROVE  InLobby' /\ Preview'
BY DEF InLobby, Preview

(* once the capture has ended, nobody asks for it again *)
LEMMA CallGoesOn ==
  ASSUME InLobby, Captures, phase # "lobby", phase' # "lobby", lobby' = lobby,
         call.captured, call'.captured, \A a \in asks' \ asks : a.for # "capture"
  PROVE  InLobby' /\ Preview' /\ Early' /\ Captures'
<1>1. Capturing' = {}
  BY DEF Captures, Capturing
<1>2. Early' /\ Captures'
  BY <1>1 DEF Early, Captures
<1> QED BY <1>2, LobbyGone

LEMMA MicKept ==
  ASSUME Mic, phase' = phase, call' = call, send' = send, Of("mic", open') = Of("mic", open)
  PROVE  Mic'
BY DEF Mic

LEMMA CamKept ==
  ASSUME Cam, phase' = phase, call' = call, send' = send, hist.overlapped \subseteq hist'.overlapped,
         Of("cam", open') = Of("cam", open), FreeCams' = FreeCams,
         Turning' = Turning, Adding' = Adding, SettingUp' \subseteq SettingUp
  PROVE  Cam'
<1> SUFFICES ASSUME phase = "call", call.captured, "cam" \notin hist.overlapped
             PROVE  CamHeld' /\ CamBusyOnce' /\ CamSent'
  BY DEF Cam
<1>1. CamHeld /\ CamBusyOnce /\ CamSent /\ Cams' = Cams
  BY DEF Cam, Cams
<1>2. CamHeld'
  BY <1>1 DEF CamHeld
<1>3. CamBusyOnce'
  BY <1>1 DEF CamBusyOnce
<1>4. CamSent'
  BY <1>1 DEF CamSent, OnTransport
<1> QED BY <1>2, <1>3, <1>4

LEMMA SendingKept ==
  ASSUME Typed, Sound, Sending, phase' = phase, send' = send,
         \A w \in work' \ work : w.job # "setup" /\ (w.job = "replace" => w.of = send.map["cam"]),
         \A w \in SettingUp : w.track \in live' => w.track \in live,
         \A w \in SettingUp : w.track \in live' /\ w.track \in call.stream => w.track \in call'.stream,
         phase = "call" => Of("mic", call.stream) \subseteq call'.stream,
         \A q \in open' : (\E p \in open : p.id = q.id /\ p.kind = q.kind) \/ (send.up /\ q.id = hist.producers + 1)
  PROVE  Sending'
<1>1. SettingUp' \subseteq SettingUp
  BY DEF SettingUp, Working
<1>2. \A w \in SettingUp' :
        /\ send'.at = w.track.kind /\ w.of = send'.n
        /\ w.track \in live' => w.track \in call'.stream
        /\ phase' = "call" /\ w.track.kind = "mic" => w.track \in call'.stream
  BY <1>1 DEF Sending, Of
<1>3. \A v, w \in SettingUp' : v = w
  BY <1>1 DEF Sending
<1>4. ~send'.up => open' = {}
  BY DEF Sending
<1>5. \A q \in open' : \A k \in Kinds : q.id = send'.map[k] => q.kind = k
  BY DEF Sending, Sound, Numbers, Typed, WireTyped, SendStates, Histories
<1>6. \A q \in open' : \A w \in work' : w.job = "replace" /\ q.id = w.of => q.kind = "cam"
  <2> SUFFICES ASSUME NEW q \in open', NEW w \in work', w.job = "replace", q.id = w.of PROVE q.kind = "cam"
    OBVIOUS
  <2>1. CASE w \in work
    BY <2>1 DEF Sending, Sound, WorkSound, Typed, WireTyped, Works, Histories
  <2>2. CASE w \notin work
    BY <1>5, <2>2 DEF Kinds
  <2> QED BY <2>1, <2>2
<1> QED BY <1>2, <1>3, <1>4, <1>5, <1>6 DEF Sending

LEMMA SharingKept ==
  ASSUME Sharing, hist.overlapped \subseteq hist'.overlapped, share' = share, Picking' = Picking,
         Publishing' = Publishing, send' = send, Screens' = Screens, Sound,
         \A p \in open : p.kind = "screen" => \E q \in open' : q.id = p.id /\ q.track = p.track
  PROVE  Sharing'
<1> SUFFICES ASSUME "screen" \notin hist.overlapped PROVE ShareOnce' /\ ShareHeld'
  BY DEF Sharing
<1>1. ShareOnce /\ ShareHeld
  BY DEF Sharing
<1>2. ShareOnce'
  BY <1>1 DEF ShareOnce
<1>3. \A p \in open : p.id = share.producer => \E q \in open' : q.id = p.id /\ q.track = p.track
  BY DEF Sound, Numbers
<1>4. ShareHeld'
  BY <1>1, <1>3 DEF ShareHeld, OnTransport
<1> QED BY <1>2, <1>4

(* until the capture has ended, only the tracks are of interest *)
LEMMA IdleIsSound ==
  ASSUME Idle', Streams'
  PROVE  Sending' /\ Sharing' /\ Of("mic", open') = {} /\ SettingUp' = {} /\ Adding' = {} /\ Turning' = {}
<1>1. /\ work' = {} /\ open' = {} /\ ~send'.up /\ send'.at = "idle"
      /\ share'.producer = 0 /\ share'.stream = {} /\ share'.heard = {}
      /\ \A a \in asks' : a.for \notin {"toggle", "share"}
      /\ ~share'.shown
  BY DEF Idle, Streams
<1>2. /\ SettingUp' = {} /\ Publishing' = {} /\ Picking' = {} /\ Of("mic", open') = {}
      /\ Adding' = {} /\ Turning' = {}
  BY <1>1 DEF SettingUp, Publishing, Picking, Adding, Turning, Working, Asking, Of
<1>3. Sending'
  BY <1>1, <1>2 DEF Sending
<1>4. Sharing'
  BY <1>1, <1>2 DEF Sharing, ShareOnce, ShareHeld
<1> QED BY <1>2, <1>3, <1>4

LEMMA NothingOfTheCall ==
  ASSUME Early', Streams', ~call'.captured
  PROVE  Sending' /\ Mic' /\ Cam' /\ Sharing' /\ NoLostCapture'
<1>1. Idle' /\ live' \subseteq lobby'.stream \cup call'.stream \cup hist'.stray
  BY DEF Early, Idle
<1>2. Sending' /\ Sharing' /\ Of("mic", open') = {}
  BY <1>1, IdleIsSound
<1>3. Mic' /\ Cam'
  BY <1>2 DEF Mic, Cam
<1>4. NoLostCapture'
  BY <1>1 DEF NoLostCapture, Held
<1> QED BY <1>2, <1>3, <1>4

-----------------------------------------------------------------------------
(* the lobby *)

(* what the lobby had asked for and is answered later; T: tracks nobody takes *)
LEMMA AnsweredLater ==
  ASSUME DevicesIInv, phase # "lobby", NEW a \in asks, a.for \in {"preview", "switch"}, asks' = asks \ {a},
         UNCHANGED <<phase, call, send, open, work, share>>,
         NEW T \in SUBSET Tracks, live' = live \cup T, hist'.stray = hist.stray \cup T,
         \A t \in T : t.kind \in Kinds /\ hist.captures < t.id /\ t.id <= hist'.captures,
         hist'.captures >= hist.captures, hist'.producers = hist.producers, hist'.overlapped = hist.overlapped,
         lobby'.gone = lobby.gone, lobby'.stream = lobby.stream, lobby'.enabled = lobby.enabled, Typed'
  PROVE  DevicesIInv'
<1> USE DEF DevicesIInv
<1>1. Turning' = Turning /\ Picking' = Picking /\ Capturing' = Capturing
  BY DEF Turning, Picking, Capturing, Asking
<1>2. \A t \in Known : t.id \in Nat /\ hist.captures \in Nat /\ t \notin T
  BY DEF Typed, PageTyped, WireTyped, LobbyStates, CallStates, ShareStates, Histories, Tracks, Known, Sound, Granteds
<1>3. Sound'
  <2>1. AsksSound' /\ Streams' /\ Numbers'
    BY DEF Sound, AsksSound, Streams, Numbers
  <2>2. WorkSound'
    BY DEF Typed, WireTyped, Works, Tracks, Histories, Sound, WorkSound
  <2>3. Granteds'
    BY <1>2 DEF Typed, PageTyped, WireTyped, Tracks, Histories, Sound, Granteds, Known
  <2> QED BY <2>1, <2>2, <2>3 DEF Sound
<1>4. InLobby' /\ Preview'
  BY LobbyGone
<1>5. Early' /\ Captures'
  BY <1>1 DEF Early, Idle, Captures, Cams
<1>6. \A w \in work : w.track \notin T
  BY DEF Sound, WorkSound, Typed, WireTyped, Works, Tracks, Histories
<1>7. SettingUp' = SettingUp /\ Publishing' = Publishing /\ Adding' = Adding
  BY DEF SettingUp, Publishing, Adding, Working
<1>8. Screens' = Screens /\ FreeCams' = FreeCams
  <2>1. \A t \in T : t \notin live /\ t.kind # "screen"
    BY <1>2 DEF Known, Kinds
  <2> QED BY <2>1 DEF Screens, FreeCams, Of
<1>9. Sending' /\ Mic'
  BY <1>6, SendingKept, MicKept DEF Of, SettingUp, Working
<1>10. Cam' /\ Sharing'
  BY <1>1, <1>7, <1>8, CamKept, SharingKept
<1>11. NoLostCapture'
  BY DEF NoLostCapture, Held
<1> QED BY <1>3, <1>4, <1>5, <1>9, <1>10, <1>11

LEMMA PreviewGrantedKeeps ==
  ASSUME DevicesIInv, NEW a \in asks, PreviewGranted(a)
  PROVE  DevicesIInv'
<1> USE DEF DevicesIInv
<1>1. /\ a.for = "preview" /\ asks' = asks \ {a}
      /\ UNCHANGED <<phase, call, send, open, work, share>>
  BY DEF PreviewGranted
<1>2. CASE phase = "lobby"
  <2>1. PICK K \in SUBSET Kinds :
          LET T == {[kind |-> k, id |-> hist.captures + IF k = "mic" THEN 1 ELSE Cardinality(K)] : k \in K}
          IN /\ live' = T /\ lobby' = [lobby EXCEPT !.stream = T, !.listed = TRUE]
             /\ hist' = [hist EXCEPT !.captures = @ + Cardinality(K)]
    BY <1>2 DEF PreviewGranted
  <2> DEFINE T == {[kind |-> k, id |-> hist.captures + IF k = "mic" THEN 1 ELSE Cardinality(K)] : k \in K}
  <2>2. Cardinality(K) \in Nat /\ (K # {} => Cardinality(K) >= 1)
    <3>1. IsFiniteSet(K)
      BY FS_EmptySet, FS_AddElement, FS_Subset, Kinds = {"mic"} \cup {"cam"}, {"mic"} = {} \cup {"mic"} DEF Kinds
    <3> QED BY <3>1, FS_CardinalityType, FS_EmptySet
  <2>3. /\ T \subseteq Tracks /\ \A t \in T : t.id <= hist.captures + Cardinality(K) /\ t.kind \in Kinds
    BY <2>2 DEF Typed, WireTyped, Histories, Tracks, AllKinds
  <2> HIDE DEF T
  <2>4. /\ live' = T /\ lobby' = [lobby EXCEPT !.stream = T, !.listed = TRUE]
        /\ hist' = [hist EXCEPT !.captures = @ + Cardinality(K)]
    BY <2>1 DEF T
  <2>5. /\ ~lobby.listed /\ ~lobby.gone /\ lobby.stream = {} /\ lobby.enabled = {} /\ lobby.on = {} /\ asks = {a}
        /\ call.stream = {} /\ ~call.captured /\ hist.stray = {}
    BY <1>1, <1>2 DEF InLobby, Sound, Streams
  <2>6. Typed'
    <3>1. lobby' \in LobbyStates
      BY <2>3, <2>4 DEF Typed, PageTyped, LobbyStates
    <3>2. hist' \in Histories
      BY <2>2, <2>4 DEF Typed, WireTyped, Histories
    <3>3. live' \in SUBSET Tracks /\ asks' \in SUBSET AskStates
      BY <1>1, <2>3, <2>4 DEF Typed, PageTyped
    <3> QED BY <1>1, <3>1, <3>2, <3>3 DEF Typed, PageTyped, WireTyped
  <2>7. asks' = {} /\ lobby'.stream = T /\ lobby'.enabled = {} /\ lobby'.on = {} /\ lobby'.listed /\ ~lobby'.gone
        /\ hist'.stray = {} /\ hist'.captures = hist.captures + Cardinality(K) /\ hist'.producers = hist.producers
    BY <1>1, <2>4, <2>5 DEF Typed, PageTyped, WireTyped, LobbyStates, Histories
  <2>8. Sound'
    <3>1. Early
      OBVIOUS
    <3>2. AsksSound' /\ WorkSound' /\ Numbers'
      BY <1>1, <2>5, <2>7, <3>1 DEF Early, Idle, Sound, AsksSound, WorkSound, Numbers
    <3>3. Granteds' /\ Streams'
      BY <1>1, <2>3, <2>4, <2>5, <2>7, <3>1 DEF Early, Idle, Sound, Granteds, Known, Streams
    <3> QED BY <3>2, <3>3 DEF Sound
  <2>9. InLobby' /\ Captures' /\ Early'
    BY <1>1, <1>2, <2>4, <2>5, <2>7 DEF InLobby, Captures, Capturing, Early, Idle
  <2>10. Preview'
    <3> SUFFICES ASSUME NEW k \in Kinds PROVE Asking("switch", k)' = {} /\ LobbyIsTrue(k)'
      BY DEF Preview
    <3> QED BY <2>7 DEF Asking, LobbyIsTrue
  <2> QED BY <1>1, <2>5, <2>6, <2>8, <2>9, <2>10, NothingOfTheCall DEF Sound
<1>3. CASE phase # "lobby"
  <2>1. UNCHANGED <<live, lobby, hist>> /\ {} \in SUBSET Tracks
    BY <1>3 DEF PreviewGranted
  <2>2. Typed' /\ hist.captures \in Nat
    BY <1>1, <2>1 DEF Typed, PageTyped, WireTyped, Histories
  <2>3. live' = live \cup {} /\ hist'.stray = hist.stray \cup {} /\ hist'.captures >= hist.captures
    BY <2>1, <2>2
  <2> QED BY <1>1, <1>3, <2>1, <2>2, <2>3, AnsweredLater
<1> QED BY <1>2, <1>3

LEMMA SwitchDeviceKeeps ==
  ASSUME DevicesIInv, NEW k \in Kinds, SwitchDevice(k)
  PROVE  DevicesIInv'
<1> USE DEF DevicesIInv
<1> DEFINE a == Ask("switch", k)
           T == Of(k, lobby.stream)
<1>1. /\ phase = "lobby" /\ lobby.listed /\ asks' = asks \cup {a} /\ live' = live \ T
      /\ lobby' = [lobby EXCEPT !.stream = @ \ T, !.enabled = @ \ Of(k, @)]
      /\ Click(If(Asking("switch", k) # {}, {k})) /\ If(Asking("switch", k) # {}, {k}) \in SUBSET AllKinds
      /\ UNCHANGED <<phase, call, send, open, work, share>>
  BY DEF SwitchDevice, If, AllKinds
<1>2. /\ lobby'.stream = lobby.stream \ T /\ lobby'.enabled = lobby.enabled \ Of(k, lobby.enabled) /\ lobby'.on = lobby.on
      /\ lobby'.listed = lobby.listed /\ lobby'.gone = lobby.gone
      /\ hist'.captures = hist.captures /\ hist'.producers = hist.producers /\ hist'.stray = hist.stray
      /\ hist'.overlapped = hist.overlapped \cup If(Asking("switch", k) # {}, {k}) /\ hist' \in Histories
  BY <1>1, Clicked DEF Typed, PageTyped, LobbyStates
<1>3. a.for = "switch" /\ a.kind = k /\ a.of = send.n
  BY DEF Ask
<1>4. Typed'
  <2>1. lobby' \in LobbyStates
    BY <1>1 DEF Typed, PageTyped, LobbyStates
  <2>2. hist' \in Histories
    BY <1>2
  <2>3. live' \in SUBSET Tracks
    BY <1>1 DEF Typed, PageTyped
  <2>4. a \in AskStates
    BY DEF Typed, WireTyped, Histories, SendStates, AskStates, Ask, AllKinds
  <2> HIDE DEF a
  <2> QED BY <1>1, <2>1, <2>2, <2>3, <2>4 DEF Typed, PageTyped, WireTyped
<1> HIDE DEF a
<1>5. Sound'
  <2>1. AsksSound' /\ WorkSound' /\ Numbers'
    BY <1>1, <1>2, <1>3 DEF Typed, WireTyped, SendStates, Sound, AsksSound, WorkSound, Numbers
  <2>2. Granteds' /\ Streams'
    BY <1>1, <1>2 DEF Sound, Granteds, Known, Streams, Of
  <2> QED BY <2>1, <2>2 DEF Sound
<1>6. ~call.captured /\ InLobby'
  BY <1>1, <1>2, <1>3 DEF InLobby
<1>7. Early' /\ Captures'
  BY <1>1, <1>2, <1>3, <1>6 DEF InLobby, Early, Idle, Captures, Capturing
<1>8. Preview'
  <2> SUFFICES ASSUME NEW j \in Kinds, j \notin hist'.overlapped
               PROVE  IF Asking("switch", j)' = {} THEN LobbyIsTrue(j)'
                      ELSE Of(j, lobby'.stream) = {} /\ \A b, c \in Asking("switch", j)' : b = c
    BY DEF Preview
  <2>1. IF Asking("switch", j) = {} THEN LobbyIsTrue(j)
        ELSE Of(j, lobby.stream) = {} /\ \A b, c \in Asking("switch", j) : b = c
    BY <1>1, <1>2 DEF Preview
  <2>2. CASE j = k
    <3>1. Asking("switch", k) = {}
      BY <1>2, <2>2 DEF If
    <3>2. Asking("switch", k)' = {a}
      BY <1>1, <1>3, <3>1 DEF Asking
    <3> QED BY <1>2, <2>2, <3>2 DEF Of
  <2>3. CASE j # k
    <3>1. Asking("switch", j)' = Asking("switch", j)
      BY <1>1, <1>3, <2>3 DEF Asking
    <3>2. Of(j, lobby'.stream) = Of(j, lobby.stream)
      BY <1>2, <2>3 DEF Of
    <3>3. LobbyIsTrue(j) => LobbyIsTrue(j)'
      BY <1>2, <2>3 DEF LobbyIsTrue, Of
    <3> QED BY <2>1, <3>1, <3>2, <3>3
  <2> QED BY <2>2, <2>3
<1> QED BY <1>1, <1>4, <1>5, <1>6, <1>7, <1>8, NothingOfTheCall DEF Sound

LEMMA ToggleLobbyKeeps ==
  ASSUME DevicesIInv, NEW k \in Kinds, ToggleLobby(k)
  PROVE  DevicesIInv'
<1> USE DEF DevicesIInv
<1> DEFINE T == Of(k, lobby.stream)
<1>1. /\ phase = "lobby" /\ T # {} /\ Click({})
      /\ \/ /\ First(T) \in lobby.enabled
            /\ lobby' = [lobby EXCEPT !.enabled = @ \ T, !.on = @ \ {k}]
         \/ /\ First(T) \notin lobby.enabled
            /\ lobby' = [lobby EXCEPT !.enabled = @ \cup T, !.on = @ \cup {k}]
      /\ UNCHANGED <<phase, live, asks, call, send, open, work, share>>
  BY DEF ToggleLobby
<1>2. /\ hist'.captures = hist.captures /\ hist'.producers = hist.producers /\ hist'.stray = hist.stray
      /\ hist'.overlapped = hist.overlapped /\ hist' \in Histories
  <2>1. {} \in SUBSET AllKinds /\ Typed
    OBVIOUS
  <2>2. hist.overlapped \cup {} = hist.overlapped
    OBVIOUS
  <2> QED BY <1>1, <2>1, <2>2, Clicked
<1>3. /\ lobby'.stream = lobby.stream /\ lobby'.listed = lobby.listed /\ lobby'.gone = lobby.gone
      /\ \/ lobby'.enabled = lobby.enabled \ T /\ lobby'.on = lobby.on \ {k}
         \/ lobby'.enabled = lobby.enabled \cup T /\ lobby'.on = lobby.on \cup {k}
  <2>1. lobby \in LobbyStates
    BY DEF Typed, PageTyped
  <2> HIDE DEF T
  <2> QED BY <1>1, <2>1 DEF LobbyStates
<1>4. T \subseteq lobby.stream
  BY DEF Of
<1>5. Typed'
  <2>1. lobby' \in LobbyStates
    <3>1. lobby \in LobbyStates /\ T \in SUBSET Tracks /\ k \in Kinds
      BY <1>4 DEF Typed, PageTyped, LobbyStates
    <3> HIDE DEF T
    <3>2. CASE lobby' = [lobby EXCEPT !.enabled = @ \ T, !.on = @ \ {k}]
      BY <3>1, <3>2 DEF LobbyStates
    <3>3. CASE lobby' = [lobby EXCEPT !.enabled = @ \cup T, !.on = @ \cup {k}]
      BY <3>1, <3>3 DEF LobbyStates
    <3> QED BY <1>1, <3>2, <3>3
  <2> QED BY <1>1, <1>2, <2>1 DEF Typed, PageTyped, WireTyped
<1>6. Sound'
  BY <1>1, <1>2, <1>3, <1>4 DEF Sound, AsksSound, WorkSound, Numbers, Granteds, Known, Streams
<1>7. ~call.captured /\ InLobby'
  BY <1>1, <1>2, <1>3, <1>4 DEF InLobby
<1>8. Early' /\ Captures'
  BY <1>1, <1>2, <1>3, <1>7 DEF Early, Idle, Captures, Capturing, Cams, Of
<1>9. Preview'
  <2> SUFFICES ASSUME NEW j \in Kinds, j \notin hist'.overlapped
               PROVE  IF Asking("switch", j)' = {} THEN LobbyIsTrue(j)'
                      ELSE Of(j, lobby'.stream) = {} /\ \A b, c \in Asking("switch", j)' : b = c
    BY DEF Preview
  <2>1. IF Asking("switch", j) = {} THEN LobbyIsTrue(j)
        ELSE Of(j, lobby.stream) = {} /\ \A b, c \in Asking("switch", j) : b = c
    BY <1>1, <1>2 DEF Preview
  <2>2. Asking("switch", j)' = Asking("switch", j)
    BY <1>1 DEF Asking
  <2>3. CASE j = k
    <3>1. (k \in lobby'.on /\ T \subseteq lobby'.enabled) \/ (k \notin lobby'.on /\ T \cap lobby'.enabled = {})
      BY <1>3
    <3>2. LobbyIsTrue(k)'
      BY <1>1, <1>3, <3>1 DEF LobbyIsTrue
    <3> QED BY <1>1, <2>1, <2>2, <2>3, <3>2
  <2>4. CASE j # k
    <3>1. LobbyIsTrue(j) => LobbyIsTrue(j)'
      BY <1>3, <2>4 DEF LobbyIsTrue, Of
    <3> QED BY <1>3, <2>1, <2>2, <3>1
  <2> QED BY <2>3, <2>4
<1> QED BY <1>1, <1>5, <1>6, <1>7, <1>8, <1>9, NothingOfTheCall DEF Sound

LEMMA SwitchRefusedKeeps ==
  ASSUME DevicesIInv, NEW a \in asks, SwitchRefused(a)
  PROVE  DevicesIInv'
<1> USE DEF DevicesIInv
<1>1. /\ a.for = "switch" /\ asks' = asks \ {a} /\ lobby' = [lobby EXCEPT !.on = @ \ {a.kind}]
      /\ UNCHANGED <<phase, live, call, send, open, work, share, hist>>
  BY DEF SwitchRefused
<1>2. /\ lobby'.stream = lobby.stream /\ lobby'.enabled = lobby.enabled /\ lobby'.gone = lobby.gone
      /\ lobby'.listed = lobby.listed /\ lobby'.on = lobby.on \ {a.kind}
  BY <1>1 DEF Typed, PageTyped, LobbyStates
<1>3. Typed'
  <2>1. lobby' \in LobbyStates
    BY <1>1 DEF Typed, PageTyped, LobbyStates
  <2> QED BY <1>1, <2>1 DEF Typed, PageTyped, WireTyped
<1>4. CASE phase = "lobby"
  <2>1. Sound'
    BY <1>1, <1>2 DEF Sound, AsksSound, WorkSound, Granteds, Known, Streams, Numbers
  <2>2. InLobby' /\ lobby.listed /\ ~call.captured
    BY <1>1, <1>2, <1>4 DEF InLobby
  <2>3. Early' /\ Captures'
    BY <1>1, <1>2, <2>2 DEF Early, Idle, Captures, Capturing, Cams
  <2>4. Preview'
    <3> SUFFICES ASSUME NEW k \in Kinds, k \notin hist.overlapped
                 PROVE  IF Asking("switch", k)' = {} THEN LobbyIsTrue(k)'
                        ELSE Of(k, lobby'.stream) = {} /\ \A b, c \in Asking("switch", k)' : b = c
      BY <1>1 DEF Preview
    <3>1. IF Asking("switch", k) = {} THEN LobbyIsTrue(k)
          ELSE Of(k, lobby.stream) = {} /\ \A b, c \in Asking("switch", k) : b = c
      BY <1>4 DEF Preview
    <3>2. CASE k = a.kind
      <4>1. a \in Asking("switch", k)
        BY <1>1, <3>2 DEF Asking
      <4>2. Asking("switch", k)' = {}
        BY <1>1, <3>1, <4>1 DEF Asking
      <4>3. LobbyIsTrue(k)'
        BY <1>2, <3>1, <3>2, <4>1 DEF LobbyIsTrue
      <4> QED BY <4>2, <4>3
    <3>3. CASE k # a.kind
      <4>1. Asking("switch", k)' = Asking("switch", k)
        BY <1>1, <3>3 DEF Asking
      <4>2. LobbyIsTrue(k) => LobbyIsTrue(k)'
        BY <1>2, <3>3 DEF LobbyIsTrue
      <4> QED BY <1>2, <3>1, <4>1, <4>2
    <3> QED BY <3>2, <3>3
  <2> QED BY <1>1, <1>3, <2>1, <2>2, <2>3, <2>4, NothingOfTheCall DEF Sound
<1>5. CASE phase # "lobby"
  <2>1. {} \in SUBSET Tracks /\ hist.captures \in Nat
    BY DEF Typed, WireTyped, Histories
  <2>2. live' = live \cup {} /\ hist'.stray = hist.stray \cup {} /\ hist'.captures >= hist.captures
    BY <1>1, <2>1
  <2> QED BY <1>1, <1>2, <1>3, <1>5, <2>1, <2>2, AnsweredLater
<1> QED BY <1>4, <1>5

LEMMA SwitchGrantedKeeps ==
  ASSUME DevicesIInv, NEW a \in asks, SwitchGranted(a)
  PROVE  DevicesIInv'
<1> USE DEF DevicesIInv
<1> DEFINE t == Fresh(a.kind)
<1>1. /\ a.for = "switch" /\ asks' = asks \ {a} /\ live' = live \cup {t}
      /\ \/ lobby.gone /\ hist' = [Granted(hist) EXCEPT !.stray = @ \cup {t}] /\ lobby' = lobby
         \/ /\ ~lobby.gone /\ hist' = Granted(hist)
            /\ lobby' = [lobby EXCEPT !.stream = @ \cup {t}, !.enabled = @ \cup If(a.kind \in lobby.on, {t})]
      /\ UNCHANGED <<phase, call, send, open, work, share>>
  BY DEF SwitchGranted
<1>2. t \in Tracks /\ t.kind = a.kind /\ t.id = hist.captures + 1 /\ a.kind \in Kinds /\ hist \in Histories
  BY <1>1 DEF Fresh, Typed, PageTyped, WireTyped, Histories, AskStates, Tracks, Sound, AsksSound
<1> HIDE DEF t
<1>3. /\ hist' \in Histories /\ hist'.captures = hist.captures + 1 /\ hist'.producers = hist.producers
      /\ hist'.overlapped = hist.overlapped /\ hist'.stray = hist.stray \cup If(lobby.gone, {t})
  <2>1. CASE lobby.gone
    <3>1. hist' = [Granted(hist) EXCEPT !.stray = @ \cup {t}]
      BY <1>1, <2>1
    <3> QED BY <1>2, <2>1, <3>1, GrantedTyped DEF Histories, If
  <2>2. CASE ~lobby.gone
    <3>1. hist' = Granted(hist)
      BY <1>1, <2>2
    <3> QED BY <1>2, <2>2, <3>1, GrantedTyped DEF If
  <2> QED BY <2>1, <2>2
<1>4. /\ lobby' \in LobbyStates /\ lobby'.gone = lobby.gone /\ lobby'.listed = lobby.listed /\ lobby'.on = lobby.on
      /\ lobby'.stream = lobby.stream \cup If(~lobby.gone, {t})
      /\ lobby'.enabled = lobby.enabled \cup If(~lobby.gone /\ a.kind \in lobby.on, {t})
  <2>1. CASE lobby.gone
    BY <1>1, <2>1 DEF Typed, PageTyped, If
  <2>2. CASE ~lobby.gone
    <3>1. lobby \in LobbyStates /\ If(a.kind \in lobby.on, {t}) \subseteq {t}
      BY DEF Typed, PageTyped, If
    <3>2. lobby' = [lobby EXCEPT !.stream = @ \cup {t}, !.enabled = @ \cup If(a.kind \in lobby.on, {t})]
      BY <1>1, <2>2
    <3>3. lobby' \in LobbyStates
      BY <1>2, <3>1, <3>2 DEF LobbyStates
    <3> QED BY <2>2, <3>1, <3>2, <3>3 DEF LobbyStates, If
  <2> QED BY <2>1, <2>2
<1>5. Typed'
  BY <1>1, <1>2, <1>3, <1>4 DEF Typed, PageTyped, WireTyped
<1>6. CASE phase = "lobby"
  <2>1. /\ ~lobby.gone /\ lobby'.stream = lobby.stream \cup {t} /\ hist'.stray = hist.stray
        /\ lobby'.enabled = lobby.enabled \cup If(a.kind \in lobby.on, {t})
    BY <1>3, <1>4, <1>6 DEF InLobby, If
  <2>2. Sound'
    <3>1. AsksSound' /\ Streams' /\ Numbers'
      BY <1>1, <1>2, <1>3, <2>1 DEF Sound, AsksSound, Streams, Numbers, If
    <3>2. WorkSound'
      BY <1>1, <1>3 DEF Typed, WireTyped, Histories, Works, Tracks, Sound, WorkSound
    <3>3. Granteds'
      <4>1. \A u \in Known' : u = t \/ u \in Known
        BY <1>1, <2>1 DEF Known
      <4>2. Known \subseteq Tracks
        BY DEF Typed, PageTyped, WireTyped, LobbyStates, CallStates, ShareStates, Histories, Known
      <4> QED BY <1>2, <1>3, <4>1, <4>2 DEF Histories, Tracks, Sound, Granteds
    <3> QED BY <3>1, <3>2, <3>3 DEF Sound
  <2>3. InLobby' /\ ~call.captured
    BY <1>1, <1>4, <1>6, <2>1 DEF InLobby
  <2>4. Early' /\ Captures'
    <3>1. \A b \in asks' : b.for \in {"preview", "switch"}
      BY <1>1, <1>6 DEF InLobby
    <3>2. Early'
      BY <1>1, <2>1, <2>3, <3>1 DEF Early, Idle
    <3>3. Captures'
      BY <3>1 DEF Captures, Capturing
    <3> QED BY <3>2, <3>3
  <2>5. Preview'
    <3> SUFFICES ASSUME NEW k \in Kinds, k \notin hist.overlapped
                 PROVE  IF Asking("switch", k)' = {} THEN LobbyIsTrue(k)'
                        ELSE Of(k, lobby'.stream) = {} /\ \A b, c \in Asking("switch", k)' : b = c
      BY <1>3 DEF Preview
    <3>1. IF Asking("switch", k) = {} THEN LobbyIsTrue(k)
          ELSE Of(k, lobby.stream) = {} /\ \A b, c \in Asking("switch", k) : b = c
      BY <1>6 DEF Preview
    <3>2. CASE k = a.kind
      <4>1. a \in Asking("switch", k)
        BY <1>1, <3>2 DEF Asking
      <4>2. Asking("switch", k)' = {} /\ Of(k, lobby.stream) = {}
        BY <1>1, <3>1, <4>1 DEF Asking
      <4>3. Of(k, lobby'.stream) = {t} /\ lobby.enabled \cap {t} = {}
        BY <1>2, <2>1, <3>2, <4>2 DEF Of, Sound, Streams
      <4>4. LobbyIsTrue(k)'
        BY <1>4, <2>1, <3>2, <4>3 DEF LobbyIsTrue, If
      <4> QED BY <4>2, <4>4
    <3>3. CASE k # a.kind
      <4>1. Asking("switch", k)' = Asking("switch", k)
        BY <1>1, <3>3 DEF Asking
      <4>2. Of(k, lobby'.stream) = Of(k, lobby.stream) /\ t \notin Of(k, lobby.stream)
        BY <1>2, <2>1, <3>3 DEF Of
      <4>3. LobbyIsTrue(k) => LobbyIsTrue(k)'
        BY <1>4, <2>1, <4>2 DEF LobbyIsTrue, If
      <4> QED BY <3>1, <4>1, <4>2, <4>3
    <3> QED BY <3>2, <3>3
  <2> QED BY <1>1, <1>5, <2>2, <2>3, <2>4, <2>5, NothingOfTheCall DEF Sound
<1>7. CASE phase # "lobby"
  <2>1. lobby.gone
    BY <1>7 DEF InLobby
  <2>2. lobby'.stream = lobby.stream /\ lobby'.enabled = lobby.enabled /\ hist'.stray = hist.stray \cup {t}
    BY <1>3, <1>4, <2>1 DEF If
  <2>3. {t} \in SUBSET Tracks /\ hist.captures \in Nat
    BY <1>2 DEF Histories
  <2>4. hist'.captures >= hist.captures /\ \A u \in {t} : u.kind \in Kinds /\ hist.captures < u.id /\ u.id <= hist'.captures
    BY <1>2, <1>3, <2>3
  <2> QED BY <1>1, <1>3, <1>4, <1>5, <1>7, <2>2, <2>3, <2>4, AnsweredLater
<1> QED BY <1>6, <1>7

LEMMA LeaveLobbyKeeps ==
  ASSUME DevicesIInv, NEW next \in {"call", "left"}, LeaveLobby(next)
  PROVE  DevicesIInv'
<1> USE DEF DevicesIInv
<1>1. /\ phase = "lobby" /\ phase' = next /\ live' = live \ lobby.stream
      /\ lobby' = [stream |-> {}, enabled |-> {}, on |-> {}, listed |-> FALSE, gone |-> TRUE]
      /\ call' = [call EXCEPT !.desired = lobby.on]
      /\ asks' = asks \cup If(next = "call", {Ask("capture", "mic")})
      /\ UNCHANGED <<send, open, work, share, hist>>
  BY DEF LeaveLobby, StoppedInLobby
<1>2. /\ call'.stream = call.stream /\ call'.captured = call.captured /\ call'.shown = call.shown
      /\ ~call.captured /\ call.stream = {} /\ live' = {} /\ hist.stray = {}
      /\ \A a \in asks : a.for \in {"preview", "switch"}
  BY <1>1 DEF Typed, PageTyped, CallStates, InLobby
<1>3. Ask("capture", "mic") \in AskStates
  BY DEF Typed, WireTyped, Histories, SendStates, AskStates, Ask, AllKinds, Kinds
<1>4. Typed'
  <2>1. lobby' \in LobbyStates /\ call' \in CallStates
    BY <1>1 DEF Typed, PageTyped, LobbyStates, CallStates
  <2>2. asks' \in SUBSET AskStates
    BY <1>1, <1>3 DEF Typed, PageTyped, If
  <2> QED BY <1>1, <1>2, <2>1, <2>2 DEF Typed, PageTyped, WireTyped
<1>5. Sound'
  <2>1. AsksSound'
    BY <1>1 DEF Typed, WireTyped, SendStates, Sound, AsksSound, Ask, If, Kinds
  <2>2. WorkSound' /\ Numbers'
    BY <1>1 DEF Sound, WorkSound, Numbers
  <2>3. Granteds' /\ Streams'
    BY <1>1, <1>2 DEF Sound, Granteds, Known, Streams
  <2> QED BY <2>1, <2>2, <2>3 DEF Sound
<1>6. InLobby' /\ Preview'
  BY <1>1 DEF InLobby, Preview
<1>7. Captures'
  BY <1>1, <1>2 DEF Captures, Capturing, If, Ask, Cams, Of
<1>8. Early'
  BY <1>1, <1>2 DEF Early, Idle, If, Ask
<1> QED BY <1>2, <1>4, <1>5, <1>6, <1>7, <1>8, NothingOfTheCall DEF Sound

-----------------------------------------------------------------------------
(* the capture *)

LEMMA CaptureAnsweredKeeps ==
  ASSUME DevicesIInv, NEW a \in asks, CaptureAnswered(a)
  PROVE  DevicesIInv'
<1> USE DEF DevicesIInv
<1> DEFINE more == a.kind = "mic" /\ "cam" \in call.desired
<1>1. PICK T \in {{}} \cup If(Granting, {{Fresh(a.kind)}}) :
        /\ hist' = IF T = {} THEN hist ELSE Granted(hist)
        /\ asks' = (asks \ {a}) \cup If(more, {Ask("capture", "cam")})
        /\ live' = IF phase = "left" /\ ~more THEN live \ (call.stream \cup T) ELSE live \cup T
        /\ call' = IF more THEN [call EXCEPT !.stream = call.stream \cup T]
                   ELSE IF phase = "left" THEN [call EXCEPT !.stream = {}]
                   ELSE [call EXCEPT !.stream = call.stream \cup T, !.captured = TRUE,
                           !.shown = {k \in call.desired : Of(k, call.stream \cup T) # {}}]
  BY DEF CaptureAnswered
<1> HIDE DEF more
<1>2. a.for = "capture" /\ UNCHANGED <<phase, lobby, send, open, work, share>>
  BY DEF CaptureAnswered
<1>3. /\ phase # "lobby" /\ ~call.captured /\ Capturing = {a} /\ a.kind \in Kinds /\ lobby.stream = {}
      /\ a.kind = "mic" => call.stream = {}
      /\ a.kind = "cam" => /\ Cams = {}
                           /\ phase = "call" /\ "cam" \notin hist.overlapped => "cam" \in call.desired
  BY <1>2 DEF Captures, Capturing, Sound, AsksSound, InLobby
<1>4. Idle /\ live \subseteq call.stream \cup hist.stray
  BY <1>3 DEF Early
<1>5. hist \in Histories /\ \A t \in T : /\ t \in Tracks /\ t.kind = a.kind /\ t.id = hist.captures + 1
                                         /\ \A u \in T : t = u
  BY <1>1, <1>3 DEF If, Fresh, Typed, WireTyped, Histories, Tracks, AllKinds
<1>6. /\ hist' \in Histories /\ hist'.captures >= hist.captures /\ (T # {} => hist'.captures = hist.captures + 1)
      /\ hist'.producers = hist.producers /\ hist'.stray = hist.stray /\ hist'.overlapped = hist.overlapped
  <2>1. hist.captures + 1 >= hist.captures /\ hist.captures >= hist.captures
    BY <1>5 DEF Histories
  <2>2. CASE T = {}
    BY <1>1, <1>5, <2>1, <2>2
  <2>3. CASE T # {}
    <3>1. hist' = Granted(hist)
      BY <1>1, <2>3
    <3> QED BY <1>5, <2>1, <3>1, GrantedTyped
  <2> QED BY <2>2, <2>3
<1>7. /\ call' \in CallStates /\ call'.desired = call.desired
      /\ call'.stream = IF ~more /\ phase = "left" THEN {} ELSE call.stream \cup T
      /\ call'.captured = (~more /\ phase # "left")
      /\ call'.shown = IF ~more /\ phase # "left" THEN {k \in call.desired : Of(k, call.stream \cup T) # {}} ELSE {}
  <2>1. call \in CallStates /\ T \subseteq Tracks /\ call.shown = {} /\ ~call.captured
    BY <1>3, <1>5 DEF Early, Typed, PageTyped
  <2>2. CASE more
    BY <1>1, <2>1, <2>2 DEF CallStates
  <2>3. CASE ~more /\ phase = "left"
    BY <1>1, <2>1, <2>3 DEF CallStates
  <2>4. CASE ~more /\ phase # "left"
    <3> DEFINE U == call.stream \cup T
               V == {k \in call.desired : Of(k, call.stream \cup T) # {}}
    <3>1. U \in SUBSET Tracks /\ V \in SUBSET Kinds
      BY <2>1 DEF CallStates
    <3>2. call' = [call EXCEPT !.stream = U, !.captured = TRUE, !.shown = V]
      BY <1>1, <2>4
    <3> HIDE DEF U, V
    <3>3. call' \in CallStates /\ call'.desired = call.desired /\ call'.stream = U /\ call'.captured /\ call'.shown = V
      BY <2>1, <3>1, <3>2 DEF CallStates
    <3> QED BY <2>4, <3>3 DEF U, V
  <2> QED BY <2>2, <2>3, <2>4
<1>8. /\ \A b \in asks' : b \in asks \ {a} \/ (more /\ b = Ask("capture", "cam"))
      /\ Ask("capture", "cam") \in AskStates /\ Ask("capture", "cam").for = "capture"
      /\ Ask("capture", "cam").kind = "cam" /\ Ask("capture", "cam").of = send.n
  BY <1>1 DEF If, Ask, AskStates, AllKinds, Kinds, Typed, WireTyped, SendStates, Histories
<1>9. Typed'
  <2>1. asks' \in SUBSET AskStates
    BY <1>8 DEF Typed, PageTyped
  <2>2. live' \in SUBSET Tracks
    BY <1>1, <1>5 DEF Typed, PageTyped
  <2> QED BY <1>2, <1>6, <1>7, <2>1, <2>2 DEF Typed, PageTyped, WireTyped
<1>10. Sound'
  <2>1. AsksSound'
    BY <1>2, <1>8 DEF Sound, AsksSound, Typed, WireTyped, SendStates, Kinds
  <2>2. WorkSound' /\ Numbers'
    BY <1>2, <1>4, <1>6 DEF Idle, Sound, WorkSound, Numbers
  <2>3. Granteds'
    <3>1. \A u \in Known' : u \in T \/ u \in Known
      BY <1>1, <1>2, <1>6, <1>7 DEF Known
    <3>2. Known \subseteq Tracks
      BY DEF Typed, PageTyped, WireTyped, LobbyStates, CallStates, ShareStates, Histories, Known
    <3> QED BY <1>5, <1>6, <3>1, <3>2 DEF Histories, Tracks, Sound, Granteds
  <2>4. Streams'
    BY <1>2, <1>3, <1>5, <1>7 DEF Sound, Streams, Cams, Of, Kinds
  <2> QED BY <2>1, <2>2, <2>3, <2>4 DEF Sound
<1>11. InLobby' /\ Preview'
  BY <1>2, <1>3, LobbyGone
<1>12. Idle'
  BY <1>2, <1>4, <1>8 DEF Idle
<1>13. Early'
  BY <1>1, <1>2, <1>4, <1>6, <1>7, <1>12 DEF Early
<1>14. Captures'
  <2>1. \A b \in Capturing' : more /\ b = Ask("capture", "cam")
    BY <1>3, <1>8 DEF Capturing
  <2>2. more => Cams' = {} /\ "cam" \in call.desired
    BY <1>3, <1>5, <1>7 DEF more, Cams, Of
  <2> QED BY <1>2, <1>3, <1>7, <1>8, <2>1, <2>2 DEF Captures
<1>15. CASE call'.captured
  <2>1. phase = "call" /\ ~more /\ call'.stream = call.stream \cup T /\ live' = live \cup T
        /\ call'.shown = {k \in call.desired : Of(k, call'.stream) # {}}
    <3>1. phase = "call" /\ ~more
      <4>1. call'.captured = (~more /\ phase # "left") /\ phase \in {"lobby", "call", "left"}
        BY <1>7 DEF Typed, PageTyped
      <4> QED BY <1>3, <1>15, <4>1
    <3>2. live' = live \cup T
      BY <1>1, <3>1
    <3>3. call'.stream = call.stream \cup T /\ call'.shown = {k \in call.desired : Of(k, call.stream \cup T) # {}}
      BY <1>7, <3>1
    <3> QED BY <3>1, <3>2, <3>3
  <2>2. /\ Sending' /\ Sharing' /\ Of("mic", open') = {} /\ SettingUp' = {} /\ Adding' = {} /\ Turning' = {}
        /\ open' = {}
    BY <1>10, <1>12, IdleIsSound DEF Sound, Idle
  <2>3. Mic'
    BY <1>7, <2>1, <2>2 DEF Mic
  <2>4. Cam'
    <3> SUFFICES ASSUME "cam" \notin hist.overlapped PROVE CamHeld' /\ CamBusyOnce' /\ CamSent'
      BY <1>6 DEF Cam
    <3>1. Cams' \subseteq T /\ (Cams' # {} => "cam" \in call.desired)
      BY <1>3, <1>5, <2>1 DEF more, Cams, Of, Kinds
    <3>2. \A t \in T : t \notin hist.stray
      BY <1>5 DEF Sound, Granteds, Known, Histories
    <3>3. Cams' \subseteq FreeCams'
      BY <1>6, <2>1, <3>1, <3>2 DEF Cams, FreeCams, Of
    <3>4. FreeCams' \subseteq Cams'
      BY <1>4, <1>6, <2>1 DEF Cams, FreeCams, Of
    <3>5. "cam" \in call'.shown <=> Cams' # {}
      BY <2>1, <3>1 DEF Cams
    <3>6. CamHeld'
      BY <1>7, <3>1, <3>3, <3>4, <3>5 DEF CamHeld
    <3>7. CamBusyOnce' /\ CamSent'
      BY <2>2 DEF CamBusyOnce, CamSent, Of
    <3> QED BY <3>6, <3>7
  <2>5. NoLostCapture'
    BY <1>4, <1>6, <2>1 DEF NoLostCapture, Held
  <2> QED BY <1>9, <1>10, <1>11, <1>13, <1>14, <2>2, <2>3, <2>4, <2>5
<1>16. CASE ~call'.captured
  BY <1>9, <1>10, <1>11, <1>13, <1>14, <1>16, NothingOfTheCall DEF Sound
<1> QED BY <1>7, <1>15, <1>16

-----------------------------------------------------------------------------
(* the screen share *)

LEMMA ShareScreenKeeps ==
  ASSUME DevicesIInv, ShareScreen
  PROVE  DevicesIInv'
<1> USE DEF DevicesIInv
<1> DEFINE a == Ask("share", "screen")
           K == If(ShareBusy, {"screen"})
<1>1. /\ phase = "call" /\ ~share.shown /\ share.producer = 0 /\ send.up /\ Click(K) /\ asks' = asks \cup {a}
      /\ UNCHANGED <<phase, live, lobby, call, send, open, work, share>>
  BY DEF ShareScreen
<1>2. a.for = "share" /\ a.kind = "screen" /\ a.of = send.n /\ a \in AskStates
  BY DEF Ask, AskStates, AllKinds, Typed, WireTyped, SendStates, Histories
<1>3. K \in SUBSET AllKinds /\ ("screen" \notin K => Picking = {} /\ Publishing = {})
  BY DEF If, ShareBusy, Picking, Publishing, AllKinds
<1> HIDE DEF a, K
<1>4. /\ hist' \in Histories
      /\ hist'.captures = hist.captures /\ hist'.producers = hist.producers /\ hist'.stray = hist.stray
      /\ hist'.overlapped = hist.overlapped \cup K
  BY <1>1, <1>3, Clicked
<1>5. Typed' /\ Sound'
  <2>1. Typed'
    BY <1>1, <1>2, <1>4 DEF Typed, PageTyped, WireTyped
  <2>2. AsksSound'
    BY <1>1, <1>2 DEF Sound, AsksSound, Typed, WireTyped, SendStates
  <2>3. WorkSound' /\ Granteds' /\ Streams' /\ Numbers'
    BY <1>1, <1>4 DEF Sound, WorkSound, Granteds, Known, Streams, Numbers
  <2> QED BY <2>1, <2>2, <2>3 DEF Sound
<1>6. call.captured
  BY <1>1 DEF Early, Idle
<1>7. InLobby' /\ Preview' /\ Early' /\ Captures'
  BY <1>1, <1>2, <1>6, CallGoesOn
<1>8. /\ Turning' = Turning /\ Adding' = Adding /\ SettingUp' = SettingUp /\ Publishing' = Publishing
      /\ FreeCams' = FreeCams /\ Screens' = Screens /\ Picking' = Picking \cup {a}
  BY <1>1, <1>2, <1>4 DEF Turning, Picking, Asking, Adding, SettingUp, Publishing, Working, FreeCams, Screens
<1>9. Sending' /\ Mic' /\ Cam'
  BY <1>1, <1>4, <1>8, SendingKept, MicKept, CamKept DEF Of, Sound
<1>10. Sharing'
  <2> SUFFICES ASSUME "screen" \notin hist'.overlapped PROVE ShareOnce' /\ ShareHeld'
    BY DEF Sharing
  <2>1. Picking = {} /\ Publishing = {} /\ ShareOnce /\ ShareHeld
    BY <1>3, <1>4 DEF Sharing
  <2>2. ShareOnce'
    BY <1>8, <2>1 DEF ShareOnce
  <2>3. ShareHeld'
    BY <1>1, <1>8, <2>1 DEF ShareHeld
  <2> QED BY <2>2, <2>3
<1>11. NoLostCapture'
  BY <1>1, <1>4 DEF NoLostCapture, Held
<1> QED BY <1>5, <1>7, <1>9, <1>10, <1>11

LEMMA ShareGrantedKeeps ==
  ASSUME DevicesIInv, NEW a \in asks, ShareGranted(a)
  PROVE  DevicesIInv'
<1> USE DEF DevicesIInv
<1> DEFINE t == Fresh("screen")
           w == [job |-> "share", track |-> t, of |-> a.of]
<1>1. /\ a.for = "share" /\ asks' = asks \ {a} /\ live' = live \cup {t} /\ hist' = Granted(hist)
      /\ work' = work \cup {w} /\ UNCHANGED <<phase, lobby, call, send, open, share>>
  BY DEF ShareGranted
<1>2. hist \in Histories /\ t \in Tracks /\ t.kind = "screen" /\ t.id = hist.captures + 1
  BY DEF Fresh, Typed, WireTyped, Histories, Tracks, AllKinds
<1>3. w \in Works /\ w.job = "share" /\ w.track = t /\ w.of = a.of
  BY <1>2 DEF Works, Typed, PageTyped, AskStates
<1> HIDE DEF t, w
<1>4. /\ hist' \in Histories /\ hist'.captures = hist.captures + 1 /\ hist'.producers = hist.producers
      /\ hist'.stray = hist.stray /\ hist'.overlapped = hist.overlapped
  BY <1>1, <1>2, GrantedTyped
<1>5. Known \subseteq Tracks /\ t \notin Known /\ Known' = Known \cup {t}
  <2>1. Known \subseteq Tracks
    BY DEF Typed, PageTyped, WireTyped, LobbyStates, CallStates, ShareStates, Histories, Known
  <2>2. Known' = Known \cup {t}
    BY <1>1, <1>4 DEF Known
  <2> QED BY <1>2, <2>1, <2>2 DEF Sound, Granteds, Histories
<1>6. Typed' /\ Sound'
  <2>1. Typed'
    BY <1>1, <1>2, <1>3, <1>4 DEF Typed, PageTyped, WireTyped
  <2>2. AsksSound' /\ Streams' /\ Numbers'
    BY <1>1, <1>4 DEF Sound, AsksSound, Streams, Numbers
  <2>3. WorkSound'
    BY <1>1, <1>2, <1>3, <1>4 DEF Sound, AsksSound, WorkSound, Typed, WireTyped, Works, Tracks, Histories
  <2>4. Granteds'
    BY <1>2, <1>4, <1>5 DEF Sound, Granteds, Histories, Tracks
  <2> QED BY <2>1, <2>2, <2>3, <2>4 DEF Sound
<1>7. call.captured /\ phase # "lobby"
  BY <1>1 DEF Early, Idle, InLobby
<1>8. InLobby' /\ Preview' /\ Early' /\ Captures'
  BY <1>1, <1>7, CallGoesOn
<1>9. /\ Turning' = Turning /\ Adding' = Adding /\ SettingUp' = SettingUp /\ Publishing' = Publishing \cup {w}
      /\ FreeCams' = FreeCams /\ Screens' = Screens \cup {t} /\ Picking' = Picking \ {a}
  BY <1>1, <1>2, <1>3, <1>4
     DEF Turning, Picking, Asking, Adding, SettingUp, Publishing, Working, FreeCams, Screens, Of
<1>10. Sending' /\ Mic' /\ Cam'
  <2>1. \A v \in SettingUp : v.track # t
    BY <1>2 DEF SettingUp, Working, Sound, WorkSound, Histories
  <2> QED BY <1>1, <1>3, <1>4, <1>9, <2>1, SendingKept, MicKept, CamKept DEF Of, Sound
<1>11. Sharing'
  <2> SUFFICES ASSUME "screen" \notin hist.overlapped PROVE ShareOnce' /\ ShareHeld'
    BY <1>4 DEF Sharing
  <2>1. a \in Picking
    BY <1>1 DEF Picking, Asking, Sound, AsksSound
  <2>2. Picking' = {} /\ Publishing = {} /\ ~share.shown /\ ShareHeld
    BY <1>9, <2>1 DEF Sharing, ShareOnce, ShareHeld
  <2>3. ShareOnce'
    BY <1>9, <2>2 DEF ShareOnce
  <2>4. t \notin share.heard
    BY <1>5 DEF Known
  <2>5. ShareHeld'
    BY <1>1, <1>3, <1>9, <2>2, <2>4 DEF ShareHeld
  <2> QED BY <2>3, <2>5
<1>12. NoLostCapture'
  BY <1>1, <1>3, <1>4 DEF NoLostCapture, Held
<1> QED BY <1>6, <1>8, <1>10, <1>11, <1>12

LEMMA ShareRefusedKeeps ==
  ASSUME DevicesIInv, NEW a \in asks, ShareRefused(a)
  PROVE  DevicesIInv'
<1> USE DEF DevicesIInv
<1>1. /\ a.for = "share" /\ asks' = asks \ {a}
      /\ UNCHANGED <<phase, live, lobby, call, send, open, work, share, hist>>
  BY DEF ShareRefused
<1>2. Typed' /\ Sound'
  BY <1>1 DEF Typed, PageTyped, WireTyped, Sound, AsksSound, WorkSound, Granteds, Known, Streams, Numbers
<1>3. call.captured /\ phase # "lobby"
  BY <1>1 DEF Early, Idle, InLobby
<1>4. InLobby' /\ Preview' /\ Early' /\ Captures'
  BY <1>1, <1>3, CallGoesOn
<1>5. /\ Turning' = Turning /\ Adding' = Adding /\ SettingUp' = SettingUp /\ Publishing' = Publishing
      /\ FreeCams' = FreeCams /\ Screens' = Screens /\ Picking' = Picking \ {a}
  BY <1>1 DEF Turning, Picking, Asking, Adding, SettingUp, Publishing, Working, FreeCams, Screens
<1>6. Sending' /\ Mic' /\ Cam'
  BY <1>1, <1>5, SendingKept, MicKept, CamKept DEF Of, Sound
<1>7. Sharing'
  BY <1>1, <1>5 DEF Sharing, ShareOnce, ShareHeld, OnTransport
<1>8. NoLostCapture'
  BY <1>1 DEF NoLostCapture, Held
<1> QED BY <1>2, <1>4, <1>6, <1>7, <1>8

LEMMA ShareProducedKeeps ==
  ASSUME DevicesIInv, NEW w \in work, ShareProduced(w)
  PROVE  DevicesIInv'
<1> USE DEF DevicesIInv
<1>1. w.job = "share" /\ UNCHANGED <<phase, live, asks, lobby, call, send>>
  BY DEF ShareProduced
<1>2. /\ hist \in Histories /\ send \in SendStates /\ share \in ShareStates
      /\ w \in Works /\ w.track \in Tracks /\ w.track.kind = "screen" /\ w.of <= send.n /\ w.track.id <= hist.captures
      /\ w \in Publishing
  BY <1>1 DEF Typed, WireTyped, Works, Sound, WorkSound, Publishing, Working
<1>3. call.captured /\ phase # "lobby"
  BY <1>1 DEF Early, Idle, InLobby
<1>4. InLobby' /\ Preview' /\ Early' /\ Captures'
  BY <1>1, <1>3, CallGoesOn
<1>5. Turning' = Turning /\ Picking' = Picking /\ Screens' = Screens
  BY <1>1 DEF Turning, Picking, Asking, Screens
<1>6. CASE work' = work \ {w} /\ hist' = [hist EXCEPT !.stray = @ \cup {w.track}] /\ UNCHANGED <<open, share>>
  <2>1. /\ hist' \in Histories /\ hist'.captures = hist.captures /\ hist'.producers = hist.producers
        /\ hist'.stray = hist.stray \cup {w.track} /\ hist'.overlapped = hist.overlapped
    BY <1>2, <1>6 DEF Histories
  <2>2. Typed' /\ Sound'
    <3>1. Typed'
      BY <1>1, <1>6, <2>1 DEF Typed, PageTyped, WireTyped
    <3>2. AsksSound' /\ WorkSound' /\ Streams' /\ Numbers'
      BY <1>1, <1>6, <2>1 DEF Sound, AsksSound, WorkSound, Streams, Numbers
    <3>3. Granteds'
      BY <1>1, <1>2, <1>6, <2>1 DEF Sound, Granteds, Known
    <3> QED BY <3>1, <3>2, <3>3 DEF Sound
  <2>3. /\ Adding' = Adding /\ SettingUp' = SettingUp /\ Publishing' = Publishing \ {w} /\ FreeCams' = FreeCams
    BY <1>1, <1>2, <1>6, <2>1 DEF Adding, SettingUp, Publishing, Working, FreeCams, Of
  <2>4. Sending' /\ Mic' /\ Cam'
    BY <1>1, <1>5, <1>6, <2>1, <2>3, SendingKept, MicKept, CamKept DEF Of, Sound
  <2>5. Sharing'
    BY <1>1, <1>2, <1>5, <1>6, <2>1, <2>3 DEF Sharing, ShareOnce, ShareHeld, OnTransport
  <2>6. NoLostCapture'
    BY <1>1, <1>6, <2>1 DEF NoLostCapture, Held
  <2> QED BY <1>4, <2>2, <2>4, <2>5, <2>6
<1>7. CASE /\ OnTransport(w) /\ w.track \in live /\ work' = (work \ {w}) \cup {[w EXCEPT !.job = "shareAudio"]}
           /\ open' = open \cup {NewProducer(w, "screen", FALSE)}
           /\ share' = [share EXCEPT !.producer = hist.producers + 1] /\ hist' = Produced(hist)
  <2> DEFINE v == [w EXCEPT !.job = "shareAudio"]
             p == NewProducer(w, "screen", FALSE)
  <2>1. v \in Works /\ v.job = "shareAudio" /\ v.track = w.track /\ v.of = w.of
    BY <1>2 DEF Works
  <2>2. p \in ProducerStates /\ p.kind = "screen" /\ p.id = hist.producers + 1 /\ p.track = v.track
    BY <1>2 DEF NewProducer, ProducerStates, AllKinds, Histories
  <2> HIDE DEF v, p
  <2>3. work' = (work \ {w}) \cup {v} /\ open' = open \cup {p} /\ send.up /\ w.of = send.n
    BY <1>7 DEF v, p, OnTransport
  <2>4. /\ hist' \in Histories /\ hist'.captures = hist.captures /\ hist'.producers = hist.producers + 1
        /\ hist'.stray = hist.stray /\ hist'.overlapped = hist.overlapped
    BY <1>2, <1>7 DEF Produced, Histories
  <2>5. /\ share' \in ShareStates /\ share'.producer = hist.producers + 1 /\ share'.stream = share.stream
        /\ share'.shown = share.shown /\ share'.heard = share.heard
    BY <1>2, <1>7 DEF Histories, ShareStates
  <2>6. Typed' /\ Sound'
    <3>1. Typed'
      BY <1>1, <2>1, <2>2, <2>3, <2>4, <2>5 DEF Typed, PageTyped, WireTyped
    <3>2. AsksSound' /\ Streams'
      BY <1>1, <2>5 DEF Sound, AsksSound, Streams
    <3>3. WorkSound'
      BY <1>1, <1>2, <2>1, <2>3, <2>4 DEF Sound, WorkSound, Typed, WireTyped, Works, Histories
    <3>4. Numbers'
      BY <1>1, <1>2, <2>2, <2>3, <2>4, <2>5 DEF Sound, Numbers, Typed, WireTyped, ProducerStates, Histories, SendStates
    <3>5. Granteds'
      BY <1>1, <2>4, <2>5 DEF Sound, Granteds, Known
    <3> QED BY <3>1, <3>2, <3>3, <3>4, <3>5 DEF Sound
  <2>7. /\ Adding' = Adding /\ SettingUp' = SettingUp /\ Publishing' = (Publishing \ {w}) \cup {v}
        /\ FreeCams' = FreeCams /\ Of("mic", open') = Of("mic", open) /\ Of("cam", open') = Of("cam", open)
    BY <1>1, <1>2, <2>1, <2>2, <2>3, <2>4 DEF Adding, SettingUp, Publishing, Working, FreeCams, Of
  <2>8. Sending' /\ Mic' /\ Cam'
    BY <1>1, <1>5, <2>1, <2>2, <2>3, <2>4, <2>7, SendingKept, MicKept, CamKept DEF Of, Sound
  <2>9. Sharing'
    <3> SUFFICES ASSUME "screen" \notin hist.overlapped PROVE ShareOnce' /\ ShareHeld'
      BY <2>4 DEF Sharing
    <3>1. Publishing = {w} /\ Publishing' = {v} /\ Picking = {} /\ ~share.shown /\ ShareHeld
      BY <1>2, <2>7 DEF Sharing, ShareOnce, ShareHeld
    <3>2. ShareOnce'
      BY <1>5, <3>1 DEF ShareOnce
    <3>3. ShareHeld'
      BY <1>2, <1>5, <2>1, <2>2, <2>3, <2>5, <3>1 DEF ShareHeld, Histories
    <3> QED BY <3>2, <3>3
  <2>10. NoLostCapture'
    BY <1>1, <2>1, <2>3, <2>4, <2>5 DEF NoLostCapture, Held
  <2> QED BY <1>4, <2>6, <2>8, <2>9, <2>10
<1> QED BY <1>6, <1>7 DEF ShareProduced

LEMMA ShareStartedKeeps ==
  ASSUME DevicesIInv, NEW w \in work, ShareStarted(w)
  PROVE  DevicesIInv'
<1> USE DEF DevicesIInv
<1> DEFINE ended == w.track \notin live \/ ~OnTransport(w)
<1>1. /\ w.job = "shareAudio" /\ work' = work \ {w}
      /\ share' = [share EXCEPT !.stream = {w.track}, !.shown = TRUE, !.heard = @ \cup {w.track}]
      /\ hist' = [hist EXCEPT !.overlapped = @ \cup If(ended, {"screen"}), !.stray = @ \cup If(ended, {w.track})]
      /\ UNCHANGED <<phase, live, asks, lobby, call, send, open>>
  BY DEF ShareStarted
<1> HIDE DEF ended
<1>2. /\ hist \in Histories /\ share \in ShareStates
      /\ w.track \in Tracks /\ w.track.kind = "screen" /\ w.track.id <= hist.captures /\ w \in Publishing
  BY <1>1 DEF Typed, WireTyped, Works, Sound, WorkSound, Publishing, Working
<1>3. /\ hist' \in Histories /\ hist'.captures = hist.captures /\ hist'.producers = hist.producers
      /\ hist'.stray = hist.stray \cup If(ended, {w.track}) /\ hist'.overlapped = hist.overlapped \cup If(ended, {"screen"})
  <2>1. If(ended, {w.track}) \in SUBSET Tracks /\ If(ended, {"screen"}) \in SUBSET AllKinds
    BY <1>2 DEF If, AllKinds
  <2> QED BY <1>1, <1>2, <2>1 DEF Histories
<1>4. /\ share' \in ShareStates /\ share'.producer = share.producer /\ share'.stream = {w.track}
      /\ share'.shown /\ share'.heard = share.heard \cup {w.track}
  BY <1>1, <1>2 DEF ShareStates
<1>5. Typed' /\ Sound'
  <2>1. Typed'
    BY <1>1, <1>3, <1>4 DEF Typed, PageTyped, WireTyped
  <2>2. AsksSound' /\ WorkSound' /\ Numbers'
    BY <1>1, <1>3, <1>4 DEF Sound, AsksSound, WorkSound, Numbers
  <2>3. Streams'
    BY <1>1, <1>2, <1>4 DEF Sound, Streams
  <2>4. Granteds'
    BY <1>1, <1>2, <1>3, <1>4 DEF Sound, Granteds, Known, If
  <2> QED BY <2>1, <2>2, <2>3, <2>4 DEF Sound
<1>6. call.captured /\ phase # "lobby"
  BY <1>1 DEF Early, Idle, InLobby
<1>7. InLobby' /\ Preview' /\ Early' /\ Captures'
  BY <1>1, <1>6, CallGoesOn
<1>8. /\ Turning' = Turning /\ Adding' = Adding /\ SettingUp' = SettingUp /\ Publishing' = Publishing \ {w}
      /\ FreeCams' = FreeCams /\ Screens' = Screens /\ Picking' = Picking
  BY <1>1, <1>2, <1>3
     DEF Turning, Picking, Asking, Adding, SettingUp, Publishing, Working, FreeCams, Screens, Of, If
<1>9. Sending' /\ Mic' /\ Cam'
  BY <1>1, <1>3, <1>8, SendingKept, MicKept, CamKept DEF Of, Sound
<1>10. "screen" \notin hist'.overlapped => /\ ~ended /\ "screen" \notin hist.overlapped
                                          /\ Publishing = {w} /\ Picking = {} /\ share.stream = {}
  BY <1>2, <1>3 DEF If, Sharing, ShareOnce, ShareHeld, Sound, Streams
<1>11. Sharing'
  <2> SUFFICES ASSUME "screen" \notin hist'.overlapped PROVE ShareOnce' /\ ShareHeld'
    BY DEF Sharing
  <2>1. /\ w.track \in Screens /\ OnTransport(w) /\ ShareHeld
        /\ Publishing' = {} /\ Picking' = {}
    BY <1>2, <1>8, <1>10 DEF ended, Screens, Of, Sharing
  <2>2. share.producer # 0 /\ \E p \in open : p.id = share.producer
    BY <1>1, <1>2, <2>1 DEF ShareHeld
  <2>3. ShareOnce'
    BY <2>1 DEF ShareOnce
  <2>4. ShareHeld'
    BY <1>1, <1>4, <1>8, <1>10, <2>1, <2>2 DEF ShareHeld
  <2> QED BY <2>3, <2>4
<1>12. NoLostCapture'
  <2> SUFFICES ASSUME NEW t \in live
               PROVE  t \in Held' \cup hist'.stray \/ (t.kind = "screen" /\ "screen" \in hist'.overlapped)
    BY <1>1 DEF NoLostCapture
  <2>1. t \in Held \cup hist.stray \/ (t.kind = "screen" /\ "screen" \in hist.overlapped)
    BY DEF NoLostCapture
  <2>2. CASE t \in share.stream
    <3>1. t.kind = "screen"
      BY <2>2 DEF Sound, Streams
    <3> QED BY <1>10, <2>2, <3>1
  <2>3. CASE t \notin share.stream
    BY <1>1, <1>3, <1>4, <2>1, <2>3 DEF Held
  <2> QED BY <2>2, <2>3
<1> QED BY <1>5, <1>7, <1>9, <1>11, <1>12

LEMMA ShareStopsKeeps ==
  ASSUME DevicesIInv, share.producer # 0, "screen" \notin hist.overlapped => share.shown,
         NEW T \in SUBSET Screens, live' = (live \ T) \ share.stream,
         open' = {p \in open : p.id # share.producer}, share' = ShareStopped,
         UNCHANGED <<phase, asks, lobby, call, send, work, hist>>
  PROVE  DevicesIInv'
<1> USE DEF DevicesIInv
<1>1. /\ share' \in ShareStates /\ share'.producer = 0 /\ share'.stream = {} /\ ~share'.shown
      /\ share'.heard = share.heard
  BY DEF Typed, WireTyped, ShareStates, ShareStopped
<1>2. call.captured /\ phase # "lobby"
  BY DEF Early, Idle, InLobby
<1>3. \A t \in live \ live' : t.kind = "screen"
  BY DEF Screens, Of, Sound, Streams
<1>4. Typed' /\ Sound'
  <2>1. Typed'
    BY <1>1 DEF Typed, PageTyped, WireTyped
  <2>2. AsksSound' /\ WorkSound' /\ Granteds' /\ Streams' /\ Numbers'
    BY <1>1 DEF Typed, WireTyped, Histories, Sound, AsksSound, WorkSound, Granteds, Known, Streams, Numbers
  <2> QED BY <2>1, <2>2 DEF Sound
<1>5. InLobby' /\ Preview' /\ Early' /\ Captures'
  BY <1>2, CallGoesOn
<1>6. /\ Turning' = Turning /\ Adding' = Adding /\ SettingUp' = SettingUp /\ Publishing' = Publishing
      /\ FreeCams' = FreeCams /\ Picking' = Picking
  BY <1>3 DEF Turning, Picking, Asking, Adding, SettingUp, Publishing, Working, FreeCams, Of
<1>7. Of("mic", open') = Of("mic", open) /\ Of("cam", open') = Of("cam", open)
  BY DEF Of, Sound, Numbers
<1>8. Sending' /\ Mic' /\ Cam'
  BY <1>6, <1>7, SendingKept, MicKept, CamKept DEF Of, Sound
<1>9. Sharing'
  <2> SUFFICES ASSUME "screen" \notin hist.overlapped PROVE ShareOnce' /\ ShareHeld'
    BY DEF Sharing
  <2>1. share.shown /\ ShareOnce /\ ShareHeld /\ Publishing = {} /\ Picking = {}
    BY DEF Sharing, ShareHeld
  <2>2. ShareOnce'
    BY <1>6, <2>1 DEF ShareOnce
  <2>3. \A t \in Screens' : t \notin share.heard
    BY <2>1 DEF ShareHeld, Screens, Of
  <2>4. ShareHeld'
    BY <1>1, <1>6, <2>1, <2>3 DEF ShareHeld
  <2> QED BY <2>2, <2>4
<1>10. NoLostCapture'
  BY <1>1 DEF NoLostCapture, Held
<1> QED BY <1>4, <1>5, <1>8, <1>9, <1>10

LEMMA ScreensEndKeeps ==
  ASSUME DevicesIInv, NEW T \in SUBSET Screens, live' = live \ T,
         "screen" \notin hist.overlapped => T \cap share.stream = {},
         UNCHANGED <<phase, asks, lobby, call, send, open, work, share, hist>>
  PROVE  DevicesIInv'
<1> USE DEF DevicesIInv
<1>1. \A t \in T : t.kind = "screen"
  BY DEF Screens, Of
<1>2. Typed' /\ Sound'
  BY DEF Typed, PageTyped, WireTyped, Sound, AsksSound, WorkSound, Granteds, Known, Streams, Numbers
<1>3. InLobby' /\ Preview'
  <2>1. phase = "lobby" => live' = live
    BY <1>1 DEF InLobby, Sound, Streams, Kinds
  <2> QED BY <2>1, LobbyGone DEF InLobby, Preview, LobbyIsTrue, Asking
<1>4. Early' /\ Captures'
  BY DEF Early, Idle, Captures, Capturing, Cams
<1>5. /\ Turning' = Turning /\ Adding' = Adding /\ SettingUp' = SettingUp /\ Publishing' = Publishing
      /\ FreeCams' = FreeCams /\ Picking' = Picking
  BY <1>1 DEF Turning, Picking, Asking, Adding, SettingUp, Publishing, Working, FreeCams, Of
<1>6. Sending' /\ Mic' /\ Cam'
  BY <1>5, SendingKept, MicKept, CamKept DEF Of, Sound
<1>7. Sharing'
  <2> SUFFICES ASSUME "screen" \notin hist.overlapped PROVE ShareOnce' /\ ShareHeld'
    BY DEF Sharing
  <2>1. ShareOnce /\ ShareHeld /\ Screens' = Screens \ T
    BY DEF Sharing, Screens, Of
  <2>2. ShareOnce' /\ ShareHeld'
    BY <1>5, <2>1 DEF ShareOnce, ShareHeld, OnTransport
  <2> QED BY <2>2
<1>8. NoLostCapture'
  BY DEF NoLostCapture, Held
<1> QED BY <1>2, <1>3, <1>4, <1>6, <1>7, <1>8

LEMMA StopScreenShareKeeps ==
  ASSUME DevicesIInv, StopScreenShare
  PROVE  DevicesIInv'
<1> USE DEF DevicesIInv
<1>1. share.shown /\ StopShare(live) /\ UNCHANGED <<phase, asks, lobby, call, send, work, hist>>
  BY DEF StopScreenShare
<1>2. {} \in SUBSET Screens /\ live \ {} = live /\ {} \cap share.stream = {}
  OBVIOUS
<1>3. CASE share.producer = 0
  BY <1>1, <1>2, <1>3, ScreensEndKeeps DEF StopShare
<1>4. CASE share.producer # 0
  BY <1>1, <1>2, <1>4, ShareStopsKeeps DEF StopShare
<1> QED BY <1>3, <1>4

LEMMA ScreenEndedKeeps ==
  ASSUME DevicesIInv, NEW t \in live, ScreenEnded(t)
  PROVE  DevicesIInv'
<1> USE DEF DevicesIInv
<1>1. /\ {t} \in SUBSET Screens /\ UNCHANGED <<phase, asks, lobby, call, send, work, hist>>
      /\ IF t \in share.heard THEN StopShare(live \ {t}) ELSE live' = live \ {t} /\ UNCHANGED <<share, open>>
  BY DEF ScreenEnded, Screens
<1>2. "screen" \notin hist.overlapped => (t \in share.heard <=> t \in share.stream)
  BY <1>1 DEF Sharing, ShareHeld
<1>3. "screen" \notin hist.overlapped /\ t \in share.heard => share.shown /\ share.producer # 0
  BY <1>2 DEF Sharing, ShareHeld, Sound, Streams
<1>4. CASE t \in share.heard /\ share.producer # 0
  BY <1>1, <1>3, <1>4, ShareStopsKeeps DEF StopShare
<1>5. CASE t \notin share.heard \/ share.producer = 0
  <2>1. live' = live \ {t} /\ UNCHANGED <<share, open>>
    BY <1>1, <1>5 DEF StopShare
  <2>2. "screen" \notin hist.overlapped => {t} \cap share.stream = {}
    BY <1>2, <1>3, <1>5
  <2> QED BY <1>1, <2>1, <2>2, ScreensEndKeeps
<1> QED BY <1>4, <1>5

-----------------------------------------------------------------------------
(* the set-ups *)

LEMMA SetupStartsKeeps ==
  ASSUME DevicesIInv, SetupStarts
  PROVE  DevicesIInv'
<1> USE DEF DevicesIInv
<1>1. /\ phase = "call" /\ call.captured /\ send.at = "idle"
      /\ send' = [send EXCEPT !.at = "waiting", !.map = NoProducer]
      /\ UNCHANGED <<phase, live, asks, lobby, call, open, work, share, hist>>
  BY DEF SetupStarts
<1>2. /\ send' \in SendStates /\ send'.n = send.n /\ send'.at = "waiting" /\ send'.up = send.up
      /\ send'.map = [k \in Kinds |-> 0]
  BY <1>1 DEF Typed, WireTyped, SendStates, NoProducer
<1>3. Typed' /\ Sound'
  <2>1. Typed'
    BY <1>1, <1>2 DEF Typed, PageTyped, WireTyped
  <2>2. AsksSound' /\ WorkSound' /\ Granteds' /\ Streams' /\ Numbers'
    BY <1>1, <1>2 DEF Typed, WireTyped, Histories, Sound, AsksSound, WorkSound, Granteds, Known, Streams, Numbers
  <2> QED BY <2>1, <2>2 DEF Sound
<1>4. InLobby' /\ Preview' /\ Early' /\ Captures'
  BY <1>1, CallGoesOn
<1>5. /\ Turning' = Turning /\ Adding' = Adding /\ SettingUp' = SettingUp /\ Publishing' = Publishing
      /\ FreeCams' = FreeCams /\ Screens' = Screens /\ Picking' = Picking /\ Cams' = Cams
  BY <1>1 DEF Turning, Picking, Asking, Adding, SettingUp, Publishing, Working, FreeCams, Screens, Cams
<1>6. SettingUp = {}
  BY <1>1 DEF Sending, SettingUp, Working, Typed, WireTyped, Works, Tracks, AllKinds, Kinds
<1>7. Sending'
  <2>1. \A p \in open : \A k \in Kinds : p.id # send'.map[k]
    BY <1>2 DEF Sound, Numbers, Typed, WireTyped, ProducerStates
  <2> QED BY <1>1, <1>2, <1>5, <1>6, <2>1 DEF Sending
<1>8. Mic'
  BY <1>1, <1>2 DEF Mic
<1>9. Cam'
  BY <1>1, <1>2, <1>5, <1>6 DEF Cam, CamHeld, CamBusyOnce, CamSent
<1>10. Sharing'
  BY <1>1, <1>2, <1>5 DEF Sharing, ShareOnce, ShareHeld, OnTransport
<1>11. NoLostCapture'
  BY <1>1 DEF NoLostCapture, Held
<1> QED BY <1>3, <1>4, <1>7, <1>8, <1>9, <1>10, <1>11

LEMMA SetupSignalsKeeps ==
  ASSUME DevicesIInv, SetupSignals
  PROVE  DevicesIInv'
<1> USE DEF DevicesIInv
<1>1. /\ send.at = "waiting" /\ phase = "call" /\ open' = {}
      /\ send' = [send EXCEPT !.up = FALSE, !.map = NoProducer, !.at = "signalling"]
      /\ share' = IF Listening THEN ShareStopped ELSE share
      /\ live' = live \ If(Listening, share.stream)
      /\ UNCHANGED <<phase, asks, lobby, call, work, hist>>
  BY DEF SetupSignals, CloseSend
<1>2. /\ send' \in SendStates /\ send'.n = send.n /\ send'.at = "signalling" /\ ~send'.up
      /\ send'.map = [k \in Kinds |-> 0]
  BY <1>1 DEF Typed, WireTyped, SendStates, NoProducer
<1>3. /\ share' \in ShareStates /\ share'.heard = share.heard
      /\ Listening => share'.producer = 0 /\ share'.stream = {} /\ ~share'.shown /\ live' = live \ share.stream
      /\ ~Listening => share' = share /\ live' = live
  BY <1>1 DEF Typed, WireTyped, ShareStates, ShareStopped, If
<1>4. call.captured /\ phase # "lobby" /\ SettingUp = {}
  BY <1>1 DEF Early, Idle, Sending, SettingUp, Working, Typed, WireTyped, Works, Tracks, AllKinds, Kinds
<1>5. \A t \in live \ live' : t.kind = "screen"
  BY <1>3 DEF Sound, Streams
<1>6. Typed' /\ Sound'
  <2>1. Typed'
    BY <1>1, <1>2, <1>3 DEF Typed, PageTyped, WireTyped
  <2>2. AsksSound' /\ WorkSound' /\ Numbers'
    BY <1>1, <1>2, <1>3 DEF Typed, WireTyped, Histories, Sound, AsksSound, WorkSound, Numbers
  <2>3. Granteds' /\ Streams'
    BY <1>1, <1>3 DEF Sound, Granteds, Known, Streams
  <2> QED BY <2>1, <2>2, <2>3 DEF Sound
<1>7. InLobby' /\ Preview' /\ Early' /\ Captures'
  BY <1>1, <1>4, CallGoesOn
<1>8. /\ Turning' = Turning /\ Adding' = Adding /\ SettingUp' = {} /\ Publishing' = Publishing
      /\ FreeCams' = FreeCams /\ Picking' = Picking /\ Cams' = Cams
  BY <1>1, <1>3, <1>4, <1>5
     DEF Turning, Picking, Asking, Adding, SettingUp, Publishing, Working, FreeCams, Cams, Of
<1>9. Sending' /\ Mic'
  BY <1>1, <1>2, <1>8 DEF Sending, Mic, Of
<1>10. Cam'
  <2> SUFFICES ASSUME "cam" \notin hist.overlapped PROVE CamHeld' /\ CamBusyOnce' /\ CamSent'
    BY <1>1 DEF Cam
  <2>1. CamHeld /\ CamBusyOnce
    BY <1>1, <1>4 DEF Cam
  <2>2. CamHeld' /\ CamBusyOnce'
    BY <1>1, <1>8, <2>1 DEF CamHeld, CamBusyOnce
  <2>3. CamSent'
    BY <1>1, <1>2 DEF CamSent, OnTransport, Of
  <2> QED BY <2>2, <2>3
<1>11. Sharing'
  <2> SUFFICES ASSUME "screen" \notin hist.overlapped PROVE ShareOnce' /\ ShareHeld'
    BY <1>1 DEF Sharing
  <2>1. ShareOnce /\ ShareHeld
    BY DEF Sharing
  <2>2. ShareOnce' /\ \A w \in Publishing' : ~OnTransport(w)'
    BY <1>2, <1>8, <2>1 DEF ShareOnce, OnTransport
  <2>3. CASE Listening
    <3>1. \A t \in Screens' : t \notin share.heard
      BY <1>3, <2>1, <2>3 DEF ShareHeld, Screens, Of
    <3> QED BY <1>3, <2>2, <2>3, <3>1 DEF ShareHeld
  <2>4. CASE ~Listening
    <3>1. ~share.shown /\ Screens' = Screens
      BY <1>3, <2>1, <2>4 DEF ShareHeld, Listening, Sound, Streams, Screens
    <3> QED BY <1>3, <1>8, <2>1, <2>2, <2>4, <3>1 DEF ShareHeld
  <2> QED BY <2>2, <2>3, <2>4
<1>12. NoLostCapture'
  BY <1>1, <1>3 DEF NoLostCapture, Held
<1> QED BY <1>6, <1>7, <1>9, <1>10, <1>11, <1>12

LEMMA SendTransportKeeps ==
  ASSUME DevicesIInv, SendTransport
  PROVE  DevicesIInv'
<1> USE DEF DevicesIInv
<1>1. /\ send.at = "signalling" /\ phase = "call" /\ send' = [send EXCEPT !.n = @ + 1, !.up = TRUE, !.at = "mic"]
      /\ UNCHANGED <<phase, live, asks, lobby, call, open, work, share, hist>>
  BY DEF SendTransport
<1>2. /\ send \in SendStates /\ send' \in SendStates /\ send'.n = send.n + 1 /\ send'.at = "mic" /\ send'.up
      /\ send'.map = send.map
  <2>1. send \in SendStates
    BY DEF Typed, WireTyped
  <2>2. send.n + 1 \in Nat
    BY <2>1 DEF SendStates
  <2> QED BY <1>1, <2>1, <2>2 DEF SendStates
<1>3. call.captured /\ phase # "lobby" /\ SettingUp = {}
  BY <1>1 DEF Early, Idle, Sending, SettingUp, Working, Typed, WireTyped, Works, Tracks, AllKinds, Kinds
<1>4. Typed' /\ Sound'
  <2>1. Typed'
    BY <1>1, <1>2 DEF Typed, PageTyped, WireTyped
  <2>2. AsksSound' /\ WorkSound'
    BY <1>1, <1>2 DEF Typed, PageTyped, WireTyped, AskStates, Works, SendStates, Sound, AsksSound, WorkSound
  <2>3. Granteds' /\ Streams' /\ Numbers'
    BY <1>1, <1>2 DEF Sound, Granteds, Known, Streams, Numbers
  <2> QED BY <2>1, <2>2, <2>3 DEF Sound
<1>5. InLobby' /\ Preview' /\ Early' /\ Captures'
  BY <1>1, <1>3, CallGoesOn
<1>6. /\ Turning' = Turning /\ Adding' = Adding /\ SettingUp' = {} /\ Publishing' = Publishing
      /\ FreeCams' = FreeCams /\ Picking' = Picking /\ Cams' = Cams /\ Screens' = Screens
  BY <1>1, <1>3 DEF Turning, Picking, Asking, Adding, SettingUp, Publishing, Working, FreeCams, Cams, Screens
<1>7. \A w \in work : w.job # "replace" => ~OnTransport(w)'
  BY <1>1, <1>2 DEF OnTransport, Sound, WorkSound, Typed, WireTyped, Works, SendStates
<1>8. Sending' /\ Mic'
  BY <1>1, <1>2, <1>6 DEF Sending, Mic
<1>9. Cam'
  <2> SUFFICES ASSUME "cam" \notin hist.overlapped PROVE CamHeld' /\ CamBusyOnce' /\ CamSent'
    BY <1>1 DEF Cam
  <2>1. CamHeld /\ CamBusyOnce /\ CamSent
    BY <1>1, <1>3 DEF Cam
  <2>2. CamHeld' /\ CamBusyOnce'
    BY <1>1, <1>6, <2>1 DEF CamHeld, CamBusyOnce
  <2>3. CamSent'
    BY <1>1, <1>2, <1>6, <1>7, <2>1 DEF CamSent, Adding, Working
  <2> QED BY <2>2, <2>3
<1>10. Sharing'
  <2> SUFFICES ASSUME "screen" \notin hist.overlapped PROVE ShareOnce' /\ ShareHeld'
    BY <1>1 DEF Sharing
  <2>1. ShareOnce /\ ShareHeld /\ \A w \in Publishing : ~OnTransport(w)'
    BY <1>7 DEF Sharing, Publishing, Working
  <2>2. ShareOnce' /\ ShareHeld'
    BY <1>1, <1>6, <2>1 DEF ShareOnce, ShareHeld
  <2> QED BY <2>2
<1>11. NoLostCapture'
  BY <1>1 DEF NoLostCapture, Held
<1> QED BY <1>4, <1>5, <1>8, <1>9, <1>10, <1>11

LEMMA SetupFailsKeeps ==
  ASSUME DevicesIInv, SetupFails
  PROVE  DevicesIInv'
<1> USE DEF DevicesIInv
<1>1. /\ send.at \notin {"idle", "waiting"} /\ send' = [send EXCEPT !.at = "idle"] /\ work' = work \ SettingUp
      /\ UNCHANGED <<phase, live, asks, lobby, call, open, share, hist>>
  BY DEF SetupFails, SettingUp
<1>2. /\ send' \in SendStates /\ send'.n = send.n /\ send'.at = "idle" /\ send'.up = send.up
      /\ send'.map = send.map
  BY <1>1 DEF Typed, WireTyped, SendStates
<1>3. call.captured /\ phase # "lobby"
  BY <1>1 DEF Early, Idle, InLobby
<1>4. Typed' /\ Sound'
  <2>1. Typed'
    BY <1>1, <1>2 DEF Typed, PageTyped, WireTyped
  <2>2. AsksSound' /\ WorkSound' /\ Granteds' /\ Streams' /\ Numbers'
    BY <1>1, <1>2 DEF Sound, AsksSound, WorkSound, Granteds, Known, Streams, Numbers
  <2> QED BY <2>1, <2>2 DEF Sound
<1>5. InLobby' /\ Preview' /\ Early' /\ Captures'
  BY <1>1, <1>3, CallGoesOn
<1>6. /\ Turning' = Turning /\ Adding' = Adding /\ SettingUp' = {} /\ Publishing' = Publishing
      /\ FreeCams' = FreeCams /\ Picking' = Picking /\ Cams' = Cams /\ Screens' = Screens
  BY <1>1 DEF Turning, Picking, Asking, Adding, SettingUp, Publishing, Working, FreeCams, Cams, Screens
<1>7. Sending'
  BY <1>1, <1>2, <1>6 DEF Sending
<1>8. Mic'
  BY <1>1, <1>2 DEF Mic
<1>9. Cam'
  <2> SUFFICES ASSUME phase = "call", "cam" \notin hist.overlapped PROVE CamHeld' /\ CamBusyOnce' /\ CamSent'
    BY <1>1 DEF Cam
  <2>1. CamHeld /\ CamBusyOnce /\ CamSent
    BY <1>3 DEF Cam
  <2>2. CamHeld' /\ CamBusyOnce' /\ CamSent'
    BY <1>1, <1>2, <1>6, <2>1 DEF CamHeld, CamBusyOnce, CamSent, OnTransport
  <2> QED BY <2>2
<1>10. Sharing'
  BY <1>1, <1>2, <1>6 DEF Sharing, ShareOnce, ShareHeld, OnTransport
<1>11. NoLostCapture'
  <2> SUFFICES ASSUME NEW t \in live, t \in Held
               PROVE  t \in Held'
    BY <1>1 DEF NoLostCapture
  <2>1. \A w \in SettingUp : w.track \in live => w.track \in call.stream
    BY DEF Sending
  <2> QED BY <1>1, <2>1 DEF Held
<1> QED BY <1>4, <1>5, <1>7, <1>8, <1>9, <1>10, <1>11

LEMMA SetupProducesKeeps ==
  ASSUME DevicesIInv, NEW k \in Kinds, SetupProduces(k)
  PROVE  DevicesIInv'
<1> USE DEF DevicesIInv
<1> DEFINE T == Of(k, call.stream)
           K == If(T # {} /\ k = "cam" /\ (CamBusy \/ send.map[k] # 0), {k})
<1>1. /\ send.at = k /\ SettingUp = {}
      /\ work' = work \cup {[job |-> "setup", track |-> t, of |-> send.n] : t \in If(T # {}, {First(T)})}
      /\ send' = IF T = {} THEN [send EXCEPT !.at = NextStep(k)] ELSE send
      /\ hist' = [hist EXCEPT !.overlapped = @ \cup K]
      /\ UNCHANGED <<phase, live, asks, lobby, call, open, share>>
  BY DEF SetupProduces, SettingUp
<1>2. call.captured /\ phase # "lobby"
  BY <1>1 DEF Early, Idle, InLobby, Kinds
<1>3. K \in SUBSET AllKinds /\ ("cam" \notin K /\ k = "cam" /\ T # {} => send.map["cam"] = 0) /\ "screen" \notin K
  BY DEF If, AllKinds, Kinds
<1> HIDE DEF K
<1>4. /\ hist' \in Histories /\ hist'.captures = hist.captures /\ hist'.producers = hist.producers
      /\ hist'.stray = hist.stray /\ hist'.overlapped = hist.overlapped \cup K
  BY <1>1, <1>3 DEF Typed, WireTyped, Histories
<1>5. InLobby' /\ Preview' /\ Early' /\ Captures'
  BY <1>1, <1>2, CallGoesOn
<1>6. CASE T = {}
  <2>1. work' = work /\ send' = [send EXCEPT !.at = NextStep(k)]
    BY <1>1, <1>6 DEF If
  <2>2. /\ send' \in SendStates /\ send'.n = send.n /\ send'.at = NextStep(k) /\ send'.up = send.up /\ send'.map = send.map
        /\ NextStep(k) \in {"cam", "idle"}
    BY <2>1 DEF Typed, WireTyped, SendStates, NextStep
  <2>3. Typed' /\ Sound'
    <3>1. Typed'
      BY <1>1, <1>4, <2>1, <2>2 DEF Typed, PageTyped, WireTyped
    <3>2. AsksSound' /\ WorkSound' /\ Granteds' /\ Streams' /\ Numbers'
      BY <1>1, <1>4, <2>1, <2>2 DEF Sound, AsksSound, WorkSound, Granteds, Known, Streams, Numbers
    <3> QED BY <3>1, <3>2 DEF Sound
  <2>4. /\ Turning' = Turning /\ Adding' = Adding /\ SettingUp' = {} /\ Publishing' = Publishing
        /\ FreeCams' = FreeCams /\ Picking' = Picking /\ Cams' = Cams /\ Screens' = Screens
    BY <1>1, <1>4, <2>1
       DEF Turning, Picking, Asking, Adding, SettingUp, Publishing, Working, FreeCams, Cams, Screens
  <2>5. Sending' /\ Mic'
    BY <1>1, <2>1, <2>2, <2>4 DEF Sending, Mic, Kinds
  <2>6. Cam'
    <3> SUFFICES ASSUME phase = "call", "cam" \notin hist.overlapped PROVE CamHeld' /\ CamBusyOnce' /\ CamSent'
      BY <1>1, <1>4 DEF Cam
    <3>1. CamHeld /\ CamBusyOnce /\ CamSent
      BY <1>2 DEF Cam
    <3>2. CamHeld' /\ CamBusyOnce' /\ CamSent'
      BY <1>1, <2>2, <2>4, <3>1 DEF CamHeld, CamBusyOnce, CamSent, OnTransport, Kinds
    <3> QED BY <3>2
  <2>7. Sharing'
    BY <1>1, <1>4, <2>2, <2>4 DEF Sharing, ShareOnce, ShareHeld, OnTransport
  <2>8. NoLostCapture'
    BY <1>1, <1>4, <2>1 DEF NoLostCapture, Held
  <2> QED BY <1>5, <2>3, <2>5, <2>6, <2>7, <2>8
<1>7. CASE T # {}
  <2> DEFINE t == First(T)
             w == [job |-> "setup", track |-> t, of |-> send.n]
  <2>1. t \in T
    <3>1. PICK u \in T : TRUE
      BY <1>7
    <3>2. \A v \in T : v = u /\ u.id <= v.id
      BY <3>1 DEF Of, Sound, Streams, Typed, PageTyped, CallStates, Tracks
    <3> QED BY <3>1, <3>2 DEF First
  <2>2. /\ t \in call.stream /\ t.kind = k /\ t \in Tracks /\ t.id <= hist.captures
        /\ w \in Works /\ w.job = "setup" /\ w.track = t /\ w.of = send.n
    <3>1. t \in call.stream /\ t.kind = k /\ t \in Tracks
      BY <2>1 DEF Of, Typed, PageTyped, CallStates
    <3>2. t.id <= hist.captures
      BY <3>1 DEF Sound, Granteds, Known
    <3> HIDE DEF t
    <3> QED BY <3>1, <3>2 DEF Works, Typed, WireTyped, SendStates
  <2>3. work' = work \cup {w} /\ send' = send
    BY <1>1, <1>7 DEF If
  <2> HIDE DEF t, w
  <2>4. Typed' /\ Sound'
    <3>1. Typed'
      BY <1>1, <1>4, <2>2, <2>3 DEF Typed, PageTyped, WireTyped
    <3>2. WorkSound'
      <4>1. send.n <= send.n
        BY DEF Typed, WireTyped, SendStates
      <4>2. w.track.kind # "screen" /\ w.track.id <= hist'.captures /\ w.of <= send'.n
        BY <1>4, <2>2, <2>3, <4>1 DEF Kinds
      <4>3. \A v \in work : v.track.id <= hist'.captures /\ v.of <= IF v.job = "replace" THEN hist'.producers ELSE send'.n
        BY <1>4, <2>3 DEF Sound, WorkSound
      <4> QED BY <2>2, <2>3, <4>2, <4>3 DEF Sound, WorkSound
    <3>3. AsksSound' /\ Granteds' /\ Streams' /\ Numbers'
      BY <1>1, <1>4, <2>3 DEF Sound, AsksSound, Granteds, Known, Streams, Numbers
    <3> QED BY <3>1, <3>2, <3>3 DEF Sound
  <2>5. /\ Turning' = Turning /\ Adding' = Adding /\ SettingUp' = {w} /\ Publishing' = Publishing
        /\ FreeCams' = FreeCams /\ Picking' = Picking /\ Cams' = Cams /\ Screens' = Screens
    BY <1>1, <1>4, <2>2, <2>3
       DEF Turning, Picking, Asking, Adding, SettingUp, Publishing, Working, FreeCams, Cams, Screens
  <2>6. Sending' /\ Mic'
    <3>1. Mic'
      BY <1>1, <2>3 DEF Mic
    <3>2. \A q \in open' : \A v \in work' : v.job = "replace" /\ q.id = v.of => q.kind = "cam"
      BY <1>1, <2>2, <2>3 DEF Sending
    <3>3. \A v \in SettingUp' :
            /\ send'.at = v.track.kind /\ v.of = send'.n
            /\ v.track \in live' => v.track \in call'.stream
            /\ phase' = "call" /\ v.track.kind = "mic" => v.track \in call'.stream
      BY <1>1, <2>2, <2>3, <2>5
    <3>4. \A u, v \in SettingUp' : u = v
      BY <2>5
    <3>5. /\ ~send'.up => open' = {}
          /\ phase' # "call" => ~send'.up
          /\ phase' = "call" /\ send'.at \in {"mic", "cam"} => send'.up
          /\ \A q \in open' : \A j \in Kinds : q.id = send'.map[j] => q.kind = j
      <4>1. send' = send /\ open' = open /\ phase' = phase
        BY <1>1, <2>3
      <4>2. Sending
        OBVIOUS
      <4> QED BY <4>1, <4>2 DEF Sending
    <3> QED BY <3>1, <3>2, <3>3, <3>4, <3>5 DEF Sending
  <2>7. Cam'
    <3> SUFFICES ASSUME phase = "call", "cam" \notin hist'.overlapped PROVE CamHeld' /\ CamBusyOnce' /\ CamSent'
      BY <1>1 DEF Cam
    <3>1. CamHeld /\ CamBusyOnce /\ CamSent /\ (k = "cam" => send.map["cam"] = 0)
      BY <1>2, <1>3, <1>4, <1>7 DEF Cam
    <3>2. CamHeld' /\ CamSent'
      BY <1>1, <2>3, <2>5, <3>1 DEF CamHeld, CamSent, OnTransport
    <3>3. CamBusyOnce'
      BY <1>1, <2>2, <2>3, <2>5, <3>1 DEF CamBusyOnce
    <3> QED BY <3>2, <3>3
  <2>8. Sharing'
    BY <1>1, <1>4, <2>3, <2>5, SharingKept
  <2>9. NoLostCapture'
    BY <1>1, <1>4, <2>3 DEF NoLostCapture, Held
  <2> QED BY <1>5, <2>4, <2>6, <2>7, <2>8, <2>9
<1> QED BY <1>6, <1>7

LEMMA SetupProducedKeeps ==
  ASSUME DevicesIInv, NEW w \in work, SetupProduced(w)
  PROVE  DevicesIInv'
<1> USE DEF DevicesIInv
<1> DEFINE k == w.track.kind
           p == NewProducer(w, k, StartPaused(k))
<1>1. /\ w.job = "setup" /\ OnTransport(w) /\ work' = work \ {w} /\ open' = open \cup {p}
      /\ send' = [send EXCEPT !.map[k] = hist.producers + 1, !.at = NextStep(k)]
      /\ hist' = Produced(hist)
      /\ call' = [call EXCEPT !.shown = IF k \in call.desired THEN @ \cup {k} ELSE @ \ {k}]
      /\ UNCHANGED <<phase, live, asks, lobby, share>>
  BY DEF SetupProduced
<1>2. /\ w \in SettingUp /\ SettingUp = {w} /\ send.at = k /\ w.of = send.n /\ w \in Works /\ w.track \in Tracks
      /\ w.track \in live => w.track \in call.stream
      /\ send.up /\ phase = "call" /\ k \in Kinds /\ (k = "mic" => w.track \in call.stream)
  <2>1. w \in SettingUp /\ w \in Works /\ w.track \in Tracks
    BY <1>1 DEF SettingUp, Working, Typed, WireTyped, Works
  <2>2. send.at = k /\ send.up /\ phase = "call"
    BY <1>1, <2>1 DEF Sending, OnTransport
  <2>3. k \in Kinds
    BY <1>1, <2>1 DEF Sound, WorkSound, Tracks, AllKinds
  <2> QED BY <2>1, <2>2, <2>3 DEF Sending
<1>3. /\ hist \in Histories /\ hist.producers + 1 \in Nat
      /\ p \in ProducerStates /\ p.kind = k /\ p.id = hist.producers + 1 /\ p.paused = (k \notin call.desired)
  BY <1>2 DEF NewProducer, StartPaused, ProducerStates, Typed, WireTyped, Histories, Tracks
<1> HIDE DEF p
<1>4. /\ hist' \in Histories /\ hist'.captures = hist.captures /\ hist'.producers = hist.producers + 1
      /\ hist'.stray = hist.stray /\ hist'.overlapped = hist.overlapped
  BY <1>1, <1>3 DEF Produced, Histories
<1>5. /\ send' \in SendStates /\ send'.n = send.n /\ send'.at = NextStep(k) /\ send'.up
      /\ send'.map[k] = hist.producers + 1 /\ \A j \in Kinds : j # k => send'.map[j] = send.map[j]
      /\ NextStep(k) \in {"cam", "idle"}
  BY <1>1, <1>2, <1>3 DEF Typed, WireTyped, SendStates, NextStep
<1>6. /\ call' \in CallStates /\ call'.stream = call.stream /\ call'.captured = call.captured
      /\ call'.desired = call.desired
      /\ call'.shown = IF k \in call.desired THEN call.shown \cup {k} ELSE call.shown \ {k}
  BY <1>1, <1>2 DEF Typed, PageTyped, CallStates
<1>7. call.captured
  BY <1>2 DEF Early, Idle
<1>8. Typed' /\ Sound'
  <2>1. Typed'
    BY <1>1, <1>3, <1>4, <1>5, <1>6 DEF Typed, PageTyped, WireTyped
  <2>2. AsksSound' /\ Streams'
    BY <1>1, <1>5, <1>6 DEF Sound, AsksSound, Streams
  <2>3. WorkSound'
    BY <1>1, <1>3, <1>4, <1>5 DEF Sound, WorkSound, Typed, WireTyped, Works, Histories
  <2>4. Numbers'
    BY <1>1, <1>3, <1>4, <1>5
       DEF Sound, Numbers, Typed, WireTyped, ProducerStates, Histories, SendStates, ShareStates
  <2>5. Granteds'
    BY <1>1, <1>4, <1>6 DEF Sound, Granteds, Known
  <2> QED BY <2>1, <2>2, <2>3, <2>4, <2>5 DEF Sound
<1>9. InLobby' /\ Preview' /\ Early' /\ Captures'
  BY <1>1, <1>2, <1>6, <1>7, CallGoesOn
<1>10. /\ Turning' = Turning /\ Adding' = Adding /\ SettingUp' = {} /\ Publishing' = Publishing
       /\ FreeCams' = FreeCams /\ Picking' = Picking /\ Cams' = Cams /\ Screens' = Screens
  BY <1>1, <1>2, <1>4, <1>6
     DEF Turning, Picking, Asking, Adding, SettingUp, Publishing, Working, FreeCams, Cams, Screens
<1>11. Sending'
  <2>1. \A q \in open' : \A j \in Kinds : q.id = send'.map[j] => q.kind = j
    BY <1>1, <1>3, <1>5 DEF Sending, Sound, Numbers, Typed, WireTyped, ProducerStates, Histories, SendStates
  <2>2. \A q \in open' : \A v \in work' : v.job = "replace" /\ q.id = v.of => q.kind = "cam"
    BY <1>1, <1>3 DEF Sending, Sound, WorkSound, Typed, WireTyped, Works, Histories
  <2> QED BY <1>1, <1>2, <1>5, <1>10, <2>1, <2>2 DEF Sending
<1>12. Mic'
  <2>1. "mic" \in call'.shown <=> "mic" \in call'.desired /\ Of("mic", call'.stream) # {}
    BY <1>2, <1>6, <1>7 DEF Mic, Of, Kinds
  <2>2. \A q \in Of("mic", open') : q.id = send'.map["mic"] /\ q.paused = ("mic" \notin call'.desired)
    <3>1. CASE k = "mic"
      <4>1. Of("mic", open') = {p}
        BY <1>1, <1>2, <1>3, <3>1 DEF Mic, Of
      <4> QED BY <1>3, <1>5, <1>6, <3>1, <4>1
    <3>2. CASE k = "cam"
      <4>1. Of("mic", open') = Of("mic", open)
        BY <1>1, <1>3, <3>2 DEF Of
      <4> QED BY <1>2, <1>5, <1>6, <3>2, <4>1 DEF Mic, Kinds
    <3> QED BY <1>2, <3>1, <3>2 DEF Kinds
  <2> QED BY <1>1, <1>5, <2>1, <2>2 DEF Mic
<1>13. Cam'
  <2> SUFFICES ASSUME "cam" \notin hist.overlapped PROVE CamHeld' /\ CamBusyOnce' /\ CamSent'
    BY <1>4 DEF Cam
  <2>1. CamHeld /\ CamBusyOnce /\ CamSent
    BY <1>2, <1>7 DEF Cam
  <2>2. k = "cam" => /\ "cam" \in call.desired /\ Cams # {} /\ send.map["cam"] = 0
                     /\ Turning = {} /\ Adding = {}
    BY <1>2, <2>1 DEF CamBusyOnce, CamHeld, Cams, Of
  <2>3. CamHeld'
    BY <1>2, <1>6, <1>10, <2>1, <2>2 DEF CamHeld, Kinds
  <2>4. CamBusyOnce'
    BY <1>6, <1>10, <2>1 DEF CamBusyOnce
  <2>5. CASE k = "cam"
    <3>1. Of("cam", open) = {}
      BY <1>2, <2>1, <2>2, <2>5 DEF CamSent, Of, Sound, Numbers, Typed, WireTyped, ProducerStates
    <3>2. Of("cam", open') = {p}
      BY <1>1, <1>3, <2>5, <3>1 DEF Of
    <3> QED BY <1>3, <1>5, <1>6, <1>10, <2>2, <2>3, <2>4, <2>5, <3>2 DEF CamSent
  <2>6. CASE k = "mic"
    <3>1. Of("cam", open') = Of("cam", open) /\ send'.map["cam"] = send.map["cam"]
      BY <1>1, <1>3, <1>5, <2>6 DEF Of, Kinds
    <3> QED BY <1>2, <1>5, <1>6, <1>10, <2>1, <2>3, <2>4, <2>6, <3>1 DEF CamSent, OnTransport
  <2> QED BY <1>2, <2>5, <2>6 DEF Kinds
<1>14. Sharing'
  BY <1>1, <1>2, <1>4, <1>5, <1>10 DEF Sharing, ShareOnce, ShareHeld, OnTransport
<1>15. NoLostCapture'
  BY <1>1, <1>2, <1>4, <1>6 DEF NoLostCapture, Held
<1> QED BY <1>8, <1>9, <1>11, <1>12, <1>13, <1>14, <1>15

-----------------------------------------------------------------------------
(* the microphone and the camera *)

LEMMA PausedOf ==
  ASSUME Typed, Sound, Sending, NEW k \in Kinds, NEW b \in BOOLEAN, open' = Paused(send.map[k], b)
  PROVE  /\ open' \in SUBSET ProducerStates
         /\ \A q \in open' : \E p \in open : p.id = q.id /\ p.kind = q.kind
         /\ \A p \in open : \E q \in open' : q.id = p.id
         /\ \A j \in AllKinds \ {k} : Of(j, open') = Of(j, open)
         /\ \A q \in Of(k, open') : (\E p \in Of(k, open) : p.id = q.id) /\ (q.id = send.map[k] => q.paused = b)
         /\ \A p, q \in open' : p.id = q.id => p = q
<1> DEFINE F(p) == IF p.id = send.map[k] THEN [p EXCEPT !.paused = b] ELSE p
<1>1. \A p \in open : /\ F(p) \in ProducerStates /\ F(p).id = p.id /\ F(p).kind = p.kind
                      /\ p.id = send.map[k] => F(p).paused = b
                      /\ p.id # send.map[k] => F(p) = p
  BY DEF Typed, WireTyped, ProducerStates
<1>2. open' = {F(p) : p \in open} /\ \A p \in open : p.id = send.map[k] => p.kind = k
  BY DEF Paused, Sending
<1> HIDE DEF F
<1>3. /\ open' \in SUBSET ProducerStates
      /\ \A q \in open' : \E p \in open : p.id = q.id /\ p.kind = q.kind
      /\ \A p \in open : \E q \in open' : q.id = p.id
  BY <1>1, <1>2
<1>4. \A j \in AllKinds \ {k} : Of(j, open') = Of(j, open)
  BY <1>1, <1>2 DEF Of
<1>5. \A q \in Of(k, open') : (\E p \in Of(k, open) : p.id = q.id) /\ (q.id = send.map[k] => q.paused = b)
  BY <1>1, <1>2 DEF Of
<1>6. \A p, q \in open' : p.id = q.id => p = q
  BY <1>1, <1>2 DEF Sound, Numbers
<1> QED BY <1>3, <1>4, <1>5, <1>6

LEMMA ToggleMicKeeps ==
  ASSUME DevicesIInv, ToggleMic
  PROVE  DevicesIInv'
<1> USE DEF DevicesIInv
<1> DEFINE on == "mic" \notin call.desired
<1>1. /\ phase = "call" /\ Click({}) /\ open' = Paused(send.map["mic"], ~on)
      /\ call' = [call EXCEPT !.desired = IF on THEN @ \cup {"mic"} ELSE @ \ {"mic"},
                    !.shown = IF on /\ call.captured /\ Of("mic", call.stream) # {} THEN @ \cup {"mic"} ELSE @ \ {"mic"}]
      /\ UNCHANGED <<phase, live, asks, lobby, send, work, share>>
  BY DEF ToggleMic
<1>2. /\ hist' \in Histories
      /\ hist'.captures = hist.captures /\ hist'.producers = hist.producers /\ hist'.stray = hist.stray
      /\ hist'.overlapped = hist.overlapped
  <2>1. {} \in SUBSET AllKinds /\ Typed /\ hist.overlapped \cup {} = hist.overlapped
    OBVIOUS
  <2> QED BY <1>1, <2>1, Clicked
<1>3. /\ call' \in CallStates /\ call'.captured = call.captured /\ call'.stream = call.stream
      /\ call'.desired = (IF on THEN call.desired \cup {"mic"} ELSE call.desired \ {"mic"})
      /\ call'.shown = IF on /\ call.captured /\ Of("mic", call.stream) # {}
                       THEN call.shown \cup {"mic"} ELSE call.shown \ {"mic"}
  <2>1. call \in CallStates /\ "mic" \in Kinds
    BY DEF Typed, PageTyped, Kinds
  <2> QED BY <1>1, <2>1 DEF CallStates
<1>4. /\ open' \in SUBSET ProducerStates
      /\ \A q \in open' : \E p \in open : p.id = q.id /\ p.kind = q.kind
      /\ \A p \in open : \E q \in open' : q.id = p.id
      /\ Of("cam", open') = Of("cam", open) /\ Of("screen", open') = Of("screen", open)
      /\ \A q \in Of("mic", open') : (\E p \in Of("mic", open) : p.id = q.id)
      /\ \A q \in Of("mic", open') : q.id = send.map["mic"] =>
           /\ on => q.paused = FALSE
           /\ ~on => q.paused = TRUE
      /\ \A p, q \in open' : p.id = q.id => p = q
  <2>1. "mic" \in Kinds /\ "cam" \in AllKinds \ {"mic"} /\ "screen" \in AllKinds \ {"mic"}
    BY DEF Kinds, AllKinds
  <2> HIDE DEF on
  <2>2. CASE on
    <3>1. open' = Paused(send.map["mic"], FALSE)
      BY <1>1, <2>2
    <3>2. PICK b \in BOOLEAN : b = FALSE
      OBVIOUS
    <3>3. open' = Paused(send.map["mic"], b)
      BY <3>1, <3>2
    <3>4. \A q \in Of("mic", open') : q.id = send.map["mic"] => q.paused = b
      BY <2>1, <3>3, PausedOf
    <3>5. \A q \in Of("mic", open') : q.id = send.map["mic"] => q.paused = FALSE
      BY <3>2, <3>4
    <3>6. /\ open' \in SUBSET ProducerStates
          /\ \A q \in open' : \E p \in open : p.id = q.id /\ p.kind = q.kind
          /\ \A p \in open : \E q \in open' : q.id = p.id
          /\ Of("cam", open') = Of("cam", open) /\ Of("screen", open') = Of("screen", open)
          /\ \A q \in Of("mic", open') : (\E p \in Of("mic", open) : p.id = q.id)
          /\ \A p, q \in open' : p.id = q.id => p = q
      BY <2>1, <3>3, PausedOf
    <3> QED BY <2>2, <3>5, <3>6
  <2>3. CASE ~on
    <3>1. open' = Paused(send.map["mic"], TRUE)
      BY <1>1, <2>3
    <3> QED BY <2>1, <2>3, <3>1, PausedOf
  <2> QED BY <2>2, <2>3
<1> HIDE DEF on
<1>5. Typed' /\ Sound'
  <2>1. Typed'
    BY <1>1, <1>2, <1>3, <1>4 DEF Typed, PageTyped, WireTyped
  <2>2. AsksSound' /\ WorkSound' /\ Granteds' /\ Streams'
    BY <1>1, <1>2, <1>3 DEF Sound, AsksSound, WorkSound, Granteds, Known, Streams
  <2>3. Numbers'
    BY <1>1, <1>2, <1>4 DEF Sound, Numbers
  <2> QED BY <2>1, <2>2, <2>3 DEF Sound
<1>6. InLobby' /\ Preview'
  BY <1>1, LobbyGone
<1>7. Early'
  BY <1>1, <1>2, <1>3, <1>4 DEF Early, Idle
<1>8. Captures'
  BY <1>1, <1>2, <1>3 DEF Captures, Capturing, Cams
<1>9. /\ Turning' = Turning /\ Adding' = Adding /\ SettingUp' = SettingUp /\ Publishing' = Publishing
      /\ FreeCams' = FreeCams /\ Picking' = Picking /\ Cams' = Cams /\ Screens' = Screens
  BY <1>1, <1>2, <1>3 DEF Turning, Picking, Asking, Adding, SettingUp, Publishing, Working, FreeCams, Cams, Screens
<1>10. Sending'
  BY <1>1, <1>3, <1>4, SendingKept DEF Of
<1>11. Mic'
  <2>1. call.captured => ("mic" \in call'.shown <=> "mic" \in call'.desired /\ Of("mic", call'.stream) # {})
    BY <1>3 DEF on
  <2>2. send.at # "waiting" => \A q \in Of("mic", open') : q.id = send.map["mic"] /\ q.paused = ("mic" \notin call'.desired)
    <3>1. CASE on
      <4>1. ("mic" \notin call'.desired) = FALSE
        BY <1>3, <3>1
      <4> QED BY <1>1, <1>4, <3>1, <4>1 DEF Mic
    <3>2. CASE ~on
      <4> SUFFICES ASSUME send.at # "waiting", NEW q \in Of("mic", open')
                   PROVE  q.id = send.map["mic"] /\ q.paused = ("mic" \notin call'.desired)
        OBVIOUS
      <4>1. q.id = send.map["mic"]
        BY <1>1, <1>4 DEF Mic
      <4>2. q.paused = TRUE
        BY <1>4, <3>2, <4>1
      <4>3. "mic" \notin call'.desired
        BY <1>3, <3>2
      <4> QED BY <4>1, <4>2, <4>3
    <3> QED BY <3>1, <3>2
  <2>3. send.at \in {"signalling", "mic"} => Of("mic", open') = {}
    BY <1>1, <1>4 DEF Mic
  <2> QED BY <1>1, <1>3, <2>1, <2>2, <2>3 DEF Mic
<1>12. Cam'
  <2> SUFFICES ASSUME call.captured, "cam" \notin hist.overlapped PROVE CamHeld' /\ CamBusyOnce' /\ CamSent'
    BY <1>2, <1>3 DEF Cam
  <2>1. CamHeld /\ CamBusyOnce /\ CamSent
    BY <1>1 DEF Cam
  <2>2. ("cam" \in call'.desired <=> "cam" \in call.desired) /\ ("cam" \in call'.shown <=> "cam" \in call.shown)
    BY <1>3
  <2>3. CamHeld' /\ CamBusyOnce' /\ CamSent'
    BY <1>1, <1>3, <1>4, <1>9, <2>1, <2>2 DEF CamHeld, CamBusyOnce, CamSent, OnTransport
  <2> QED BY <2>3
<1>13. Sharing'
  <2>1. \A p \in open : p.kind = "screen" => \E q \in open' : q.id = p.id /\ q.track = p.track
    BY <1>4 DEF Of
  <2> QED BY <1>1, <1>2, <1>9, <2>1, SharingKept
<1>14. NoLostCapture'
  BY <1>1, <1>2, <1>3 DEF NoLostCapture, Held
<1> QED BY <1>5, <1>6, <1>7, <1>8, <1>10, <1>11, <1>12, <1>13, <1>14

LEMMA CameraOffKeeps ==
  ASSUME DevicesIInv, CameraOff
  PROVE  DevicesIInv'
<1> USE DEF DevicesIInv
<1> DEFINE T == If(call.captured, Cams)
           K == If(CamBusy \/ ~call.captured, {"cam"})
<1>1. /\ phase = "call" /\ "cam" \in call.desired /\ Click(K) /\ live' = live \ T
      /\ call' = [call EXCEPT !.desired = @ \ {"cam"}, !.shown = @ \ {"cam"}, !.stream = @ \ T]
      /\ open' = Paused(send.map["cam"], TRUE)
      /\ UNCHANGED <<phase, asks, lobby, send, work, share>>
  BY DEF CameraOff, Cams
<1>2. /\ K \in SUBSET AllKinds
      /\ "cam" \notin K => call.captured /\ Turning = {} /\ \A w \in work : w.track.kind # "cam"
  BY DEF If, CamBusy, AllKinds, Kinds, Turning
<1>3. T \subseteq Cams /\ (call.captured => T = Cams)
  BY DEF If
<1> HIDE DEF T, K
<1>4. /\ hist' \in Histories
      /\ hist'.captures = hist.captures /\ hist'.producers = hist.producers /\ hist'.stray = hist.stray
      /\ hist'.overlapped = hist.overlapped \cup K
  BY <1>1, <1>2, Clicked
<1>5. /\ call' \in CallStates /\ call'.captured = call.captured /\ call'.stream = call.stream \ T
      /\ call'.desired = call.desired \ {"cam"} /\ call'.shown = call.shown \ {"cam"}
  <2>1. call \in CallStates
    BY DEF Typed, PageTyped
  <2> QED BY <1>1, <2>1 DEF CallStates
<1>6. /\ open' \in SUBSET ProducerStates
      /\ \A q \in open' : \E p \in open : p.id = q.id /\ p.kind = q.kind
      /\ \A p \in open : \E q \in open' : q.id = p.id
      /\ Of("mic", open') = Of("mic", open) /\ Of("screen", open') = Of("screen", open)
      /\ \A q \in Of("cam", open') : (\E p \in Of("cam", open) : p.id = q.id) /\ (q.id = send.map["cam"] => q.paused = TRUE)
      /\ \A p, q \in open' : p.id = q.id => p = q
  <2>1. "cam" \in Kinds /\ TRUE \in BOOLEAN /\ "mic" \in AllKinds \ {"cam"} /\ "screen" \in AllKinds \ {"cam"}
    BY DEF Kinds, AllKinds
  <2> QED BY <1>1, <2>1, PausedOf
<1>7. Typed' /\ Sound'
  <2>1. Typed'
    BY <1>1, <1>4, <1>5, <1>6 DEF Typed, PageTyped, WireTyped
  <2>2. AsksSound' /\ WorkSound' /\ Granteds' /\ Streams'
    BY <1>1, <1>4, <1>5 DEF Sound, AsksSound, WorkSound, Granteds, Known, Streams
  <2>3. Numbers'
    <3>1. /\ \A p \in open : 0 < p.id /\ p.id <= hist.producers
          /\ \A k \in Kinds : send.map[k] <= hist.producers
          /\ share.producer <= hist.producers /\ \A p \in open : p.id = share.producer => p.kind = "screen"
      BY DEF Sound, Numbers
    <3>2. \A p \in open' : 0 < p.id /\ p.id <= hist'.producers /\ (p.id = share'.producer => p.kind = "screen")
      <4> SUFFICES ASSUME NEW q \in open'
                   PROVE  0 < q.id /\ q.id <= hist.producers /\ (q.id = share.producer => q.kind = "screen")
        BY <1>1, <1>4
      <4>1. PICK p \in open : p.id = q.id /\ p.kind = q.kind
        BY <1>6
      <4> QED BY <3>1, <4>1
    <3>3. (\A k \in Kinds : send'.map[k] <= hist'.producers) /\ share'.producer <= hist'.producers
      BY <1>1, <1>4, <3>1
    <3>4. \A p, q \in open' : p.id = q.id => p = q
      BY <1>6
    <3> QED BY <3>2, <3>3, <3>4 DEF Numbers
  <2> QED BY <2>1, <2>2, <2>3 DEF Sound
<1>8. InLobby' /\ Preview'
  BY <1>1, LobbyGone
<1>9. Early'
  BY <1>1, <1>4, <1>5, <1>6 DEF Early, Idle
<1>10. Captures'
  BY <1>1, <1>2, <1>4, <1>5 DEF Captures, Capturing, Cams, Of
<1>11. /\ Turning' = Turning /\ Adding' = Adding /\ SettingUp' = SettingUp /\ Publishing' = Publishing
       /\ FreeCams' = FreeCams \ T /\ Picking' = Picking /\ Cams' = Cams \ T /\ Screens' = Screens
  BY <1>1, <1>3, <1>4, <1>5
     DEF Turning, Picking, Asking, Adding, SettingUp, Publishing, Working, FreeCams, Cams, Screens, Of
<1>12. Sending'
  <2>1. \A w \in SettingUp : w.track \in live' /\ w.track \in call.stream => w.track \in call'.stream
    BY <1>1, <1>5
  <2>2. Of("mic", call.stream) \subseteq call'.stream
    BY <1>3, <1>5 DEF Cams, Of
  <2> QED BY <1>1, <1>6, <2>1, <2>2, SendingKept DEF Sound
<1>13. Mic'
  <2>1. Of("mic", call'.stream) = Of("mic", call.stream)
    BY <1>3, <1>5 DEF Cams, Of
  <2>2. ("mic" \in call'.desired <=> "mic" \in call.desired) /\ ("mic" \in call'.shown <=> "mic" \in call.shown)
    BY <1>5
  <2> QED BY <1>1, <1>5, <1>6, <2>1, <2>2 DEF Mic
<1>14. Cam'
  <2> SUFFICES ASSUME call.captured, "cam" \notin hist'.overlapped PROVE CamHeld' /\ CamBusyOnce' /\ CamSent'
    BY <1>5 DEF Cam
  <2>1. CamHeld /\ CamBusyOnce /\ CamSent /\ Turning = {} /\ Adding = {} /\ T = Cams
    BY <1>1, <1>2, <1>3, <1>4 DEF Cam, Adding, Working, Sound, WorkSound
  <2>2. Cams' = {} /\ FreeCams' = {} /\ "cam" \notin call'.shown /\ "cam" \notin call'.desired
    BY <1>5, <1>11, <2>1 DEF CamHeld
  <2>3. CamHeld' /\ CamBusyOnce'
    <3>1. \A w \in SettingUp : w.track.kind # "cam"
      BY <1>2, <1>4 DEF SettingUp, Working
    <3> QED BY <1>11, <2>1, <2>2, <3>1 DEF CamHeld, CamBusyOnce
  <2>4. CamSent'
    BY <1>1, <1>6, <1>11, <2>1, <2>2 DEF CamSent
  <2> QED BY <2>3, <2>4
<1>15. Sharing'
  <2>1. \A p \in open : p.kind = "screen" => \E q \in open' : q.id = p.id /\ q.track = p.track
    BY <1>6 DEF Of
  <2> QED BY <1>1, <1>4, <1>11, <2>1, SharingKept
<1>16. NoLostCapture'
  BY <1>1, <1>4, <1>5 DEF NoLostCapture, Held
<1> QED BY <1>7, <1>8, <1>9, <1>10, <1>12, <1>13, <1>14, <1>15, <1>16

LEMMA CameraOnKeeps ==
  ASSUME DevicesIInv, CameraOn
  PROVE  DevicesIInv'
<1> USE DEF DevicesIInv
<1> DEFINE K == If(CamBusy, {"cam"})
           a == Ask("toggle", "cam")
<1>1. /\ phase = "call" /\ "cam" \notin call.desired /\ call.captured /\ Click(K)
      /\ call' = [call EXCEPT !.desired = @ \cup {"cam"}] /\ asks' = asks \cup {a}
      /\ UNCHANGED <<phase, live, lobby, send, open, work, share>>
  BY DEF CameraOn
<1>2. /\ K \in SUBSET AllKinds
      /\ "cam" \notin K => Turning = {} /\ \A w \in work : w.track.kind # "cam"
  BY DEF If, CamBusy, AllKinds, Kinds, Turning
<1>3. a.for = "toggle" /\ a.kind = "cam" /\ a.of = send.n /\ a \in AskStates
  BY DEF Ask, AskStates, AllKinds, Kinds, Typed, WireTyped, SendStates, Histories
<1> HIDE DEF a, K
<1>4. /\ hist' \in Histories
      /\ hist'.captures = hist.captures /\ hist'.producers = hist.producers /\ hist'.stray = hist.stray
      /\ hist'.overlapped = hist.overlapped \cup K
  BY <1>1, <1>2, Clicked
<1>5. /\ call' \in CallStates /\ call'.captured = call.captured /\ call'.stream = call.stream
      /\ call'.desired = call.desired \cup {"cam"} /\ call'.shown = call.shown
  <2>1. call \in CallStates /\ "cam" \in Kinds
    BY DEF Typed, PageTyped, Kinds
  <2> QED BY <1>1, <2>1 DEF CallStates
<1>6. Typed' /\ Sound'
  <2>1. Typed'
    BY <1>1, <1>3, <1>4, <1>5 DEF Typed, PageTyped, WireTyped
  <2>2. AsksSound'
    BY <1>1, <1>3 DEF Sound, AsksSound, Typed, WireTyped, SendStates
  <2>3. WorkSound' /\ Granteds' /\ Streams' /\ Numbers'
    BY <1>1, <1>4, <1>5 DEF Sound, WorkSound, Granteds, Known, Streams, Numbers
  <2> QED BY <2>1, <2>2, <2>3 DEF Sound
<1>7. InLobby' /\ Preview' /\ Early' /\ Captures'
  BY <1>1, <1>3, <1>5, CallGoesOn
<1>8. /\ Turning' = Turning \cup {a} /\ Adding' = Adding /\ SettingUp' = SettingUp /\ Publishing' = Publishing
      /\ FreeCams' = FreeCams /\ Picking' = Picking /\ Cams' = Cams /\ Screens' = Screens
  BY <1>1, <1>3, <1>4, <1>5
     DEF Turning, Picking, Asking, Adding, SettingUp, Publishing, Working, FreeCams, Cams, Screens
<1>9. Sending'
  BY <1>1, <1>5, SendingKept DEF Of
<1>10. Mic'
  <2>1. "mic" \in call'.desired <=> "mic" \in call.desired
    BY <1>5
  <2> QED BY <1>1, <1>5, <2>1 DEF Mic
<1>11. Cam'
  <2> SUFFICES ASSUME "cam" \notin hist'.overlapped PROVE CamHeld' /\ CamBusyOnce' /\ CamSent'
    BY DEF Cam
  <2>1. /\ CamHeld /\ CamBusyOnce /\ CamSent /\ Turning = {} /\ Adding = {} /\ Cams = {}
        /\ \A w \in SettingUp : w.track.kind # "cam"
    BY <1>1, <1>2, <1>4 DEF Cam, CamHeld, Adding, SettingUp, Working, Sound, WorkSound
  <2>2. CamHeld' /\ CamBusyOnce'
    BY <1>5, <1>8, <2>1 DEF CamHeld, CamBusyOnce
  <2>3. CamSent'
    <3>1. ("cam" \notin call.desired \/ Turning \cup Adding # {}) /\ ("cam" \notin call'.desired \/ Turning' \cup Adding' # {})
      BY <1>1, <1>8
    <3> QED BY <1>1, <1>8, <2>1, <3>1 DEF CamSent
  <2> QED BY <2>2, <2>3
<1>12. Sharing'
  BY <1>1, <1>4, <1>8, SharingKept
<1>13. NoLostCapture'
  BY <1>1, <1>4, <1>5 DEF NoLostCapture, Held
<1> QED BY <1>6, <1>7, <1>9, <1>10, <1>11, <1>12, <1>13

LEMMA CameraRefusedKeeps ==
  ASSUME DevicesIInv, NEW a \in asks, CameraRefused(a)
  PROVE  DevicesIInv'
<1> USE DEF DevicesIInv
<1>1. /\ a.for = "toggle" /\ asks' = asks \ {a}
      /\ call' = [call EXCEPT !.desired = @ \ {"cam"}, !.shown = @ \ {"cam"}]
      /\ UNCHANGED <<phase, live, lobby, send, open, work, share, hist>>
  BY DEF CameraRefused
<1>2. a \in Turning
  BY <1>1 DEF Turning, Asking, Sound, AsksSound
<1>3. call.captured /\ phase # "lobby"
  BY <1>1 DEF Early, Idle, InLobby
<1>4. /\ call' \in CallStates /\ call'.captured = call.captured /\ call'.stream = call.stream
      /\ call'.desired = call.desired \ {"cam"} /\ call'.shown = call.shown \ {"cam"}
  <2>1. call \in CallStates
    BY DEF Typed, PageTyped
  <2> QED BY <1>1, <2>1 DEF CallStates
<1>5. Typed' /\ Sound'
  <2>1. Typed'
    BY <1>1, <1>4 DEF Typed, PageTyped, WireTyped
  <2>2. AsksSound' /\ WorkSound' /\ Granteds' /\ Streams' /\ Numbers'
    BY <1>1, <1>4 DEF Sound, AsksSound, WorkSound, Granteds, Known, Streams, Numbers
  <2> QED BY <2>1, <2>2 DEF Sound
<1>6. InLobby' /\ Preview' /\ Early' /\ Captures'
  BY <1>1, <1>3, <1>4, CallGoesOn
<1>7. /\ Turning' = Turning \ {a} /\ Adding' = Adding /\ SettingUp' = SettingUp /\ Publishing' = Publishing
      /\ FreeCams' = FreeCams /\ Picking' = Picking /\ Cams' = Cams /\ Screens' = Screens
  BY <1>1, <1>4
     DEF Turning, Picking, Asking, Adding, SettingUp, Publishing, Working, FreeCams, Cams, Screens
<1>8. Sending'
  BY <1>1, <1>4, SendingKept DEF Of
<1>9. Mic'
  <2>1. ("mic" \in call'.desired <=> "mic" \in call.desired) /\ ("mic" \in call'.shown <=> "mic" \in call.shown)
    BY <1>4
  <2> QED BY <1>1, <1>4, <2>1 DEF Mic
<1>10. Cam'
  <2> SUFFICES ASSUME phase = "call", "cam" \notin hist.overlapped PROVE CamHeld' /\ CamBusyOnce' /\ CamSent'
    BY <1>1 DEF Cam
  <2>1. /\ CamHeld /\ CamBusyOnce /\ CamSent /\ Turning' = {} /\ Adding = {} /\ Cams = {}
        /\ \A w \in SettingUp : w.track.kind # "cam"
    BY <1>2, <1>3, <1>7 DEF Cam, CamBusyOnce, Cams, Of
  <2>2. CamHeld' /\ CamBusyOnce'
    BY <1>4, <1>7, <2>1 DEF CamHeld, CamBusyOnce
  <2>3. CamSent'
    <3>1. ("cam" \notin call.desired \/ Turning \cup Adding # {}) /\ ("cam" \notin call'.desired \/ Turning' \cup Adding' # {})
      BY <1>2, <1>4
    <3> QED BY <1>1, <1>7, <2>1, <3>1 DEF CamSent
  <2> QED BY <2>2, <2>3
<1>11. Sharing'
  BY <1>1, <1>7, SharingKept
<1>12. NoLostCapture'
  BY <1>1, <1>4 DEF NoLostCapture, Held
<1> QED BY <1>5, <1>6, <1>8, <1>9, <1>10, <1>11, <1>12

LEMMA LeaveCallKeeps ==
  ASSUME DevicesIInv, LeaveCall
  PROVE  DevicesIInv'
<1> USE DEF DevicesIInv
<1>1. /\ phase = "call" /\ phase' = "left" /\ live' = live \ (share.stream \cup If(call.captured, call.stream))
      /\ open' = {} /\ send' = [send EXCEPT !.up = FALSE, !.map = NoProducer]
      /\ share' = ShareStopped /\ call' = [call EXCEPT !.stream = If(~call.captured, @)]
      /\ UNCHANGED <<asks, lobby, work, hist>>
  BY DEF LeaveCall, StoppedOnLeaving
<1>2. /\ send' \in SendStates /\ send'.n = send.n /\ send'.at = send.at /\ ~send'.up
      /\ send'.map = [k \in Kinds |-> 0]
  BY <1>1 DEF Typed, WireTyped, SendStates, NoProducer
<1>3. /\ share' \in ShareStates /\ share'.producer = 0 /\ share'.stream = {} /\ ~share'.shown
      /\ share'.heard = share.heard
  BY <1>1 DEF Typed, WireTyped, ShareStates, ShareStopped
<1>4. /\ call' \in CallStates /\ call'.captured = call.captured /\ call'.stream = If(~call.captured, call.stream)
      /\ call'.desired = call.desired /\ call'.shown = call.shown
  <2>1. call \in CallStates
    BY DEF Typed, PageTyped
  <2>2. If(~call.captured, call.stream) \in SUBSET Tracks
    BY <2>1 DEF CallStates, If
  <2> QED BY <1>1, <2>1, <2>2 DEF CallStates
<1>5. Typed' /\ Sound'
  <2>1. Typed'
    BY <1>1, <1>2, <1>3, <1>4 DEF Typed, PageTyped, WireTyped
  <2>2. AsksSound' /\ WorkSound' /\ Numbers'
    BY <1>1, <1>2, <1>3 DEF Typed, WireTyped, Histories, Sound, AsksSound, WorkSound, Numbers
  <2>3. Granteds' /\ Streams'
    BY <1>1, <1>3, <1>4 DEF Sound, Granteds, Known, Streams, If
  <2> QED BY <2>1, <2>2, <2>3 DEF Sound
<1>6. InLobby' /\ Preview'
  BY <1>1, LobbyGone
<1>7. Early'
  BY <1>1, <1>2, <1>3, <1>4 DEF Early, Idle, If
<1>8. Captures'
  BY <1>1, <1>4 DEF Captures, Capturing, Cams, If
<1>9. /\ SettingUp' = SettingUp /\ Publishing' = Publishing /\ Picking' = Picking
  BY <1>1 DEF Picking, Asking, SettingUp, Publishing, Working
<1>10. Sending'
  <2>1. \A w \in SettingUp : w.track \notin live'
    <3>1. SettingUp # {} => call.captured
      BY DEF Early, Idle, SettingUp, Working
    <3> QED BY <1>1, <3>1 DEF Sending, If
  <2> QED BY <1>1, <1>2, <1>9, <2>1 DEF Sending
<1>11. Mic' /\ Cam'
  BY <1>1 DEF Mic, Cam
<1>12. Sharing'
  <2> SUFFICES ASSUME "screen" \notin hist.overlapped PROVE ShareOnce' /\ ShareHeld'
    BY <1>1 DEF Sharing
  <2>1. ShareOnce /\ ShareHeld
    BY DEF Sharing
  <2>2. ShareOnce' /\ \A w \in Publishing' : ~OnTransport(w)'
    BY <1>2, <1>9, <2>1 DEF ShareOnce, OnTransport
  <2>3. \A t \in Screens' : t \notin share.heard
    BY <1>1, <2>1 DEF ShareHeld, Screens, Of
  <2> QED BY <1>3, <2>2, <2>3 DEF ShareHeld
<1>13. NoLostCapture'
  BY <1>1, <1>3, <1>4 DEF NoLostCapture, Held, If
<1> QED BY <1>5, <1>6, <1>7, <1>8, <1>10, <1>11, <1>12, <1>13

LEMMA CameraAddedIs ==
  ASSUME Typed, Sound, NEW t \in Tracks, t.kind = "cam", NEW L \in SUBSET Tracks, CameraAdded(t, L)
  PROVE  /\ live' = L \ Cams /\ call' \in CallStates /\ call'.captured = call.captured
         /\ call'.stream = (call.stream \ Cams) \cup {t}
         /\ call'.desired = call.desired /\ call'.shown = call.shown \cup {"cam"}
         /\ Cams' = {t} /\ Of("mic", call'.stream) = Of("mic", call.stream)
         /\ \A u \in call'.stream : u.kind \in Kinds
         /\ \A u, v \in call'.stream : u.kind = v.kind => u = v
<1>1. /\ live' = L \ Cams
      /\ call' = [call EXCEPT !.stream = (@ \ Of("cam", @)) \cup {t}, !.shown = @ \cup {"cam"}]
  BY DEF CameraAdded, ReplacedTracks, Cams
<1>2. call \in CallStates /\ "cam" \in Kinds
  BY DEF Typed, PageTyped, Kinds
<1>3. /\ call' \in CallStates /\ call'.captured = call.captured
      /\ call'.stream = (call.stream \ Cams) \cup {t}
      /\ call'.desired = call.desired /\ call'.shown = call.shown \cup {"cam"}
  BY <1>1, <1>2 DEF CallStates, Cams
<1>4. /\ Cams' = {t} /\ Of("mic", call'.stream) = Of("mic", call.stream)
      /\ \A u \in call'.stream : u.kind \in Kinds
      /\ \A u, v \in call'.stream : u.kind = v.kind => u = v
  BY <1>3 DEF Cams, Of, Kinds, Sound, Streams
<1> QED BY <1>1, <1>3, <1>4

LEMMA CameraGrantedKeeps ==
  ASSUME DevicesIInv, NEW a \in asks, CameraGranted(a)
  PROVE  DevicesIInv'
<1> USE DEF DevicesIInv
<1> DEFINE t == Fresh("cam")
           w == IF send.map["cam"] # 0 THEN [job |-> "replace", track |-> t, of |-> send.map["cam"]]
                                       ELSE [job |-> "produce", track |-> t, of |-> send.n]
<1>1. /\ a.for = "toggle" /\ asks' = asks \ {a} /\ UNCHANGED <<phase, lobby, send, open, share>>
      /\ \/ "cam" \notin call.desired /\ hist' = Granted(hist) /\ UNCHANGED <<live, call, work>>
         \/ /\ "cam" \in call.desired /\ live' = live \cup {t} /\ hist' = Granted(hist) /\ UNCHANGED call
            /\ work' = work \cup {w}
         \/ /\ "cam" \in call.desired /\ ~send.up
            /\ CameraAdded(t, live \cup {t}) /\ UNCHANGED work
            /\ hist' = [Granted(hist) EXCEPT !.stray = @ \cup If(phase = "left", {t})]
  BY DEF CameraGranted
<1>2. hist \in Histories /\ t \in Tracks /\ t.kind = "cam" /\ t.id = hist.captures + 1
  BY DEF Fresh, Typed, WireTyped, Histories, Tracks, AllKinds, Kinds
<1>3. /\ w \in Works /\ w.job \in {"replace", "produce"} /\ w.track = t
      /\ w.job = "replace" => w.of = send.map["cam"] /\ w.of <= hist.producers
      /\ w.job = "produce" => w.of = send.n /\ w.of <= send.n /\ send.map["cam"] = 0
  <2>1. send \in SendStates /\ send.n \in Nat /\ send.map["cam"] \in Nat /\ send.map["cam"] <= hist.producers /\ send.n <= send.n
    BY DEF Typed, WireTyped, SendStates, Kinds, Sound, Numbers
  <2> HIDE DEF t
  <2> QED BY <1>2, <2>1 DEF Works
<1> HIDE DEF t, w
<1>4. call.captured /\ phase # "lobby"
  BY <1>1 DEF Early, Idle, InLobby
<1>5. /\ hist' \in Histories /\ hist'.captures = hist.captures + 1 /\ hist'.producers = hist.producers
      /\ hist'.overlapped = hist.overlapped
  <2>1. If(phase = "left", {t}) \in SUBSET Tracks
    BY <1>2 DEF If
  <2> HIDE DEF DevicesIInv
  <2>2. CASE hist' = Granted(hist)
    BY <1>2, <2>2, GrantedTyped
  <2>3. CASE hist' = [Granted(hist) EXCEPT !.stray = @ \cup If(phase = "left", {t})]
    BY <1>2, <2>1, <2>3, GrantedTyped DEF Histories
  <2> QED BY <1>1, <2>2, <2>3
<1>6. Known \subseteq Tracks /\ t \notin Known /\ \A v \in work : v.track # t
  <2>1. Known \subseteq Tracks
    BY DEF Typed, PageTyped, WireTyped, LobbyStates, CallStates, ShareStates, Histories, Known
  <2> QED BY <1>2, <2>1 DEF Sound, Granteds, WorkSound, Histories
<1>7. a \in Turning /\ Turning' = Turning \ {a} /\ Picking' = Picking
  BY <1>1 DEF Turning, Picking, Asking, Sound, AsksSound
<1>8. phase = "call" /\ "cam" \notin hist.overlapped =>
        /\ CamHeld /\ CamBusyOnce /\ CamSent /\ "cam" \in call.desired /\ Turning' = {} /\ Adding = {} /\ Cams = {}
        /\ FreeCams = {} /\ \A v \in SettingUp : v.track.kind # "cam"
  <2> SUFFICES ASSUME phase = "call", "cam" \notin hist.overlapped
               PROVE  /\ CamHeld /\ CamBusyOnce /\ CamSent /\ "cam" \in call.desired /\ Turning' = {} /\ Adding = {} /\ Cams = {}
                      /\ FreeCams = {} /\ \A v \in SettingUp : v.track.kind # "cam"
    OBVIOUS
  <2>1. CamHeld /\ CamBusyOnce /\ CamSent
    BY <1>4 DEF Cam
  <2>2. "cam" \in call.desired /\ Turning' = {} /\ Adding = {} /\ Cams = {}
    BY <1>7, <2>1 DEF CamBusyOnce
  <2> QED BY <2>1, <2>2 DEF CamHeld, CamBusyOnce, Cams, Of
<1>9. WorkSound' /\ AsksSound' /\ Numbers'
  <2>1. work' \subseteq work \cup {w}
    BY <1>1
  <2>2. \A v \in work : v.track.id <= hist'.captures
    BY <1>2, <1>5 DEF Sound, WorkSound, Typed, WireTyped, Works, Tracks, Histories
  <2>3. w.track.id <= hist'.captures
    BY <1>2, <1>3, <1>5 DEF Histories
  <2>4. WorkSound'
    BY <1>1, <1>2, <1>3, <1>5, <2>1, <2>2, <2>3 DEF Sound, WorkSound
  <2>5. AsksSound' /\ Numbers'
    BY <1>1, <1>5 DEF Sound, AsksSound, Numbers
  <2> QED BY <2>4, <2>5
<1>10. Known' \subseteq Known \cup {t} => Granteds'
  BY <1>2, <1>5, <1>6 DEF Sound, Granteds, Histories, Tracks
<1>11. CASE "cam" \notin call.desired /\ hist' = Granted(hist) /\ UNCHANGED <<live, call, work>>
  <2>1. hist'.stray = hist.stray
    BY <1>2, <1>11, GrantedTyped
  <2>2. Typed' /\ Sound'
    BY <1>1, <1>5, <1>9, <1>10, <1>11, <2>1 DEF Typed, PageTyped, WireTyped, Sound, Streams, Known
  <2>3. /\ Adding' = Adding /\ SettingUp' = SettingUp /\ Publishing' = Publishing /\ Screens' = Screens
    BY <1>11 DEF Adding, SettingUp, Publishing, Working, Screens
  <2>4. InLobby' /\ Preview' /\ Early' /\ Captures'
    BY <1>1, <1>4, <1>11, CallGoesOn
  <2>5. Sending' /\ Mic'
    BY <1>1, <1>11, SendingKept, MicKept DEF Of
  <2>6. Cam'
    BY <1>1, <1>5, <1>8, <1>11 DEF Cam
  <2>7. Sharing'
    BY <1>1, <1>5, <1>7, <2>3, SharingKept
  <2>8. NoLostCapture'
    BY <1>1, <1>5, <1>11, <2>1 DEF NoLostCapture, Held
  <2> QED BY <2>2, <2>4, <2>5, <2>6, <2>7, <2>8
<1>12. CASE "cam" \in call.desired /\ live' = live \cup {t} /\ hist' = Granted(hist) /\ UNCHANGED call
            /\ work' = work \cup {w}
  <2>1. hist'.stray = hist.stray
    BY <1>2, <1>12, GrantedTyped
  <2>2. Typed' /\ Sound'
    <3>1. Typed'
      BY <1>1, <1>2, <1>3, <1>5, <1>12 DEF Typed, PageTyped, WireTyped
    <3>2. Streams' /\ Granteds'
      BY <1>1, <1>10, <1>12, <2>1 DEF Sound, Streams, Known
    <3> QED BY <1>9, <3>1, <3>2 DEF Sound
  <2>3. /\ Adding' = Adding \cup {w} /\ SettingUp' = SettingUp /\ Publishing' = Publishing /\ Screens' = Screens
        /\ FreeCams' = FreeCams \cup {t} /\ Cams' = Cams
    BY <1>2, <1>3, <1>6, <1>12, <2>1
       DEF Adding, SettingUp, Publishing, Working, Screens, FreeCams, Cams, Of, Known
  <2>4. InLobby' /\ Preview' /\ Early' /\ Captures'
    BY <1>1, <1>4, <1>12, CallGoesOn
  <2>5. Sending' /\ Mic'
    <3>1. \A v \in SettingUp : v.track # t
      BY <1>6 DEF SettingUp, Working
    <3> QED BY <1>1, <1>3, <1>12, <3>1, SendingKept, MicKept DEF Of
  <2>6. Cam'
    <3> SUFFICES ASSUME phase = "call", "cam" \notin hist.overlapped PROVE CamHeld' /\ CamBusyOnce' /\ CamSent'
      BY <1>1, <1>5 DEF Cam
    <3>1. Adding' = {w} /\ FreeCams' = {t} /\ Cams' = {} /\ Turning' = {} /\ SettingUp' = SettingUp
      BY <1>8, <2>3
    <3>2. CamHeld'
      BY <1>3, <1>8, <1>12, <3>1 DEF CamHeld
    <3>3. CamBusyOnce'
      BY <1>1, <1>3, <1>8, <1>12, <3>1 DEF CamBusyOnce
    <3>4. CamSent'
      <4>1. ("cam" \notin call.desired \/ Turning \cup Adding # {}) /\ ("cam" \notin call'.desired \/ Turning' \cup Adding' # {})
        BY <1>7, <3>1
      <4>2. \A v \in Adding' : v.job = "produce" => send.map["cam"] = 0
        BY <1>3, <3>1
      <4> QED BY <1>1, <1>8, <4>1, <4>2 DEF CamSent
    <3> QED BY <3>2, <3>3, <3>4
  <2>7. Sharing'
    BY <1>1, <1>5, <1>7, <2>3, SharingKept
  <2>8. NoLostCapture'
    BY <1>1, <1>3, <1>5, <1>12, <2>1 DEF NoLostCapture, Held
  <2> QED BY <2>2, <2>4, <2>5, <2>6, <2>7, <2>8
<1>13. CASE /\ "cam" \in call.desired /\ ~send.up
            /\ CameraAdded(t, live \cup {t}) /\ UNCHANGED work
            /\ hist' = [Granted(hist) EXCEPT !.stray = @ \cup If(phase = "left", {t})]
  <2>1. hist'.stray = hist.stray \cup If(phase = "left", {t})
    BY <1>2, <1>13, GrantedTyped DEF Histories
  <2>2. live \cup {t} \in SUBSET Tracks
    BY <1>2 DEF Typed, PageTyped
  <2>3. /\ live' = (live \cup {t}) \ Cams /\ call' \in CallStates /\ call'.captured = call.captured
        /\ call'.stream = (call.stream \ Cams) \cup {t}
        /\ call'.desired = call.desired /\ call'.shown = call.shown \cup {"cam"}
        /\ Cams' = {t} /\ Of("mic", call'.stream) = Of("mic", call.stream)
        /\ \A u \in call'.stream : u.kind \in Kinds
        /\ \A u, v \in call'.stream : u.kind = v.kind => u = v
    BY <1>2, <1>13, <2>2, CameraAddedIs
  <2>4. Typed' /\ Sound'
    <3>1. Typed'
      BY <1>1, <1>2, <1>5, <1>13, <2>2, <2>3 DEF Typed, PageTyped, WireTyped
    <3>2. Streams'
      BY <1>1, <2>3 DEF Sound, Streams
    <3>3. Granteds'
      BY <1>1, <1>10, <2>1, <2>3 DEF Known, If
    <3> QED BY <1>9, <3>1, <3>2, <3>3 DEF Sound
  <2>5. /\ Adding' = Adding /\ SettingUp' = SettingUp /\ Publishing' = Publishing /\ Screens' = Screens
    BY <1>2, <1>13, <2>3 DEF Adding, SettingUp, Publishing, Working, Screens, Cams, Of
  <2>6. InLobby' /\ Preview' /\ Early' /\ Captures'
    BY <1>1, <1>4, <2>3, CallGoesOn
  <2>7. Sending'
    <3>1. \A v \in SettingUp : v.track # t
      BY <1>6 DEF SettingUp, Working
    <3> QED BY <1>1, <1>13, <2>3, <3>1, SendingKept DEF Of
  <2>8. Mic'
    <3>1. "mic" \in call'.shown <=> "mic" \in call.shown
      BY <2>3
    <3> QED BY <1>1, <2>3, <3>1 DEF Mic
  <2>9. Cam'
    <3> SUFFICES ASSUME phase = "call", "cam" \notin hist.overlapped PROVE CamHeld' /\ CamBusyOnce' /\ CamSent'
      BY <1>1, <1>5 DEF Cam
    <3>1. Adding' = {} /\ FreeCams' = {t} /\ Turning' = {} /\ open' = {}
      <4>1. hist'.stray = hist.stray /\ live' = live \cup {t} /\ open = {}
        BY <1>8, <1>13, <2>1, <2>3 DEF If, Sending
      <4> QED BY <1>1, <1>2, <1>6, <1>8, <2>5, <4>1 DEF FreeCams, Of, Known
    <3>2. CamHeld'
      BY <1>13, <2>3, <3>1 DEF CamHeld
    <3>3. CamBusyOnce'
      BY <1>8, <2>5, <3>1 DEF CamBusyOnce
    <3>4. CamSent'
      BY <3>1 DEF CamSent, Of
    <3> QED BY <3>2, <3>3, <3>4
  <2>10. Sharing'
    BY <1>1, <1>5, <1>7, <2>5, SharingKept
  <2>11. NoLostCapture'
    BY <1>1, <1>5, <1>13, <2>1, <2>3 DEF NoLostCapture, Held
  <2> QED BY <2>4, <2>6, <2>7, <2>8, <2>9, <2>10, <2>11
<1> QED BY <1>1, <1>11, <1>12, <1>13

LEMMA CameraDoneKeeps ==
  ASSUME DevicesIInv, NEW w \in work, CameraDone(w)
  PROVE  DevicesIInv'
<1> USE DEF DevicesIInv
<1> DEFINE t == w.track
           p == NewProducer(w, "cam", FALSE)
           G(q) == IF q.id = w.of THEN [q EXCEPT !.track = t, !.paused = FALSE] ELSE q
<1>1. /\ w.job \in {"replace", "produce"} /\ work' = work \ {w} /\ UNCHANGED <<phase, asks, lobby, share>>
      /\ \/ CameraFails(t) /\ UNCHANGED hist
         \/ /\ w.job = "replace" /\ (\E q \in open : q.id = w.of)
            /\ open' = {G(q) : q \in open} /\ CameraAdded(t, live) /\ UNCHANGED <<send, hist>>
         \/ /\ w.job = "produce" /\ OnTransport(w) /\ open' = open \cup {p}
            /\ send' = [send EXCEPT !.map["cam"] = hist.producers + 1]
            /\ hist' = Produced(hist) /\ CameraAdded(t, live)
  BY DEF CameraDone
<1>2. /\ w \in Works /\ t \in Tracks /\ t.kind = "cam" /\ t.id <= hist.captures /\ hist \in Histories /\ w \in Adding
      /\ live \in SUBSET Tracks
  BY <1>1 DEF Typed, PageTyped, WireTyped, Works, Sound, WorkSound, Adding, Working
<1>3. /\ p \in ProducerStates /\ p.kind = "cam" /\ p.id = hist.producers + 1 /\ p.paused = FALSE /\ hist.producers + 1 \in Nat
  BY <1>2 DEF NewProducer, ProducerStates, Histories, AllKinds, Kinds
<1>4. \A q \in open : /\ G(q) \in ProducerStates /\ G(q).id = q.id /\ G(q).kind = q.kind
                      /\ q.id = w.of => G(q).paused = FALSE
                      /\ q.id # w.of => G(q) = q
  BY <1>2 DEF Typed, WireTyped, ProducerStates
<1> HIDE DEF t, p, G
<1>5. call.captured /\ phase # "lobby"
  BY <1>1 DEF Early, Idle, InLobby
<1>6. Turning' = Turning /\ Picking' = Picking /\ Adding' = Adding \ {w} /\ SettingUp' = SettingUp /\ Publishing' = Publishing
  BY <1>1 DEF Turning, Picking, Asking, Adding, SettingUp, Publishing, Working
<1>7. phase = "call" /\ "cam" \notin hist.overlapped =>
        /\ CamHeld /\ CamBusyOnce /\ CamSent /\ "cam" \in call.desired /\ Turning = {} /\ Adding' = {} /\ Cams = {}
        /\ FreeCams = {t} /\ \A v \in SettingUp : v.track.kind # "cam"
  <2> SUFFICES ASSUME phase = "call", "cam" \notin hist.overlapped
               PROVE  /\ CamHeld /\ CamBusyOnce /\ CamSent /\ "cam" \in call.desired /\ Turning = {} /\ Adding' = {} /\ Cams = {}
                      /\ FreeCams = {t} /\ \A v \in SettingUp : v.track.kind # "cam"
    OBVIOUS
  <2>1. CamHeld /\ CamBusyOnce /\ CamSent
    BY <1>5 DEF Cam
  <2>2. "cam" \in call.desired /\ Turning = {} /\ Adding = {w} /\ Cams = {}
    BY <1>2, <2>1 DEF CamBusyOnce
  <2>3. FreeCams = {t}
    BY <1>2, <2>1, <2>2 DEF CamHeld, CamBusyOnce, t
  <2> QED BY <1>6, <2>1, <2>2, <2>3 DEF CamBusyOnce, Cams, Of
<1>8. CASE CameraFails(t) /\ UNCHANGED hist
  <2>1. /\ live' = live \ {t} /\ call' = [call EXCEPT !.desired = @ \ {"cam"}, !.shown = @ \ {"cam"}]
        /\ UNCHANGED <<open, send>>
    BY <1>8 DEF CameraFails
  <2>2. /\ call' \in CallStates /\ call'.captured = call.captured /\ call'.stream = call.stream
        /\ call'.desired = call.desired \ {"cam"} /\ call'.shown = call.shown \ {"cam"}
    <3>1. call \in CallStates
      BY DEF Typed, PageTyped
    <3> QED BY <2>1, <3>1 DEF CallStates
  <2>3. Typed' /\ Sound'
    <3>1. Typed'
      BY <1>1, <1>8, <2>1, <2>2 DEF Typed, PageTyped, WireTyped
    <3>2. AsksSound' /\ WorkSound' /\ Granteds' /\ Streams' /\ Numbers'
      BY <1>1, <1>8, <2>1, <2>2 DEF Sound, AsksSound, WorkSound, Granteds, Known, Streams, Numbers
    <3> QED BY <3>1, <3>2 DEF Sound
  <2>4. InLobby' /\ Preview' /\ Early' /\ Captures'
    BY <1>1, <1>5, <2>2, CallGoesOn
  <2>5. Cams' = Cams /\ Screens' = Screens /\ FreeCams' = FreeCams \ {t}
    BY <1>2, <1>8, <2>1, <2>2 DEF Cams, Screens, FreeCams, Of
  <2>6. Sending'
    BY <1>1, <2>1, <2>2, SendingKept DEF Of
  <2>7. Mic'
    <3>1. ("mic" \in call'.desired <=> "mic" \in call.desired) /\ ("mic" \in call'.shown <=> "mic" \in call.shown)
      BY <2>2
    <3> QED BY <1>1, <2>1, <2>2, <3>1 DEF Mic
  <2>8. Cam'
    <3> SUFFICES ASSUME phase = "call", "cam" \notin hist.overlapped PROVE CamHeld' /\ CamBusyOnce' /\ CamSent'
      BY <1>1, <1>8 DEF Cam
    <3>1. CamHeld' /\ CamBusyOnce'
      BY <1>6, <1>7, <2>2, <2>5 DEF CamHeld, CamBusyOnce
    <3>2. CamSent'
      <4>1. ("cam" \notin call.desired \/ Turning \cup Adding # {}) /\ ("cam" \notin call'.desired \/ Turning' \cup Adding' # {})
        BY <1>2, <2>2
      <4> QED BY <1>6, <1>7, <2>1, <4>1 DEF CamSent
    <3> QED BY <3>1, <3>2
  <2>9. Sharing'
    BY <1>1, <1>6, <1>8, <2>1, <2>5, SharingKept
  <2>10. NoLostCapture'
    BY <1>1, <1>8, <2>1, <2>2 DEF NoLostCapture, Held, t
  <2> QED BY <2>3, <2>4, <2>6, <2>7, <2>8, <2>9, <2>10
<1>9. ASSUME CameraAdded(t, live), hist'.captures = hist.captures, hist'.stray = hist.stray,
             hist'.overlapped = hist.overlapped
      PROVE  /\ live' = live \ Cams /\ call' \in CallStates /\ call'.captured = call.captured
             /\ call'.stream = (call.stream \ Cams) \cup {t}
             /\ call'.desired = call.desired /\ call'.shown = call.shown \cup {"cam"}
             /\ Cams' = {t} /\ Of("mic", call'.stream) = Of("mic", call.stream)
             /\ Streams' /\ Granteds' /\ Screens' = Screens
             /\ InLobby' /\ Preview' /\ Early' /\ Captures' /\ NoLostCapture'
             /\ phase = "call" /\ "cam" \notin hist.overlapped => CamHeld' /\ FreeCams' = {t}
  <2>1. /\ live' = live \ Cams /\ call' \in CallStates /\ call'.captured = call.captured
        /\ call'.stream = (call.stream \ Cams) \cup {t}
        /\ call'.desired = call.desired /\ call'.shown = call.shown \cup {"cam"}
        /\ Cams' = {t} /\ Of("mic", call'.stream) = Of("mic", call.stream)
        /\ \A u \in call'.stream : u.kind \in Kinds
        /\ \A u, v \in call'.stream : u.kind = v.kind => u = v
    BY <1>2, <1>9, CameraAddedIs
  <2>2. Streams'
    BY <1>1, <2>1 DEF Sound, Streams
  <2>3. Granteds'
    BY <1>1, <1>2, <1>9, <2>1 DEF Sound, Granteds, Known
  <2>4. InLobby' /\ Preview' /\ Early' /\ Captures'
    BY <1>1, <1>5, <2>1, CallGoesOn
  <2>5. Screens' = Screens
    BY <2>1 DEF Screens, Cams, Of
  <2>6. NoLostCapture'
    BY <1>1, <1>9, <2>1 DEF NoLostCapture, Held, t
  <2>7. ASSUME phase = "call", "cam" \notin hist.overlapped PROVE CamHeld' /\ FreeCams' = {t}
    <3>1. FreeCams' = {t}
      BY <1>7, <1>9, <2>1, <2>7 DEF FreeCams
    <3> QED BY <1>7, <2>1, <2>7, <3>1 DEF CamHeld
  <2> QED BY <2>1, <2>2, <2>3, <2>4, <2>5, <2>6, <2>7
<1>10. CASE /\ w.job = "replace" /\ (\E q \in open : q.id = w.of)
            /\ open' = {G(q) : q \in open} /\ CameraAdded(t, live) /\ UNCHANGED <<send, hist>>
  <2>1. /\ live' = live \ Cams /\ call' \in CallStates /\ call'.captured = call.captured
        /\ call'.stream = (call.stream \ Cams) \cup {t}
        /\ call'.desired = call.desired /\ call'.shown = call.shown \cup {"cam"}
        /\ Cams' = {t} /\ Of("mic", call'.stream) = Of("mic", call.stream)
        /\ Streams' /\ Granteds' /\ Screens' = Screens
        /\ InLobby' /\ Preview' /\ Early' /\ Captures' /\ NoLostCapture'
        /\ phase = "call" /\ "cam" \notin hist.overlapped => CamHeld' /\ FreeCams' = {t}
    BY <1>9, <1>10
  <2>2. \A q \in open : q.id = w.of => q.kind = "cam"
    BY <1>1, <1>10 DEF Sending
  <2>3. /\ open' \in SUBSET ProducerStates
        /\ \A q \in open' : \E r \in open : r.id = q.id /\ r.kind = q.kind
        /\ \A r \in open : \E q \in open' : q.id = r.id
        /\ Of("mic", open') = Of("mic", open)
    BY <1>4, <1>10, <2>2 DEF Of
  <2>4. Typed' /\ Sound'
    <3>1. Typed'
      BY <1>1, <1>10, <2>1, <2>3 DEF Typed, PageTyped, WireTyped
    <3>2. AsksSound' /\ WorkSound'
      BY <1>1, <1>10 DEF Sound, AsksSound, WorkSound
    <3>3. Numbers'
      <4>1. \A q \in open' : 0 < q.id /\ q.id <= hist.producers /\ (q.id = share.producer => q.kind = "screen")
        BY <2>3 DEF Sound, Numbers
      <4>2. \A q, r \in open' : q.id = r.id => q = r
        BY <1>4, <1>10 DEF Sound, Numbers
      <4> QED BY <1>1, <1>10, <4>1, <4>2 DEF Sound, Numbers
    <3> QED BY <2>1, <3>1, <3>2, <3>3 DEF Sound
  <2>5. Sending'
    BY <1>1, <1>10, <2>1, <2>3, SendingKept DEF Of
  <2>6. Mic'
    <3>1. "mic" \in call'.shown <=> "mic" \in call.shown
      BY <2>1
    <3> QED BY <1>1, <1>10, <2>1, <2>3, <3>1 DEF Mic
  <2>7. Cam'
    <3> SUFFICES ASSUME phase = "call", "cam" \notin hist.overlapped PROVE CamHeld' /\ CamBusyOnce' /\ CamSent'
      BY <1>1, <1>10 DEF Cam
    <3>1. CamBusyOnce'
      BY <1>6, <1>7, <2>1 DEF CamBusyOnce
    <3>2. CamSent'
      <4> SUFFICES ASSUME send.at # "waiting", NEW q \in Of("cam", open')
                   PROVE  q.id = send.map["cam"] /\ ~q.paused
        BY <1>6, <1>7, <1>10, <2>1, <2>3 DEF CamSent, Of, ProducerStates
      <4>1. \A r \in Of("cam", open) : r.id = send.map["cam"]
        BY <1>7 DEF CamSent
      <4>2. w.of = send.map["cam"]
        BY <1>10, <2>2, <4>1 DEF Of
      <4>3. PICK r \in Of("cam", open) : q = G(r)
        BY <1>4, <1>10 DEF Of
      <4> QED BY <1>4, <4>1, <4>2, <4>3 DEF Of
    <3> QED BY <2>1, <3>1, <3>2
  <2>8. Sharing'
    <3>1. \A q \in open : q.kind = "screen" => \E r \in open' : r.id = q.id /\ r.track = q.track
      BY <1>4, <1>10, <2>2
    <3> QED BY <1>1, <1>6, <1>10, <2>1, <3>1, SharingKept
  <2> QED BY <2>1, <2>4, <2>5, <2>6, <2>7, <2>8
<1>11. CASE /\ w.job = "produce" /\ OnTransport(w) /\ open' = open \cup {p}
            /\ send' = [send EXCEPT !.map["cam"] = hist.producers + 1]
            /\ hist' = Produced(hist) /\ CameraAdded(t, live)
  <2>1. /\ hist' \in Histories /\ hist'.captures = hist.captures /\ hist'.producers = hist.producers + 1
        /\ hist'.stray = hist.stray /\ hist'.overlapped = hist.overlapped
    BY <1>2, <1>3, <1>11 DEF Produced, Histories
  <2>2. /\ live' = live \ Cams /\ call' \in CallStates /\ call'.captured = call.captured
        /\ call'.stream = (call.stream \ Cams) \cup {t}
        /\ call'.desired = call.desired /\ call'.shown = call.shown \cup {"cam"}
        /\ Cams' = {t} /\ Of("mic", call'.stream) = Of("mic", call.stream)
        /\ Streams' /\ Granteds' /\ Screens' = Screens
        /\ InLobby' /\ Preview' /\ Early' /\ Captures' /\ NoLostCapture'
        /\ phase = "call" /\ "cam" \notin hist.overlapped => CamHeld' /\ FreeCams' = {t}
    BY <1>9, <1>11, <2>1
  <2>3. /\ send \in SendStates /\ send' \in SendStates /\ send'.n = send.n /\ send'.at = send.at /\ send'.up = send.up
        /\ send'.map["cam"] = hist.producers + 1 /\ send'.map["mic"] = send.map["mic"]
    BY <1>3, <1>11 DEF Typed, WireTyped, SendStates, Kinds
  <2>4. send.up /\ phase = "call" /\ Of("mic", open') = Of("mic", open)
    BY <1>3, <1>11 DEF OnTransport, Sending, Of
  <2>5. Typed' /\ Sound'
    <3>1. Typed'
      BY <1>1, <1>3, <1>11, <2>1, <2>2, <2>3 DEF Typed, PageTyped, WireTyped
    <3>2. AsksSound' /\ WorkSound'
      BY <1>1, <2>1, <2>3 DEF Sound, AsksSound, WorkSound, Typed, WireTyped, Works, Histories
    <3>3. Numbers'
      BY <1>1, <1>3, <1>11, <2>1, <2>3
         DEF Sound, Numbers, Typed, WireTyped, ProducerStates, Histories, SendStates, ShareStates, Kinds
    <3> QED BY <2>2, <3>1, <3>2, <3>3 DEF Sound
  <2>6. Sending'
    <3>1. \A q \in open' : \A k \in Kinds : q.id = send'.map[k] => q.kind = k
      BY <1>3, <1>11, <2>3 DEF Sending, Sound, Numbers, Typed, WireTyped, ProducerStates, Histories, SendStates, Kinds
    <3>2. \A q \in open' : \A v \in work' : v.job = "replace" /\ q.id = v.of => q.kind = "cam"
      BY <1>1, <1>3, <1>11 DEF Sending
    <3>3. \A v \in SettingUp : v.track \in live' => v.track \in call'.stream
      BY <2>2 DEF Sending
    <3>4. \A v \in SettingUp : v.track.kind = "mic" => v.track \in call'.stream
      BY <2>2, <2>4 DEF Sending, Cams, Of
    <3> QED BY <1>1, <1>6, <2>3, <2>4, <3>1, <3>2, <3>3, <3>4 DEF Sending
  <2>7. Mic'
    <3>1. "mic" \in call'.shown <=> "mic" \in call.shown
      BY <2>2
    <3> QED BY <1>1, <2>2, <2>3, <2>4, <3>1 DEF Mic
  <2>8. Cam'
    <3> SUFFICES ASSUME "cam" \notin hist.overlapped PROVE CamHeld' /\ CamBusyOnce' /\ CamSent'
      BY <2>1 DEF Cam
    <3>1. CamBusyOnce'
      BY <1>6, <1>7, <2>2, <2>4 DEF CamBusyOnce
    <3>2. CamSent'
      <4> SUFFICES ASSUME send.at # "waiting" PROVE CamSent'
        BY <2>3 DEF CamSent
      <4>1. Of("cam", open) = {}
        <5>1. send.map["cam"] = 0
          BY <1>2, <1>7, <1>11, <2>4 DEF CamSent
        <5>2. \A q \in Of("cam", open) : q.id = 0
          BY <1>7, <2>4, <5>1 DEF CamSent
        <5> QED BY <5>2 DEF Of, Sound, Numbers, Typed, WireTyped, ProducerStates
      <4>2. Of("cam", open') = {p}
        BY <1>3, <1>11, <4>1 DEF Of
      <4> QED BY <1>3, <1>6, <1>7, <2>2, <2>3, <2>4, <4>2 DEF CamSent
    <3> QED BY <2>2, <2>4, <3>1, <3>2
  <2>9. Sharing'
    BY <1>1, <1>6, <1>11, <2>1, <2>2, <2>3 DEF Sharing, ShareOnce, ShareHeld, OnTransport
  <2> QED BY <2>2, <2>5, <2>6, <2>7, <2>8, <2>9
<1> QED BY <1>1, <1>8, <1>10, <1>11

-----------------------------------------------------------------------------
(* the theorems *)

LEMMA DevicesStep == DevicesIInv /\ [Next]_vars => DevicesIInv'
<1> SUFFICES ASSUME DevicesIInv, [Next]_vars PROVE DevicesIInv'
  OBVIOUS
<1>1. CASE Answers
  BY <1>1, PreviewGrantedKeeps, SwitchGrantedKeeps, SwitchRefusedKeeps, CaptureAnsweredKeeps,
     CameraGrantedKeeps, CameraRefusedKeeps, ShareGrantedKeeps, ShareRefusedKeeps DEF Answers
<1>2. CASE Done
  BY <1>2, CameraDoneKeeps, SetupProducedKeeps, ShareProducedKeeps, ShareStartedKeeps DEF Done
<1>3. CASE Clicks
  BY <1>3, SwitchDeviceKeeps, ToggleLobbyKeeps, ToggleMicKeeps, CameraOnKeeps, CameraOffKeeps, ShareScreenKeeps,
     StopScreenShareKeeps, LeaveLobbyKeeps, LeaveCallKeeps, ScreenEndedKeeps DEF Clicks
<1>4. CASE Setups
  BY <1>4, SetupStartsKeeps, SetupSignalsKeeps, SendTransportKeeps, SetupFailsKeeps, SetupProducesKeeps DEF Setups
<1>5. CASE UNCHANGED vars
  BY <1>5
     DEF vars, DevicesIInv, Typed, PageTyped, WireTyped, Sound, AsksSound, WorkSound, Granteds, Known, Streams, Numbers,
         InLobby, Preview, Early, Idle, Captures, Capturing, Sending, Mic, Cam, CamHeld, CamBusyOnce, CamSent,
         Sharing, ShareOnce, ShareHeld, Turning, Picking, SettingUp, Adding, Publishing, Cams, FreeCams, Screens,
         Asking, Working, Of, OnTransport, LobbyIsTrue, NoLostCapture, Held
<1> QED BY <1>1, <1>2, <1>3, <1>4, <1>5 DEF Next

(* The types and the inductive invariant of a participant's devices hold   *)
(* in every state.                                                         *)
THEOREM DevicesInvAlways == Spec => []DevicesIInv
<1>1. Init => DevicesIInv
  BY DevicesInitially
<1>2. DevicesIInv /\ [Next]_vars => DevicesIInv'
  BY DevicesStep
<1> QED BY <1>1, <1>2, PTL DEF Spec

(* However clicks, grants, set-ups and leaving come in between the awaits  *)
(* of useMediasoup.ts:197-369 and useLobbyMedia.ts:54-143, each track that *)
(* captures is held by whoever will stop it, or is one of hist.stray: a    *)
(* track granted after its asker had gone, and a share whose track or      *)
(* transport ended while it was being published, are held by nobody, and   *)
(* of two overlapping shares one may not be.                               *)
THEOREM CapturesAlwaysHeld == Spec => []NoLostCapture
<1>1. DevicesIInv => NoLostCapture
  BY DEF DevicesIInv
<1> QED BY <1>1, DevicesInvAlways, PTL

LEMMA ShownFollows == DevicesIInv => ShownIsTrue
<1> SUFFICES ASSUME DevicesIInv PROVE ShownIsTrue
  OBVIOUS
<1> USE DEF DevicesIInv
<1>1. ASSUME NEW k \in Kinds, Settled(k), phase = "lobby" PROVE LobbyIsTrue(k)
  <2>1. Asking("switch", k) = {} /\ k \in Kinds \ hist.overlapped
    BY <1>1 DEF Settled, Asking
  <2> QED BY <1>1, <2>1 DEF Preview
<1>2. ASSUME NEW k \in Kinds, Settled(k), phase = "call", call.captured PROVE CallIsTrue(k)
  <2>1. CASE k = "mic"
    BY <1>2, <2>1 DEF Mic, CallIsTrue
  <2>2. CASE k = "cam"
    <3>1. CamHeld /\ Adding = {}
      BY <1>2, <2>2 DEF Cam, Settled, Adding, Working
    <3>2. "cam" \in call.shown <=> "cam" \in call.desired /\ Of("cam", call.stream) # {}
      BY <3>1 DEF CamHeld, Cams
    <3>3. "cam" \in call.shown <=> Of("cam", live \ hist.stray) # {}
      BY <3>1 DEF CamHeld, Cams, FreeCams
    <3> QED BY <2>2, <3>2, <3>3 DEF CallIsTrue
  <2> QED BY <2>1, <2>2 DEF Kinds
<1>3. ASSUME Settled("screen"), phase = "call" PROVE ShareIsTrue
  <2>1. ShareHeld /\ Publishing = {}
    BY <1>3 DEF Sharing, Settled, Publishing, Working
  <2>2. share.shown <=> share.producer # 0
    BY <2>1 DEF ShareHeld
  <2> QED BY <2>1, <2>2 DEF ShareHeld, ShareIsTrue, Screens, Of
<1> QED BY <1>1, <1>2, <1>3 DEF ShownIsTrue

(* What the page shows of each device is so once nothing is under way, in  *)
(* the lobby (useLobbyMedia.ts:124-138), in the call and for the share     *)
(* (useMediasoup.ts:197-369), unless clicks on one device overlapped.      *)
THEOREM ShownAlwaysTrue == Spec => []ShownIsTrue
<1> QED BY ShownFollows, DevicesInvAlways, PTL

LEMMA ProducersFollow == DevicesIInv => ProducersAsChosen
<1> SUFFICES ASSUME DevicesIInv, NEW k \in Kinds, Settled(k), phase = "call"
             PROVE  /\ Cardinality(Of(k, open)) <= 1
                    /\ \A p \in Of(k, open) : p.id = send.map[k] /\ p.paused = (k \notin call.desired)
  BY DEF ProducersAsChosen
<1> USE DEF DevicesIInv
<1>1. \A p \in Of(k, open) : p.id = send.map[k] /\ p.paused = (k \notin call.desired)
  <2>1. send.at # "waiting"
    BY DEF Settled
  <2>2. CASE k = "mic"
    BY <2>1, <2>2 DEF Mic
  <2>3. CASE k = "cam" /\ call.captured
    <3>1. CamSent /\ Turning = {} /\ Adding = {}
      BY <2>3 DEF Cam, Settled, Turning, Asking, Adding, Working
    <3> QED BY <2>1, <2>3, <3>1 DEF CamSent
  <2>4. CASE ~call.captured
    BY <2>4 DEF Early, Idle, Of
  <2> QED BY <2>2, <2>3, <2>4 DEF Kinds
<1>2. \A p, q \in Of(k, open) : p = q
  BY <1>1 DEF Sound, Numbers, Of
<1>3. Of(k, open) = {} \/ \E p \in open : Of(k, open) = {p}
  BY <1>2 DEF Of
<1>4. Cardinality(Of(k, open)) <= 1
  <2>1. CASE Of(k, open) = {}
    BY <2>1, FS_EmptySet, 0 <= 1
  <2>2. CASE \E p \in open : Of(k, open) = {p}
    <3>1. PICK p \in open : Of(k, open) = {p}
      BY <2>2
    <3>2. Cardinality({p}) = 1
      BY FS_Singleton
    <3> QED BY <3>1, <3>2, 1 <= 1
  <2> QED BY <1>3, <2>1, <2>2
<1> QED BY <1>1, <1>4

(* Through any number of set-ups each device has at most one producer,     *)
(* which is paused when the device is off (useMediasoup.ts:204-308,        *)
(* 697-767), but for the devices in hist.overlapped: one that was clicked  *)
(* while a click or a set-up on it was under way may end with two          *)
(* producers, or with one that does not follow the page.                   *)
THEOREM ProducersAlwaysAsChosen == Spec => []ProducersAsChosen
<1> QED BY ProducersFollow, DevicesInvAlways, PTL

-----------------------------------------------------------------------------
(* the media set-up: types *)

Nets       == {"none", "local", "held", "sent", "prioritised", "served"}
Transports == [n : Nat, on : Nat]
TileStates == [p : Producers, t : Transports]
LinkStates == [up : BOOLEAN, conn : Nat]
PageStates == [mounted : BOOLEAN, captured : BOOLEAN, timer : BOOLEAN, attempt : Nat,
               status : {"connecting", "reconnecting", "ready", "exhausted"}]
SetupStates == [step : {"idle", "wait", "tiles"} \cup Calls, net : Nets, todo : SUBSET Producers, recv : Transports]
Fetches    == {f \in [p : Producers, t : Transports, by : {"setup", "event"}, at : {"consume", "build", "resume"}, net : Nets] :
                 (f.at = "build" => f.net = "none") /\ (f.net = "prioritised" => f.at = "consume")}
RemoteStates == [info : SUBSET Producers, tiles : SUBSET TileStates, pend : SUBSET Producers, fetch : SUBSET Fetches]
ServerStates == [joined : Nat, open : SUBSET Producers, born : SUBSET Producers,
                 unannounced : SUBSET Producers, consumers : SUBSET TileStates]
PastStates == [overlooked : SUBSET TileStates, missed : SUBSET TileStates, swallowed : BOOLEAN,
               events : Nat, transports : Nat]
Replies    == [m : {"answer"}, ok : BOOLEAN, ps : SUBSET Producers]
Consumeds  == [m : {"consumed"}, f : Fetches, ok : BOOLEAN]
News       == [m : {"new"}, p : Producers]
Closings   == [m : {"closed"}, c : TileStates]
Leavings   == [m : {"left"}, o : {OwnerOf[p] : p \in Producers}]
Messages   == Replies \cup Consumeds \cup News \cup Closings \cup Leavings

ClientTyped == link \in LinkStates /\ page \in PageStates /\ setup \in SetupStates /\ remote \in RemoteStates
ServerTyped == server \in ServerStates /\ inbox \in Seq(Messages) /\ past \in PastStates
SetupTyped  == ClientTyped /\ ServerTyped

-----------------------------------------------------------------------------
(* the media set-up: the invariant *)

Mail == Range(inbox)

(* answers to a setup's call, announcements and answers to a consume come   *)
(* once                                                                     *)
Alike(a, b)    == a.m = b.m /\ (a.m = "new" => a.p = b.p) /\ (a.m = "consumed" => a.f = b.f)
Unrepeated(s)  == \A i, j \in DOMAIN s : s[i].m \in {"answer", "new", "consumed"} /\ Alike(s[i], s[j]) => i = j

LinkSound ==
  /\ link.up => link.conn # 0 /\ server.joined \in {0, link.conn}
  /\ ~link.up => server.joined = 0 /\ inbox = <<>>
  /\ server.consumers # {} => link.up /\ InRoom
  /\ setup.recv = None \/ setup.recv.on \in 1 .. link.conn
  /\ setup.recv # None /\ link.up => (InRoom <=> setup.recv.on = link.conn)

StepsSound ==
  /\ setup.step \in {"caps", "transports"} => setup.recv = None
  /\ page.mounted /\ (setup.step \in {"produce", "list", "tiles"} \/ page.status = "ready") => setup.recv # None
  /\ ~page.mounted => setup.recv = None
  /\ setup.step = "wait" => ~link.up /\ page.mounted /\ page.status # "ready"
  /\ page.mounted /\ page.status = "exhausted" => setup.step = "idle"
  /\ setup.step # "idle" \/ setup.recv # None \/ remote.fetch # {} => page.captured
  /\ setup.step \in Calls <=> setup.net # "none"
  /\ setup.net \in {"sent", "served"} => link.up
  /\ setup.step = "list" => setup.net \in {"sent", "served"} /\ InRoom
  /\ setup.step # "tiles" => setup.todo = {}
  /\ page.mounted /\ page.status = "ready" /\ setup.step = "idle" => remote.pend = {}

AnswersSound ==
  \A a \in Mail : a.m = "answer" => setup.net = "served" /\ (a.ok => InRoom)

StatusSound ==
  /\ page.mounted /\ (page.status = "ready" \/ setup.step = "tiles") => past.swallowed \/ (link.up /\ InRoom)
  /\ NeverIdleInSilence

(* consume calls: one for each producer and occasion, each answered once *)
FetchesSound ==
  /\ \A f, g \in remote.fetch : f.by = g.by /\ f.p = g.p => f = g
  /\ \A f \in remote.fetch : f.t # None /\ f.t.n <= past.transports
  /\ \A f \in remote.fetch : f.by = "event" => f.p \in server.born \ server.unannounced
  /\ \A a \in Mail : a.m = "consumed" => a.f \in remote.fetch /\ a.f.net = "served" /\ a.f.at # "build"

NewsSound ==
  /\ server.open \cup server.unannounced \subseteq server.born
  /\ \A a \in Mail : a.m = "new" =>
       /\ a.p \in server.born \ server.unannounced
       /\ \A f \in remote.fetch : f.by = "event" => f.p # a.p
  /\ \A a \in Mail : a.m = "closed" => a.c.p \in server.born \ server.open
  /\ \A a \in Mail : a.m = "left" => \A p \in Producers : OwnerOf[p] = a.o => p \in server.born \ server.open

TilesSound ==
  /\ setup.recv = None \/ setup.step = "wait" => remote.info = {}
  /\ setup.recv.n <= past.transports
  /\ \A c \in remote.tiles : c.t # None /\ (c.t = setup.recv \/ c \in past.overlooked)
  /\ IsFiniteSet(server.consumers)
  /\ \A c \in server.consumers : c.p \in server.open

Current == link.up /\ page.mounted /\ setup.recv.on = link.conn

(* (a) no producer is forgotten *)
Here(p) == [p |-> p, t |-> setup.recv] \in remote.tiles \cup past.missed \cup {Id(f) : f \in remote.fetch}
ListAhead  == setup.step = "produce" \/ (setup.step = "list" /\ setup.net = "sent")
Listed(p)  == setup.step = "list" /\ \E a \in Mail : a.m = "answer" /\ p \in a.ps
SettingUpAgain == setup.step = "idle" /\ page.status # "ready"
Expected(p) ==
  \/ p \in server.unannounced \/ [m |-> "new", p |-> p] \in Mail
  \/ ListAhead \/ Listed(p) \/ p \in setup.todo \cup remote.pend
  \/ SettingUpAgain
NoneForgotten ==
  /\ \A p \in server.open : Here(p) \/ Expected(p)
  /\ \A p \in remote.info \cap server.open : Here(p)
  /\ \A f \in remote.fetch : f.at = "resume" /\ f.t = setup.recv /\ f.p \in server.open => Id(f) \in remote.tiles

(* (b) no tile outlives its producer unless its end was overlooked *)
Built(f) == f.at = "build" \/ f.net = "prioritised" \/ (f.at = "consume" /\ [m |-> "consumed", f |-> f, ok |-> TRUE] \in Mail)
Coming   == {f \in remote.fetch : f.t = setup.recv /\ Built(f)}
Backed(c) == c \in server.consumers \/ c \in past.overlooked \/ [m |-> "closed", c |-> c] \in Mail
NoneOutlives ==
  /\ \A c \in remote.tiles : Backed(c)
  /\ \A f \in Coming : Backed(Id(f))
  /\ \A f \in Coming : Id(f) \in remote.tiles => Id(f) \in past.overlooked
  /\ \A f, g \in Coming : Id(f) = Id(g) /\ f # g => Id(f) \in past.overlooked

(* (c) what the client knows of was a producer once *)
BornOnce ==
  /\ \A p \in remote.info \cup setup.todo \cup remote.pend : p \in server.born
  /\ \A f \in remote.fetch : f.p \in server.born
  /\ \A a \in Mail : a.m = "answer" => \A p \in a.ps : p \in server.born

SetupIInv ==
  /\ SetupTyped /\ LinkSound /\ StepsSound /\ AnswersSound /\ StatusSound /\ FetchesSound /\ NewsSound /\ TilesSound
  /\ Unrepeated(inbox)
  /\ Current => NoneForgotten /\ NoneOutlives

-----------------------------------------------------------------------------
(* what comes in *)

Once == {"answer", "new", "consumed"}

LEMMA MailAppended ==
  ASSUME NEW S, NEW s \in Seq(S), NEW m \in S
  PROVE  /\ Append(s, m) \in Seq(S) /\ Range(Append(s, m)) = Range(s) \cup {m}
         /\ Unrepeated(s) /\ (m.m \in Once => \A x \in Range(s) : ~Alike(x, m)) => Unrepeated(Append(s, m))
<1> DEFINE r == Append(s, m)
<1>1. /\ r \in Seq(S) /\ DOMAIN r = 1..(Len(s) + 1) /\ r[Len(s) + 1] = m
      /\ \A i \in 1..Len(s) : r[i] = s[i]
      /\ DOMAIN s = 1..Len(s) /\ Len(s) \in Nat
  OBVIOUS
<1> HIDE DEF r
<1>2. Range(r) = Range(s) \cup {m}
  BY <1>1 DEF Range
<1>3. ASSUME Unrepeated(s), m.m \in Once => \A x \in Range(s) : ~Alike(x, m)
      PROVE  Unrepeated(r)
  <2> SUFFICES ASSUME NEW i \in DOMAIN r, NEW j \in DOMAIN r, r[i].m \in Once, Alike(r[i], r[j])
               PROVE  i = j
    BY DEF Unrepeated, Once
  <2>1. CASE i \in DOMAIN s /\ j \in DOMAIN s
    BY <1>1, <1>3, <2>1 DEF Unrepeated, Once
  <2>2. CASE i \in DOMAIN s /\ j = Len(s) + 1
    BY <1>1, <1>3, <2>2 DEF Range, Alike
  <2>3. CASE i = Len(s) + 1 /\ j \in DOMAIN s
    BY <1>1, <1>3, <2>3 DEF Range, Alike
  <2> QED BY <1>1, <2>1, <2>2, <2>3
<1> QED BY <1>1, <1>2, <1>3 DEF r

LEMMA MailTaken ==
  ASSUME NEW S, NEW s \in Seq(S), s # <<>>
  PROVE  /\ Tail(s) \in Seq(S) /\ Head(s) \in S /\ Range(s) = Range(Tail(s)) \cup {Head(s)}
         /\ Unrepeated(s) => Unrepeated(Tail(s)) /\ (Head(s).m \in Once => \A x \in Range(Tail(s)) : ~Alike(Head(s), x))
<1> DEFINE r == Tail(s)
<1>1. /\ r \in Seq(S) /\ DOMAIN r = 1..(Len(s) - 1) /\ Len(s) \in Nat \ {0}
      /\ \A i \in 1..(Len(s) - 1) : r[i] = s[i + 1]
      /\ DOMAIN s = 1..Len(s) /\ Head(s) = s[1] /\ Head(s) \in S
  OBVIOUS
<1> HIDE DEF r
<1>2. Range(s) = Range(r) \cup {Head(s)}
  <2>1. ASSUME NEW x \in Range(s) PROVE x \in Range(r) \cup {Head(s)}
    <3>1. PICK i \in DOMAIN s : x = s[i]
      BY DEF Range
    <3>2. i = 1 \/ (i - 1 \in DOMAIN r /\ r[i - 1] = s[i])
      BY <1>1
    <3> QED BY <1>1, <3>1, <3>2 DEF Range
  <2>2. ASSUME NEW x \in Range(r) PROVE x \in Range(s)
    <3>1. PICK i \in DOMAIN r : x = r[i]
      BY DEF Range
    <3>2. i + 1 \in DOMAIN s /\ s[i + 1] = x
      BY <1>1, <3>1
    <3> QED BY <3>2 DEF Range
  <2>3. Head(s) \in Range(s)
    BY <1>1 DEF Range
  <2> QED BY <2>1, <2>2, <2>3
<1>3. ASSUME Unrepeated(s)
      PROVE  Unrepeated(r)
  <2> SUFFICES ASSUME NEW i \in DOMAIN r, NEW j \in DOMAIN r, r[i].m \in Once, Alike(r[i], r[j])
               PROVE  i = j
    BY DEF Unrepeated, Once
  <2>1. /\ i + 1 \in DOMAIN s /\ j + 1 \in DOMAIN s /\ r[i] = s[i + 1] /\ r[j] = s[j + 1]
        /\ i \in Nat /\ j \in Nat
    BY <1>1
  <2>2. i + 1 = j + 1
    BY <1>3, <2>1 DEF Unrepeated, Once
  <2> QED BY <2>1, <2>2
<1>4. ASSUME Unrepeated(s), Head(s).m \in Once, NEW x \in Range(r), Alike(Head(s), x)
      PROVE  FALSE
  <2>1. PICK j \in DOMAIN r : x = r[j]
    BY DEF Range
  <2>2. 1 \in DOMAIN s /\ j + 1 \in DOMAIN s /\ x = s[j + 1] /\ j \in Nat /\ j # 0 /\ Head(s) = s[1]
    BY <1>1, <2>1
  <2>3. 1 = j + 1
    BY <1>4, <2>2 DEF Unrepeated, Once
  <2> QED BY <2>2, <2>3
<1> QED BY <1>1, <1>2, <1>3, <1>4 DEF r

LEMMA MailJoined ==
  ASSUME NEW S, NEW s \in Seq(S), NEW t \in Seq(S),
         \A x \in Range(t) : x.m \notin Once
  PROVE  /\ s \o t \in Seq(S) /\ Range(s \o t) = Range(s) \cup Range(t)
         /\ Unrepeated(s) => Unrepeated(s \o t)
<1> DEFINE r == s \o t
<1>1. /\ r \in Seq(S) /\ DOMAIN r = 1..(Len(s) + Len(t)) /\ Len(s) \in Nat /\ Len(t) \in Nat
      /\ \A i \in 1..(Len(s) + Len(t)) : r[i] = IF i <= Len(s) THEN s[i] ELSE t[i - Len(s)]
      /\ DOMAIN s = 1..Len(s) /\ DOMAIN t = 1..Len(t)
  OBVIOUS
<1> HIDE DEF r
<1>2. Range(r) = Range(s) \cup Range(t)
  <2>1. ASSUME NEW x \in Range(r) PROVE x \in Range(s) \cup Range(t)
    <3>1. PICK i \in DOMAIN r : x = r[i]
      BY DEF Range
    <3>2. \/ i \in DOMAIN s /\ x = s[i]
          \/ i - Len(s) \in DOMAIN t /\ x = t[i - Len(s)]
      BY <1>1, <3>1
    <3> QED BY <3>2 DEF Range
  <2>2. ASSUME NEW x \in Range(s) PROVE x \in Range(r)
    <3>1. PICK i \in DOMAIN s : x = s[i]
      BY DEF Range
    <3>2. i \in DOMAIN r /\ r[i] = x
      BY <1>1, <3>1
    <3> QED BY <3>2 DEF Range
  <2>3. ASSUME NEW x \in Range(t) PROVE x \in Range(r)
    <3>1. PICK i \in DOMAIN t : x = t[i]
      BY DEF Range
    <3>2. i + Len(s) \in DOMAIN r /\ r[i + Len(s)] = x
      BY <1>1, <3>1
    <3> QED BY <3>2 DEF Range
  <2> QED BY <2>1, <2>2, <2>3
<1>3. ASSUME Unrepeated(s)
      PROVE  Unrepeated(r)
  <2> SUFFICES ASSUME NEW i \in DOMAIN r, NEW j \in DOMAIN r, r[i].m \in Once, Alike(r[i], r[j])
               PROVE  i = j
    BY DEF Unrepeated, Once
  <2>1. ASSUME NEW k \in DOMAIN r, r[k].m \in Once PROVE k \in DOMAIN s /\ r[k] = s[k]
    <3>1. CASE k <= Len(s)
      BY <1>1, <3>1
    <3>2. CASE k > Len(s)
      <4>1. k - Len(s) \in DOMAIN t /\ r[k] = t[k - Len(s)]
        BY <1>1, <3>2
      <4> QED BY <2>1, <4>1 DEF Range
    <3> QED BY <1>1, <3>1, <3>2
  <2>2. r[j].m \in Once
    BY DEF Alike
  <2> QED BY <1>3, <2>1, <2>2 DEF Unrepeated, Once
<1> QED BY <1>1, <1>2, <1>3 DEF r

-----------------------------------------------------------------------------
(* a setup that begins *)

LEMMA FetchTypes ==
  ASSUME NEW f \in Fetches
  PROVE  /\ f.p \in Producers /\ f.t \in Transports /\ f.by \in {"setup", "event"} /\ f.net \in Nets
         /\ f.at \in {"consume", "build", "resume"} /\ Id(f) \in TileStates
         /\ f.t.n \in Nat /\ f.t.on \in Nat /\ Id(f).p = f.p /\ Id(f).t = f.t
         /\ f.at = "build" => f.net = "none"
  BY DEF Fetches, Transports, TileStates, Id

LEMMA FlushedFacts ==
  ASSUME NEW F \in SUBSET Fetches
  PROVE  /\ Flushed(F) \in SUBSET Fetches /\ (Flushed(F) # {} <=> F # {})
         /\ \A g \in Flushed(F) : \E f \in F :
              /\ g.p = f.p /\ g.t = f.t /\ g.by = f.by /\ g.at = f.at /\ Id(g) = Id(f)
              /\ g = IF f.net = "held" THEN [f EXCEPT !.net = "sent"] ELSE f
         /\ \A f \in F : \E g \in Flushed(F) : Id(g) = Id(f)
<1>1. ASSUME NEW f \in F, NEW g, g = IF f.net = "held" THEN [f EXCEPT !.net = "sent"] ELSE f
      PROVE  g \in Fetches /\ g.p = f.p /\ g.t = f.t /\ g.by = f.by /\ g.at = f.at
  BY <1>1 DEF Fetches, Nets
<1> QED
  BY <1>1 DEF Flushed, Id

(* what the consume calls under way keep when the held ones are sent *)
LEMMA FetchesKept ==
  ASSUME SetupTyped, FetchesSound, NEW F \in {remote.fetch, Flushed(remote.fetch)}
  PROVE  /\ F \in SUBSET Fetches /\ (F # {} <=> remote.fetch # {})
         /\ \A g \in F : \E f \in remote.fetch : g.p = f.p /\ g.t = f.t /\ g.by = f.by
         /\ \A f, g \in F : f.by = g.by /\ f.p = g.p => f = g
         /\ \A f \in remote.fetch : f.net = "served" => f \in F
<1>1. remote.fetch \in SUBSET Fetches
  BY DEF SetupTyped, ClientTyped, RemoteStates
<1>2. CASE F = remote.fetch
  BY <1>1, <1>2 DEF FetchesSound
<1>3. CASE F = Flushed(remote.fetch)
  <2>1. \A f, g \in F : f.by = g.by /\ f.p = g.p => f = g
    <3> SUFFICES ASSUME NEW g \in F, NEW h \in F, g.by = h.by, g.p = h.p PROVE g = h
      OBVIOUS
    <3>1. PICK f \in remote.fetch : /\ g.p = f.p /\ g.by = f.by
                                    /\ g = IF f.net = "held" THEN [f EXCEPT !.net = "sent"] ELSE f
      BY <1>1, <1>3, FlushedFacts
    <3>2. PICK e \in remote.fetch : /\ h.p = e.p /\ h.by = e.by
                                    /\ h = IF e.net = "held" THEN [e EXCEPT !.net = "sent"] ELSE e
      BY <1>1, <1>3, FlushedFacts
    <3>3. e = f
      BY <3>1, <3>2 DEF FetchesSound
    <3> QED BY <3>1, <3>2, <3>3
  <2>2. \A f \in remote.fetch : f.net = "served" => f \in F
    BY <1>3 DEF Flushed
  <2>3. F \in SUBSET Fetches /\ (F # {} <=> remote.fetch # {})
    BY <1>1, <1>3, FlushedFacts
  <2>4. \A g \in F : \E f \in remote.fetch : g.p = f.p /\ g.t = f.t /\ g.by = f.by
    BY <1>1, <1>3, FlushedFacts
  <2> QED BY <2>1, <2>2, <2>3, <2>4
<1> QED BY <1>2, <1>3

LEMMA RunSetupInv ==
  ASSUME SetupIInv, NEW attempt \in Nat, NEW up \in BOOLEAN, page.mounted, setup.step = "idle",
         NEW F \in {remote.fetch, Flushed(remote.fetch)}, RunSetup(attempt, up, F),
         link' = link \/ (~link.up /\ link' = [up |-> TRUE, conn |-> link.conn + 1]),
         up = link'.up, UNCHANGED <<server, inbox>>
  PROVE  SetupIInv'
<1>0. /\ SetupTyped /\ LinkSound /\ StepsSound /\ AnswersSound /\ StatusSound /\ FetchesSound
      /\ NewsSound /\ TilesSound /\ Unrepeated(inbox)
  BY DEF SetupIInv
<1>1. /\ page' \in PageStates /\ page'.mounted /\ page'.captured /\ page'.timer = FALSE
      /\ page'.status \in {"connecting", "reconnecting"}
  BY <1>0 DEF RunSetup, SetupTyped, ClientTyped, PageStates
<1>2. /\ setup.recv \in Transports /\ None \in Transports /\ None.on = 0 /\ None.n = 0
      /\ remote.fetch \in SUBSET Fetches /\ past.transports \in Nat /\ link.conn \in Nat /\ link.up \in BOOLEAN
  BY <1>0 DEF SetupTyped, ClientTyped, ServerTyped, LinkStates, SetupStates, RemoteStates, PastStates, Transports, None
<1>3. /\ setup' \in SetupStates /\ setup'.todo = {}
      /\ IF up THEN setup'.step = "caps" /\ setup'.net = "sent" /\ setup'.recv = None
         ELSE setup'.step = "wait" /\ setup'.net = "none" /\ setup'.recv = setup.recv
  BY <1>2 DEF RunSetup, Idling, SetupStates, Calls, Nets
<1>4. F \in SUBSET Fetches /\ (F # {} <=> remote.fetch # {})
  BY <1>2, FlushedFacts
<1>5. /\ remote' \in RemoteStates /\ remote'.info = {} /\ remote'.tiles = {} /\ remote'.pend = {} /\ remote'.fetch = F
  BY <1>4 DEF RunSetup, Cleared, RemoteStates
<1>6. past' \in PastStates /\ past'.transports = past.transports /\ past'.swallowed = FALSE
  BY <1>0 DEF RunSetup, SetupTyped, ServerTyped, PastStates
<1>7. link' \in LinkStates
  BY <1>0, <1>2 DEF SetupTyped, ClientTyped, LinkStates
<1>8. /\ \A g \in F : \E f \in remote.fetch : g.p = f.p /\ g.t = f.t /\ g.by = f.by
      /\ \A f, g \in F : f.by = g.by /\ f.p = g.p => f = g
      /\ \A f \in remote.fetch : f.net = "served" => f \in F
  BY <1>0, FetchesKept
<1>9. link'.up => link'.conn # 0
  BY <1>0, <1>2, <1>7 DEF LinkSound
<1>10. inbox' = inbox /\ server' = server /\ Mail' = Mail
  BY DEF Mail
<1>11. SetupTyped'
  BY <1>0, <1>1, <1>3, <1>5, <1>6, <1>7, <1>10 DEF SetupTyped, ClientTyped, ServerTyped
<1>12. LinkSound'
  BY <1>0, <1>2, <1>3, <1>7, <1>10 DEF LinkSound, InRoom, LinkStates
<1>13. StepsSound'
  BY <1>0, <1>1, <1>3, <1>5, <1>10 DEF StepsSound, Calls
<1>14. AnswersSound'
  BY <1>0, <1>10 DEF AnswersSound, StepsSound, Calls
<1>15. StatusSound'
  BY <1>1, <1>3, <1>5 DEF StatusSound, NeverIdleInSilence
<1>16. FetchesSound'
  BY <1>0, <1>5, <1>6, <1>8, <1>10 DEF FetchesSound
<1>17. NewsSound'
  BY <1>0, <1>5, <1>8, <1>10 DEF NewsSound
<1>18. TilesSound'
  BY <1>0, <1>2, <1>3, <1>5, <1>6, <1>10 DEF TilesSound
<1>19. ~Current'
  BY <1>2, <1>3, <1>9 DEF Current
<1> QED
  BY <1>0, <1>10, <1>11, <1>12, <1>13, <1>14, <1>15, <1>16, <1>17, <1>18, <1>19 DEF SetupIInv

LEMMA SetupFields ==
  ASSUME SetupTyped
  PROVE  /\ link.up \in BOOLEAN /\ link.conn \in Nat
         /\ page.mounted \in BOOLEAN /\ page.captured \in BOOLEAN /\ page.timer \in BOOLEAN /\ page.attempt \in Nat
         /\ page.status \in {"connecting", "reconnecting", "ready", "exhausted"}
         /\ setup.step \in {"idle", "wait", "tiles"} \cup Calls /\ setup.net \in Nets
         /\ setup.todo \in SUBSET Producers /\ setup.recv \in Transports /\ setup.recv.n \in Nat /\ setup.recv.on \in Nat
         /\ remote.info \in SUBSET Producers /\ remote.tiles \in SUBSET TileStates
         /\ remote.pend \in SUBSET Producers /\ remote.fetch \in SUBSET Fetches
         /\ server.joined \in Nat /\ server.open \in SUBSET Producers /\ server.born \in SUBSET Producers
         /\ server.unannounced \in SUBSET Producers /\ server.consumers \in SUBSET TileStates
         /\ past.overlooked \in SUBSET TileStates /\ past.missed \in SUBSET TileStates
         /\ past.swallowed \in BOOLEAN /\ past.events \in Nat /\ past.transports \in Nat
         /\ None \in Transports /\ None.n = 0 /\ None.on = 0 /\ Mail \in SUBSET Messages
<1>1. link.up \in BOOLEAN /\ link.conn \in Nat
  BY DEF SetupTyped, ClientTyped, LinkStates
<1>2. /\ page.mounted \in BOOLEAN /\ page.captured \in BOOLEAN /\ page.timer \in BOOLEAN /\ page.attempt \in Nat
      /\ page.status \in {"connecting", "reconnecting", "ready", "exhausted"}
  BY DEF SetupTyped, ClientTyped, PageStates
<1>3. /\ setup.step \in {"idle", "wait", "tiles"} \cup Calls /\ setup.net \in Nets
      /\ setup.todo \in SUBSET Producers /\ setup.recv \in Transports /\ setup.recv.n \in Nat /\ setup.recv.on \in Nat
  BY DEF SetupTyped, ClientTyped, SetupStates, Transports
<1>4. /\ remote.info \in SUBSET Producers /\ remote.tiles \in SUBSET TileStates
      /\ remote.pend \in SUBSET Producers /\ remote.fetch \in SUBSET Fetches
  BY DEF SetupTyped, ClientTyped, RemoteStates
<1>5. /\ server.joined \in Nat /\ server.open \in SUBSET Producers /\ server.born \in SUBSET Producers
      /\ server.unannounced \in SUBSET Producers /\ server.consumers \in SUBSET TileStates
  BY DEF SetupTyped, ServerTyped, ServerStates
<1>6. /\ past.overlooked \in SUBSET TileStates /\ past.missed \in SUBSET TileStates
      /\ past.swallowed \in BOOLEAN /\ past.events \in Nat /\ past.transports \in Nat
  BY DEF SetupTyped, ServerTyped, PastStates
<1>7. None \in Transports /\ None.n = 0 /\ None.on = 0
  BY DEF None, Transports
<1>8. Mail \in SUBSET Messages
  <2>1. inbox \in Seq(Messages)
    BY DEF SetupTyped, ServerTyped
  <2>2. \A i \in DOMAIN inbox : inbox[i] \in Messages
    BY <2>1
  <2> QED BY <2>2 DEF Mail, Range
<1> QED BY <1>1, <1>2, <1>3, <1>4, <1>5, <1>6, <1>7, <1>8

(* a step of the page's own fields only: the timer, the status *)
LEMMA PageInv ==
  ASSUME SetupIInv, page' \in PageStates, UNCHANGED <<link, setup, remote, server, inbox, past>>,
         page'.mounted = page.mounted, page'.captured = page.captured,
         page'.status # page.status => ~link.up /\ page'.status = "reconnecting",
         page'.timer # page.timer => page.timer /\ setup.step # "idle"
  PROVE  SetupIInv'
<1>0. /\ SetupTyped /\ LinkSound /\ StepsSound /\ AnswersSound /\ StatusSound /\ FetchesSound
      /\ NewsSound /\ TilesSound /\ Unrepeated(inbox)
  BY DEF SetupIInv
<1>1. /\ page'.timer \in BOOLEAN /\ page'.status \in {"connecting", "reconnecting", "ready", "exhausted"}
      /\ page.timer \in BOOLEAN
  BY <1>0, SetupFields DEF PageStates
<1>2. Mail' = Mail
  BY DEF Mail
<1>11. SetupTyped'
  BY <1>0 DEF SetupTyped, ClientTyped, ServerTyped
<1>12. LinkSound'
  BY <1>0 DEF LinkSound, InRoom
<1>13. StepsSound'
  BY <1>0 DEF StepsSound, InRoom
<1>14. AnswersSound'
  BY <1>0, <1>2 DEF AnswersSound, InRoom
<1>15. StatusSound'
  BY <1>0, <1>1 DEF StatusSound, NeverIdleInSilence, InRoom
<1>16. FetchesSound' /\ NewsSound' /\ TilesSound'
  BY <1>0, <1>2 DEF FetchesSound, NewsSound, TilesSound
<1>17. ASSUME Current' PROVE NoneForgotten' /\ NoneOutlives'
  <2>1. Current /\ link.up /\ page'.status = page.status
    BY <1>17 DEF Current
  <2>2. NoneForgotten /\ NoneOutlives
    BY <2>1 DEF SetupIInv
  <2>3. NoneForgotten'
    BY <1>2, <2>1, <2>2 DEF NoneForgotten, Here, Expected, ListAhead, Listed, SettingUpAgain
  <2>4. Coming' = Coming /\ \A c : Backed(c)' = Backed(c)
    BY <1>2 DEF Coming, Built, Backed
  <2>5. NoneOutlives'
    BY <2>2, <2>4 DEF NoneOutlives
  <2> QED BY <2>3, <2>5
<1> QED
  BY <1>0, <1>2, <1>11, <1>12, <1>13, <1>14, <1>15, <1>16, <1>17 DEF SetupIInv

LEMMA CapturedInv == SetupIInv /\ Captured => SetupIInv'
<1> SUFFICES ASSUME SetupIInv, Captured PROVE SetupIInv'
  OBVIOUS
<1>1. SetupTyped /\ StepsSound
  BY DEF SetupIInv
<1>2. page.attempt \in Nat /\ link.up \in BOOLEAN
  BY <1>1, SetupFields
<1>3. setup.step = "idle"
  BY <1>1 DEF Captured, StepsSound
<1> QED
  BY <1>2, <1>3, RunSetupInv DEF Captured

LEMMA RetryTimerInv == SetupIInv /\ RetryTimer => SetupIInv'
<1> SUFFICES ASSUME SetupIInv, RetryTimer PROVE SetupIInv'
  OBVIOUS
<1>1. SetupTyped /\ StatusSound
  BY DEF SetupIInv
<1>2. page.attempt \in Nat /\ link.up \in BOOLEAN /\ page.mounted
  BY <1>1, SetupFields DEF StatusSound, NeverIdleInSilence, RetryTimer
<1>3. CASE setup.step = "idle"
  BY <1>2, <1>3, RunSetupInv DEF RetryTimer
<1>4. CASE setup.step # "idle"
  <2>1. page' = [page EXCEPT !.timer = FALSE] /\ page \in PageStates
    BY <1>1, <1>4 DEF RetryTimer, SetupTyped, ClientTyped
  <2>2. /\ page' \in PageStates /\ page'.mounted = page.mounted /\ page'.captured = page.captured
        /\ page'.status = page.status
    BY <2>1 DEF PageStates
  <2>3. page.timer
    BY DEF RetryTimer
  <2> QED BY <1>4, <2>2, <2>3, PageInv DEF RetryTimer
<1> QED BY <1>3, <1>4

LEMMA RetryMediaInv == SetupIInv /\ RetryMedia => SetupIInv'
<1> SUFFICES ASSUME SetupIInv, RetryMedia PROVE SetupIInv'
  OBVIOUS
<1>1. SetupTyped /\ StatusSound /\ StepsSound
  BY DEF SetupIInv
<1>2. link.up \in BOOLEAN
  BY <1>1, SetupFields
<1>3. CASE link.up
  <2>1. setup.step = "idle"
    BY <1>1 DEF StepsSound, RetryMedia
  <2> QED BY <1>2, <1>3, <2>1, RunSetupInv DEF RetryMedia
<1>4. CASE ~link.up
  <2>1. page' = [page EXCEPT !.attempt = 0, !.status = "reconnecting"] /\ page \in PageStates
    BY <1>1, <1>4 DEF RetryMedia, SetupTyped, ClientTyped
  <2>2. /\ page' \in PageStates /\ page'.mounted = page.mounted /\ page'.captured = page.captured
        /\ page'.status = "reconnecting" /\ page'.timer = page.timer
    BY <2>1 DEF PageStates
  <2> QED BY <1>4, <2>2, PageInv DEF RetryMedia
<1> QED BY <1>3, <1>4

-----------------------------------------------------------------------------
(* the socket, and leaving *)

LEMMA NoMail == inbox = <<>> => Mail = {}
  BY DEF Mail, Range

LEMMA ConnectInv == SetupIInv /\ Connect => SetupIInv'
<1> SUFFICES ASSUME SetupIInv, Connect PROVE SetupIInv'
  OBVIOUS
<1>0. /\ SetupTyped /\ LinkSound /\ StepsSound /\ AnswersSound /\ StatusSound /\ FetchesSound
      /\ NewsSound /\ TilesSound /\ Unrepeated(inbox)
  BY DEF SetupIInv
<1>1. ~link.up /\ link' = [up |-> TRUE, conn |-> link.conn + 1] /\ UNCHANGED <<server, inbox>>
  BY DEF Connect
<1>2. CASE Resumes
  <2>1. 0 \in Nat /\ TRUE \in BOOLEAN /\ link'.up = TRUE
    BY <1>1
  <2> QED BY <1>1, <1>2, <2>1, RunSetupInv DEF Connect, Resumes
<1>3. CASE ~Resumes
  <2>1. /\ page' = IF page.mounted /\ page.captured THEN [page EXCEPT !.attempt = 0] ELSE page
        /\ IF setup.step = "wait" THEN Awaited
           ELSE setup' = [setup EXCEPT !.net = IF @ = "held" THEN "sent" ELSE @] /\ past' = past
        /\ remote' = [remote EXCEPT !.fetch = Flushed(@)]
        /\ inbox' = inbox /\ server' = server
    BY <1>1, <1>3 DEF Connect
  <2>2. /\ page' \in PageStates /\ page'.mounted = page.mounted /\ page'.captured = page.captured
        /\ page'.timer = page.timer /\ page'.status = page.status
    BY <1>0, <2>1 DEF SetupTyped, ClientTyped, PageStates
  <2>3. /\ setup' \in SetupStates
        /\ IF setup.step = "wait"
           THEN setup'.step = "caps" /\ setup'.net = "sent" /\ setup'.todo = {} /\ setup'.recv = None
           ELSE /\ setup'.step = setup.step /\ setup'.todo = setup.todo /\ setup'.recv = setup.recv
                /\ setup'.net = IF setup.net = "held" THEN "sent" ELSE setup.net
    <3>1. CASE setup.step = "wait"
      <4>1. setup' = [step |-> "caps", net |-> "sent", todo |-> {}, recv |-> None] /\ None \in Transports
        BY <1>0, <2>1, <3>1, SetupFields DEF Awaited, Idling
      <4> QED BY <3>1, <4>1 DEF SetupStates, Calls, Nets
    <3>2. CASE setup.step # "wait"
      BY <1>0, <2>1, <3>2 DEF SetupTyped, ClientTyped, SetupStates, Nets
    <3> QED BY <3>1, <3>2
  <2>4. remote \in RemoteStates /\ remote.fetch \in SUBSET Fetches
    BY <1>0, SetupFields DEF SetupTyped, ClientTyped
  <2>5. PICK F : F = Flushed(remote.fetch)
    OBVIOUS
  <2>6. /\ F \in SUBSET Fetches /\ (F # {} <=> remote.fetch # {})
        /\ \A g \in F : \E f \in remote.fetch : g.p = f.p /\ g.t = f.t /\ g.by = f.by
        /\ \A f, g \in F : f.by = g.by /\ f.p = g.p => f = g
    BY <1>0, <2>5, FetchesKept
  <2>7. /\ remote' \in RemoteStates /\ remote'.info = remote.info /\ remote'.tiles = remote.tiles
        /\ remote'.pend = remote.pend /\ remote'.fetch = F
    BY <2>1, <2>4, <2>5, <2>6 DEF RemoteStates
  <2>8. link' \in LinkStates /\ link'.up /\ link'.conn = link.conn + 1 /\ link.conn \in Nat
    BY <1>0, <1>1 DEF SetupTyped, ClientTyped, LinkStates
  <2>9. Mail = {} /\ Mail' = {} /\ inbox = <<>>
    BY <1>0, <1>1, <2>1, NoMail DEF LinkSound, Mail
  <2>10. setup.recv \in Transports /\ setup.recv.on \in Nat /\ None.on = 0 /\ None \in Transports
    BY <1>0, SetupFields
  <2>18. /\ past' \in PastStates /\ past'.transports = past.transports /\ past'.swallowed = past.swallowed
         /\ past.overlooked \subseteq past'.overlooked
         /\ setup.step = "wait" => remote.tiles \subseteq past'.overlooked
    <3>1. CASE setup.step = "wait"
      <4>1. PICK V \in SUBSET TileStates : V = past.overlooked \cup remote.tiles
        BY <1>0, SetupFields
      <4>2. past' = [past EXCEPT !.overlooked = V] /\ past \in PastStates
        BY <1>0, <2>1, <3>1, <4>1 DEF Awaited, SetupTyped, ServerTyped
      <4>3. past' \in PastStates
        BY <4>2 DEF PastStates
      <4>4. past'.transports = past.transports /\ past'.swallowed = past.swallowed /\ past'.overlooked = V
        BY <4>2 DEF PastStates
      <4> QED BY <4>1, <4>3, <4>4
    <3>2. CASE setup.step # "wait"
      BY <1>0, <2>1, <3>2 DEF SetupTyped, ServerTyped
    <3> QED BY <3>1, <3>2
  <2>11. SetupTyped'
    BY <1>0, <2>1, <2>2, <2>3, <2>7, <2>8, <2>18 DEF SetupTyped, ClientTyped, ServerTyped
  <2>12. LinkSound'
    BY <1>0, <1>1, <2>1, <2>3, <2>8, <2>10 DEF LinkSound, InRoom
  <2>13. StepsSound'
    BY <1>0, <1>1, <1>3, <2>1, <2>2, <2>3, <2>6, <2>7, <2>8 DEF StepsSound, InRoom, Resumes, Calls
  <2>14. StatusSound'
    BY <1>0, <1>1, <1>3, <2>1, <2>2, <2>3, <2>7, <2>8, <2>18 DEF StatusSound, NeverIdleInSilence, Resumes, StepsSound
  <2>15. AnswersSound' /\ FetchesSound' /\ NewsSound'
    BY <1>0, <2>1, <2>6, <2>7, <2>9, <2>18 DEF AnswersSound, FetchesSound, NewsSound
  <2>16. TilesSound'
    BY <1>0, <2>1, <2>3, <2>7, <2>10, <2>18, SetupFields DEF TilesSound
  <2>17. ~Current'
    BY <1>0, <2>3, <2>8, <2>10 DEF Current, LinkSound
  <2> QED
    BY <1>0, <2>1, <2>11, <2>12, <2>13, <2>14, <2>15, <2>16, <2>17 DEF SetupIInv
<1> QED BY <1>2, <1>3

LEMMA DropInv == SetupIInv /\ Drop => SetupIInv'
<1> SUFFICES ASSUME SetupIInv, Drop PROVE SetupIInv'
  OBVIOUS
<1>0. /\ SetupTyped /\ LinkSound /\ StepsSound /\ AnswersSound /\ StatusSound /\ FetchesSound
      /\ NewsSound /\ TilesSound /\ Unrepeated(inbox)
  BY DEF SetupIInv
<1>1. /\ page.status \in {"connecting", "reconnecting", "ready", "exhausted"}
      /\ remote.info \in SUBSET Producers /\ remote.fetch \in SUBSET Fetches
      /\ past.missed \in SUBSET TileStates /\ past.swallowed \in BOOLEAN
  BY <1>0, SetupFields
<1>2. link.up /\ link' \in LinkStates /\ link'.up = FALSE /\ link'.conn = link.conn
  BY <1>0 DEF Drop, SetupTyped, ClientTyped, LinkStates
<1>3. /\ page' \in PageStates /\ page'.mounted = page.mounted /\ page'.captured = page.captured
      /\ page'.timer = page.timer
      /\ page'.status = IF page.mounted /\ page.status # "exhausted" THEN "reconnecting" ELSE page.status
  BY <1>0 DEF Drop, SetupTyped, ClientTyped, PageStates
<1>4. /\ setup' \in SetupStates /\ setup'.recv = setup.recv
      /\ IF setup.step \in Calls /\ Lost(setup.net)
         THEN setup'.step = "idle" /\ setup'.net = "none" /\ setup'.todo = {} ELSE setup' = setup
  BY <1>0 DEF Drop, Idling, SetupTyped, ClientTyped, SetupStates, Nets
<1>5. PICK F \in SUBSET remote.fetch : F = {f \in remote.fetch : Lost(f.net)}
  OBVIOUS
<1>6. /\ remote' = [remote EXCEPT !.fetch = @ \ F, !.info = @ \ {f.p : f \in F}]
      /\ past' = [past EXCEPT !.missed = @ \cup {Id(f) : f \in F},
                              !.swallowed = @ \/ (setup.step = "tiles" /\ page.mounted)]
      /\ server' = [server EXCEPT !.joined = 0, !.consumers = {}] /\ inbox' = <<>>
  BY <1>5 DEF Drop
<1>7. /\ remote' \in RemoteStates /\ remote'.info = remote.info \ {f.p : f \in F} /\ remote'.tiles = remote.tiles
      /\ remote'.pend = remote.pend /\ remote'.fetch = remote.fetch \ F
  BY <1>0, <1>1, <1>6 DEF SetupTyped, ClientTyped, RemoteStates
<1>8. {Id(f) : f \in F} \in SUBSET TileStates
  BY <1>1, FetchTypes
<1>9. /\ past'.transports = past.transports /\ past'.overlooked = past.overlooked
      /\ past'.swallowed = (past.swallowed \/ (setup.step = "tiles" /\ page.mounted))
  BY <1>0, <1>6 DEF SetupTyped, ServerTyped, PastStates
<1>10. past' \in PastStates
  <2>1. past.missed \cup {Id(f) : f \in F} \in SUBSET TileStates
    BY <1>1, <1>8
  <2>2. PICK M : M = past.missed \cup {Id(f) : f \in F}
    OBVIOUS
  <2>3. PICK b \in BOOLEAN : b = (past.swallowed \/ (setup.step = "tiles" /\ page.mounted))
    BY <1>1
  <2>4. past' = [past EXCEPT !.missed = M, !.swallowed = b]
    BY <1>6, <2>2, <2>3
  <2> QED BY <1>0, <2>1, <2>2, <2>4 DEF SetupTyped, ServerTyped, PastStates
<1>11. /\ server' \in ServerStates /\ server'.joined = 0 /\ server'.consumers = {} /\ server'.open = server.open
       /\ server'.born = server.born /\ server'.unannounced = server.unannounced
  BY <1>0, <1>6 DEF SetupTyped, ServerTyped, ServerStates
<1>12. inbox' \in Seq(Messages) /\ Mail' = {} /\ Unrepeated(inbox')
  <2>1. inbox' = <<>>
    BY <1>6
  <2>2. <<>> \in Seq(Messages) /\ DOMAIN <<>> = {}
    OBVIOUS
  <2> QED BY <2>1, <2>2 DEF Mail, Range, Unrepeated
<1>13. SetupTyped'
  BY <1>2, <1>3, <1>4, <1>7, <1>10, <1>11, <1>12 DEF SetupTyped, ClientTyped, ServerTyped
<1>14. LinkSound'
  BY <1>0, <1>2, <1>4, <1>6, <1>11 DEF LinkSound
<1>15. StepsSound'
  BY <1>0, <1>1, <1>2, <1>3, <1>4, <1>7 DEF StepsSound, InRoom, Calls, Lost
<1>16. StatusSound'
  BY <1>0, <1>1, <1>2, <1>3, <1>4, <1>7, <1>9 DEF StatusSound, NeverIdleInSilence
<1>17. AnswersSound' /\ FetchesSound' /\ NewsSound'
  BY <1>0, <1>7, <1>9, <1>11, <1>12 DEF AnswersSound, FetchesSound, NewsSound
<1>18. TilesSound'
  BY <1>0, <1>2, <1>4, <1>7, <1>9, <1>11, FS_EmptySet DEF TilesSound, StepsSound
<1>19. ~Current'
  BY <1>2 DEF Current
<1> QED
  BY <1>12, <1>13, <1>14, <1>15, <1>16, <1>17, <1>18, <1>19 DEF SetupIInv

LEMMA UnmountInv == SetupIInv /\ Unmount => SetupIInv'
<1> SUFFICES ASSUME SetupIInv, Unmount PROVE SetupIInv'
  OBVIOUS
<1>0. /\ SetupTyped /\ LinkSound /\ StepsSound /\ AnswersSound /\ StatusSound /\ FetchesSound
      /\ NewsSound /\ TilesSound /\ Unrepeated(inbox)
  BY DEF SetupIInv
<1>1. None \in Transports /\ None.n = 0 /\ None.on = 0 /\ remote.fetch \in SUBSET Fetches /\ past.transports \in Nat
  BY <1>0, SetupFields
<1>2. /\ page' \in PageStates /\ page'.mounted = FALSE /\ page'.captured = page.captured
      /\ page'.timer = FALSE /\ page'.status = page.status
  BY <1>0 DEF Unmount, SetupTyped, ClientTyped, PageStates
<1>3. /\ setup' \in SetupStates /\ setup'.recv = None
      /\ IF setup.step = "wait"
         THEN setup'.step = "idle" /\ setup'.net = "none" /\ setup'.todo = {}
         ELSE setup'.step = setup.step /\ setup'.net = setup.net /\ setup'.todo = setup.todo
  BY <1>0, <1>1 DEF Unmount, Idling, SetupTyped, ClientTyped, SetupStates, Nets
<1>4. /\ remote' \in RemoteStates /\ remote'.info = {} /\ remote'.tiles = {} /\ remote'.pend = {}
      /\ remote'.fetch = remote.fetch
  BY <1>1 DEF Unmount, Cleared, RemoteStates
<1>5. link' = link /\ server' = server /\ inbox' = inbox /\ past' = past /\ Mail' = Mail
  BY DEF Unmount, Mail
<1>11. SetupTyped'
  BY <1>0, <1>2, <1>3, <1>4, <1>5 DEF SetupTyped, ClientTyped, ServerTyped
<1>12. LinkSound'
  BY <1>0, <1>3, <1>5 DEF LinkSound, InRoom
<1>13. StepsSound'
  BY <1>0, <1>2, <1>3, <1>4, <1>5 DEF StepsSound, InRoom, Calls
<1>14. AnswersSound' /\ FetchesSound' /\ NewsSound'
  BY <1>0, <1>3, <1>4, <1>5 DEF AnswersSound, FetchesSound, NewsSound, InRoom, StepsSound, Calls
<1>15. StatusSound'
  BY <1>2, <1>3, <1>4 DEF StatusSound, NeverIdleInSilence
<1>16. TilesSound'
  BY <1>0, <1>1, <1>3, <1>4, <1>5 DEF TilesSound
<1>17. ~Current'
  BY <1>2 DEF Current
<1> QED
  BY <1>0, <1>5, <1>11, <1>12, <1>13, <1>14, <1>15, <1>16, <1>17 DEF SetupIInv

LEMMA EmitInv == SetupIInv /\ Emit => SetupIInv'
<1> SUFFICES ASSUME SetupIInv, Emit PROVE SetupIInv'
  OBVIOUS
<1>0. /\ SetupTyped /\ LinkSound /\ StepsSound /\ AnswersSound /\ StatusSound /\ FetchesSound
      /\ NewsSound /\ TilesSound /\ Unrepeated(inbox)
  BY DEF SetupIInv
<1>1. /\ link' = link /\ page' = page /\ remote' = remote /\ server' = server /\ inbox' = inbox /\ past' = past
      /\ Mail' = Mail /\ setup.net = "local"
  BY DEF Emit, Mail
<1>2. link.up \in BOOLEAN /\ page.mounted \in BOOLEAN /\ None \in Transports /\ past.transports \in Nat /\ None.n = 0
  BY <1>0, SetupFields
<1>3. /\ setup' \in SetupStates
      /\ IF page.mounted \/ setup.step = "transports"
         THEN /\ setup'.step = setup.step /\ setup'.todo = setup.todo /\ setup'.recv = setup.recv
              /\ setup'.net = IF link.up THEN "sent" ELSE "held"
         ELSE setup'.step = "idle" /\ setup'.net = "none" /\ setup'.todo = {} /\ setup'.recv = None
  BY <1>0, <1>2 DEF Emit, Emitted, Idling, SetupTyped, ClientTyped, SetupStates, Nets
<1>11. SetupTyped'
  BY <1>0, <1>1, <1>3 DEF SetupTyped, ClientTyped, ServerTyped
<1>12. LinkSound'
  BY <1>0, <1>1, <1>3 DEF LinkSound, InRoom
<1>13. StepsSound'
  BY <1>0, <1>1, <1>2, <1>3 DEF StepsSound, InRoom, Calls
<1>14. AnswersSound' /\ FetchesSound' /\ NewsSound'
  BY <1>0, <1>1 DEF AnswersSound, FetchesSound, NewsSound
<1>15. StatusSound'
  BY <1>0, <1>1, <1>2, <1>3 DEF StatusSound, NeverIdleInSilence, InRoom, StepsSound, Calls
<1>16. TilesSound'
  BY <1>0, <1>1, <1>2, <1>3 DEF TilesSound, StepsSound, StatusSound, NeverIdleInSilence
<1>17. ASSUME Current' PROVE NoneForgotten' /\ NoneOutlives'
  <2>1. Current /\ setup'.step = setup.step /\ setup'.todo = setup.todo /\ setup'.recv = setup.recv
        /\ setup'.net = "sent"
    BY <1>1, <1>3, <1>17 DEF Current
  <2>2. NoneForgotten /\ NoneOutlives
    BY <2>1 DEF SetupIInv
  <2>3. setup.step # "idle" /\ setup.step # "list"
    BY <1>0, <1>1 DEF StepsSound, Calls
  <2>4. \A p : (Here(p) => Here(p)') /\ (Expected(p) => Expected(p)')
    BY <1>1, <2>1, <2>3 DEF Here, Expected, ListAhead, Listed, SettingUpAgain
  <2>5. NoneForgotten'
    BY <1>1, <2>1, <2>2, <2>4 DEF NoneForgotten
  <2>6. Coming' = Coming /\ \A c : Backed(c)' = Backed(c)
    BY <1>1, <2>1 DEF Coming, Built, Backed
  <2>7. NoneOutlives'
    BY <1>1, <2>2, <2>6 DEF NoneOutlives
  <2> QED BY <2>5, <2>7
<1> QED
  BY <1>0, <1>1, <1>11, <1>12, <1>13, <1>14, <1>15, <1>16, <1>17 DEF SetupIInv

-----------------------------------------------------------------------------
(* the calls of a setup *)

LEMMA ReplyTypes ==
  /\ \A a \in Messages : a.m = "answer" => a \in Replies /\ a.ok \in BOOLEAN /\ a.ps \in SUBSET Producers
  /\ \A ok \in BOOLEAN, ps \in SUBSET Producers : [m |-> "answer", ok |-> ok, ps |-> ps] \in Messages
  BY DEF Messages, Replies, Consumeds, News, Closings, Leavings

LEMMA LadderFacts ==
  ASSUME SetupTyped, NEW pg, pg = Ladder(page)
  PROVE  /\ pg \in PageStates /\ pg.mounted = page.mounted /\ pg.captured = page.captured
         /\ ~page.mounted => pg = page
         /\ page.mounted => pg.status \in {"reconnecting", "exhausted"}
         /\ page.mounted /\ link.up => pg.timer \/ pg.status = "exhausted"
<1>1. page \in PageStates /\ MaxRetries \in Nat /\ page.attempt \in Nat /\ page.mounted \in BOOLEAN /\ link.up \in BOOLEAN
  BY SetupFields, MediaSetupConstants DEF SetupTyped, ClientTyped
<1>2. CASE ~page.mounted
  BY <1>1, <1>2 DEF Ladder
<1>3. CASE page.mounted /\ ~link.up
  <2>1. pg = [page EXCEPT !.status = "reconnecting"]
    BY <1>3 DEF Ladder
  <2> QED BY <1>1, <1>3, <2>1 DEF PageStates
<1>4. CASE page.mounted /\ link.up /\ page.attempt >= MaxRetries
  <2>1. pg = [page EXCEPT !.status = "exhausted"]
    BY <1>4 DEF Ladder
  <2> QED BY <1>1, <1>4, <2>1 DEF PageStates
<1>5. CASE page.mounted /\ link.up /\ ~(page.attempt >= MaxRetries)
  <2>1. PICK n \in Nat : n = page.attempt + 1
    BY <1>1
  <2>2. pg = [page EXCEPT !.attempt = n, !.timer = TRUE, !.status = "reconnecting"]
    BY <1>5, <2>1 DEF Ladder, Retrying
  <2>3. pg \in PageStates
    BY <1>1, <2>2 DEF PageStates
  <2>4. pg.mounted = page.mounted /\ pg.captured = page.captured /\ pg.status = "reconnecting" /\ pg.timer
    BY <1>1, <2>2 DEF PageStates
  <2> QED BY <1>5, <2>3, <2>4
<1> QED BY <1>1, <1>2, <1>3, <1>4, <1>5

LEMMA ServeInv == SetupIInv /\ Serve => SetupIInv'
<1> SUFFICES ASSUME SetupIInv, Serve PROVE SetupIInv'
  OBVIOUS
<1>0. /\ SetupTyped /\ LinkSound /\ StepsSound /\ AnswersSound /\ StatusSound /\ FetchesSound
      /\ NewsSound /\ TilesSound /\ Unrepeated(inbox)
  BY DEF SetupIInv
<1>1. /\ link' = link /\ page' = page /\ remote' = remote /\ past' = past /\ link.up /\ setup.net = "sent"
      /\ setup.step \in Calls
  BY <1>0 DEF Serve, StepsSound
<1>2. link.conn \in Nat /\ server.open \in SUBSET Producers /\ server.joined \in Nat /\ inbox \in Seq(Messages)
  BY <1>0, SetupFields DEF SetupTyped, ServerTyped
<1>3. /\ setup' \in SetupStates /\ setup'.step = setup.step /\ setup'.todo = setup.todo /\ setup'.recv = setup.recv
      /\ setup'.net = "served"
  BY <1>0 DEF Serve, SetupTyped, ClientTyped, SetupStates, Nets
<1>4. /\ server' \in ServerStates /\ server'.consumers = server.consumers /\ server'.open = server.open
      /\ server'.born = server.born /\ server'.unannounced = server.unannounced
      /\ server'.joined = IF setup.step = "caps" THEN link.conn ELSE server.joined
  BY <1>0, <1>2 DEF Serve, SetupTyped, ServerTyped, ServerStates
<1>5. PICK ok \in BOOLEAN : ok = (setup.step \in {"caps", "list"} \/ InRoom)
  OBVIOUS
<1>6. PICK ps \in SUBSET Producers : ps = IF setup.step = "list" /\ InRoom THEN server.open ELSE {}
  BY <1>2
<1>7. PICK a \in Messages : a = [m |-> "answer", ok |-> ok, ps |-> ps]
  BY ReplyTypes
<1>8. inbox' = Append(inbox, a) /\ a.m = "answer" /\ a.ok = ok /\ a.ps = ps
  BY <1>5, <1>6, <1>7 DEF Serve
<1>9. \A b \in Mail : b.m # "answer"
  BY <1>0, <1>1 DEF AnswersSound
<1>10. inbox' \in Seq(Messages) /\ Mail' = Mail \cup {a} /\ Unrepeated(inbox')
  <2>1. \A b \in Range(inbox) : ~Alike(b, a)
    BY <1>8, <1>9 DEF Alike, Mail
  <2>2. Range(Append(inbox, a)) = Range(inbox) \cup {a} /\ Append(inbox, a) \in Seq(Messages)
    BY <1>2, MailAppended
  <2>3. Unrepeated(Append(inbox, a))
    BY <1>0, <1>2, <2>1, MailAppended
  <2> QED BY <1>8, <2>2, <2>3 DEF Mail
<1>12. SetupTyped'
  BY <1>0, <1>1, <1>3, <1>4, <1>10 DEF SetupTyped, ClientTyped, ServerTyped
<1>13. LinkSound'
  BY <1>0, <1>1, <1>2, <1>3, <1>4 DEF LinkSound, StepsSound, InRoom
<1>14. StepsSound'
  BY <1>0, <1>1, <1>3, <1>4 DEF StepsSound, InRoom
<1>15. AnswersSound'
  BY <1>0, <1>1, <1>3, <1>4, <1>5, <1>8, <1>9, <1>10 DEF AnswersSound, StepsSound, InRoom
<1>16. StatusSound'
  BY <1>0, <1>1, <1>3, <1>4 DEF StatusSound, NeverIdleInSilence, InRoom
<1>17. FetchesSound'
  BY <1>0, <1>1, <1>4, <1>8, <1>10 DEF FetchesSound
<1>18. NewsSound'
  BY <1>0, <1>1, <1>4, <1>8, <1>10 DEF NewsSound
<1>19. TilesSound'
  BY <1>0, <1>1, <1>3, <1>4 DEF TilesSound
<1>20. ASSUME Current' PROVE NoneForgotten' /\ NoneOutlives'
  <2>1. Current
    BY <1>1, <1>3, <1>20 DEF Current
  <2>2. NoneForgotten /\ NoneOutlives
    BY <2>1 DEF SetupIInv
  <2>3. ASSUME NEW p \in server.open, Expected(p) PROVE Expected(p)'
    <3>1. CASE setup.step = "list"
      <4>1. a \in Mail' /\ p \in a.ps
        BY <1>0, <1>6, <1>8, <1>10, <3>1 DEF StepsSound
      <4> QED BY <1>3, <1>8, <3>1, <4>1 DEF Expected, Listed
    <3>2. CASE setup.step # "list"
      BY <1>1, <1>3, <1>4, <1>10, <2>3, <3>2 DEF Expected, ListAhead, Listed, SettingUpAgain
    <3> QED BY <3>1, <3>2
  <2>4. \A p : Here(p)' = Here(p)
    BY <1>1, <1>3 DEF Here
  <2>5. NoneForgotten'
    BY <1>1, <1>3, <1>4, <2>2, <2>3, <2>4 DEF NoneForgotten
  <2>6. Coming' = Coming /\ \A c : Backed(c)' = Backed(c)
    BY <1>1, <1>3, <1>4, <1>8, <1>10 DEF Coming, Built, Backed
  <2>7. NoneOutlives'
    BY <1>1, <2>2, <2>6 DEF NoneOutlives
  <2> QED BY <2>5, <2>7
<1> QED
  BY <1>10, <1>12, <1>13, <1>14, <1>15, <1>16, <1>17, <1>18, <1>19, <1>20 DEF SetupIInv

LEMMA SetupTimeoutInv == SetupIInv /\ SetupTimeout => SetupIInv'
<1> SUFFICES ASSUME SetupIInv, SetupTimeout PROVE SetupIInv'
  OBVIOUS
<1>0. /\ SetupTyped /\ LinkSound /\ StepsSound /\ AnswersSound /\ StatusSound /\ FetchesSound
      /\ NewsSound /\ TilesSound /\ Unrepeated(inbox)
  BY DEF SetupIInv
<1>1. /\ link' = link /\ remote' = remote /\ inbox' = inbox /\ Mail' = Mail
      /\ setup.step \in Calls /\ setup.net \in {"held", "sent"}
  BY DEF SetupTimeout, Mail
<1>2. link.up \in BOOLEAN /\ link.conn \in Nat /\ past.events \in Nat /\ page.mounted \in BOOLEAN
  BY <1>0, SetupFields
<1>3. /\ setup' \in SetupStates /\ setup'.step = "idle" /\ setup'.net = "none" /\ setup'.todo = {}
      /\ setup'.recv = setup.recv
  BY <1>0 DEF SetupTimeout, SetupFailed, Idling, SetupTyped, ClientTyped, SetupStates, Nets
<1>4. /\ page' \in PageStates /\ page'.mounted = page.mounted /\ page'.captured = page.captured
      /\ ~page.mounted => page' = page
      /\ page.mounted => page'.status \in {"reconnecting", "exhausted"}
      /\ page.mounted /\ link.up => page'.timer \/ page'.status = "exhausted"
  BY <1>0, LadderFacts DEF SetupTimeout, SetupFailed, ScheduleRetry
<1>5. /\ server' \in ServerStates /\ server'.consumers = server.consumers /\ server'.open = server.open
      /\ server'.born = server.born /\ server'.unannounced = server.unannounced
      /\ server'.joined = server.joined \/ (server'.joined = link.conn /\ link.up /\ setup.step = "caps")
  BY <1>0, <1>2 DEF SetupTimeout, SetupTyped, ServerTyped, ServerStates
<1>6. /\ past' \in PastStates /\ past'.overlooked = past.overlooked /\ past'.missed = past.missed
      /\ past'.swallowed = past.swallowed /\ past'.transports = past.transports
  BY <1>0, <1>2 DEF SetupTimeout, SetupTyped, ServerTyped, PastStates
<1>12. SetupTyped'
  BY <1>0, <1>1, <1>3, <1>4, <1>5, <1>6 DEF SetupTyped, ClientTyped, ServerTyped
<1>13. LinkSound'
  BY <1>0, <1>1, <1>2, <1>3, <1>5 DEF LinkSound, StepsSound, InRoom
<1>14. StepsSound'
  BY <1>0, <1>1, <1>2, <1>3, <1>4, <1>5 DEF StepsSound, Calls
<1>15. AnswersSound'
  BY <1>0, <1>1 DEF AnswersSound
<1>16. StatusSound'
  BY <1>0, <1>1, <1>2, <1>3, <1>4 DEF StatusSound, NeverIdleInSilence
<1>17. FetchesSound' /\ NewsSound'
  BY <1>0, <1>1, <1>5, <1>6 DEF FetchesSound, NewsSound
<1>19. TilesSound'
  BY <1>0, <1>1, <1>3, <1>5, <1>6 DEF TilesSound
<1>20. ASSUME Current' PROVE NoneForgotten' /\ NoneOutlives'
  <2>1. Current /\ page.mounted
    BY <1>1, <1>3, <1>4, <1>20 DEF Current
  <2>2. NoneForgotten /\ NoneOutlives
    BY <2>1 DEF SetupIInv
  <2>3. \A p : Expected(p)'
    BY <1>3, <1>4, <2>1 DEF Expected, SettingUpAgain
  <2>4. \A p : Here(p)' = Here(p)
    BY <1>1, <1>3, <1>6 DEF Here
  <2>5. NoneForgotten'
    BY <1>1, <1>3, <1>5, <2>2, <2>3, <2>4 DEF NoneForgotten
  <2>6. Coming' = Coming /\ \A c : Backed(c)' = Backed(c)
    BY <1>1, <1>3, <1>5, <1>6 DEF Coming, Built, Backed
  <2>7. NoneOutlives'
    BY <1>1, <1>6, <2>2, <2>6 DEF NoneOutlives
  <2> QED BY <2>5, <2>7
<1> QED
  BY <1>0, <1>1, <1>12, <1>13, <1>14, <1>15, <1>16, <1>17, <1>19, <1>20 DEF SetupIInv

-----------------------------------------------------------------------------
(* what the client does with what comes in *)

Taking == inbox # <<>> /\ link.up /\ inbox' = Tail(inbox) /\ UNCHANGED <<link, server>>

LEMMA Taken ==
  ASSUME SetupTyped, Unrepeated(inbox), inbox # <<>>, inbox' = Tail(inbox)
  PROVE  /\ inbox' \in Seq(Messages) /\ Head(inbox) \in Messages /\ Mail = Mail' \cup {Head(inbox)}
         /\ Unrepeated(inbox')
         /\ Head(inbox).m \in Once => \A x \in Mail' : ~Alike(Head(inbox), x)
<1>1. inbox \in Seq(Messages)
  BY DEF SetupTyped, ServerTyped
<1>2. Tail(inbox) \in Seq(Messages) /\ Head(inbox) \in Messages /\ Range(inbox) = Range(Tail(inbox)) \cup {Head(inbox)}
  BY <1>1, MailTaken
<1>3. Unrepeated(Tail(inbox)) /\ (Head(inbox).m \in Once => \A x \in Range(Tail(inbox)) : ~Alike(Head(inbox), x))
  BY <1>1, MailTaken
<1> QED BY <1>2, <1>3 DEF Mail

LEMMA AnsweredInv ==
  ASSUME SetupIInv, Taking, Head(inbox).m = "answer", Answered(Head(inbox)), UNCHANGED remote
  PROVE  SetupIInv'
<1>0. /\ SetupTyped /\ LinkSound /\ StepsSound /\ AnswersSound /\ StatusSound /\ FetchesSound
      /\ NewsSound /\ TilesSound /\ Unrepeated(inbox)
  BY DEF SetupIInv
<1> DEFINE a == Head(inbox)
<1>1. /\ inbox' \in Seq(Messages) /\ a \in Messages /\ Mail = Mail' \cup {a} /\ Unrepeated(inbox')
      /\ a.m \in Once => \A x \in Mail' : ~Alike(a, x)
  BY <1>0, Taken DEF Taking
<1>2. /\ a.m = "answer" /\ a.ok \in BOOLEAN /\ a.ps \in SUBSET Producers
  BY <1>1, ReplyTypes
<1>3. /\ \A x \in Mail' : x.m # "answer"
      /\ setup.net = "served" /\ (a.ok => InRoom) /\ link.up /\ setup.step \in Calls
  BY <1>0, <1>1, <1>2 DEF AnswersSound, Once, Alike, Taking, StepsSound
<1>4. link' = link /\ server' = server /\ remote' = remote
  BY DEF Taking
<1>5. /\ setup.recv \in Transports /\ None \in Transports /\ None.n = 0 /\ None.on = 0 /\ past.transports \in Nat
      /\ link.conn \in Nat /\ link.conn # 0 /\ page.mounted \in BOOLEAN /\ setup.recv.on \in Nat /\ remote.fetch \in SUBSET Fetches
  BY <1>0, <1>3, SetupFields DEF LinkSound
<1>6. Answered(a)
  OBVIOUS
<1> HIDE DEF a
(* nothing to do for a page that was left; a retry *)
<1>7. CASE ~page.mounted \/ Rejected(a)
  <2>1. past' = past
    BY <1>6, <1>7 DEF Answered
  <2>2. /\ setup' \in SetupStates /\ setup'.step = "idle" /\ setup'.net = "none" /\ setup'.todo = {}
        /\ setup'.recv = setup.recv
    <3>1. setup' = Idling(setup.recv)
      BY <1>6, <1>7 DEF Answered, SetupFailed
    <3> QED BY <1>5, <3>1 DEF Idling, SetupStates, Nets
  <2>3. /\ page' \in PageStates /\ page'.mounted = page.mounted /\ page'.captured = page.captured
        /\ ~page.mounted => page' = page
        /\ page.mounted => page'.status \in {"reconnecting", "exhausted"}
        /\ page.mounted => page'.timer \/ page'.status = "exhausted"
    <3>1. CASE page.mounted
      <4>1. page' = Ladder(page)
        BY <1>6, <1>7, <3>1 DEF Answered, SetupFailed, ScheduleRetry
      <4> QED BY <1>0, <1>3, <3>1, <4>1, LadderFacts
    <3>2. CASE ~page.mounted
      BY <1>0, <1>6, <3>2 DEF Answered, SetupTyped, ClientTyped
    <3> QED BY <3>1, <3>2
  <2>12. SetupTyped'
    BY <1>0, <1>1, <1>4, <2>1, <2>2, <2>3 DEF SetupTyped, ClientTyped, ServerTyped
  <2>13. LinkSound'
    BY <1>0, <1>3, <1>4, <2>2 DEF LinkSound, InRoom
  <2>14. StepsSound'
    BY <1>0, <1>3, <1>4, <2>2, <2>3 DEF StepsSound, Calls
  <2>15. AnswersSound'
    BY <1>3 DEF AnswersSound
  <2>16. StatusSound'
    BY <1>0, <1>4, <1>5, <2>2, <2>3 DEF StatusSound, NeverIdleInSilence
  <2>17. FetchesSound' /\ NewsSound'
    BY <1>0, <1>1, <1>4, <2>1 DEF FetchesSound, NewsSound
  <2>19. TilesSound'
    BY <1>0, <1>4, <2>1, <2>2 DEF TilesSound
  <2>20. ASSUME Current' PROVE NoneForgotten' /\ NoneOutlives'
    <3>1. Current /\ page.mounted
      BY <1>4, <2>2, <2>3, <2>20 DEF Current
    <3>2. NoneForgotten /\ NoneOutlives
      BY <3>1 DEF SetupIInv
    <3>3. \A p : Expected(p)'
      BY <2>2, <2>3, <3>1 DEF Expected, SettingUpAgain
    <3>4. \A p : Here(p)' = Here(p)
      BY <1>4, <2>1, <2>2 DEF Here
    <3>5. NoneForgotten'
      BY <1>4, <2>2, <3>2, <3>3, <3>4 DEF NoneForgotten
    <3>6. Coming' = Coming /\ \A c : Backed(c)' = Backed(c)
      BY <1>1, <1>2, <1>4, <2>1, <2>2 DEF Coming, Built, Backed
    <3>7. NoneOutlives'
      BY <1>4, <2>1, <3>2, <3>6 DEF NoneOutlives
    <3> QED BY <3>5, <3>7
  <2> QED
    BY <1>1, <2>12, <2>13, <2>14, <2>15, <2>16, <2>17, <2>19, <2>20 DEF SetupIInv
(* the list, whose producers are consumed next *)
<1>8. CASE page.mounted /\ ~Rejected(a) /\ setup.step = "list"
  <2>1. past' = past /\ page' = page
    BY <1>6, <1>8 DEF Answered
  <2>2. /\ setup' \in SetupStates /\ setup'.step = "tiles" /\ setup'.net = "none" /\ setup'.todo = a.ps
        /\ setup'.recv = setup.recv
    BY <1>0, <1>2, <1>6, <1>8 DEF Answered, SetupTyped, ClientTyped, SetupStates, Nets
  <2>12. SetupTyped'
    BY <1>0, <1>1, <1>4, <2>1, <2>2 DEF SetupTyped, ClientTyped, ServerTyped
  <2>13. LinkSound'
    BY <1>0, <1>3, <1>4, <2>2 DEF LinkSound, InRoom
  <2>14. StepsSound'
    BY <1>0, <1>3, <1>4, <1>8, <2>1, <2>2 DEF StepsSound, Calls
  <2>15. AnswersSound'
    BY <1>3 DEF AnswersSound
  <2>16. StatusSound'
    BY <1>0, <1>3, <1>4, <1>8, <2>1, <2>2 DEF StatusSound, NeverIdleInSilence, StepsSound, InRoom
  <2>17. FetchesSound' /\ NewsSound'
    BY <1>0, <1>1, <1>4, <2>1 DEF FetchesSound, NewsSound
  <2>19. TilesSound'
    BY <1>0, <1>4, <2>1, <2>2 DEF TilesSound
  <2>20. ASSUME Current' PROVE NoneForgotten' /\ NoneOutlives'
    <3>1. Current
      BY <1>4, <2>1, <2>2, <2>20 DEF Current
    <3>2. NoneForgotten /\ NoneOutlives
      BY <3>1 DEF SetupIInv
    <3>3. ASSUME NEW p, Expected(p) PROVE Expected(p)'
      <4>1. ~ListAhead /\ ~SettingUpAgain /\ setup.todo = {}
        BY <1>0, <1>3, <1>8 DEF ListAhead, SettingUpAgain, StepsSound
      <4>2. Listed(p) => p \in a.ps
        BY <1>1, <1>3 DEF Listed
      <4> QED BY <1>1, <1>2, <1>4, <2>2, <3>3, <4>1, <4>2 DEF Expected
    <3>4. \A p : Here(p)' = Here(p)
      BY <1>4, <2>1, <2>2 DEF Here
    <3>5. NoneForgotten'
      BY <1>4, <2>2, <3>2, <3>3, <3>4 DEF NoneForgotten
    <3>6. Coming' = Coming /\ \A c : Backed(c)' = Backed(c)
      BY <1>1, <1>2, <1>4, <2>1, <2>2 DEF Coming, Built, Backed
    <3>7. NoneOutlives'
      BY <1>4, <2>1, <3>2, <3>6 DEF NoneOutlives
    <3> QED BY <3>5, <3>7
  <2> QED
    BY <1>1, <2>12, <2>13, <2>14, <2>15, <2>16, <2>17, <2>19, <2>20 DEF SetupIInv
(* the next call; the transports are new *)
<1>9. CASE page.mounted /\ ~Rejected(a) /\ setup.step # "list"
  <2>0. InRoom /\ setup.step \in {"caps", "transports", "produce"}
    BY <1>3, <1>9 DEF Rejected, Calls
  <2>1. PICK s \in After(setup.step) :
          /\ setup' = [setup EXCEPT !.step = s,
               !.net = IF s \in {"transports", "produce"} THEN "local" ELSE Emitted(link.up),
               !.recv = IF setup.step = "transports" THEN [n |-> past.transports + 1, on |-> link.conn] ELSE @]
          /\ past' = [past EXCEPT !.transports = IF setup.step = "transports" THEN @ + 1 ELSE @]
          /\ page' = page
    BY <1>6, <1>9 DEF Answered
  <2>2. /\ setup.step = "caps" => s = "transports"
        /\ setup.step = "transports" => s \in {"produce", "list"}
        /\ setup.step = "produce" => s = "list"
    BY <2>0, <2>1 DEF After
  <2>3. PICK t \in Transports : t = IF setup.step = "transports" THEN [n |-> past.transports + 1, on |-> link.conn] ELSE setup.recv
    <3>1. [n |-> past.transports + 1, on |-> link.conn] \in Transports
      BY <1>5 DEF Transports
    <3> QED BY <1>5, <3>1
  <2>4. PICK net \in {"local", "sent"} : net = IF s = "list" THEN "sent" ELSE "local"
    OBVIOUS
  <2>5. setup' = [setup EXCEPT !.step = s, !.net = net, !.recv = t]
    BY <1>3, <2>0, <2>1, <2>2, <2>3, <2>4 DEF Emitted
  <2>6. setup' \in SetupStates /\ setup'.step = s /\ setup'.net = net /\ setup'.todo = setup.todo /\ setup'.recv = t
    BY <1>0, <2>0, <2>2, <2>4, <2>5 DEF SetupTyped, ClientTyped, SetupStates, Nets, Calls
  <2>7. PICK k \in Nat : k = IF setup.step = "transports" THEN past.transports + 1 ELSE past.transports
    BY <1>5
  <2>8. past' = [past EXCEPT !.transports = k]
    BY <2>1, <2>7
  <2>9. /\ past' \in PastStates /\ past'.transports = k /\ past'.swallowed = past.swallowed
        /\ past'.overlooked = past.overlooked /\ past'.missed = past.missed
    BY <1>0, <2>8 DEF SetupTyped, ServerTyped, PastStates
  <2>10. /\ setup.step = "transports" => t.n = past.transports + 1 /\ t.on = link.conn
         /\ setup.step # "transports" => t = setup.recv
    BY <2>3
  <2>11. page' = page /\ setup.todo = {}
    BY <1>0, <2>0, <2>1 DEF StepsSound
  <2>12. SetupTyped'
    BY <1>0, <1>1, <1>4, <2>6, <2>9, <2>11 DEF SetupTyped, ClientTyped, ServerTyped
  <2>13. LinkSound'
    BY <1>0, <1>3, <1>4, <1>5, <2>0, <2>6, <2>10 DEF LinkSound, InRoom
  <2>14. StepsSound'
    BY <1>0, <1>3, <1>4, <1>5, <1>9, <2>0, <2>2, <2>4, <2>6, <2>10, <2>11 DEF StepsSound, Calls, InRoom
  <2>15. AnswersSound'
    BY <1>3 DEF AnswersSound
  <2>16. StatusSound'
    BY <1>0, <1>3, <1>4, <1>9, <2>0, <2>2, <2>6, <2>11 DEF StatusSound, NeverIdleInSilence, InRoom
  <2>17. FetchesSound' /\ NewsSound'
    <3>1. \A f \in remote.fetch : f.t.n \in Nat
      BY <1>5, FetchTypes
    <3> QED BY <1>0, <1>1, <1>4, <1>5, <2>7, <2>9, <3>1 DEF FetchesSound, NewsSound
  <2>18. setup.step = "transports" => remote.tiles \subseteq past.overlooked /\ remote.info = {} /\ \A f \in remote.fetch : f.t # t
    <3>1. \A f \in remote.fetch : f.t.n \in Nat
      BY <1>5, FetchTypes
    <3> QED BY <1>0, <1>5, <2>10, <3>1 DEF TilesSound, FetchesSound, StepsSound
  <2>19. TilesSound'
    <3>1. s # "wait" /\ setup.step # "wait" /\ past'.overlooked = past.overlooked /\ link.conn \in Nat
      BY <1>5, <2>0, <2>2, <2>9
    <3>2. CASE setup.step = "transports"
      <4>1. t # None /\ t.n <= past'.transports
        BY <1>5, <2>7, <2>9, <2>10, <3>2
      <4> QED BY <1>0, <1>4, <2>6, <2>18, <3>1, <3>2, <4>1 DEF TilesSound
    <3>3. CASE setup.step # "transports"
      BY <1>0, <1>4, <2>6, <2>7, <2>9, <2>10, <3>1, <3>3 DEF TilesSound
    <3> QED BY <3>2, <3>3
  <2>20. ASSUME Current' PROVE NoneForgotten' /\ NoneOutlives'
    <3>1. t.on = link.conn /\ s # "transports"
      BY <1>0, <1>4, <1>5, <2>0, <2>2, <2>6, <2>10, <2>20 DEF Current, StepsSound
    <3>2. \A p : Expected(p)'
      BY <2>0, <2>2, <2>4, <2>6, <3>1 DEF Expected, ListAhead
    <3>3. CASE setup.step = "transports"
      <4>1. NoneForgotten'
        BY <1>4, <2>6, <2>18, <3>2, <3>3 DEF NoneForgotten
      <4>2. Coming' = {}
        BY <1>4, <2>6, <2>18, <3>3 DEF Coming
      <4>3. NoneOutlives'
        BY <1>4, <2>9, <2>18, <3>3, <4>2 DEF NoneOutlives, Backed
      <4> QED BY <4>1, <4>3
    <3>4. CASE setup.step # "transports"
      <4>1. Current /\ t = setup.recv
        BY <1>4, <2>6, <2>10, <2>11, <2>20, <3>4 DEF Current
      <4>2. NoneForgotten /\ NoneOutlives
        BY <4>1 DEF SetupIInv
      <4>3. \A p : Here(p)' = Here(p)
        BY <1>4, <2>6, <2>9, <4>1 DEF Here
      <4>4. NoneForgotten'
        BY <1>4, <2>6, <3>2, <4>1, <4>2, <4>3 DEF NoneForgotten
      <4>5. Coming' = Coming /\ \A c : Backed(c)' = Backed(c)
        BY <1>1, <1>2, <1>4, <2>6, <2>9, <4>1 DEF Coming, Built, Backed
      <4>6. NoneOutlives'
        BY <1>4, <2>9, <4>2, <4>5 DEF NoneOutlives
      <4> QED BY <4>4, <4>6
    <3> QED BY <3>3, <3>4
  <2> QED
    BY <1>1, <2>12, <2>13, <2>14, <2>15, <2>16, <2>17, <2>19, <2>20 DEF SetupIInv
<1> QED BY <1>7, <1>8, <1>9

-----------------------------------------------------------------------------
(* the loop over the existing producers *)

Begun(p, by) == [p |-> p, t |-> setup.recv, by |-> by, at |-> "consume", net |-> Emitted(link.up)]

LEMMA StartedFacts ==
  ASSUME SetupTyped, NEW p \in Producers, NEW by \in {"setup", "event"}, remote' = StartConsume(p, by)
  PROVE  /\ Begun(p, by) \in Fetches /\ Begun(p, by).p = p /\ Begun(p, by).t = setup.recv /\ Begun(p, by).by = by
         /\ Begun(p, by).at = "consume" /\ Begun(p, by).net \in {"held", "sent"}
         /\ Id(Begun(p, by)) = [p |-> p, t |-> setup.recv]
         /\ remote' \in RemoteStates /\ remote'.info = remote.info \cup {p} /\ remote'.tiles = remote.tiles
         /\ remote'.pend = remote.pend /\ remote'.fetch = remote.fetch \cup {Begun(p, by)}
<1> DEFINE g == Begun(p, by)
<1>1. setup.recv \in Transports /\ link.up \in BOOLEAN /\ remote.info \in SUBSET Producers /\ remote.fetch \in SUBSET Fetches
  BY SetupFields
<1>2. /\ g \in Fetches /\ g.p = p /\ g.t = setup.recv /\ g.by = by /\ g.at = "consume" /\ g.net \in {"held", "sent"}
  BY <1>1 DEF Begun, Emitted, Fetches, Nets
<1>3. remote' = [remote EXCEPT !.info = @ \cup {p}, !.fetch = @ \cup {g}]
  BY DEF StartConsume, Begun
<1>4. Id(g) = [p |-> p, t |-> setup.recv]
  BY <1>2 DEF Id
<1> HIDE DEF g
<1>5. /\ remote' \in RemoteStates /\ remote'.info = remote.info \cup {p} /\ remote'.tiles = remote.tiles
      /\ remote'.pend = remote.pend /\ remote'.fetch = remote.fetch \cup {g}
  <2>1. PICK I \in SUBSET Producers : I = remote.info \cup {p}
    BY <1>1
  <2>2. PICK F \in SUBSET Fetches : F = remote.fetch \cup {g}
    BY <1>1, <1>2
  <2>3. remote' = [remote EXCEPT !.info = I, !.fetch = F] /\ remote \in RemoteStates
    BY <1>3, <2>1, <2>2 DEF SetupTyped, ClientTyped
  <2>4. remote' \in RemoteStates
    BY <2>3 DEF RemoteStates
  <2>5. /\ remote'.info = I /\ remote'.fetch = F /\ remote'.tiles = remote.tiles /\ remote'.pend = remote.pend
    BY <2>3 DEF RemoteStates
  <2> QED BY <2>1, <2>2, <2>4, <2>5
<1> QED BY <1>2, <1>4, <1>5 DEF g

(* a call that begins finds no answer to it *)
LEMMA NotBuilt ==
  ASSUME FetchesSound, NEW g, g.at = "consume", g.net \notin {"prioritised", "served"}
  PROVE  ~Built(g)
  BY DEF FetchesSound, Built

LEMMA ConsumeExistingInv ==
  ASSUME SetupIInv, Continuing, page.mounted, ConsumeExisting, UNCHANGED <<link, server, inbox, past>>
  PROVE  SetupIInv'
<1>0. /\ SetupTyped /\ LinkSound /\ StepsSound /\ AnswersSound /\ StatusSound /\ FetchesSound
      /\ NewsSound /\ TilesSound /\ Unrepeated(inbox)
  BY DEF SetupIInv
<1>1. /\ link' = link /\ server' = server /\ inbox' = inbox /\ past' = past /\ page' = page /\ Mail' = Mail
      /\ setup.step = "tiles" /\ Fetching("setup") = {}
  BY DEF ConsumeExisting, Continuing, Mail
<1>2. PICK p \in setup.todo :
        /\ setup' = [setup EXCEPT !.todo = @ \ {p}]
        /\ remote' = IF p \in remote.info THEN remote ELSE StartConsume(p, "setup")
  BY DEF ConsumeExisting
<1>3. p \in Producers /\ setup.recv # None
  BY <1>0, <1>1, SetupFields DEF StepsSound
<1>4. /\ setup' \in SetupStates /\ setup'.step = "tiles" /\ setup'.net = setup.net /\ setup'.todo = setup.todo \ {p}
      /\ setup'.recv = setup.recv
  BY <1>0, <1>1, <1>2 DEF SetupTyped, ClientTyped, SetupStates
<1>5. PICK g : g = Begun(p, "setup")
  OBVIOUS
<1>6. /\ g \in Fetches /\ g.p = p /\ g.t = setup.recv /\ g.by = "setup" /\ g.at = "consume" /\ g.net \in {"held", "sent"}
      /\ Id(g) = [p |-> p, t |-> setup.recv]
      /\ remote' \in RemoteStates /\ remote'.tiles = remote.tiles /\ remote'.pend = remote.pend
      /\ IF p \in remote.info THEN remote' = remote
         ELSE remote'.info = remote.info \cup {p} /\ remote'.fetch = remote.fetch \cup {g}
  <2>1. Begun(p, "setup") \in Fetches /\ g.p = p /\ g.t = setup.recv /\ g.by = "setup" /\ g.at = "consume" /\ g.net \in {"held", "sent"}
    <3>1. setup.recv \in Transports
      BY <1>0, SetupFields
    <3> QED BY <1>3, <1>5, <3>1 DEF Begun, Emitted, Fetches, Nets
  <2>2. Id(g) = [p |-> p, t |-> setup.recv]
    BY <2>1 DEF Id
  <2>3. CASE p \in remote.info
    BY <1>0, <1>2, <1>5, <2>1, <2>2, <2>3 DEF SetupTyped, ClientTyped
  <2>4. CASE p \notin remote.info
    <3>1. remote' = StartConsume(p, "setup")
      BY <1>2, <2>4
    <3>2. /\ remote' \in RemoteStates /\ remote'.info = remote.info \cup {p} /\ remote'.tiles = remote.tiles
          /\ remote'.pend = remote.pend /\ remote'.fetch = remote.fetch \cup {g}
      BY <1>0, <1>3, <1>5, <3>1, StartedFacts
    <3> QED BY <1>5, <2>1, <2>2, <2>4, <3>2
  <2> QED BY <2>3, <2>4
<1>12. SetupTyped'
  BY <1>0, <1>1, <1>4, <1>6 DEF SetupTyped, ClientTyped, ServerTyped
<1>13. LinkSound'
  BY <1>0, <1>1, <1>4 DEF LinkSound, InRoom
<1>14. StepsSound'
  BY <1>0, <1>1, <1>3, <1>4, <1>6 DEF StepsSound, Calls
<1>15. AnswersSound'
  BY <1>0, <1>1, <1>4 DEF AnswersSound, InRoom
<1>16. StatusSound'
  BY <1>0, <1>1, <1>4, <1>6 DEF StatusSound, NeverIdleInSilence, InRoom
<1>17. FetchesSound'
  <2>1. \A f \in remote.fetch : f.by # "setup"
    BY <1>1 DEF Fetching
  <2>2. remote'.fetch \subseteq remote.fetch \cup {g} /\ remote.fetch \subseteq remote'.fetch
    BY <1>6
  <2> QED BY <1>0, <1>1, <1>3, <1>6, <2>1, <2>2 DEF FetchesSound, TilesSound
<1>18. NewsSound'
  BY <1>0, <1>1, <1>6 DEF NewsSound
<1>19. TilesSound'
  BY <1>0, <1>1, <1>3, <1>4, <1>6 DEF TilesSound
<1>20. ASSUME Current' PROVE NoneForgotten' /\ NoneOutlives'
  <2>1. Current
    BY <1>1, <1>4, <1>20 DEF Current
  <2>2. NoneForgotten /\ NoneOutlives
    BY <2>1 DEF SetupIInv
  <2>3. \A q : Here(q) => Here(q)'
    BY <1>1, <1>4, <1>6 DEF Here
  <2>4. p \in server.open => Here(p)'
    <3>1. CASE p \in remote.info
      BY <2>2, <2>3, <3>1 DEF NoneForgotten
    <3>2. CASE p \notin remote.info
      BY <1>4, <1>6, <3>2 DEF Here
    <3> QED BY <3>1, <3>2
  <2>5. \A q : Expected(q) => Expected(q)' \/ q = p
    BY <1>1, <1>4, <1>6 DEF Expected, ListAhead, Listed, SettingUpAgain
  <2>6. NoneForgotten'
    BY <1>1, <1>4, <1>6, <2>2, <2>3, <2>4, <2>5 DEF NoneForgotten
  <2>7. Coming' = Coming
    <3>1. \A f : Built(f)' = Built(f)
      BY <1>1 DEF Built
    <3>2. ~Built(g)
      BY <1>0, <1>6, NotBuilt
    <3> QED BY <1>4, <1>6, <3>1, <3>2 DEF Coming
  <2>8. \A c : Backed(c)' = Backed(c)
    BY <1>1 DEF Backed
  <2>9. NoneOutlives'
    BY <1>1, <1>6, <2>2, <2>7, <2>8 DEF NoneOutlives
  <2> QED BY <2>6, <2>9
<1> QED
  BY <1>0, <1>1, <1>12, <1>13, <1>14, <1>15, <1>16, <1>17, <1>18, <1>19, <1>20 DEF SetupIInv

LEMMA NextTileInv == SetupIInv /\ NextTile => SetupIInv'
<1> SUFFICES ASSUME SetupIInv, NextTile PROVE SetupIInv'
  OBVIOUS
<1>0. /\ SetupTyped /\ LinkSound /\ StepsSound /\ AnswersSound /\ StatusSound /\ FetchesSound
      /\ NewsSound /\ TilesSound /\ Unrepeated(inbox)
  BY DEF SetupIInv
<1>1. /\ link' = link /\ server' = server /\ inbox' = inbox /\ past' = past /\ Mail' = Mail /\ Continuing
      /\ setup.step = "tiles"
  BY DEF NextTile, Continuing, Mail
<1>2. /\ setup.recv \in Transports /\ remote.pend \in SUBSET Producers /\ None \in Transports /\ None.n = 0 /\ None.on = 0
      /\ past.transports \in Nat /\ page.mounted \in BOOLEAN /\ link.up \in BOOLEAN
  BY <1>0, SetupFields
<1>3. CASE page.mounted /\ ConsumeExisting
  BY <1>1, <1>3, ConsumeExistingInv
<1>4. CASE page.mounted /\ DrainPending
  <2>1. page' = page
    BY <1>4 DEF DrainPending
  <2>2. /\ setup' \in SetupStates /\ setup'.step = "tiles" /\ setup'.net = setup.net /\ setup'.todo = remote.pend
        /\ setup'.recv = setup.recv
    BY <1>0, <1>1, <1>2, <1>4 DEF DrainPending, SetupTyped, ClientTyped, SetupStates
  <2>3. /\ remote' \in RemoteStates /\ remote'.info = remote.info /\ remote'.tiles = remote.tiles
        /\ remote'.pend = {} /\ remote'.fetch = remote.fetch
    BY <1>0, <1>4 DEF DrainPending, SetupTyped, ClientTyped, RemoteStates
  <2>12. SetupTyped'
    BY <1>0, <1>1, <2>1, <2>2, <2>3 DEF SetupTyped, ClientTyped, ServerTyped
  <2>13. LinkSound'
    BY <1>0, <1>1, <2>2 DEF LinkSound, InRoom
  <2>14. StepsSound'
    BY <1>0, <1>1, <1>4, <2>1, <2>2, <2>3 DEF StepsSound, Calls
  <2>15. AnswersSound'
    BY <1>0, <1>1, <2>2 DEF AnswersSound, InRoom
  <2>16. StatusSound'
    BY <1>0, <1>1, <2>1, <2>2, <2>3 DEF StatusSound, NeverIdleInSilence, InRoom
  <2>17. FetchesSound' /\ NewsSound' /\ TilesSound'
    BY <1>0, <1>1, <2>2, <2>3 DEF FetchesSound, NewsSound, TilesSound
  <2>20. ASSUME Current' PROVE NoneForgotten' /\ NoneOutlives'
    <3>1. Current
      BY <1>1, <2>1, <2>2, <2>20 DEF Current
    <3>2. NoneForgotten /\ NoneOutlives
      BY <3>1 DEF SetupIInv
    <3>3. \A p : (Here(p) => Here(p)') /\ (Expected(p) => Expected(p)')
      BY <1>1, <1>4, <2>1, <2>2, <2>3 DEF Here, Expected, ListAhead, Listed, SettingUpAgain, DrainPending
    <3>4. NoneForgotten'
      BY <1>1, <2>2, <2>3, <3>2, <3>3 DEF NoneForgotten
    <3>5. Coming' = Coming /\ \A c : Backed(c)' = Backed(c)
      BY <1>1, <2>2, <2>3 DEF Coming, Built, Backed
    <3>6. NoneOutlives'
      BY <1>1, <2>3, <3>2, <3>5 DEF NoneOutlives
    <3> QED BY <3>4, <3>6
  <2> QED
    BY <1>0, <1>1, <2>12, <2>13, <2>14, <2>15, <2>16, <2>17, <2>20 DEF SetupIInv
<1>5. CASE page.mounted /\ SetupDone
  <2>1. /\ page' \in PageStates /\ page'.mounted = page.mounted /\ page'.captured = page.captured
        /\ page'.timer = page.timer /\ page'.status = "ready"
    BY <1>0, <1>5 DEF SetupDone, SetupTyped, ClientTyped, PageStates
  <2>2. /\ setup' \in SetupStates /\ setup'.step = "idle" /\ setup'.net = "none" /\ setup'.todo = {}
        /\ setup'.recv = setup.recv
    BY <1>2, <1>5 DEF SetupDone, Idling, SetupStates, Nets
  <2>3. remote' = remote /\ setup.todo = {} /\ remote.pend = {}
    BY <1>5 DEF SetupDone
  <2>12. SetupTyped'
    BY <1>0, <1>1, <2>1, <2>2, <2>3 DEF SetupTyped, ClientTyped, ServerTyped
  <2>13. LinkSound'
    BY <1>0, <1>1, <2>2 DEF LinkSound, InRoom
  <2>14. StepsSound'
    BY <1>0, <1>1, <1>5, <2>1, <2>2, <2>3 DEF StepsSound, Calls
  <2>15. AnswersSound'
    BY <1>0, <1>1 DEF AnswersSound, StepsSound, Calls
  <2>16. StatusSound'
    BY <1>0, <1>1, <1>5, <2>1, <2>2 DEF StatusSound, NeverIdleInSilence, InRoom
  <2>17. FetchesSound' /\ NewsSound' /\ TilesSound'
    BY <1>0, <1>1, <2>2, <2>3 DEF FetchesSound, NewsSound, TilesSound
  <2>20. ASSUME Current' PROVE NoneForgotten' /\ NoneOutlives'
    <3>1. Current
      BY <1>1, <2>1, <2>2, <2>20 DEF Current
    <3>2. NoneForgotten /\ NoneOutlives
      BY <3>1 DEF SetupIInv
    <3>3. \A p : (Here(p) => Here(p)') /\ (Expected(p) => Expected(p)')
      BY <1>1, <2>1, <2>2, <2>3 DEF Here, Expected, ListAhead, Listed, SettingUpAgain
    <3>4. NoneForgotten'
      BY <1>1, <2>2, <2>3, <3>2, <3>3 DEF NoneForgotten
    <3>5. Coming' = Coming /\ \A c : Backed(c)' = Backed(c)
      BY <1>1, <2>2, <2>3 DEF Coming, Built, Backed
    <3>6. NoneOutlives'
      BY <1>1, <2>3, <3>2, <3>5 DEF NoneOutlives
    <3> QED BY <3>4, <3>6
  <2> QED
    BY <1>0, <1>1, <2>12, <2>13, <2>14, <2>15, <2>16, <2>17, <2>20 DEF SetupIInv
<1>6. CASE ~page.mounted
  <2>1. page' = page /\ remote' = remote
    BY <1>6 DEF NextTile
  <2>2. /\ setup' \in SetupStates /\ setup'.step = "idle" /\ setup'.net = "none" /\ setup'.todo = {}
        /\ setup'.recv = None /\ setup.recv = None
    BY <1>0, <1>2, <1>6 DEF NextTile, Idling, SetupStates, Nets, StepsSound
  <2>12. SetupTyped'
    BY <1>0, <1>1, <2>1, <2>2 DEF SetupTyped, ClientTyped, ServerTyped
  <2>13. LinkSound'
    BY <1>0, <1>1, <2>2 DEF LinkSound, InRoom
  <2>14. StepsSound'
    BY <1>0, <1>1, <1>6, <2>1, <2>2 DEF StepsSound, Calls
  <2>15. AnswersSound'
    BY <1>0, <1>1 DEF AnswersSound, StepsSound, Calls
  <2>16. StatusSound'
    BY <1>0, <1>1, <1>6, <2>1, <2>2 DEF StatusSound, NeverIdleInSilence
  <2>17. FetchesSound' /\ NewsSound' /\ TilesSound'
    BY <1>0, <1>1, <2>1, <2>2 DEF FetchesSound, NewsSound, TilesSound
  <2>20. ~Current'
    BY <1>6, <2>1 DEF Current
  <2> QED
    BY <1>0, <1>1, <2>12, <2>13, <2>14, <2>15, <2>16, <2>17, <2>20 DEF SetupIInv
<1> QED BY <1>2, <1>3, <1>4, <1>5, <1>6 DEF NextTile

-----------------------------------------------------------------------------
(* the consume calls *)

LEMMA ConsumedTypes ==
  /\ \A a \in Messages : a.m = "consumed" =>
       a.f \in Fetches /\ a.ok \in BOOLEAN /\ a = [m |-> "consumed", f |-> a.f, ok |-> a.ok]
  /\ \A f \in Fetches, ok \in BOOLEAN : [m |-> "consumed", f |-> f, ok |-> ok] \in Messages
  BY DEF Messages, Replies, Consumeds, News, Closings, Leavings

(* a consume call that is over: it gave its tile, or it is counted as missed *)
LEMMA FetchGoneInv ==
  ASSUME SetupIInv, NEW f \in remote.fetch, UNCHANGED <<link, page, setup>>,
         remote' \in RemoteStates, remote'.fetch = remote.fetch \ {f}, remote'.tiles = remote.tiles,
         remote'.pend = remote.pend, remote'.info \subseteq remote.info,
         past' \in PastStates, past'.overlooked = past.overlooked, past'.transports = past.transports,
         past'.swallowed = past.swallowed, past.missed \subseteq past'.missed,
         Current /\ f.t = setup.recv /\ f.p \in server.open => Id(f) \in past'.missed \cup remote.tiles,
         server' \in ServerStates, server'.joined = server.joined, server'.open = server.open,
         server'.born = server.born, server'.unannounced = server.unannounced,
         server'.consumers = server.consumers
           \/ (server'.consumers = server.consumers \cup {Id(f)} /\ link.up /\ InRoom /\ f.p \in server.open),
         inbox' \in Seq(Messages), Unrepeated(inbox'), Mail' \subseteq Mail, ~link.up => inbox' = <<>>,
         \A x \in Mail : x \notin Mail' => x.m = "consumed" /\ x.f = f,
         \A x \in Mail' : x.m = "consumed" => x.f # f
  PROVE  SetupIInv'
<1>0. /\ SetupTyped /\ LinkSound /\ StepsSound /\ AnswersSound /\ StatusSound /\ FetchesSound
      /\ NewsSound /\ TilesSound
  BY DEF SetupIInv
<1>1. f \in Fetches /\ Id(f) = [p |-> f.p, t |-> f.t] /\ Id(f).p = f.p
  BY <1>0, SetupFields, FetchTypes DEF Id
<1>2. link' = link /\ page' = page /\ setup' = setup
  OBVIOUS
<1>12. SetupTyped'
  BY <1>0, <1>2 DEF SetupTyped, ClientTyped, ServerTyped
<1>13. LinkSound'
  BY <1>0, <1>2 DEF LinkSound, InRoom
<1>14. StepsSound'
  BY <1>0, <1>2 DEF StepsSound, InRoom
<1>15. AnswersSound'
  BY <1>0, <1>2 DEF AnswersSound, InRoom
<1>16. StatusSound'
  BY <1>0, <1>2 DEF StatusSound, NeverIdleInSilence, InRoom
<1>17. FetchesSound'
  BY <1>0, <1>2 DEF FetchesSound
<1>18. NewsSound'
  BY <1>0, <1>2 DEF NewsSound
<1>19. TilesSound'
  <2>1. IsFiniteSet(server'.consumers)
    <3>1. IsFiniteSet(server.consumers)
      BY <1>0 DEF TilesSound
    <3>2. IsFiniteSet(server.consumers \cup {Id(f)})
      BY <3>1, FS_AddElement
    <3> QED BY <3>1, <3>2
  <2>2. \A c \in server'.consumers : c.p \in server'.open
    BY <1>0, <1>1 DEF TilesSound
  <2> QED BY <1>0, <1>2, <2>1, <2>2 DEF TilesSound
<1>20. ASSUME Current' PROVE NoneForgotten' /\ NoneOutlives'
  <2>1. Current
    BY <1>2, <1>20 DEF Current
  <2>2. NoneForgotten /\ NoneOutlives
    BY <2>1 DEF SetupIInv
  <2>3. ASSUME NEW p \in server.open, Here(p) PROVE Here(p)'
    <3>1. CASE [p |-> p, t |-> setup.recv] = Id(f)
      <4>1. f.p = p /\ f.t = setup.recv
        BY <1>1, <3>1
      <4> QED BY <1>2, <2>1, <3>1, <4>1 DEF Here
    <3>2. CASE [p |-> p, t |-> setup.recv] # Id(f)
      BY <1>2, <2>3, <3>2 DEF Here
    <3> QED BY <3>1, <3>2
  <2>4. ASSUME NEW p, Expected(p) PROVE Expected(p)'
    <3>1. Listed(p) => Listed(p)'
      BY <1>2 DEF Listed
    <3>2. [m |-> "new", p |-> p] \in Mail => [m |-> "new", p |-> p] \in Mail'
      OBVIOUS
    <3> QED BY <1>2, <2>4, <3>1, <3>2 DEF Expected, ListAhead, SettingUpAgain
  <2>5. NoneForgotten'
    BY <1>2, <2>2, <2>3, <2>4 DEF NoneForgotten
  <2>6. \A c : Backed(c) => Backed(c)'
    <3>1. \A c : [m |-> "closed", c |-> c] \in Mail => [m |-> "closed", c |-> c] \in Mail'
      OBVIOUS
    <3> QED BY <3>1 DEF Backed
  <2>7. Coming' \subseteq Coming
    BY <1>2 DEF Coming, Built
  <2>8. NoneOutlives'
    BY <1>2, <2>2, <2>6, <2>7 DEF NoneOutlives
  <2> QED BY <2>5, <2>8
<1> QED
  BY <1>12, <1>13, <1>14, <1>15, <1>16, <1>17, <1>18, <1>19, <1>20 DEF SetupIInv

LEMMA ConsumeTimeoutInv ==
  ASSUME SetupIInv, NEW f \in remote.fetch, ConsumeTimeout(f)
  PROVE  SetupIInv'
<1>0. SetupTyped /\ FetchesSound /\ LinkSound /\ Unrepeated(inbox)
  BY DEF SetupIInv
<1>1. /\ f \in Fetches /\ Id(f) \in TileStates /\ past.missed \in SUBSET TileStates /\ past.events \in Nat
      /\ server.consumers \in SUBSET TileStates
  BY <1>0, SetupFields, FetchTypes
<1>2. /\ UNCHANGED <<link, page, setup, inbox>> /\ f.net # "served" /\ Mail' = Mail
      /\ remote' = [remote EXCEPT !.fetch = @ \ {f}, !.info = @ \ {f.p}]
      /\ past' = [past EXCEPT !.missed = @ \cup {Id(f)}, !.events = @ + 1]
  BY DEF ConsumeTimeout, Mail
<1>3. PICK F \in SUBSET Fetches : F = remote.fetch \ {f}
  BY <1>0, SetupFields
<1>4. PICK I \in SUBSET Producers : I = remote.info \ {f.p}
  BY <1>0, SetupFields
<1>5. remote' = [remote EXCEPT !.fetch = F, !.info = I] /\ remote \in RemoteStates
  BY <1>0, <1>2, <1>3, <1>4 DEF SetupTyped, ClientTyped
<1>6. remote' \in RemoteStates
  BY <1>5 DEF RemoteStates
<1>7. remote'.fetch = remote.fetch \ {f} /\ remote'.tiles = remote.tiles /\ remote'.pend = remote.pend
      /\ remote'.info \subseteq remote.info
  BY <1>3, <1>4, <1>5 DEF RemoteStates
<1>8. PICK M \in SUBSET TileStates : M = past.missed \cup {Id(f)}
  BY <1>1
<1>9. PICK n \in Nat : n = past.events + 1
  BY <1>1
<1>10. past' = [past EXCEPT !.missed = M, !.events = n] /\ past \in PastStates
  BY <1>0, <1>2, <1>8, <1>9 DEF SetupTyped, ServerTyped
<1>11. past' \in PastStates
  BY <1>10 DEF PastStates
<1>12. past'.overlooked = past.overlooked /\ past'.transports = past.transports
       /\ past'.swallowed = past.swallowed /\ past'.missed = M
  BY <1>10 DEF PastStates
<1>13. \/ server' = server
       \/ /\ server' = [server EXCEPT !.consumers = @ \cup {Id(f)}]
          /\ link.up /\ InRoom /\ f.p \in server.open
  BY DEF ConsumeTimeout, Refused
<1>14. PICK C \in SUBSET TileStates : C = server.consumers \cup {Id(f)}
  BY <1>1
<1>15. /\ server' \in ServerStates /\ server'.joined = server.joined /\ server'.open = server.open
       /\ server'.born = server.born /\ server'.unannounced = server.unannounced
       /\ server'.consumers = server.consumers
            \/ (server'.consumers = server.consumers \cup {Id(f)} /\ link.up /\ InRoom /\ f.p \in server.open)
  <2>1. server \in ServerStates
    BY <1>0 DEF SetupTyped, ServerTyped
  <2>2. CASE server' = server
    BY <2>1, <2>2
  <2>3. CASE server' = [server EXCEPT !.consumers = @ \cup {Id(f)}] /\ link.up /\ InRoom /\ f.p \in server.open
    <3>1. server' = [server EXCEPT !.consumers = C]
      BY <1>14, <2>3
    <3>2. server' \in ServerStates
      BY <2>1, <3>1 DEF ServerStates
    <3> QED BY <1>14, <2>1, <2>3, <3>1, <3>2 DEF ServerStates
  <2> QED BY <1>13, <2>2, <2>3
<1>16. \A x \in Mail' : x.m = "consumed" => x.f # f
  BY <1>0, <1>2 DEF FetchesSound
<1>17. inbox' \in Seq(Messages) /\ Unrepeated(inbox') /\ Mail' \subseteq Mail /\ (~link.up => inbox' = <<>>)
  BY <1>0, <1>2 DEF SetupTyped, ServerTyped, LinkSound
<1>18. Id(f) \in past'.missed \cup remote.tiles /\ past.missed \subseteq past'.missed
  BY <1>8, <1>12
<1> QED
  BY <1>2, <1>6, <1>7, <1>11, <1>12, <1>15, <1>16, <1>17, <1>18, FetchGoneInv

LEMMA ConsumeFailsFacts ==
  ASSUME SetupTyped, NEW f \in remote.fetch, ConsumeFails(f)
  PROVE  /\ remote' \in RemoteStates /\ remote'.fetch = remote.fetch \ {f} /\ remote'.tiles = remote.tiles
         /\ remote'.pend = remote.pend /\ remote'.info \subseteq remote.info
         /\ past' \in PastStates /\ past'.overlooked = past.overlooked /\ past'.transports = past.transports
         /\ past'.swallowed = past.swallowed /\ past'.missed = past.missed \cup {Id(f)}
<1>1. Id(f) \in TileStates /\ past.missed \in SUBSET TileStates
  BY SetupFields, FetchTypes
<1>3. PICK F \in SUBSET Fetches : F = remote.fetch \ {f}
  BY SetupFields
<1>4. PICK I \in SUBSET Producers : I = remote.info \ {f.p}
  BY SetupFields
<1>5. remote' = [remote EXCEPT !.fetch = F, !.info = I] /\ remote \in RemoteStates
  BY <1>3, <1>4 DEF ConsumeFails, SetupTyped, ClientTyped
<1>6. remote' \in RemoteStates
  BY <1>5 DEF RemoteStates
<1>7. remote'.fetch = remote.fetch \ {f} /\ remote'.tiles = remote.tiles /\ remote'.pend = remote.pend
      /\ remote'.info \subseteq remote.info
  BY <1>3, <1>4, <1>5 DEF RemoteStates
<1>8. PICK M \in SUBSET TileStates : M = past.missed \cup {Id(f)}
  BY <1>1
<1>9. past' = [past EXCEPT !.missed = M] /\ past \in PastStates
  BY <1>8 DEF ConsumeFails, SetupTyped, ServerTyped
<1>10. past' \in PastStates
  BY <1>9 DEF PastStates
<1>11. past'.overlooked = past.overlooked /\ past'.transports = past.transports
       /\ past'.swallowed = past.swallowed /\ past'.missed = past.missed \cup {Id(f)}
  BY <1>8, <1>9 DEF PastStates
<1> QED BY <1>6, <1>7, <1>10, <1>11

(* a consume call that goes on in another shape *)
LEMMA Replaced ==
  ASSUME SetupTyped, FetchesSound, NEW f \in remote.fetch, NEW h \in Fetches,
         h.p = f.p, h.by = f.by, h.t = f.t, NEW r, r = Replace(remote.fetch, f, h), h # f
  PROVE  /\ h \notin remote.fetch /\ Id(h) = Id(f)
         /\ r \in SUBSET Fetches /\ r = (remote.fetch \ {f}) \cup {h} /\ h \in r
         /\ \A e, g \in r : e.by = g.by /\ e.p = g.p => e = g
         /\ \A e \in r : e.t # None /\ e.t.n <= past.transports
         /\ \A e \in r : e.by = "event" => e.p \in server.born \ server.unannounced
         /\ {Id(e) : e \in r} = {Id(e) : e \in remote.fetch}
<1>1. r = (remote.fetch \ {f}) \cup {h} /\ remote.fetch \in SUBSET Fetches
  BY SetupFields DEF Replace
<1>2. h \notin remote.fetch /\ Id(h) = Id(f)
  BY DEF FetchesSound, Id
<1>3. \A e, g \in r : e.by = g.by /\ e.p = g.p => e = g
  BY <1>1 DEF FetchesSound
<1>4. \A e \in r : e.t # None /\ e.t.n <= past.transports
  BY <1>1 DEF FetchesSound
<1>5. \A e \in r : e.by = "event" => e.p \in server.born \ server.unannounced
  BY <1>1 DEF FetchesSound
<1>6. {Id(e) : e \in r} = {Id(e) : e \in remote.fetch}
  BY <1>1, <1>2
<1> QED BY <1>1, <1>2, <1>3, <1>4, <1>5, <1>6

(* a consume call whose net alone changes: it was accepted, or answered *)
LEMMA FetchGoesOnInv ==
  ASSUME SetupIInv, NEW f \in remote.fetch, NEW h \in Fetches, h.p = f.p, h.t = f.t, h.by = f.by, h.at = f.at,
         h # f, f.at # "build", f.net # "served", UNCHANGED <<link, page, setup, past>>, link.up,
         remote' = [remote EXCEPT !.fetch = Replace(@, f, h)],
         \/ server' = server
         \/ server' = [server EXCEPT !.consumers = @ \cup {Id(f)}] /\ InRoom /\ f.p \in server.open,
         inbox' \in Seq(Messages), Unrepeated(inbox'), Mail \subseteq Mail',
         \A x \in Mail' : x \in Mail \/ (x.m = "consumed" /\ x.f = h /\ h.net = "served"),
         Built(h)' => Built(f) \/ /\ f.p \in server.open /\ Id(f) \in server'.consumers
                                  /\ \A c \in server.consumers : c.p # f.p
  PROVE  SetupIInv'
<1>0. /\ SetupTyped /\ LinkSound /\ StepsSound /\ AnswersSound /\ StatusSound /\ FetchesSound
      /\ NewsSound /\ TilesSound /\ Unrepeated(inbox)
  BY DEF SetupIInv
<1>1. /\ f \in Fetches /\ Id(f) \in TileStates /\ server.consumers \in SUBSET TileStates
      /\ remote.fetch \in SUBSET Fetches /\ Id(f) = [p |-> f.p, t |-> f.t] /\ Id(f).p = f.p
  BY <1>0, SetupFields, FetchTypes DEF Id
<1>2. link' = link /\ page' = page /\ setup' = setup /\ past' = past
  OBVIOUS
<1>5. PICK r : r = Replace(remote.fetch, f, h)
  OBVIOUS
<1>6. /\ h \notin remote.fetch /\ Id(h) = Id(f) /\ r \in SUBSET Fetches /\ r = (remote.fetch \ {f}) \cup {h} /\ h \in r
      /\ {Id(e) : e \in r} = {Id(e) : e \in remote.fetch}
  BY <1>0, <1>5, Replaced
<1>7. /\ \A e, g \in r : e.by = g.by /\ e.p = g.p => e = g
      /\ \A e \in r : e.t # None /\ e.t.n <= past.transports
      /\ \A e \in r : e.by = "event" => e.p \in server.born \ server.unannounced
  BY <1>0, <1>5, Replaced
<1>8. remote' = [remote EXCEPT !.fetch = r] /\ remote \in RemoteStates
  BY <1>0, <1>5 DEF SetupTyped, ClientTyped
<1>9. /\ remote' \in RemoteStates /\ remote'.info = remote.info /\ remote'.tiles = remote.tiles
      /\ remote'.pend = remote.pend /\ remote'.fetch = r
  BY <1>6, <1>8 DEF RemoteStates
<1>12. \A x \in Mail' : x.m # "consumed" => x \in Mail
  OBVIOUS
<1>15. \A x \in Mail : x.m = "consumed" => x.f \in remote.fetch \ {f} /\ x.f # h /\ x.f.net = "served" /\ x.f.at # "build"
  BY <1>0, <1>6 DEF FetchesSound
<1>17. PICK C \in SUBSET TileStates : C = server.consumers \cup {Id(f)}
  BY <1>1
<1>18. /\ server' \in ServerStates /\ server'.joined = server.joined /\ server'.open = server.open
       /\ server'.born = server.born /\ server'.unannounced = server.unannounced
       /\ server'.consumers = server.consumers \/ (server'.consumers = C /\ InRoom /\ f.p \in server.open)
  <2>1. server \in ServerStates
    BY <1>0 DEF SetupTyped, ServerTyped
  <2>2. CASE server' = server
    BY <2>1, <2>2
  <2>3. CASE server' = [server EXCEPT !.consumers = @ \cup {Id(f)}] /\ InRoom /\ f.p \in server.open
    <3>1. server' = [server EXCEPT !.consumers = C]
      BY <1>17, <2>3
    <3> QED BY <2>1, <2>3, <3>1 DEF ServerStates
  <2> QED BY <2>2, <2>3
<1>22. SetupTyped'
  BY <1>0, <1>2, <1>9, <1>18 DEF SetupTyped, ClientTyped, ServerTyped
<1>23. LinkSound'
  BY <1>0, <1>2, <1>18 DEF LinkSound, InRoom
<1>24. StepsSound'
  BY <1>0, <1>2, <1>9, <1>18 DEF StepsSound, InRoom
<1>25. AnswersSound'
  BY <1>0, <1>2, <1>12, <1>18 DEF AnswersSound, InRoom
<1>26. StatusSound'
  BY <1>0, <1>2, <1>9, <1>18 DEF StatusSound, NeverIdleInSilence, InRoom
<1>27. FetchesSound'
  BY <1>2, <1>6, <1>7, <1>9, <1>15, <1>18 DEF FetchesSound
<1>28. NewsSound'
  BY <1>0, <1>6, <1>9, <1>12, <1>18 DEF NewsSound
<1>29. TilesSound'
  <2>1. IsFiniteSet(server.consumers)
    BY <1>0 DEF TilesSound
  <2>2. IsFiniteSet(server.consumers \cup {Id(f)})
    BY <2>1, FS_AddElement
  <2>3. IsFiniteSet(server'.consumers)
    BY <1>17, <1>18, <2>1, <2>2
  <2>4. \A c \in server'.consumers : c.p \in server'.open
    BY <1>0, <1>1, <1>17, <1>18 DEF TilesSound
  <2> QED BY <1>0, <1>2, <1>9, <2>3, <2>4 DEF TilesSound
<1>30. ASSUME Current' PROVE NoneForgotten' /\ NoneOutlives'
  <2>1. Current
    BY <1>2, <1>30 DEF Current
  <2>2. NoneForgotten /\ NoneOutlives
    BY <2>1 DEF SetupIInv
  <2>3. \A p : Here(p) => Here(p)'
    BY <1>2, <1>6, <1>9 DEF Here
  <2>4. \A p : Expected(p) => Expected(p)'
    BY <1>2, <1>9, <1>18 DEF Expected, ListAhead, Listed, SettingUpAgain
  <2>5. \A e \in remote'.fetch : e.at = "resume" /\ e.t = setup'.recv /\ e.p \in server'.open => Id(e) \in remote'.tiles
    BY <1>2, <1>6, <1>9, <1>18, <2>2 DEF NoneForgotten
  <2>6. NoneForgotten'
    BY <1>2, <1>9, <1>18, <2>2, <2>3, <2>4, <2>5 DEF NoneForgotten
  <2>7. \A c : Backed(c) => Backed(c)'
    BY <1>2, <1>17, <1>18 DEF Backed
  <2>8. \A g \in remote.fetch \ {f} : Built(g)' <=> Built(g)
    BY <1>6 DEF Built
  <2>9. Coming' \subseteq (Coming \ {f}) \cup {h}
    BY <1>2, <1>6, <1>9, <2>8 DEF Coming
  <2>10. \A d \in remote'.tiles : Backed(d)'
    BY <1>9, <2>2, <2>7 DEF NoneOutlives
  <2>11. CASE Built(f) /\ f.t = setup.recv
    <3>1. f \in Coming /\ \A g \in Coming' : g = h \/ (g \in Coming /\ g # f)
      BY <2>9, <2>11 DEF Coming
    <3>2. \A g \in Coming' : Backed(Id(g))'
      BY <1>6, <2>2, <2>7, <3>1 DEF NoneOutlives
    <3>3. \A g \in Coming' : Id(g) \in remote'.tiles => Id(g) \in past'.overlooked
      BY <1>2, <1>6, <1>9, <2>2, <3>1 DEF NoneOutlives
    <3>4. \A e, g \in Coming' : Id(e) = Id(g) /\ e # g => Id(e) \in past'.overlooked
      BY <1>2, <1>6, <2>2, <3>1 DEF NoneOutlives
    <3> QED BY <2>6, <2>10, <3>2, <3>3, <3>4 DEF NoneOutlives
  <2>12. CASE ~Built(f) /\ h \in Coming'
    <3>1. f.p \in server.open /\ Id(f) \in server'.consumers /\ \A c \in server.consumers : c.p # f.p
      BY <2>12 DEF Coming
    <3>2. Backed(Id(h))' /\ \A d : Backed(d) /\ d = Id(h) => d \in past.overlooked
      BY <1>0, <1>1, <1>6, <3>1 DEF Backed, NewsSound
    <3>4. \A g \in Coming' : Backed(Id(g))'
      BY <2>2, <2>7, <2>9, <3>2 DEF NoneOutlives
    <3>5. \A g \in Coming' : Id(g) \in remote'.tiles => Id(g) \in past'.overlooked
      BY <1>2, <1>9, <2>2, <2>9, <3>2 DEF NoneOutlives
    <3>6. \A e, g \in Coming' : Id(e) = Id(g) /\ e # g => Id(e) \in past'.overlooked
      BY <1>2, <2>2, <2>9, <3>2 DEF NoneOutlives
    <3> QED BY <2>6, <2>10, <3>4, <3>5, <3>6 DEF NoneOutlives
  <2>13. CASE h \notin Coming'
    <3>1. Coming' \subseteq Coming
      BY <2>9, <2>13
    <3>2. NoneOutlives'
      BY <1>2, <1>9, <2>2, <2>7, <3>1 DEF NoneOutlives
    <3> QED BY <2>6, <3>2
  <2>14. h \in Coming' => h.t = setup.recv
    BY <1>2 DEF Coming
  <2> QED BY <2>11, <2>12, <2>13, <2>14
<1> QED
  BY <1>22, <1>23, <1>24, <1>25, <1>26, <1>27, <1>28, <1>29, <1>30 DEF SetupIInv

(* an answer to a consume call *)
LEMMA AnswerFacts ==
  ASSUME SetupIInv, NEW f \in remote.fetch, NEW ok \in BOOLEAN, Answer(f, ok), f.at # "build", f.net # "served",
         NEW h, h = [f EXCEPT !.net = "served"]
  PROVE  /\ h \in Fetches /\ h.p = f.p /\ h.t = f.t /\ h.by = f.by /\ h.at = f.at /\ h.net = "served" /\ h # f
         /\ remote' = [remote EXCEPT !.fetch = Replace(@, f, h)]
         /\ inbox' \in Seq(Messages) /\ Unrepeated(inbox')
         /\ Mail' = Mail \cup {[m |-> "consumed", f |-> h, ok |-> ok]}
<1>0. SetupTyped /\ FetchesSound /\ Unrepeated(inbox)
  BY DEF SetupIInv
<1>1. f \in Fetches /\ inbox \in Seq(Messages)
  BY <1>0, SetupFields DEF SetupTyped, ServerTyped
<1>2. h \in Fetches /\ h.p = f.p /\ h.t = f.t /\ h.by = f.by /\ h.at = f.at /\ h.net = "served" /\ h # f
  BY <1>1 DEF Fetches, Nets
<1>3. PICK a \in Messages : a = [m |-> "consumed", f |-> h, ok |-> ok]
  BY <1>2, ConsumedTypes
<1>4. inbox' = Append(inbox, a) /\ a.m = "consumed" /\ a.f = h
  BY <1>3 DEF Answer
<1>5. \A x \in Mail : x.m = "consumed" => x.f # h
  <2>1. h \notin remote.fetch
    BY <1>0, <1>2 DEF FetchesSound
  <2> QED BY <1>0, <2>1 DEF FetchesSound
<1>6. \A x \in Range(inbox) : ~Alike(x, a)
  BY <1>4, <1>5 DEF Alike, Mail
<1>7. Range(Append(inbox, a)) = Range(inbox) \cup {a} /\ Append(inbox, a) \in Seq(Messages)
  BY <1>1, MailAppended
<1>8. Unrepeated(Append(inbox, a))
  BY <1>0, <1>1, <1>6, MailAppended
<1>9. remote' = [remote EXCEPT !.fetch = Replace(@, f, h)]
  BY DEF Answer
<1> QED BY <1>2, <1>3, <1>4, <1>7, <1>8, <1>9 DEF Mail

(* what the server makes of a consume call *)
LEMMA Accepting ==
  ASSUME SetupTyped, NEW f \in remote.fetch
  PROVE  \E ok \in BOOLEAN : ok = IF f.at = "consume" THEN ~Refused(f) ELSE Id(f) \in server.consumers
<1>1. PICK x \in BOOLEAN : x = ~Refused(f)
  BY DEF Refused
<1>2. PICK y \in BOOLEAN : y = (Id(f) \in server.consumers)
  <2>1. CASE Id(f) \in server.consumers
    <3>1. TRUE = (Id(f) \in server.consumers)
      BY <2>1
    <3> QED BY <3>1
  <2>2. CASE Id(f) \notin server.consumers
    <3>1. FALSE = (Id(f) \in server.consumers)
      BY <2>2
    <3> QED BY <3>1
  <2> QED BY <2>1, <2>2
<1> QED BY <1>1, <1>2

LEMMA ServeConsumeInv ==
  ASSUME SetupIInv, NEW f \in remote.fetch, ServeConsume(f)
  PROVE  SetupIInv'
<1>0. SetupTyped /\ FetchesSound /\ TilesSound /\ Unrepeated(inbox)
  BY DEF SetupIInv
<1>1. f \in Fetches /\ Id(f) \in TileStates /\ inbox \in Seq(Messages) /\ server \in ServerStates
      /\ server.consumers \in SUBSET TileStates
  BY <1>0, SetupFields, FetchTypes DEF SetupTyped, ServerTyped
<1>2. /\ UNCHANGED <<link, page, setup, past>> /\ link.up /\ f.net = "sent" /\ f.at # "build"
  BY <1>1, FetchTypes DEF ServeConsume
<1>3. PICK ok \in BOOLEAN : ok = IF f.at = "consume" THEN ~Refused(f) ELSE Id(f) \in server.consumers
  BY <1>0, Accepting
<1>4. server' = IF f.at = "consume" /\ ok THEN [server EXCEPT !.consumers = @ \cup {Id(f)}] ELSE server
  BY <1>3 DEF ServeConsume
<1>5. f.at = "consume" /\ ok => InRoom /\ f.p \in server.open /\ \A c \in server.consumers : c.p # f.p
  BY <1>3 DEF Refused
<1>6. f.at = "consume" /\ ok => Id(f) \in server'.consumers
  <2>1. PICK C \in SUBSET TileStates : C = server.consumers \cup {Id(f)}
    BY <1>1
  <2>2. f.at = "consume" /\ ok => server' = [server EXCEPT !.consumers = C]
    BY <1>4, <2>1
  <2> QED BY <1>1, <2>1, <2>2 DEF ServerStates
<1>7. CASE f.at = "consume" /\ ok /\ f.p \in Voices
  <2>1. PICK h : h = [f EXCEPT !.net = "prioritised"]
    OBVIOUS
  <2>2. h \in Fetches /\ h.p = f.p /\ h.t = f.t /\ h.by = f.by /\ h.at = f.at /\ h # f
    BY <1>1, <1>2, <1>7, <2>1 DEF Fetches, Nets
  <2>3. remote' = [remote EXCEPT !.fetch = Replace(@, f, h)] /\ inbox' = inbox /\ Mail' = Mail
    BY <1>3, <1>7, <2>1 DEF ServeConsume, Mail
  <2> QED BY <1>0, <1>1, <1>2, <1>4, <1>5, <1>6, <1>7, <2>2, <2>3, FetchGoesOnInv
<1>8. CASE ~(f.at = "consume" /\ ok /\ f.p \in Voices)
  <2>1. Answer(f, ok)
    BY <1>3, <1>8 DEF ServeConsume
  <2>2. PICK h : h = [f EXCEPT !.net = "served"]
    OBVIOUS
  <2>3. /\ h \in Fetches /\ h.p = f.p /\ h.t = f.t /\ h.by = f.by /\ h.at = f.at /\ h.net = "served" /\ h # f
        /\ remote' = [remote EXCEPT !.fetch = Replace(@, f, h)]
        /\ inbox' \in Seq(Messages) /\ Unrepeated(inbox')
        /\ Mail' = Mail \cup {[m |-> "consumed", f |-> h, ok |-> ok]}
    BY <1>2, <2>1, <2>2, AnswerFacts
  <2>4. \A x \in Mail : x.m = "consumed" => x.f # h
    <3>1. h \notin remote.fetch
      BY <1>0, <2>3 DEF FetchesSound
    <3> QED BY <1>0, <3>1 DEF FetchesSound
  <2>5. Built(h)' => f.at = "consume" /\ ok
    BY <1>2, <2>3, <2>4 DEF Built
  <2> QED BY <1>2, <1>4, <1>5, <1>6, <2>3, <2>5, FetchGoesOnInv
<1> QED BY <1>7, <1>8

LEMMA PrioritisedInv ==
  ASSUME SetupIInv, NEW f \in remote.fetch, Prioritised(f)
  PROVE  SetupIInv'
<1>1. f \in Fetches
  BY SetupFields DEF SetupIInv
<1>2. /\ UNCHANGED <<link, page, setup, past>> /\ server' = server /\ link.up /\ f.net = "prioritised" /\ f.at # "build"
      /\ Answer(f, TRUE) /\ TRUE \in BOOLEAN
  BY <1>1, FetchTypes DEF Prioritised
<1>3. PICK h : h = [f EXCEPT !.net = "served"]
  OBVIOUS
<1>6. f.at # "build" /\ f.net # "served" /\ Answer(f, TRUE)
  BY <1>2
<1>7. PICK ok \in BOOLEAN : ok = TRUE /\ Answer(f, ok)
  BY <1>6
<1>4. /\ h \in Fetches /\ h.p = f.p /\ h.t = f.t /\ h.by = f.by /\ h.at = f.at /\ h.net = "served" /\ h # f
      /\ remote' = [remote EXCEPT !.fetch = Replace(@, f, h)]
      /\ inbox' \in Seq(Messages) /\ Unrepeated(inbox')
      /\ Mail' = Mail \cup {[m |-> "consumed", f |-> h, ok |-> ok]}
  BY <1>3, <1>6, <1>7, AnswerFacts
<1>5. Built(f)
  BY <1>2 DEF Built
<1> QED BY <1>2, <1>4, <1>5, FetchGoesOnInv

(* the answer to a consume call *)
LEMMA ConsumedInv ==
  ASSUME SetupIInv, Taking, Head(inbox).m = "consumed", Consumed(Head(inbox)), UNCHANGED <<setup, page>>
  PROVE  SetupIInv'
<1>0. /\ SetupTyped /\ LinkSound /\ StepsSound /\ AnswersSound /\ StatusSound /\ FetchesSound
      /\ NewsSound /\ TilesSound /\ Unrepeated(inbox)
  BY DEF SetupIInv
<1> DEFINE a == Head(inbox)
<1>1. /\ inbox' \in Seq(Messages) /\ a \in Messages /\ Mail = Mail' \cup {a} /\ Unrepeated(inbox')
      /\ a.m \in Once => \A x \in Mail' : ~Alike(a, x)
  BY <1>0, Taken DEF Taking
<1>2. /\ a.m = "consumed" /\ a.ok \in BOOLEAN /\ a = [m |-> "consumed", f |-> a.f, ok |-> a.ok] /\ Consumed(a)
  BY <1>1, ConsumedTypes
<1>3. link' = link /\ server' = server /\ setup' = setup /\ page' = page /\ link.up
  BY DEF Taking
<1> HIDE DEF a
<1>4. PICK f \in remote.fetch : f = a.f
  BY <1>0, <1>1, <1>2 DEF FetchesSound
<1>5. f.net = "served" /\ f.at # "build" /\ f \in Fetches /\ remote.fetch \in SUBSET Fetches
  BY <1>0, <1>1, <1>2, <1>4, SetupFields DEF FetchesSound
<1>6. \A x \in Mail' : x.m = "consumed" => x.f # f
  BY <1>1, <1>2, <1>4 DEF Once, Alike
<1>7. /\ Mail' \subseteq Mail /\ \A x \in Mail : x \notin Mail' => x.m = "consumed" /\ x.f = f
      /\ ~link.up => inbox' = <<>>
  BY <1>1, <1>2, <1>3, <1>4
<1>8. server' \in ServerStates /\ past \in PastStates /\ remote \in RemoteStates
  BY <1>0, <1>3 DEF SetupTyped, ServerTyped, ClientTyped
<1>9. CASE Rejected(a)
  <2>1. ConsumeFails(f)
    BY <1>2, <1>4, <1>9 DEF Consumed
  <2>2. /\ remote' \in RemoteStates /\ remote'.fetch = remote.fetch \ {f} /\ remote'.tiles = remote.tiles
        /\ remote'.pend = remote.pend /\ remote'.info \subseteq remote.info
        /\ past' \in PastStates /\ past'.overlooked = past.overlooked /\ past'.transports = past.transports
        /\ past'.swallowed = past.swallowed /\ past'.missed = past.missed \cup {Id(f)}
    BY <1>0, <2>1, ConsumeFailsFacts
  <2> QED BY <1>1, <1>3, <1>6, <1>7, <1>8, <2>2, FetchGoneInv
<1>10. CASE ~Rejected(a) /\ (f.at = "resume" \/ ~page.mounted)
  <2>1. remote' = [remote EXCEPT !.fetch = @ \ {f}] /\ past' = past
    BY <1>2, <1>4, <1>10 DEF Consumed
  <2>2. PICK F \in SUBSET Fetches : F = remote.fetch \ {f}
    BY <1>5
  <2>3. remote' = [remote EXCEPT !.fetch = F]
    BY <2>1, <2>2
  <2>4. /\ remote' \in RemoteStates /\ remote'.fetch = remote.fetch \ {f} /\ remote'.tiles = remote.tiles
        /\ remote'.pend = remote.pend /\ remote'.info = remote.info
    BY <1>8, <2>2, <2>3 DEF RemoteStates
  <2>5. Current /\ f.t = setup.recv /\ f.p \in server.open => Id(f) \in past'.missed \cup remote.tiles
    BY <1>10 DEF Current, SetupIInv, NoneForgotten
  <2>6. /\ past' \in PastStates /\ past'.overlooked = past.overlooked /\ past'.transports = past.transports
        /\ past'.swallowed = past.swallowed /\ past'.missed = past.missed
    BY <1>8, <2>1
  <2> QED BY <1>1, <1>3, <1>6, <1>7, <1>8, <2>4, <2>5, <2>6, FetchGoneInv
<1>11. CASE ~Rejected(a) /\ f.at # "resume" /\ page.mounted
  <2>1. PICK h \in Fetches : h = With(f, "build", "none")
    BY <1>5 DEF Fetches, With, Nets
  <2>2. h.p = f.p /\ h.t = f.t /\ h.by = f.by /\ h.at = "build" /\ h.net = "none" /\ h # f
    BY <1>5, <2>1 DEF Fetches, With
  <2>3. PICK r : r = Replace(remote.fetch, f, h)
    OBVIOUS
  <2>4. /\ h \notin remote.fetch /\ Id(h) = Id(f) /\ r \in SUBSET Fetches /\ r = (remote.fetch \ {f}) \cup {h} /\ h \in r
        /\ {Id(e) : e \in r} = {Id(e) : e \in remote.fetch}
    BY <1>0, <2>2, <2>3, Replaced
  <2>5. /\ \A e, g \in r : e.by = g.by /\ e.p = g.p => e = g
        /\ \A e \in r : e.t # None /\ e.t.n <= past.transports
        /\ \A e \in r : e.by = "event" => e.p \in server.born \ server.unannounced
    BY <1>0, <2>2, <2>3, Replaced
  <2>6. remote' = [remote EXCEPT !.fetch = r] /\ past' = past
    BY <1>2, <1>4, <1>11, <2>1, <2>3 DEF Consumed
  <2>7. /\ remote' \in RemoteStates /\ remote'.info = remote.info /\ remote'.tiles = remote.tiles
        /\ remote'.pend = remote.pend /\ remote'.fetch = r
    BY <1>8, <2>4, <2>6 DEF RemoteStates
  <2>12. SetupTyped'
    BY <1>0, <1>1, <1>3, <2>6, <2>7 DEF SetupTyped, ClientTyped, ServerTyped
  <2>13. LinkSound'
    BY <1>0, <1>3 DEF LinkSound, InRoom
  <2>14. StepsSound'
    BY <1>0, <1>3, <2>7 DEF StepsSound, InRoom
  <2>15. AnswersSound'
    BY <1>0, <1>1, <1>3 DEF AnswersSound, InRoom
  <2>16. StatusSound'
    BY <1>0, <1>3, <2>6, <2>7 DEF StatusSound, NeverIdleInSilence, InRoom
  <2>17. FetchesSound'
    BY <1>0, <1>1, <1>3, <1>6, <2>4, <2>5, <2>6, <2>7 DEF FetchesSound
  <2>18. NewsSound'
    BY <1>0, <1>1, <1>3, <2>2, <2>4, <2>7 DEF NewsSound
  <2>19. TilesSound'
    BY <1>0, <1>3, <2>6, <2>7 DEF TilesSound
  <2>20. ASSUME Current' PROVE NoneForgotten' /\ NoneOutlives'
    <3>1. Current
      BY <1>3, <2>20 DEF Current
    <3>2. NoneForgotten /\ NoneOutlives
      BY <3>1 DEF SetupIInv
    <3>3. \A p : Here(p) => Here(p)'
      BY <1>3, <2>4, <2>6, <2>7 DEF Here
    <3>4. ASSUME NEW p, Expected(p) PROVE Expected(p)'
      <4>1. Listed(p) => Listed(p)'
        BY <1>3, <1>7 DEF Listed
      <4>2. [m |-> "new", p |-> p] \in Mail => [m |-> "new", p |-> p] \in Mail'
        BY <1>7
      <4> QED BY <1>3, <2>7, <3>4, <4>1, <4>2 DEF Expected, ListAhead, SettingUpAgain
    <3>5. \A e \in remote'.fetch : e.at = "resume" /\ e.t = setup'.recv /\ e.p \in server'.open => Id(e) \in remote'.tiles
      BY <1>3, <2>2, <2>4, <2>7, <3>2 DEF NoneForgotten
    <3>6. NoneForgotten'
      BY <1>3, <2>7, <3>2, <3>3, <3>4, <3>5 DEF NoneForgotten
    <3>7. ASSUME NEW c, Backed(c) PROVE Backed(c)'
      <4>1. [m |-> "closed", c |-> c] \in Mail => [m |-> "closed", c |-> c] \in Mail'
        BY <1>7
      <4> QED BY <1>3, <2>6, <3>7, <4>1 DEF Backed
    <3>8. Built(f)
      BY <1>1, <1>2, <1>4, <1>5, <1>11, FetchTypes DEF Built, Rejected
    <3>9. \A g \in remote.fetch \ {f} : Built(g)' => Built(g)
      BY <1>7 DEF Built
    <3>10. Coming' \subseteq (Coming \ {f}) \cup {h} /\ (h \in Coming' => f \in Coming)
      BY <1>3, <2>2, <2>4, <2>7, <3>8, <3>9 DEF Coming
    <3>11. \A c \in remote'.tiles : Backed(c)'
      BY <2>7, <3>2, <3>7 DEF NoneOutlives
    <3>12. \A g \in Coming' : Backed(Id(g))' /\ (Id(g) \in remote'.tiles => Id(g) \in past'.overlooked)
      BY <2>4, <2>6, <2>7, <3>2, <3>7, <3>10 DEF NoneOutlives
    <3>13. \A e, g \in Coming' : Id(e) = Id(g) /\ e # g => Id(e) \in past'.overlooked
      BY <2>4, <2>6, <3>2, <3>10 DEF NoneOutlives
    <3> QED BY <3>6, <3>11, <3>12, <3>13 DEF NoneOutlives
  <2> QED
    BY <1>1, <2>12, <2>13, <2>14, <2>15, <2>16, <2>17, <2>18, <2>19, <2>20 DEF SetupIInv
<1> QED BY <1>9, <1>10, <1>11

LEMMA BuildInv ==
  ASSUME SetupIInv, NEW f \in remote.fetch, Build(f)
  PROVE  SetupIInv'
<1>0. /\ SetupTyped /\ LinkSound /\ StepsSound /\ AnswersSound /\ StatusSound /\ FetchesSound
      /\ NewsSound /\ TilesSound /\ Unrepeated(inbox)
  BY DEF SetupIInv
<1>1. /\ link' = link /\ page' = page /\ setup' = setup /\ server' = server /\ inbox' = inbox /\ Mail' = Mail
      /\ f.at = "build"
  BY DEF Build, Mail
<1>2. /\ server \in ServerStates /\ past \in PastStates /\ remote \in RemoteStates /\ inbox \in Seq(Messages)
      /\ f \in Fetches /\ Id(f) \in TileStates /\ Id(f).t = f.t
      /\ remote.fetch \in SUBSET Fetches /\ remote.tiles \in SUBSET TileStates /\ link.up \in BOOLEAN
  BY <1>0, SetupFields, FetchTypes DEF SetupTyped, ServerTyped, ClientTyped
<1>3. \A x \in Mail : x.m = "consumed" => x.f # f
  BY <1>0, <1>1 DEF FetchesSound
<1>4. CASE ~(page.mounted /\ setup.recv = f.t)
  <2>1. ConsumeFails(f)
    BY <1>4 DEF Build
  <2>2. /\ remote' \in RemoteStates /\ remote'.fetch = remote.fetch \ {f} /\ remote'.tiles = remote.tiles
        /\ remote'.pend = remote.pend /\ remote'.info \subseteq remote.info
        /\ past' \in PastStates /\ past'.overlooked = past.overlooked /\ past'.transports = past.transports
        /\ past'.swallowed = past.swallowed /\ past'.missed = past.missed \cup {Id(f)}
    BY <1>0, <2>1, ConsumeFailsFacts
  <2>3. ~link.up => inbox' = <<>>
    BY <1>0, <1>1 DEF LinkSound
  <2>4. inbox' \in Seq(Messages) /\ Unrepeated(inbox') /\ server' \in ServerStates
    BY <1>0, <1>1, <1>2
  <2> QED BY <1>1, <1>3, <2>2, <2>3, <2>4, FetchGoneInv
<1>5. CASE page.mounted /\ setup.recv = f.t
  <2>1. PICK h \in Fetches : h = With(f, "resume", Emitted(link.up))
    BY <1>2 DEF Fetches, With, Nets, Emitted
  <2>2. h.p = f.p /\ h.t = f.t /\ h.by = f.by /\ h.at = "resume" /\ h # f /\ h.net # "prioritised"
    BY <1>1, <1>2, <2>1 DEF Fetches, With
  <2>3. PICK r : r = Replace(remote.fetch, f, h)
    OBVIOUS
  <2>4. /\ h \notin remote.fetch /\ Id(h) = Id(f) /\ r \in SUBSET Fetches /\ r = (remote.fetch \ {f}) \cup {h} /\ h \in r
        /\ {Id(e) : e \in r} = {Id(e) : e \in remote.fetch}
    BY <1>0, <2>2, <2>3, Replaced
  <2>5. /\ \A e, g \in r : e.by = g.by /\ e.p = g.p => e = g
        /\ \A e \in r : e.t # None /\ e.t.n <= past.transports
        /\ \A e \in r : e.by = "event" => e.p \in server.born \ server.unannounced
    BY <1>0, <2>2, <2>3, Replaced
  <2>6. PICK T \in SUBSET TileStates : T = remote.tiles \cup {Id(f)}
    BY <1>2
  <2>7. remote' = [remote EXCEPT !.tiles = T, !.fetch = r] /\ past' = past
    BY <1>5, <2>1, <2>3, <2>6 DEF Build
  <2>8. remote' \in RemoteStates
    BY <1>2, <2>4, <2>7 DEF RemoteStates
  <2>9. remote'.info = remote.info /\ remote'.tiles = T /\ remote'.pend = remote.pend /\ remote'.fetch = r
    BY <1>2, <2>7 DEF RemoteStates
  <2>12. SetupTyped'
    BY <1>0, <1>1, <2>7, <2>8 DEF SetupTyped, ClientTyped, ServerTyped
  <2>13. LinkSound'
    BY <1>0, <1>1 DEF LinkSound, InRoom
  <2>14. StepsSound'
    BY <1>0, <1>1, <2>9 DEF StepsSound, InRoom
  <2>15. AnswersSound'
    BY <1>0, <1>1 DEF AnswersSound, InRoom
  <2>16. StatusSound'
    BY <1>0, <1>1, <1>5, <2>7 DEF StatusSound, NeverIdleInSilence, InRoom
  <2>17. FetchesSound'
    BY <1>0, <1>1, <1>3, <2>4, <2>5, <2>7, <2>9 DEF FetchesSound
  <2>18. NewsSound'
    BY <1>0, <1>1, <2>2, <2>4, <2>9 DEF NewsSound
  <2>19. TilesSound'
    BY <1>0, <1>1, <1>2, <1>5, <2>6, <2>7, <2>9 DEF TilesSound, FetchesSound
  <2>20. ASSUME Current' PROVE NoneForgotten' /\ NoneOutlives'
    <3>1. Current
      BY <1>1, <2>20 DEF Current
    <3>2. NoneForgotten /\ NoneOutlives
      BY <3>1 DEF SetupIInv
    <3>3. \A p : Here(p) => Here(p)'
      BY <1>1, <2>4, <2>6, <2>7, <2>9 DEF Here
    <3>4. \A p : Expected(p) => Expected(p)'
      BY <1>1, <2>9 DEF Expected, ListAhead, Listed, SettingUpAgain
    <3>5. \A e \in remote'.fetch : e.at = "resume" /\ e.t = setup'.recv /\ e.p \in server'.open => Id(e) \in remote'.tiles
      BY <1>1, <2>4, <2>6, <2>9, <3>2 DEF NoneForgotten
    <3>6. NoneForgotten'
      BY <1>1, <2>9, <3>2, <3>3, <3>4, <3>5 DEF NoneForgotten
    <3>7. \A c : Backed(c)' = Backed(c)
      BY <1>1, <2>7 DEF Backed
    <3>8. f \in Coming
      BY <1>1, <1>5 DEF Coming, Built
    <3>9. Coming' \subseteq Coming \ {f}
      BY <1>1, <2>2, <2>4, <2>9 DEF Coming, Built
    <3>10. \A c \in remote'.tiles : Backed(c)'
      BY <2>6, <2>9, <3>2, <3>7, <3>8 DEF NoneOutlives
    <3>11. \A g \in Coming' : Backed(Id(g))' /\ (Id(g) \in remote'.tiles => Id(g) \in past'.overlooked)
      BY <2>6, <2>7, <2>9, <3>2, <3>7, <3>8, <3>9 DEF NoneOutlives
    <3>12. \A e, g \in Coming' : Id(e) = Id(g) /\ e # g => Id(e) \in past'.overlooked
      BY <2>7, <3>2, <3>9 DEF NoneOutlives
    <3> QED BY <3>6, <3>10, <3>11, <3>12 DEF NoneOutlives
  <2> QED
    BY <1>0, <1>1, <2>12, <2>13, <2>14, <2>15, <2>16, <2>17, <2>18, <2>19, <2>20 DEF SetupIInv
<1> QED BY <1>4, <1>5

-----------------------------------------------------------------------------
(* the events *)

LEMMA EventTypes ==
  /\ \A a \in Messages : a.m = "new" => a = [m |-> "new", p |-> a.p] /\ a.p \in Producers
  /\ \A a \in Messages : a.m = "closed" => a = [m |-> "closed", c |-> a.c] /\ a.c \in TileStates
  /\ \A a \in Messages : a.m = "left" => a = [m |-> "left", o |-> a.o] /\ \E p \in Producers : OwnerOf[p] = a.o
  /\ \A p \in Producers : [m |-> "new", p |-> p] \in Messages
  /\ \A c \in TileStates : [m |-> "closed", c |-> c] \in Messages
  /\ \A p \in Producers : [m |-> "left", o |-> OwnerOf[p]] \in Messages
  BY DEF Messages, Replies, Consumeds, News, Closings, Leavings

(* an event that starts no consume call *)
LEMMA EventInv ==
  ASSUME SetupIInv, Taking, Head(inbox).m \in {"new", "closed", "left"}, UNCHANGED <<setup, page>>,
         remote' \in RemoteStates, remote'.fetch = remote.fetch, remote'.tiles \subseteq remote.tiles,
         remote'.info \subseteq remote.info, remote'.pend \subseteq remote.pend \/ setup.recv = None,
         past' \in PastStates, past.overlooked \subseteq past'.overlooked, past'.missed = past.missed,
         past'.swallowed = past.swallowed, past'.transports = past.transports,
         Current => \A p \in server.open :
           /\ [p |-> p, t |-> setup.recv] \in remote.tiles => [p |-> p, t |-> setup.recv] \in remote'.tiles
           /\ p \in remote.pend => p \in remote'.pend,
         Current /\ Head(inbox).m = "new" => Head(inbox).p \in remote.info,
         Current /\ Head(inbox).m = "closed" =>
           /\ Head(inbox).c \notin remote'.tiles
           /\ \A f \in remote.fetch : Id(f) = Head(inbox).c => Id(f) \in remote.tiles \cup past'.overlooked
  PROVE  SetupIInv'
<1>0. /\ SetupTyped /\ LinkSound /\ StepsSound /\ AnswersSound /\ StatusSound /\ FetchesSound
      /\ NewsSound /\ TilesSound /\ Unrepeated(inbox)
  BY DEF SetupIInv
<1> DEFINE a == Head(inbox)
<1>1. /\ inbox' \in Seq(Messages) /\ a \in Messages /\ Mail = Mail' \cup {a} /\ Unrepeated(inbox')
  BY <1>0, Taken DEF Taking
<1>2. a.m \in {"new", "closed", "left"}
  OBVIOUS
<1>3. link' = link /\ server' = server /\ setup' = setup /\ page' = page /\ link.up
  BY DEF Taking
<1>4. /\ Current /\ a.m = "new" => a.p \in remote.info
      /\ Current /\ a.m = "closed" =>
           /\ a.c \notin remote'.tiles
           /\ \A f \in remote.fetch : Id(f) = a.c => Id(f) \in remote.tiles \cup past'.overlooked
  OBVIOUS
<1> HIDE DEF a
<1>12. SetupTyped'
  BY <1>0, <1>1, <1>3 DEF SetupTyped, ClientTyped, ServerTyped
<1>13. LinkSound'
  BY <1>0, <1>3 DEF LinkSound, InRoom
<1>14. StepsSound'
  BY <1>0, <1>3 DEF StepsSound, InRoom
<1>15. AnswersSound'
  BY <1>0, <1>1, <1>3 DEF AnswersSound, InRoom
<1>16. StatusSound'
  BY <1>0, <1>3 DEF StatusSound, NeverIdleInSilence, InRoom
<1>17. FetchesSound'
  BY <1>0, <1>1, <1>3 DEF FetchesSound
<1>18. NewsSound'
  BY <1>0, <1>1, <1>3 DEF NewsSound
<1>19. TilesSound'
  BY <1>0, <1>3 DEF TilesSound
<1>20. ASSUME Current' PROVE NoneForgotten' /\ NoneOutlives'
  <2>1. Current
    BY <1>3, <1>20 DEF Current
  <2>2. NoneForgotten /\ NoneOutlives
    BY <2>1 DEF SetupIInv
  <2>3. \A p \in server.open : Here(p) => Here(p)'
    BY <1>3, <2>1 DEF Here
  <2>4. ASSUME NEW p \in server.open, Expected(p) PROVE Expected(p)' \/ Here(p)
    <3>1. Listed(p) => Listed(p)'
      BY <1>1, <1>2, <1>3 DEF Listed
    <3>2. CASE a = [m |-> "new", p |-> p]
      BY <1>4, <2>1, <2>2, <3>2 DEF NoneForgotten
    <3>3. CASE a # [m |-> "new", p |-> p]
      BY <1>1, <1>3, <2>1, <2>4, <3>1, <3>3 DEF Expected, ListAhead, SettingUpAgain
    <3> QED BY <3>2, <3>3
  <2>5. \A e \in remote'.fetch : e.at = "resume" /\ e.t = setup'.recv /\ e.p \in server'.open => Id(e) \in remote'.tiles
    BY <1>3, <2>1, <2>2 DEF NoneForgotten, Id
  <2>6. NoneForgotten'
    BY <1>3, <2>2, <2>3, <2>4, <2>5 DEF NoneForgotten
  <2>7. ASSUME NEW c, Backed(c) PROVE Backed(c)' \/ (a.m = "closed" /\ c = a.c)
    <3>1. CASE a = [m |-> "closed", c |-> c]
      BY <3>1
    <3>2. CASE a # [m |-> "closed", c |-> c]
      BY <1>1, <1>3, <2>7, <3>2 DEF Backed
    <3> QED BY <3>1, <3>2
  <2>8. Coming' = Coming
    BY <1>1, <1>2, <1>3 DEF Coming, Built
  <2>9. \A c \in remote'.tiles : Backed(c)'
    BY <1>4, <2>1, <2>2, <2>7 DEF NoneOutlives
  <2>10. \A f \in Coming' : Backed(Id(f))'
    <3>1. \A f \in Coming : Id(f) \in past'.overlooked => Backed(Id(f))'
      BY DEF Backed
    <3>2. \A f \in Coming : a.m = "closed" /\ Id(f) = a.c => Id(f) \in past'.overlooked
      BY <1>4, <2>1, <2>2 DEF NoneOutlives, Coming
    <3> QED BY <2>2, <2>7, <2>8, <3>1, <3>2 DEF NoneOutlives
  <2>11. \A f \in Coming' : Id(f) \in remote'.tiles => Id(f) \in past'.overlooked
    BY <2>2, <2>8 DEF NoneOutlives
  <2>12. \A e, g \in Coming' : Id(e) = Id(g) /\ e # g => Id(e) \in past'.overlooked
    BY <2>2, <2>8 DEF NoneOutlives
  <2> QED BY <2>6, <2>9, <2>10, <2>11, <2>12 DEF NoneOutlives
<1> QED
  BY <1>1, <1>12, <1>13, <1>14, <1>15, <1>16, <1>17, <1>18, <1>19, <1>20 DEF SetupIInv

(* a hook that was left, or has no listeners yet *)
LEMMA UnheardInv ==
  ASSUME SetupIInv, Taking, Head(inbox).m \in {"new", "closed", "left"}, ~(page.mounted /\ page.captured),
         UNCHANGED <<setup, page, remote, past>>
  PROVE  SetupIInv'
<1>1. SetupTyped /\ StepsSound /\ LinkSound
  BY DEF SetupIInv
<1>2. setup.recv = None \/ ~page.mounted
  BY <1>1 DEF StepsSound
<1>3. ~Current
  BY <1>1, <1>2, SetupFields DEF Current, LinkSound
<1>4. remote \in RemoteStates /\ past \in PastStates
  BY <1>1 DEF SetupTyped, ClientTyped, ServerTyped
<1>5. /\ remote' \in RemoteStates /\ remote'.fetch = remote.fetch /\ remote'.tiles \subseteq remote.tiles
      /\ remote'.info \subseteq remote.info /\ remote'.pend \subseteq remote.pend
      /\ past' \in PastStates /\ past.overlooked \subseteq past'.overlooked /\ past'.missed = past.missed
      /\ past'.swallowed = past.swallowed /\ past'.transports = past.transports
  BY <1>4
<1> QED BY <1>3, <1>5, EventInv

LEMMA ConsumerClosedInv ==
  ASSUME SetupIInv, Taking, Head(inbox).m = "closed", ConsumerClosed(Head(inbox).c), UNCHANGED <<setup, page>>
  PROVE  SetupIInv'
<1>0. SetupTyped /\ NewsSound /\ Unrepeated(inbox)
  BY DEF SetupIInv
<1>1. Head(inbox) \in Messages /\ Head(inbox) \in Mail
  BY <1>0, Taken DEF Taking
<1>2. PICK c : c = Head(inbox).c
  OBVIOUS
<1>3. c \in TileStates /\ c.p \notin server.open /\ ConsumerClosed(c)
  BY <1>0, <1>1, <1>2, EventTypes DEF NewsSound
<1>4. /\ remote \in RemoteStates /\ past \in PastStates /\ remote.fetch \in SUBSET Fetches
      /\ remote.tiles \in SUBSET TileStates /\ remote.info \in SUBSET Producers /\ past.overlooked \in SUBSET TileStates
  BY <1>0, SetupFields DEF SetupTyped, ClientTyped, ServerTyped
<1>5. /\ remote' \in RemoteStates /\ remote'.fetch = remote.fetch /\ remote'.tiles = remote.tiles \ {c}
      /\ remote'.info \subseteq remote.info /\ remote'.pend = remote.pend
  <2>1. CASE c \notin remote.tiles
    <3>1. remote' = remote
      BY <1>3, <2>1 DEF ConsumerClosed
    <3> QED BY <1>4, <2>1, <3>1
  <2>2. CASE c \in remote.tiles
    <3>1. PICK T \in SUBSET TileStates : T = remote.tiles \ {c}
      BY <1>4
    <3>2. PICK I \in SUBSET Producers : I = remote.info \ {c.p}
      BY <1>4
    <3>3. remote' = [remote EXCEPT !.tiles = T, !.info = I]
      BY <1>3, <2>2, <3>1, <3>2 DEF ConsumerClosed
    <3>4. remote' \in RemoteStates
      BY <1>4, <3>3 DEF RemoteStates
    <3>5. remote'.fetch = remote.fetch /\ remote'.tiles = T /\ remote'.info = I /\ remote'.pend = remote.pend
      BY <1>4, <3>3 DEF RemoteStates
    <3> QED BY <3>1, <3>2, <3>4, <3>5
  <2> QED BY <2>1, <2>2
<1>6. PICK O : O = past.overlooked \cup {Id(f) : f \in {g \in remote.fetch : Id(g) = c /\ c \notin remote.tiles}}
  OBVIOUS
<1>7. O \in SUBSET TileStates
  BY <1>4, <1>6, FetchTypes
<1>8. past' = [past EXCEPT !.overlooked = O]
  BY <1>3, <1>6 DEF ConsumerClosed
<1>9. past' \in PastStates
  BY <1>4, <1>7, <1>8 DEF PastStates
<1>10. /\ past'.overlooked = O /\ past'.missed = past.missed /\ past'.swallowed = past.swallowed
       /\ past'.transports = past.transports
  BY <1>4, <1>8 DEF PastStates
<1>11. /\ past.overlooked \subseteq past'.overlooked
       /\ \A f \in remote.fetch : Id(f) = c => Id(f) \in remote.tiles \cup past'.overlooked
  BY <1>6, <1>10
<1>12. \A p \in server.open :
         /\ [p |-> p, t |-> setup.recv] \in remote.tiles => [p |-> p, t |-> setup.recv] \in remote'.tiles
         /\ p \in remote.pend => p \in remote'.pend
  BY <1>3, <1>5
<1>13. c \notin remote'.tiles /\ remote'.tiles \subseteq remote.tiles /\ remote'.pend \subseteq remote.pend
  BY <1>5
<1> QED BY <1>2, <1>5, <1>9, <1>10, <1>11, <1>12, <1>13, EventInv

LEMMA PeerLeftInv ==
  ASSUME SetupIInv, Taking, Head(inbox).m = "left", PeerLeft(Head(inbox).o), UNCHANGED <<setup, page>>
  PROVE  SetupIInv'
<1>0. SetupTyped /\ NewsSound /\ Unrepeated(inbox)
  BY DEF SetupIInv
<1>1. Head(inbox) \in Messages /\ Head(inbox) \in Mail
  BY <1>0, Taken DEF Taking
<1>2. PICK o : o = Head(inbox).o
  OBVIOUS
<1>3. PeerLeft(o) /\ \A p \in Producers : OwnerOf[p] = o => p \notin server.open
  BY <1>0, <1>1, <1>2 DEF NewsSound
<1>4. /\ remote \in RemoteStates /\ past \in PastStates /\ remote.fetch \in SUBSET Fetches
      /\ remote.tiles \in SUBSET TileStates /\ remote.info \in SUBSET Producers /\ past.overlooked \in SUBSET TileStates
      /\ remote.pend \in SUBSET Producers /\ server.open \in SUBSET Producers
  BY <1>0, SetupFields DEF SetupTyped, ClientTyped, ServerTyped
<1>5. PICK R : R = {c \in remote.tiles : OwnerOf[c.p] = o}
  OBVIOUS
<1>6. PICK T \in SUBSET TileStates : T = remote.tiles \ R
  BY <1>4
<1>7. PICK I \in SUBSET Producers : I = remote.info \ {c.p : c \in R}
  BY <1>4
<1>8. PICK P \in SUBSET Producers : P = {q \in remote.pend : OwnerOf[q] # o}
  BY <1>4
<1>9. PICK O : O = past.overlooked \cup {Id(f) : f \in {g \in remote.fetch : OwnerOf[g.p] = o /\ Id(g) \notin R}}
  OBVIOUS
<1>10. O \in SUBSET TileStates
  BY <1>4, <1>9, FetchTypes
<1>11. remote' = [remote EXCEPT !.tiles = T, !.info = I, !.pend = P] /\ past' = [past EXCEPT !.overlooked = O]
  BY <1>3, <1>5, <1>6, <1>7, <1>8, <1>9 DEF PeerLeft
<1>12. remote' \in RemoteStates /\ past' \in PastStates
  BY <1>4, <1>10, <1>11 DEF RemoteStates, PastStates
<1>13. remote'.fetch = remote.fetch /\ remote'.tiles = T /\ remote'.info = I /\ remote'.pend = P
  BY <1>4, <1>11 DEF RemoteStates
<1>14. /\ past'.overlooked = O /\ past'.missed = past.missed /\ past'.swallowed = past.swallowed
       /\ past'.transports = past.transports
  BY <1>4, <1>11 DEF PastStates
<1>15. \A p \in server.open :
         /\ [p |-> p, t |-> setup.recv] \in remote.tiles => [p |-> p, t |-> setup.recv] \in remote'.tiles
         /\ p \in remote.pend => p \in remote'.pend
  BY <1>3, <1>4, <1>5, <1>6, <1>8, <1>13
<1>16. /\ remote'.tiles \subseteq remote.tiles /\ remote'.pend \subseteq remote.pend /\ remote'.info \subseteq remote.info
       /\ past.overlooked \subseteq past'.overlooked
  BY <1>6, <1>7, <1>8, <1>9, <1>13, <1>14
<1> QED BY <1>12, <1>13, <1>14, <1>15, <1>16, EventInv

LEMMA ProducerNewsInv ==
  ASSUME SetupIInv, Taking, Head(inbox).m = "new", page.mounted, page.captured,
         ProducerNews(Head(inbox).p), UNCHANGED <<setup, page>>
  PROVE  SetupIInv'
<1>0. /\ SetupTyped /\ LinkSound /\ StepsSound /\ AnswersSound /\ StatusSound /\ FetchesSound
      /\ NewsSound /\ TilesSound /\ Unrepeated(inbox)
  BY DEF SetupIInv
<1> DEFINE a == Head(inbox)
<1>1. /\ inbox' \in Seq(Messages) /\ a \in Messages /\ Mail = Mail' \cup {a} /\ Unrepeated(inbox')
      /\ a.m \in Once => \A x \in Mail' : ~Alike(a, x)
  BY <1>0, Taken DEF Taking
<1>2. a.m = "new" /\ a \in Mail
  BY <1>1
<1>3. link' = link /\ server' = server /\ setup' = setup /\ page' = page /\ link.up /\ past' = past
  BY DEF Taking, ProducerNews
<1>4. remote' = IF setup.recv = None THEN [remote EXCEPT !.pend = @ \cup {a.p}]
                ELSE IF a.p \in remote.info THEN remote ELSE StartConsume(a.p, "event")
  BY DEF ProducerNews
<1> HIDE DEF a
<1>5. PICK p \in Producers : p = a.p
  BY <1>1, <1>2, EventTypes
<1>6. remote \in RemoteStates /\ past \in PastStates /\ remote.pend \in SUBSET Producers
  BY <1>0, SetupFields DEF SetupTyped, ClientTyped, ServerTyped
<1>7. CASE setup.recv = None
  <2>1. ~Current
    BY <1>0, <1>7, SetupFields DEF Current, LinkSound
  <2>2. PICK P \in SUBSET Producers : P = remote.pend \cup {p}
    BY <1>6
  <2>3. remote' = [remote EXCEPT !.pend = P]
    BY <1>4, <1>5, <1>7, <2>2
  <2>4. /\ remote' \in RemoteStates /\ remote'.fetch = remote.fetch /\ remote'.tiles = remote.tiles
        /\ remote'.info = remote.info
    BY <1>6, <2>3 DEF RemoteStates
  <2>5. Head(inbox).m \in {"new", "closed", "left"}
    OBVIOUS
  <2> QED BY <1>3, <1>6, <1>7, <2>1, <2>4, <2>5, EventInv
<1>8. CASE setup.recv # None /\ p \in remote.info
  <2>1. remote' = remote
    BY <1>4, <1>5, <1>8
  <2>2. /\ remote' \in RemoteStates /\ remote'.fetch = remote.fetch /\ remote'.tiles = remote.tiles
        /\ remote'.info = remote.info /\ remote'.pend = remote.pend
    BY <1>6, <2>1
  <2>3. Head(inbox).m \in {"new", "closed", "left"} /\ Head(inbox).p \in remote.info
    BY <1>5, <1>8 DEF a
  <2> QED BY <1>3, <1>6, <2>2, <2>3, EventInv
<1>9. CASE setup.recv # None /\ p \notin remote.info
  <2>1. PICK g : g = Begun(p, "event")
    OBVIOUS
  <2>2. remote' = StartConsume(p, "event")
    BY <1>4, <1>5, <1>9
  <2>3. /\ g \in Fetches /\ g.p = p /\ g.t = setup.recv /\ g.by = "event" /\ g.at = "consume" /\ g.net \in {"held", "sent"}
        /\ Id(g) = [p |-> p, t |-> setup.recv]
    BY <1>0, <2>1, <2>2, StartedFacts
  <2>4. /\ remote' \in RemoteStates /\ remote'.info = remote.info \cup {p} /\ remote'.tiles = remote.tiles
        /\ remote'.pend = remote.pend /\ remote'.fetch = remote.fetch \cup {g}
    BY <1>0, <2>1, <2>2, StartedFacts
  <2>5. /\ \A f \in remote.fetch : f.by = "event" => f.p # p
        /\ p \in server.born \ server.unannounced
        /\ \A x \in Mail' : x.m = "new" => x.p # p
    BY <1>0, <1>1, <1>2, <1>5 DEF NewsSound, Once, Alike
  <2>12. SetupTyped'
    BY <1>0, <1>1, <1>3, <2>4 DEF SetupTyped, ClientTyped, ServerTyped
  <2>13. LinkSound'
    BY <1>0, <1>3 DEF LinkSound, InRoom
  <2>14. StepsSound'
    BY <1>0, <1>3, <2>4 DEF StepsSound, InRoom
  <2>15. AnswersSound'
    BY <1>0, <1>1, <1>3 DEF AnswersSound, InRoom
  <2>16. StatusSound'
    BY <1>0, <1>3, <2>4 DEF StatusSound, NeverIdleInSilence, InRoom
  <2>17. FetchesSound'
    BY <1>0, <1>1, <1>3, <1>9, <2>3, <2>4, <2>5 DEF FetchesSound, TilesSound
  <2>18. NewsSound'
    BY <1>0, <1>1, <1>3, <2>3, <2>4, <2>5 DEF NewsSound
  <2>19. TilesSound'
    BY <1>0, <1>3, <1>9, <2>4 DEF TilesSound, StepsSound
  <2>20. ASSUME Current' PROVE NoneForgotten' /\ NoneOutlives'
    <3>1. Current
      BY <1>3, <2>20 DEF Current
    <3>2. NoneForgotten /\ NoneOutlives
      BY <3>1 DEF SetupIInv
    <3>3. \A q : Here(q) => Here(q)'
      BY <1>3, <2>4 DEF Here
    <3>4. Here(p)'
      BY <1>3, <2>3, <2>4 DEF Here
    <3>5. ASSUME NEW q, Expected(q), q # p PROVE Expected(q)'
      <4>1. Listed(q) => Listed(q)'
        BY <1>1, <1>2, <1>3 DEF Listed
      <4>2. [m |-> "new", p |-> q] \in Mail => [m |-> "new", p |-> q] \in Mail'
        BY <1>1, <1>5, <3>5
      <4> QED BY <1>3, <2>4, <3>5, <4>1, <4>2 DEF Expected, ListAhead, SettingUpAgain
    <3>6. \A e \in remote'.fetch : e.at = "resume" /\ e.t = setup'.recv /\ e.p \in server'.open => Id(e) \in remote'.tiles
      BY <1>3, <2>3, <2>4, <3>2 DEF NoneForgotten
    <3>7. NoneForgotten'
      BY <1>3, <2>4, <3>2, <3>3, <3>4, <3>5, <3>6 DEF NoneForgotten
    <3>8. \A c : Backed(c) => Backed(c)'
      BY <1>1, <1>2, <1>3 DEF Backed
    <3>9. Coming' \subseteq Coming
      <4>1. \A f : Built(f)' => Built(f)
        BY <1>1 DEF Built
      <4>2. ~Built(g)
        BY <1>0, <2>3, NotBuilt
      <4> QED BY <1>3, <2>4, <4>1, <4>2 DEF Coming
    <3>10. NoneOutlives'
      BY <1>3, <2>4, <3>2, <3>8, <3>9 DEF NoneOutlives
    <3> QED BY <3>7, <3>10
  <2> QED
    BY <1>1, <2>12, <2>13, <2>14, <2>15, <2>16, <2>17, <2>18, <2>19, <2>20 DEF SetupIInv
<1> QED BY <1>7, <1>8, <1>9

LEMMA DeliverInv == SetupIInv /\ Deliver => SetupIInv'
<1> SUFFICES ASSUME SetupIInv, Deliver PROVE SetupIInv'
  OBVIOUS
<1>1. Taking
  BY DEF Deliver, Taking
<1>2. \/ Head(inbox).m = "answer" /\ Answered(Head(inbox)) /\ UNCHANGED remote
      \/ Head(inbox).m = "consumed" /\ Consumed(Head(inbox)) /\ UNCHANGED <<setup, page>>
      \/ /\ Head(inbox).m = "new" /\ page.mounted /\ page.captured
         /\ ProducerNews(Head(inbox).p) /\ UNCHANGED <<setup, page>>
      \/ Head(inbox).m = "closed" /\ ConsumerClosed(Head(inbox).c) /\ UNCHANGED <<setup, page>>
      \/ Head(inbox).m = "left" /\ PeerLeft(Head(inbox).o) /\ UNCHANGED <<setup, page>>
      \/ /\ Head(inbox).m \in {"new", "closed", "left"} /\ ~(page.mounted /\ page.captured)
         /\ UNCHANGED <<setup, page, remote, past>>
  BY DEF Deliver
<1> QED
  BY <1>1, <1>2, AnsweredInv, ConsumedInv, ProducerNewsInv, ConsumerClosedInv, PeerLeftInv, UnheardInv

-----------------------------------------------------------------------------
(* the others *)

LEMMA OpenInv ==
  ASSUME SetupIInv, BornOnce, NEW p \in Producers, Open(p)
  PROVE  SetupIInv'
<1>0. /\ SetupTyped /\ LinkSound /\ StepsSound /\ AnswersSound /\ StatusSound /\ FetchesSound
      /\ NewsSound /\ TilesSound /\ Unrepeated(inbox)
  BY DEF SetupIInv
<1>1. /\ link' = link /\ page' = page /\ setup' = setup /\ remote' = remote /\ inbox' = inbox /\ Mail' = Mail
      /\ p \notin server.born
  BY DEF Open, Mail
<1>2. /\ server \in ServerStates /\ past \in PastStates /\ server.open \in SUBSET Producers
      /\ server.born \in SUBSET Producers /\ server.unannounced \in SUBSET Producers /\ past.events \in Nat
  BY <1>0, SetupFields DEF SetupTyped, ServerTyped
<1>3. PICK O \in SUBSET Producers : O = server.open \cup {p}
  BY <1>2
<1>4. PICK B \in SUBSET Producers : B = server.born \cup {p}
  BY <1>2
<1>5. PICK U \in SUBSET Producers : U = server.unannounced \cup {p}
  BY <1>2
<1>6. PICK n \in Nat : n = past.events + 1
  BY <1>2
<1>7. server' = [server EXCEPT !.open = O, !.born = B, !.unannounced = U] /\ past' = [past EXCEPT !.events = n]
  BY <1>3, <1>4, <1>5, <1>6 DEF Open, Eventful
<1>8. server' \in ServerStates /\ past' \in PastStates
  BY <1>2, <1>7 DEF ServerStates, PastStates
<1>9. /\ server'.joined = server.joined /\ server'.consumers = server.consumers
      /\ server'.open = O /\ server'.born = B /\ server'.unannounced = U
  BY <1>2, <1>7 DEF ServerStates
<1>10. /\ past'.overlooked = past.overlooked /\ past'.missed = past.missed /\ past'.swallowed = past.swallowed
       /\ past'.transports = past.transports
  BY <1>2, <1>7 DEF PastStates
<1>12. SetupTyped'
  BY <1>0, <1>1, <1>8 DEF SetupTyped, ClientTyped, ServerTyped
<1>13. LinkSound'
  BY <1>0, <1>1, <1>9 DEF LinkSound, InRoom
<1>14. StepsSound'
  BY <1>0, <1>1, <1>9 DEF StepsSound, InRoom
<1>15. AnswersSound'
  BY <1>0, <1>1, <1>9 DEF AnswersSound, InRoom
<1>16. StatusSound'
  BY <1>0, <1>1, <1>9, <1>10 DEF StatusSound, NeverIdleInSilence, InRoom
<1>17. FetchesSound'
  BY <1>0, <1>1, <1>4, <1>5, <1>9, <1>10 DEF FetchesSound
<1>18. NewsSound'
  BY <1>0, <1>1, <1>3, <1>4, <1>5, <1>9 DEF NewsSound
<1>19. TilesSound'
  BY <1>0, <1>1, <1>3, <1>9, <1>10 DEF TilesSound
<1>20. ASSUME Current' PROVE NoneForgotten' /\ NoneOutlives'
  <2>1. Current
    BY <1>1, <1>20 DEF Current
  <2>2. NoneForgotten /\ NoneOutlives
    BY <2>1 DEF SetupIInv
  <2>3. \A q : Here(q)' = Here(q)
    BY <1>1, <1>10 DEF Here
  <2>4. Expected(p)' /\ \A q : Expected(q) => Expected(q)'
    BY <1>1, <1>5, <1>9 DEF Expected, ListAhead, Listed, SettingUpAgain
  <2>5. p \notin remote.info /\ \A f \in remote.fetch : f.p # p
    BY <1>1 DEF BornOnce
  <2>6. NoneForgotten'
    BY <1>1, <1>3, <1>9, <2>2, <2>3, <2>4, <2>5 DEF NoneForgotten
  <2>7. Coming' = Coming /\ \A c : Backed(c)' = Backed(c)
    BY <1>1, <1>9, <1>10 DEF Coming, Built, Backed
  <2>8. NoneOutlives'
    BY <1>1, <1>10, <2>2, <2>7 DEF NoneOutlives
  <2> QED BY <2>6, <2>8
<1> QED
  BY <1>0, <1>1, <1>12, <1>13, <1>14, <1>15, <1>16, <1>17, <1>18, <1>19, <1>20 DEF SetupIInv

LEMMA AnnounceInv ==
  ASSUME SetupIInv, NEW p \in Producers, Announce(p)
  PROVE  SetupIInv'
<1>0. /\ SetupTyped /\ LinkSound /\ StepsSound /\ AnswersSound /\ StatusSound /\ FetchesSound
      /\ NewsSound /\ TilesSound /\ Unrepeated(inbox)
  BY DEF SetupIInv
<1>1. /\ link' = link /\ page' = page /\ setup' = setup /\ remote' = remote /\ past' = past
      /\ p \in server.unannounced /\ inbox' \in Told(<<[m |-> "new", p |-> p]>>)
  BY DEF Announce
<1>2. /\ server \in ServerStates /\ server.unannounced \in SUBSET Producers /\ inbox \in Seq(Messages)
  BY <1>0, SetupFields DEF SetupTyped, ServerTyped
<1>3. PICK U \in SUBSET Producers : U = server.unannounced \ {p}
  BY <1>2
<1>4. server' = [server EXCEPT !.unannounced = U]
  BY <1>3 DEF Announce
<1>5. /\ server' \in ServerStates /\ server'.joined = server.joined /\ server'.consumers = server.consumers
      /\ server'.open = server.open /\ server'.born = server.born /\ server'.unannounced = U
  BY <1>2, <1>4 DEF ServerStates
<1>6. PICK a \in Messages : a = [m |-> "new", p |-> p]
  BY EventTypes
<1>7. /\ inbox' = inbox \/ inbox' = Append(inbox, a)
      /\ link.up /\ InRoom => inbox' = Append(inbox, a)
      /\ ~link.up => inbox' = inbox
  <2>1. inbox \o <<a>> = Append(inbox, a) /\ inbox \o <<>> = inbox
    BY <1>2
  <2> QED BY <1>1, <1>6, <2>1 DEF Told
<1>8. /\ \A x \in Mail : x.m = "new" => x.p # p
      /\ \A f \in remote.fetch : f.by = "event" => f.p # p
  BY <1>0, <1>1 DEF NewsSound, FetchesSound
<1>9. /\ inbox' \in Seq(Messages) /\ Unrepeated(inbox') /\ Mail \subseteq Mail' /\ Mail' \subseteq Mail \cup {a}
      /\ link.up /\ InRoom => a \in Mail'
  <2>1. CASE inbox' = Append(inbox, a)
    <3>1. \A x \in Range(inbox) : ~Alike(x, a)
      BY <1>6, <1>8 DEF Alike, Mail
    <3>2. Range(Append(inbox, a)) = Range(inbox) \cup {a} /\ Append(inbox, a) \in Seq(Messages)
      BY <1>2, MailAppended
    <3>3. Unrepeated(Append(inbox, a))
      BY <1>0, <1>2, <3>1, MailAppended
    <3> QED BY <2>1, <3>2, <3>3 DEF Mail
  <2>2. CASE inbox' = inbox /\ ~(link.up /\ InRoom)
    <3>1. inbox' = inbox /\ Mail' = Mail
      BY <2>2 DEF Mail
    <3> QED BY <1>0, <1>2, <2>2, <3>1
  <2> QED BY <1>7, <2>1, <2>2
<1>12. SetupTyped'
  BY <1>0, <1>1, <1>5, <1>9 DEF SetupTyped, ClientTyped, ServerTyped
<1>13. LinkSound'
  BY <1>0, <1>1, <1>5, <1>7 DEF LinkSound, InRoom
<1>14. StepsSound'
  BY <1>0, <1>1, <1>5 DEF StepsSound, InRoom
<1>15. AnswersSound'
  BY <1>0, <1>1, <1>5, <1>6, <1>9 DEF AnswersSound, InRoom
<1>16. StatusSound'
  BY <1>0, <1>1, <1>5 DEF StatusSound, NeverIdleInSilence, InRoom
<1>17. FetchesSound'
  BY <1>0, <1>1, <1>3, <1>5, <1>6, <1>9 DEF FetchesSound
<1>18. NewsSound'
  BY <1>0, <1>1, <1>3, <1>5, <1>6, <1>8, <1>9 DEF NewsSound
<1>19. TilesSound'
  BY <1>0, <1>1, <1>5 DEF TilesSound
<1>20. ASSUME Current' PROVE NoneForgotten' /\ NoneOutlives'
  <2>1. Current
    BY <1>1, <1>20 DEF Current
  <2>2. NoneForgotten /\ NoneOutlives
    BY <2>1 DEF SetupIInv
  <2>3. \A q : Here(q)' = Here(q)
    BY <1>1 DEF Here
  <2>4. a \in Mail'
    <3>1. InRoom /\ link.up
      BY <1>0, <2>1, SetupFields DEF LinkSound, Current
    <3> QED BY <1>9, <3>1
  <2>5. \A q : Expected(q) => Expected(q)'
    BY <1>1, <1>3, <1>5, <1>6, <1>9, <2>4 DEF Expected, ListAhead, Listed, SettingUpAgain
  <2>6. NoneForgotten'
    BY <1>1, <1>5, <2>2, <2>3, <2>5 DEF NoneForgotten
  <2>7. Coming' = Coming /\ \A c : Backed(c)' = Backed(c)
    BY <1>1, <1>5, <1>6, <1>9 DEF Coming, Built, Backed
  <2>8. NoneOutlives'
    BY <1>1, <2>2, <2>7 DEF NoneOutlives
  <2> QED BY <2>6, <2>8
<1> QED
  BY <1>9, <1>12, <1>13, <1>14, <1>15, <1>16, <1>17, <1>18, <1>19, <1>20 DEF SetupIInv

(* what is told of producers that close *)
LEMMA CloseMail ==
  ASSUME SetupIInv, NEW P \in SUBSET Producers, NEW first \in Seq(Messages),
         \A x \in Range(first) : x.m = "left", Close(P, first)
  PROVE  /\ inbox' \in Seq(Messages) /\ Unrepeated(inbox') /\ Mail \subseteq Mail'
         /\ \A x \in Mail' : x \in Mail \cup Range(first) \/ (x.m = "closed" /\ x.c \in server.consumers /\ x.c.p \in P)
         /\ link.up /\ InRoom => \A c \in server.consumers \ Deaf : c.p \in P => [m |-> "closed", c |-> c] \in Mail'
         /\ ~link.up => inbox' = inbox
<1>0. SetupTyped /\ TilesSound /\ Unrepeated(inbox) /\ inbox \in Seq(Messages)
  BY DEF SetupIInv, SetupTyped, ServerTyped
<1>1. PICK C \in SUBSET TileStates : C = {c \in server.consumers : c.p \in P} \ Deaf
  BY <1>0, SetupFields
<1>2. IsFiniteSet(C)
  <2>1. IsFiniteSet(server.consumers) /\ C \subseteq server.consumers
    BY <1>0, <1>1 DEF TilesSound
  <2> QED BY <2>1, FS_Subset
<1>3. PICK n \in Nat : n = Cardinality(C)
  BY <1>2, FS_CardinalityType
<1>4. PICK q \in [1..n -> C] :
        /\ Range(q) = C
        /\ inbox' \in Told(first \o [i \in 1..n |-> [m |-> "closed", c |-> q[i]]])
  BY <1>1, <1>3 DEF Close, Orders
<1>5. PICK s : s = [i \in 1..n |-> [m |-> "closed", c |-> q[i]]]
  OBVIOUS
<1>6. \A i \in 1..n : s[i] = [m |-> "closed", c |-> q[i]] /\ s[i] \in Messages
  BY <1>4, <1>5, EventTypes
<1>7. s \in Seq(Messages) /\ DOMAIN s = 1..n
  <2>1. s \in [1..n -> Messages]
    BY <1>5, <1>6
  <2> QED BY <2>1
<1>8. \A x \in Range(s) : x.m = "closed" /\ x.c \in C
  BY <1>4, <1>6, <1>7 DEF Range
<1>9. ASSUME NEW c \in C PROVE [m |-> "closed", c |-> c] \in Range(s)
  <2>1. PICK i \in 1..n : q[i] = c
    BY <1>4 DEF Range
  <2> QED BY <1>6, <1>7, <2>1 DEF Range
<1>10. PICK t : t = first \o s
  OBVIOUS
<1>11. t \in Seq(Messages) /\ Range(t) = Range(first) \cup Range(s)
  <2>1. \A x \in Range(s) : x.m \notin Once
    BY <1>8 DEF Once
  <2>2. first \o s \in Seq(Messages) /\ Range(first \o s) = Range(first) \cup Range(s)
    BY <1>7, <2>1, MailJoined
  <2> QED BY <1>10, <2>2
<1>12. \A x \in Range(t) : x.m \notin Once
  BY <1>8, <1>11 DEF Once
<1>13. /\ inbox' = inbox \/ inbox' = inbox \o t
       /\ link.up /\ InRoom => inbox' = inbox \o t
       /\ ~link.up => inbox' = inbox
  <2>1. inbox' \in Told(first \o s)
    BY <1>4, <1>5
  <2>2. inbox' \in Told(t)
    BY <1>10, <2>1
  <2>3. inbox \o <<>> = inbox
    BY <1>0
  <2> QED BY <2>2, <2>3 DEF Told
<1>14. CASE inbox' = inbox \o t
  <2>1. inbox \o t \in Seq(Messages) /\ Range(inbox \o t) = Range(inbox) \cup Range(t)
    BY <1>0, <1>11, <1>12, MailJoined
  <2>2. Unrepeated(inbox \o t)
    BY <1>0, <1>11, <1>12, MailJoined
  <2>3. inbox' \in Seq(Messages) /\ Unrepeated(inbox') /\ Mail' = Mail \cup Range(first) \cup Range(s)
    BY <1>11, <1>13, <1>14, <2>1, <2>2 DEF Mail
  <2> QED BY <1>1, <1>8, <1>9, <1>13, <2>3
<1>15. CASE inbox' = inbox /\ ~(link.up /\ InRoom)
  <2>1. inbox' = inbox /\ Mail' = Mail
    BY <1>15 DEF Mail
  <2> QED BY <1>0, <1>15, <2>1
<1> QED BY <1>13, <1>14, <1>15

LEMMA CloseInv ==
  ASSUME SetupIInv, NEW P \in SUBSET Producers, NEW first \in Seq(Messages),
         \A x \in Range(first) : x.m = "left" /\ \A p \in Producers : OwnerOf[p] = x.o => p \in P,
         Close(P, first)
  PROVE  SetupIInv'
<1>0. /\ SetupTyped /\ LinkSound /\ StepsSound /\ AnswersSound /\ StatusSound /\ FetchesSound
      /\ NewsSound /\ TilesSound
  BY DEF SetupIInv
<1>1. /\ link' = link /\ page' = page /\ setup' = setup /\ remote' = remote
  BY DEF Close
<1>2. /\ server \in ServerStates /\ past \in PastStates /\ server.open \in SUBSET Producers
      /\ server.born \in SUBSET Producers /\ server.consumers \in SUBSET TileStates /\ past.events \in Nat
  BY <1>0, SetupFields DEF SetupTyped, ServerTyped
<1>3. PICK O \in SUBSET Producers : O = server.open \ P
  BY <1>2
<1>4. PICK B \in SUBSET Producers : B = server.born \cup P
  BY <1>2
<1>5. PICK K \in SUBSET TileStates : K = server.consumers \ {c \in server.consumers : c.p \in P}
  BY <1>2
<1>6. PICK n \in Nat : n = past.events + 1
  BY <1>2
<1>31. PICK V \in SUBSET TileStates : V = past.overlooked \cup ({c \in server.consumers : c.p \in P} \cap Deaf)
  BY <1>0, SetupFields
<1>7. /\ server' = [server EXCEPT !.open = O, !.born = B, !.consumers = K]
      /\ past' = [past EXCEPT !.events = n, !.overlooked = V]
  BY <1>3, <1>4, <1>5, <1>6, <1>31 DEF Close
<1>8. server' \in ServerStates /\ past' \in PastStates
  BY <1>2, <1>7 DEF ServerStates, PastStates
<1>9. /\ server'.joined = server.joined /\ server'.unannounced = server.unannounced
      /\ server'.open = O /\ server'.born = B /\ server'.consumers = K
  BY <1>2, <1>7 DEF ServerStates
<1>10. /\ past'.overlooked = V /\ past'.missed = past.missed /\ past'.swallowed = past.swallowed
       /\ past'.transports = past.transports
  BY <1>2, <1>7 DEF PastStates
<1>11. /\ inbox' \in Seq(Messages) /\ Unrepeated(inbox') /\ Mail \subseteq Mail'
       /\ \A x \in Mail' : x \in Mail \cup Range(first) \/ (x.m = "closed" /\ x.c \in server.consumers /\ x.c.p \in P)
       /\ link.up /\ InRoom => \A c \in server.consumers \ Deaf : c.p \in P => [m |-> "closed", c |-> c] \in Mail'
       /\ ~link.up => inbox' = inbox
  <2>1. \A x \in Range(first) : x.m = "left"
    OBVIOUS
  <2> QED BY <2>1, CloseMail
<1>12. /\ \A x \in Mail' : x.m \in Once => x \in Mail
       /\ \A x \in Mail' : x.m = "closed" => x \in Mail \/ x.c.p \in P
       /\ \A x \in Mail' : x.m = "left" => x \in Mail \/ \A p \in Producers : OwnerOf[p] = x.o => p \in P
  BY <1>11 DEF Once
<1>22. SetupTyped'
  BY <1>0, <1>1, <1>8, <1>11 DEF SetupTyped, ClientTyped, ServerTyped
<1>23. LinkSound'
  BY <1>0, <1>1, <1>5, <1>9, <1>11 DEF LinkSound, InRoom
<1>24. StepsSound'
  BY <1>0, <1>1, <1>9 DEF StepsSound, InRoom
<1>25. AnswersSound'
  BY <1>0, <1>1, <1>9, <1>12 DEF AnswersSound, InRoom, Once
<1>26. StatusSound'
  BY <1>0, <1>1, <1>9, <1>10 DEF StatusSound, NeverIdleInSilence, InRoom
<1>27. FetchesSound'
  BY <1>0, <1>1, <1>4, <1>9, <1>10, <1>12 DEF FetchesSound, Once
<1>28. NewsSound'
  <2>1. server'.open \cup server'.unannounced \subseteq server'.born
    BY <1>0, <1>3, <1>4, <1>9 DEF NewsSound
  <2>2. \A a \in Mail' : a.m = "new" => /\ a.p \in server'.born \ server'.unannounced
                                         /\ \A f \in remote'.fetch : f.by = "event" => f.p # a.p
    BY <1>0, <1>1, <1>4, <1>9, <1>12 DEF NewsSound, Once
  <2>3. \A a \in Mail' : a.m = "closed" => a.c.p \in server'.born \ server'.open
    BY <1>0, <1>3, <1>4, <1>9, <1>12 DEF NewsSound
  <2>4. \A a \in Mail' : a.m = "left" => \A p \in Producers : OwnerOf[p] = a.o => p \in server'.born \ server'.open
    BY <1>0, <1>3, <1>4, <1>9, <1>12 DEF NewsSound
  <2> QED BY <2>1, <2>2, <2>3, <2>4 DEF NewsSound
<1>29. TilesSound'
  <2>1. IsFiniteSet(server.consumers) /\ K \subseteq server.consumers
    BY <1>0, <1>5 DEF TilesSound
  <2>2. IsFiniteSet(K)
    BY <2>1, FS_Subset
  <2> QED BY <1>0, <1>1, <1>3, <1>5, <1>9, <1>10, <1>31, <2>2 DEF TilesSound
<1>30. ASSUME Current' PROVE NoneForgotten' /\ NoneOutlives'
  <2>1. Current
    BY <1>1, <1>30 DEF Current
  <2>2. NoneForgotten /\ NoneOutlives
    BY <2>1 DEF SetupIInv
  <2>3. \A q : Here(q)' = Here(q)
    BY <1>1, <1>10 DEF Here
  <2>4. \A q : Expected(q) => Expected(q)'
    BY <1>1, <1>9, <1>11 DEF Expected, ListAhead, Listed, SettingUpAgain
  <2>5. NoneForgotten'
    BY <1>1, <1>3, <1>9, <2>2, <2>3, <2>4 DEF NoneForgotten
  <2>6. InRoom /\ link.up
    BY <1>0, <2>1, SetupFields DEF LinkSound, Current
  <2>7. \A c : Backed(c) => Backed(c)'
    BY <1>5, <1>9, <1>10, <1>11, <1>31, <2>6 DEF Backed
  <2>8. Coming' = Coming
    BY <1>1, <1>11, <1>12 DEF Coming, Built, Once
  <2>9. NoneOutlives'
    BY <1>1, <1>10, <1>31, <2>2, <2>7, <2>8 DEF NoneOutlives
  <2> QED BY <2>5, <2>9
<1> QED
  BY <1>11, <1>22, <1>23, <1>24, <1>25, <1>26, <1>27, <1>28, <1>29, <1>30 DEF SetupIInv

LEMMA OthersInv == SetupIInv /\ BornOnce /\ Others => SetupIInv'
<1> SUFFICES ASSUME SetupIInv, BornOnce, Others PROVE SetupIInv'
  OBVIOUS
<1>1. ASSUME NEW p \in Producers, CloseProducer(p) PROVE SetupIInv'
  <2>1. Close({p}, <<>>) /\ {p} \in SUBSET Producers
    BY <1>1 DEF CloseProducer
  <2>2. <<>> \in Seq(Messages) /\ DOMAIN <<>> = {}
    OBVIOUS
  <2>3. \A x \in Range(<<>>) : x.m = "left" /\ \A r \in Producers : OwnerOf[r] = x.o => r \in {p}
    BY <2>2 DEF Range
  <2> QED BY <2>1, <2>2, <2>3, CloseInv
<1>2. ASSUME NEW o \in {OwnerOf[p] : p \in Producers}, PeerLeaves(o) PROVE SetupIInv'
  <2>1. PICK P \in SUBSET Producers : P = {p \in Producers : OwnerOf[p] = o}
    OBVIOUS
  <2>2. Close(P, <<[m |-> "left", o |-> o]>>)
    BY <1>2, <2>1 DEF PeerLeaves
  <2>3. PICK a \in Messages : a = [m |-> "left", o |-> o]
    BY EventTypes
  <2>4. PICK s : s = <<a>>
    OBVIOUS
  <2>5. s \in Seq(Messages) /\ DOMAIN s = {1} /\ s[1] = a
    BY <2>4
  <2>6. \A x \in Range(s) : x.m = "left" /\ \A r \in Producers : OwnerOf[r] = x.o => r \in P
    BY <2>1, <2>3, <2>5 DEF Range
  <2>7. Close(P, s)
    BY <2>2, <2>3, <2>4
  <2> QED BY <2>5, <2>6, <2>7, CloseInv
<1> QED
  BY <1>1, <1>2, OpenInv, AnnounceInv DEF Others

-----------------------------------------------------------------------------
(* what the client knows of was a producer once *)

(* a step after which it knows of nothing new *)
LEMMA NothingNew ==
  ASSUME BornOnce, server.born \subseteq server'.born,
         \A p \in remote'.info \cup setup'.todo \cup remote'.pend : p \in server.born,
         \A f \in remote'.fetch : f.p \in server.born,
         \A a \in Mail' : a.m = "answer" => a \in Mail
  PROVE  BornOnce'
  BY DEF BornOnce

LEMMA RunSetupKnown ==
  ASSUME SetupTyped, FetchesSound, BornOnce, NEW attempt, NEW up, NEW F \in {remote.fetch, Flushed(remote.fetch)},
         RunSetup(attempt, up, F), UNCHANGED <<server, inbox>>
  PROVE  BornOnce'
<1>1. remote'.info = {} /\ remote'.pend = {} /\ remote'.fetch = F
  BY DEF RunSetup, Cleared
<1>2. setup'.todo = {}
  BY DEF RunSetup, Idling
<1>3. \A g \in F : \E f \in remote.fetch : g.p = f.p
  BY FetchesKept
<1>4. Mail' = Mail /\ server' = server
  BY DEF Mail
<1> QED BY <1>1, <1>2, <1>3, <1>4 DEF BornOnce

LEMMA DeliverKnown == SetupIInv /\ BornOnce /\ Deliver => BornOnce'
<1> SUFFICES ASSUME SetupIInv, BornOnce, Deliver PROVE BornOnce'
  OBVIOUS
<1>0. SetupTyped /\ FetchesSound /\ NewsSound /\ Unrepeated(inbox)
  BY DEF SetupIInv
<1> DEFINE a == Head(inbox)
<1>1. a \in Messages /\ Mail = Mail' \cup {a} /\ server' = server
  BY <1>0, Taken DEF Deliver
<1>2. \/ a.m = "answer" /\ Answered(a) /\ UNCHANGED remote
      \/ a.m = "consumed" /\ Consumed(a) /\ UNCHANGED <<setup, page>>
      \/ a.m = "new" /\ ProducerNews(a.p) /\ UNCHANGED <<setup, page>>
      \/ a.m = "closed" /\ ConsumerClosed(a.c) /\ UNCHANGED <<setup, page>>
      \/ a.m = "left" /\ PeerLeft(a.o) /\ UNCHANGED <<setup, page>>
      \/ UNCHANGED <<setup, page, remote, past>>
  BY DEF Deliver
<1> HIDE DEF a
<1>3. /\ server.born \subseteq server'.born /\ \A x \in Mail' : x.m = "answer" => x \in Mail
      /\ \A p \in remote.info \cup setup.todo \cup remote.pend : p \in server.born
      /\ \A f \in remote.fetch : f.p \in server.born
      /\ a \in Mail /\ remote \in RemoteStates /\ setup \in SetupStates /\ remote.fetch \in SUBSET Fetches
  BY <1>0, <1>1, SetupFields DEF BornOnce, SetupTyped, ClientTyped
<1>4. CASE a.m = "answer" /\ Answered(a) /\ UNCHANGED remote
  <2>1. setup'.todo \subseteq setup.todo \cup a.ps
    <3>1. \/ setup' = Idling(setup.recv)
          \/ setup' = [setup EXCEPT !.step = "tiles", !.net = "none", !.todo = a.ps]
          \/ \E s, n, t : setup' = [setup EXCEPT !.step = s, !.net = n, !.recv = t]
      <4>1. CASE ~page.mounted \/ Rejected(a) \/ setup.step = "list"
        BY <1>4, <4>1 DEF Answered, SetupFailed
      <4>2. CASE ~(~page.mounted \/ Rejected(a) \/ setup.step = "list")
        <5>1. PICK s \in After(setup.step) :
                setup' = [setup EXCEPT !.step = s,
                      !.net = IF s \in {"transports", "produce"} THEN "local" ELSE Emitted(link.up),
                      !.recv = IF setup.step = "transports"
                               THEN [n |-> past.transports + 1, on |-> link.conn] ELSE @]
          BY <1>4, <4>2 DEF Answered
        <5>2. PICK n : n = IF s \in {"transports", "produce"} THEN "local" ELSE Emitted(link.up)
          OBVIOUS
        <5>3. PICK t : t = IF setup.step = "transports" THEN [n |-> past.transports + 1, on |-> link.conn]
                           ELSE setup.recv
          OBVIOUS
        <5> QED BY <5>1, <5>2, <5>3
      <4> QED BY <4>1, <4>2
    <3>2. setup' = Idling(setup.recv) => setup'.todo = {}
      BY DEF Idling
    <3>3. (\E s, n, t : setup' = [setup EXCEPT !.step = s, !.net = n, !.recv = t]) => setup'.todo = setup.todo
      BY <1>3 DEF SetupStates
    <3>4. setup' = [setup EXCEPT !.step = "tiles", !.net = "none", !.todo = a.ps] => setup'.todo = a.ps
      BY <1>3 DEF SetupStates
    <3> QED BY <3>1, <3>2, <3>3, <3>4
  <2>2. \A p \in a.ps : p \in server.born
    BY <1>3, <1>4 DEF BornOnce
  <2>3. remote' = remote
    BY <1>4
  <2> QED BY <1>3, <2>1, <2>2, <2>3, NothingNew
<1>5. CASE a.m = "consumed" /\ Consumed(a) /\ UNCHANGED <<setup, page>>
  <2>1. a.f \in Fetches
    BY <1>1, <1>5, ConsumedTypes
  <2>2. With(a.f, "build", "none").p = a.f.p
    BY <2>1 DEF With, Fetches
  <2>3. a.f \in remote.fetch
    BY <1>0, <1>3, <1>5 DEF FetchesSound
  <2>4. PICK h : h = With(a.f, "build", "none")
    OBVIOUS
  <2>5. \/ remote' = [remote EXCEPT !.fetch = @ \ {a.f}, !.info = @ \ {a.f.p}]
        \/ remote' = [remote EXCEPT !.fetch = @ \ {a.f}]
        \/ remote' = [remote EXCEPT !.fetch = Replace(@, a.f, h)]
    BY <1>5, <2>3, <2>4 DEF Consumed, ConsumeFails
  <2>6. remote'.pend = remote.pend /\ remote'.info \subseteq remote.info /\ remote'.fetch \subseteq remote.fetch \cup {h}
    BY <1>3, <2>5 DEF RemoteStates, Replace
  <2>7. setup' = setup
    BY <1>5
  <2>8. \A f \in remote'.fetch : f.p \in server.born
    BY <1>3, <2>2, <2>3, <2>4, <2>6
  <2> QED BY <1>3, <2>6, <2>7, <2>8, NothingNew
<1>6. CASE a.m = "new" /\ ProducerNews(a.p) /\ UNCHANGED <<setup, page>>
  <2>1. a.p \in server.born
    BY <1>0, <1>3, <1>6 DEF NewsSound
  <2>2. PICK g : g = Begun(a.p, "event")
    OBVIOUS
  <2>3. \/ remote' = [remote EXCEPT !.pend = @ \cup {a.p}]
        \/ remote' = remote
        \/ remote' = [remote EXCEPT !.info = @ \cup {a.p}, !.fetch = @ \cup {g}]
    BY <1>6, <2>2 DEF ProducerNews, StartConsume, Begun
  <2>4. g.p = a.p
    BY <2>2 DEF Begun
  <2>5. /\ remote'.pend \subseteq remote.pend \cup {a.p} /\ remote'.info \subseteq remote.info \cup {a.p}
        /\ remote'.fetch \subseteq remote.fetch \cup {g}
    BY <1>3, <2>3 DEF RemoteStates
  <2>6. setup' = setup
    BY <1>6
  <2>7. \A f \in remote'.fetch : f.p \in server.born
    BY <1>3, <2>1, <2>4, <2>5
  <2> QED BY <1>3, <2>1, <2>5, <2>6, <2>7, NothingNew
<1>7. CASE a.m = "closed" /\ ConsumerClosed(a.c) /\ UNCHANGED <<setup, page>>
  <2>1. remote' = remote \/ remote' = [remote EXCEPT !.tiles = @ \ {a.c}, !.info = @ \ {a.c.p}]
    BY <1>7 DEF ConsumerClosed
  <2>2. remote'.pend = remote.pend /\ remote'.info \subseteq remote.info /\ remote'.fetch = remote.fetch
    BY <1>3, <2>1 DEF RemoteStates
  <2>3. setup' = setup
    BY <1>7
  <2> QED BY <1>3, <2>2, <2>3, NothingNew
<1>8. CASE a.m = "left" /\ PeerLeft(a.o) /\ UNCHANGED <<setup, page>>
  <2>1. PICK T : T = {c \in remote.tiles : OwnerOf[c.p] = a.o}
    OBVIOUS
  <2>2. PICK I : I = remote.info \ {c.p : c \in T}
    OBVIOUS
  <2>3. PICK P : P = {q \in remote.pend : OwnerOf[q] # a.o}
    OBVIOUS
  <2>4. remote' = [remote EXCEPT !.tiles = @ \ T, !.info = I, !.pend = P]
    BY <1>8, <2>1, <2>2, <2>3 DEF PeerLeft
  <2>5. remote'.pend = P /\ remote'.info = I /\ remote'.fetch = remote.fetch
    BY <1>3, <2>4 DEF RemoteStates
  <2>6. P \subseteq remote.pend /\ I \subseteq remote.info
    BY <2>2, <2>3
  <2>7. setup' = setup
    BY <1>8
  <2> QED BY <1>3, <2>5, <2>6, <2>7, NothingNew
<1>9. CASE UNCHANGED <<setup, page, remote, past>>
  <2>1. setup' = setup /\ remote' = remote
    BY <1>9
  <2> QED BY <1>3, <2>1, NothingNew
<1> QED BY <1>2, <1>4, <1>5, <1>6, <1>7, <1>8, <1>9

LEMMA CloseKnown ==
  ASSUME SetupIInv, BornOnce, NEW P \in SUBSET Producers, NEW first \in Seq(Messages),
         \A x \in Range(first) : x.m = "left", Close(P, first)
  PROVE  BornOnce'
<1>1. \A x \in Mail' : x.m = "answer" => x \in Mail
  <2>1. \A x \in Mail' : x \in Mail \cup Range(first) \/ (x.m = "closed" /\ x.c \in server.consumers /\ x.c.p \in P)
    BY CloseMail
  <2> QED BY <2>1
<1>2. server.born \subseteq server'.born
  <2>1. server \in ServerStates
    BY DEF SetupIInv, SetupTyped, ServerTyped
  <2>2. PICK O, B, K : server' = [server EXCEPT !.open = O, !.born = B, !.consumers = K] /\ B = server.born \cup P
    BY DEF Close
  <2> QED BY <2>1, <2>2 DEF ServerStates
<1>3. setup' = setup /\ remote' = remote
  BY DEF Close
<1>4. /\ \A p \in remote.info \cup setup.todo \cup remote.pend : p \in server.born
      /\ \A f \in remote.fetch : f.p \in server.born
  BY DEF BornOnce
<1> QED BY <1>1, <1>2, <1>3, <1>4, NothingNew

LEMMA OthersKnown == SetupIInv /\ BornOnce /\ Others => BornOnce'
<1> SUFFICES ASSUME SetupIInv, BornOnce, Others PROVE BornOnce'
  OBVIOUS
<1>0. SetupTyped /\ server \in ServerStates /\ inbox \in Seq(Messages)
  BY DEF SetupIInv, SetupTyped, ServerTyped
<1>1. /\ \A p \in remote.info \cup setup.todo \cup remote.pend : p \in server.born
      /\ \A f \in remote.fetch : f.p \in server.born
  BY DEF BornOnce
<1>2. ASSUME NEW p \in Producers, Open(p) PROVE BornOnce'
  <2>1. setup' = setup /\ remote' = remote /\ Mail' = Mail
    BY <1>2 DEF Open, Mail
  <2>2. server' = [server EXCEPT !.open = @ \cup {p}, !.born = @ \cup {p}, !.unannounced = @ \cup {p}]
    BY <1>2 DEF Open
  <2>3. server.born \subseteq server'.born
    BY <1>0, <2>2 DEF ServerStates
  <2> QED BY <1>1, <2>1, <2>3, NothingNew
<1>3. ASSUME NEW p \in Producers, Announce(p) PROVE BornOnce'
  <2>1. setup' = setup /\ remote' = remote /\ server' = [server EXCEPT !.unannounced = @ \ {p}]
    BY <1>3 DEF Announce
  <2>2. server'.born = server.born
    BY <1>0, <2>1 DEF ServerStates
  <2>3. PICK a \in Messages : a = [m |-> "new", p |-> p]
    BY EventTypes
  <2>4. inbox' = inbox \/ inbox' = Append(inbox, a)
    <3>1. inbox \o <<a>> = Append(inbox, a) /\ inbox \o <<>> = inbox
      BY <1>0
    <3> QED BY <1>3, <2>3, <3>1 DEF Announce, Told
  <2>5. Range(Append(inbox, a)) = Range(inbox) \cup {a}
    BY <1>0, MailAppended
  <2>6. Mail' = Mail \/ Mail' = Mail \cup {a}
    BY <2>4, <2>5 DEF Mail
  <2>7. \A x \in Mail' : x.m = "answer" => x \in Mail
    BY <2>3, <2>6
  <2> QED BY <1>1, <2>1, <2>2, <2>7, NothingNew
<1>4. ASSUME NEW p \in Producers, CloseProducer(p) PROVE BornOnce'
  <2>1. Close({p}, <<>>) /\ {p} \in SUBSET Producers
    BY <1>4 DEF CloseProducer
  <2>2. <<>> \in Seq(Messages) /\ DOMAIN <<>> = {}
    OBVIOUS
  <2>3. \A x \in Range(<<>>) : x.m = "left"
    BY <2>2 DEF Range
  <2> QED BY <2>1, <2>2, <2>3, CloseKnown
<1>5. ASSUME NEW o \in {OwnerOf[p] : p \in Producers}, PeerLeaves(o) PROVE BornOnce'
  <2>1. PICK P \in SUBSET Producers : P = {p \in Producers : OwnerOf[p] = o}
    OBVIOUS
  <2>2. Close(P, <<[m |-> "left", o |-> o]>>)
    BY <1>5, <2>1 DEF PeerLeaves
  <2>3. PICK a \in Messages : a = [m |-> "left", o |-> o]
    BY EventTypes
  <2>4. PICK s : s = <<a>>
    OBVIOUS
  <2>5. s \in Seq(Messages) /\ DOMAIN s = {1} /\ s[1] = a
    BY <2>4
  <2>6. \A x \in Range(s) : x.m = "left"
    BY <2>3, <2>5 DEF Range
  <2>7. Close(P, s)
    BY <2>2, <2>3, <2>4
  <2> QED BY <2>5, <2>6, <2>7, CloseKnown
<1> QED
  BY <1>2, <1>3, <1>4, <1>5 DEF Others

LEMMA AnswerKnown ==
  ASSUME SetupIInv, NEW f \in remote.fetch, NEW ok \in BOOLEAN, f.at # "build", f.net # "served",
         inbox' = inbox \/ Answer(f, ok)
  PROVE  \A b \in Mail' : b.m = "answer" => b \in Mail
<1>1. CASE inbox' = inbox
  <2>1. Mail' = Mail
    BY <1>1 DEF Mail
  <2> QED BY <2>1
<1>2. CASE Answer(f, ok)
  <2>1. PICK h : h = [f EXCEPT !.net = "served"]
    OBVIOUS
  <2>2. Mail' = Mail \cup {[m |-> "consumed", f |-> h, ok |-> ok]}
    BY <1>2, <2>1, AnswerFacts
  <2> QED BY <2>2
<1> QED BY <1>1, <1>2

LEMMA StepKnown == SetupIInv /\ BornOnce /\ SetupNext => BornOnce'
<1> SUFFICES ASSUME SetupIInv, BornOnce, SetupNext PROVE BornOnce'
  OBVIOUS
<1>0. /\ SetupTyped /\ FetchesSound /\ NewsSound /\ Unrepeated(inbox)
      /\ server \in ServerStates /\ remote \in RemoteStates /\ setup \in SetupStates /\ inbox \in Seq(Messages)
  BY DEF SetupIInv, SetupTyped, ServerTyped, ClientTyped
<1>1. /\ \A p \in remote.info \cup setup.todo \cup remote.pend : p \in server.born
      /\ \A f \in remote.fetch : f.p \in server.born
      /\ remote.fetch \in SUBSET Fetches
  BY <1>0, SetupFields DEF BornOnce
<1>2. ASSUME NextTile PROVE BornOnce'
  <2>1. server' = server /\ Mail' = Mail
    BY <1>2 DEF NextTile, Mail
  <2>2. CASE page.mounted /\ ConsumeExisting
    <3>1. PICK p \in setup.todo :
            /\ setup' = [setup EXCEPT !.todo = @ \ {p}]
            /\ remote' = IF p \in remote.info THEN remote ELSE StartConsume(p, "setup")
      BY <2>2 DEF ConsumeExisting
    <3>2. setup'.todo \subseteq setup.todo
      BY <1>0, <3>1 DEF SetupStates
    <3>3. PICK g : g = Begun(p, "setup")
      OBVIOUS
    <3>4. remote' = remote \/ remote' = [remote EXCEPT !.info = @ \cup {p}, !.fetch = @ \cup {g}]
      BY <3>1, <3>3 DEF StartConsume, Begun
    <3>5. /\ remote'.pend = remote.pend /\ remote'.info \subseteq remote.info \cup {p}
          /\ remote'.fetch \subseteq remote.fetch \cup {g}
      BY <1>0, <3>4 DEF RemoteStates
    <3>6. g.p = p
      BY <3>3 DEF Begun
    <3>7. \A f \in remote'.fetch : f.p \in server.born
      BY <1>1, <3>1, <3>5, <3>6
    <3> QED BY <1>1, <2>1, <3>1, <3>2, <3>5, <3>7, NothingNew
  <2>3. CASE page.mounted /\ DrainPending
    <3>1. setup'.todo = remote.pend
      BY <1>0, <2>3 DEF DrainPending, SetupStates
    <3>2. remote'.info = remote.info /\ remote'.fetch = remote.fetch /\ remote'.pend = {}
      BY <1>0, <2>3 DEF DrainPending, RemoteStates
    <3> QED BY <1>1, <2>1, <3>1, <3>2, NothingNew
  <2>4. CASE ~page.mounted \/ SetupDone
    <3>1. setup'.todo = {} /\ remote' = remote
      BY <1>2, <2>4 DEF NextTile, SetupDone, ConsumeExisting, DrainPending, Idling
    <3> QED BY <1>1, <2>1, <3>1, NothingNew
  <2> QED BY <1>2, <2>2, <2>3, <2>4 DEF NextTile
<1>3. ASSUME Captured \/ RetryTimer \/ RetryMedia PROVE BornOnce'
  <2>1. server' = server /\ inbox' = inbox /\ Mail' = Mail
    BY <1>3 DEF Captured, RetryTimer, RetryMedia, Mail
  <2>2. \/ \E n, up : RunSetup(n, up, remote.fetch)
        \/ setup' = setup /\ remote' = remote
    BY <1>3 DEF Captured, RetryTimer, RetryMedia
  <2>3. CASE \E n, up : RunSetup(n, up, remote.fetch)
    BY <1>0, <2>1, <2>3, RunSetupKnown
  <2>4. CASE setup' = setup /\ remote' = remote
    BY <1>1, <2>1, <2>4, NothingNew
  <2> QED BY <2>2, <2>3, <2>4
<1>4. ASSUME Emit PROVE BornOnce'
  <2>1. server' = server /\ Mail' = Mail /\ remote' = remote
    BY <1>4 DEF Emit, Mail
  <2>2. setup'.todo \subseteq setup.todo
    BY <1>0, <1>4 DEF Emit, Idling, SetupStates
  <2> QED BY <1>1, <2>1, <2>2, NothingNew
<1>5. ASSUME NEW f \in remote.fetch, Build(f) PROVE BornOnce'
  <2>1. server' = server /\ Mail' = Mail /\ setup' = setup
    BY <1>5 DEF Build, Mail
  <2>2. PICK h : h = With(f, "resume", Emitted(link.up))
    OBVIOUS
  <2>3. h.p = f.p
    BY <1>1, <2>2 DEF With, Fetches
  <2>4. \/ remote' = [remote EXCEPT !.fetch = @ \ {f}, !.info = @ \ {f.p}]
        \/ remote' = [remote EXCEPT !.tiles = @ \cup {Id(f)}, !.fetch = Replace(@, f, h)]
    BY <1>5, <2>2 DEF Build, ConsumeFails
  <2>5. remote'.pend = remote.pend /\ remote'.info \subseteq remote.info /\ remote'.fetch \subseteq remote.fetch \cup {h}
    BY <1>0, <2>4 DEF RemoteStates, Replace
  <2>6. \A g \in remote'.fetch : g.p \in server.born
    BY <1>1, <2>3, <2>5
  <2> QED BY <1>1, <2>1, <2>5, <2>6, NothingNew
<1>6. ASSUME Serve PROVE BornOnce'
  <2>1. remote' = remote /\ setup' = [setup EXCEPT !.net = "served"]
    BY <1>6 DEF Serve
  <2>2. setup'.todo = setup.todo
    BY <1>0, <2>1 DEF SetupStates
  <2>3. server'.born = server.born
    BY <1>0, <1>6 DEF Serve, ServerStates
  <2>4. PICK ok \in BOOLEAN : ok = (setup.step \in {"caps", "list"} \/ InRoom)
    OBVIOUS
  <2>5. server.open \in SUBSET Producers
    BY <1>0, SetupFields
  <2>6. PICK ps \in SUBSET Producers : ps = IF setup.step = "list" /\ InRoom THEN server.open ELSE {}
    BY <2>5
  <2>7. PICK a \in Messages : a = [m |-> "answer", ok |-> ok, ps |-> ps]
    BY ReplyTypes
  <2>8. inbox' = Append(inbox, a)
    BY <1>6, <2>4, <2>6, <2>7 DEF Serve
  <2>9. Range(Append(inbox, a)) = Range(inbox) \cup {a}
    BY <1>0, MailAppended
  <2>10. Mail' = Mail \cup {a}
    BY <2>8, <2>9 DEF Mail
  <2>11. \A p \in a.ps : p \in server.born
    BY <1>0, <2>6, <2>7 DEF NewsSound
  <2> QED BY <2>1, <2>2, <2>3, <2>10, <2>11 DEF BornOnce
<1>7. ASSUME NEW f \in remote.fetch, ServeConsume(f) PROVE BornOnce'
  <2>1. setup' = setup
    BY <1>7 DEF ServeConsume
  <2>2. PICK n \in {"prioritised", "served"} : remote' = [remote EXCEPT !.fetch = Replace(@, f, [f EXCEPT !.net = n])]
    BY <1>7 DEF ServeConsume, Answer
  <2>3. PICK h : h = [f EXCEPT !.net = n]
    OBVIOUS
  <2>17. h.p = f.p
    BY <1>1, <2>3 DEF Fetches
  <2>4. remote' = [remote EXCEPT !.fetch = Replace(@, f, h)]
    BY <2>2, <2>3
  <2>5. remote'.pend = remote.pend /\ remote'.info = remote.info /\ remote'.fetch \subseteq remote.fetch \cup {h}
    BY <1>0, <2>4 DEF RemoteStates, Replace
  <2>6. \A g \in remote'.fetch : g.p \in server.born
    BY <1>1, <2>5, <2>17
  <2>7. server' = server \/ server' = [server EXCEPT !.consumers = @ \cup {Id(f)}]
    BY <1>7 DEF ServeConsume
  <2>8. server'.born = server.born
    BY <1>0, <2>7 DEF ServerStates
  <2>9. PICK ok \in BOOLEAN : ok = IF f.at = "consume" THEN ~Refused(f) ELSE Id(f) \in server.consumers
    BY <1>0, Accepting
  <2>10. inbox' = inbox \/ Answer(f, ok)
    BY <1>7, <2>9 DEF ServeConsume
  <2>11. f.at # "build" /\ f.net # "served"
    BY <1>1, <1>7, FetchTypes DEF ServeConsume
  <2>12. \A b \in Mail' : b.m = "answer" => b \in Mail
    BY <1>0, <2>10, <2>11, AnswerKnown
  <2> QED BY <1>1, <2>1, <2>5, <2>6, <2>8, <2>12, NothingNew
<1>13. ASSUME NEW f \in remote.fetch, Prioritised(f) PROVE BornOnce'
  <2>1. setup' = setup /\ server' = server /\ f.at # "build" /\ f.net # "served" /\ Answer(f, TRUE) /\ TRUE \in BOOLEAN
    BY <1>1, <1>13, FetchTypes DEF Prioritised
  <2>2. PICK h : h = [f EXCEPT !.net = "served"]
    OBVIOUS
  <2>3. h.p = f.p
    BY <1>1, <2>2 DEF Fetches
  <2>4. remote' = [remote EXCEPT !.fetch = Replace(@, f, h)]
    BY <2>1, <2>2 DEF Answer
  <2>5. remote'.pend = remote.pend /\ remote'.info = remote.info /\ remote'.fetch \subseteq remote.fetch \cup {h}
    BY <1>0, <2>4 DEF RemoteStates, Replace
  <2>6. \A g \in remote'.fetch : g.p \in server.born
    BY <1>1, <2>3, <2>5
  <2>7. \A b \in Mail' : b.m = "answer" => b \in Mail
    BY <1>0, <2>1, AnswerKnown
  <2> QED BY <1>1, <2>1, <2>5, <2>6, <2>7, NothingNew
<1>8. ASSUME Drop PROVE BornOnce'
  <2>1. setup' = Idling(setup.recv) \/ setup' = setup
    BY <1>8 DEF Drop
  <2>2. setup'.todo \subseteq setup.todo
    BY <2>1 DEF Idling
  <2>3. PICK F : F = {f \in remote.fetch : Lost(f.net)}
    OBVIOUS
  <2>4. remote' = [remote EXCEPT !.fetch = @ \ F, !.info = @ \ {f.p : f \in F}]
    BY <1>8, <2>3 DEF Drop
  <2>5. remote'.pend = remote.pend /\ remote'.info \subseteq remote.info /\ remote'.fetch \subseteq remote.fetch
    BY <1>0, <2>4 DEF RemoteStates
  <2>6. server'.born = server.born
    BY <1>0, <1>8 DEF Drop, ServerStates
  <2>7. Mail' = {}
    <3>1. inbox' = <<>> /\ DOMAIN <<>> = {}
      BY <1>8 DEF Drop
    <3> QED BY <3>1 DEF Mail, Range
  <2> QED BY <1>1, <2>2, <2>5, <2>6, <2>7, NothingNew
<1>9. ASSUME SetupTimeout PROVE BornOnce'
  <2>1. setup'.todo = {} /\ remote' = remote /\ Mail' = Mail
    BY <1>9 DEF SetupTimeout, SetupFailed, Idling, Mail
  <2>2. server' = server \/ server' = [server EXCEPT !.joined = link.conn]
    BY <1>9 DEF SetupTimeout
  <2>3. server'.born = server.born
    BY <1>0, <2>2 DEF ServerStates
  <2> QED BY <1>1, <2>1, <2>3, NothingNew
<1>10. ASSUME NEW f \in remote.fetch, ConsumeTimeout(f) PROVE BornOnce'
  <2>1. setup' = setup /\ Mail' = Mail
    BY <1>10 DEF ConsumeTimeout, Mail
  <2>2. remote' = [remote EXCEPT !.fetch = @ \ {f}, !.info = @ \ {f.p}]
    BY <1>10 DEF ConsumeTimeout
  <2>3. remote'.pend = remote.pend /\ remote'.info \subseteq remote.info /\ remote'.fetch \subseteq remote.fetch
    BY <1>0, <2>2 DEF RemoteStates
  <2>4. server' = server \/ server' = [server EXCEPT !.consumers = @ \cup {Id(f)}]
    BY <1>10 DEF ConsumeTimeout
  <2>5. server'.born = server.born
    BY <1>0, <2>4 DEF ServerStates
  <2> QED BY <1>1, <2>1, <2>3, <2>5, NothingNew
<1>11. ASSUME Connect PROVE BornOnce'
  <2>1. server' = server /\ inbox' = inbox /\ Mail' = Mail
    BY <1>11 DEF Connect, Mail
  <2>2. CASE Resumes
    <3>1. RunSetup(0, TRUE, Flushed(remote.fetch))
      BY <1>11, <2>2 DEF Connect
    <3> QED BY <1>0, <2>1, <3>1, RunSetupKnown
  <2>3. CASE ~Resumes
    <3>1. remote' = [remote EXCEPT !.fetch = Flushed(@)]
      BY <1>11, <2>3 DEF Connect
    <3>2. setup'.todo \subseteq setup.todo
      <4>1. CASE setup.step = "wait"
        <5>1. setup' = [Idling(None) EXCEPT !.step = "caps", !.net = "sent"]
          BY <1>11, <2>3, <4>1 DEF Connect, Awaited
        <5>2. setup' = [step |-> "caps", net |-> "sent", todo |-> {}, recv |-> None]
          BY <5>1 DEF Idling
        <5> QED BY <5>2
      <4>2. CASE setup.step # "wait"
        <5>1. setup' = [setup EXCEPT !.net = IF @ = "held" THEN "sent" ELSE @]
          BY <1>11, <2>3, <4>2 DEF Connect
        <5> QED BY <1>0, <5>1 DEF SetupStates
      <4> QED BY <4>1, <4>2
    <3>3. remote'.pend = remote.pend /\ remote'.info = remote.info /\ remote'.fetch = Flushed(remote.fetch)
      BY <1>0, <3>1 DEF RemoteStates
    <3>4. \A g \in Flushed(remote.fetch) : \E f \in remote.fetch : g.p = f.p
      BY <1>1, FlushedFacts
    <3>5. \A f \in remote'.fetch : f.p \in server.born
      BY <1>1, <3>3, <3>4
    <3> QED BY <1>1, <2>1, <3>2, <3>3, <3>5, NothingNew
  <2> QED BY <2>2, <2>3
<1>12. ASSUME Unmount PROVE BornOnce'
  <2>1. /\ server' = server /\ Mail' = Mail /\ remote' = Cleared(remote.fetch)
        /\ setup' = Idling(None) \/ setup' = [setup EXCEPT !.recv = None]
    BY <1>12 DEF Unmount, Mail
  <2>2. remote'.info = {} /\ remote'.pend = {} /\ remote'.fetch = remote.fetch
    BY <2>1 DEF Cleared
  <2>3. setup'.todo \subseteq setup.todo
    BY <1>0, <2>1 DEF Idling, SetupStates
  <2> QED BY <1>1, <2>1, <2>2, <2>3, NothingNew
<1> QED
  BY <1>2, <1>3, <1>4, <1>5, <1>6, <1>7, <1>8, <1>9, <1>10, <1>11, <1>12, <1>13, DeliverKnown, OthersKnown
  DEF SetupNext, Local, Remote, Faults

-----------------------------------------------------------------------------
LEMMA StepInv == SetupIInv /\ BornOnce /\ SetupNext => SetupIInv'
  BY NextTileInv, CapturedInv, RetryTimerInv, EmitInv, DeliverInv, BuildInv, ServeInv, ServeConsumeInv, PrioritisedInv, DropInv,
     SetupTimeoutInv, ConsumeTimeoutInv, OthersInv, ConnectInv, RetryMediaInv, UnmountInv
  DEF SetupNext, Local, Remote, Faults

LEMMA StartInv == SetupInit => SetupIInv /\ BornOnce
<1> SUFFICES ASSUME SetupInit PROVE SetupIInv /\ BornOnce
  OBVIOUS
<1>1. PICK P \in SUBSET Producers :
        server = [joined |-> 0, open |-> P, born |-> P, unannounced |-> {}, consumers |-> {}]
  BY DEF SetupInit
<1>2. /\ link = [up |-> FALSE, conn |-> 0]
      /\ page = [mounted |-> TRUE, captured |-> FALSE, status |-> "connecting", attempt |-> 0, timer |-> FALSE]
      /\ setup = [step |-> "idle", net |-> "none", todo |-> {}, recv |-> None]
      /\ remote = [info |-> {}, tiles |-> {}, pend |-> {}, fetch |-> {}]
      /\ inbox = <<>> /\ past = NoHistory
  BY DEF SetupInit, Idling
<1>3. Mail = {} /\ inbox \in Seq(Messages) /\ DOMAIN inbox = {}
  BY <1>2, NoMail
<1>4. SetupTyped
  BY <1>1, <1>2, <1>3 DEF SetupTyped, ClientTyped, ServerTyped, LinkStates, PageStates, SetupStates, RemoteStates,
     ServerStates, PastStates, NoHistory, None, Transports, Nets
<1>5. LinkSound /\ ~Current
  BY <1>1, <1>2 DEF LinkSound, None, Current
<1>6. StepsSound
  BY <1>1, <1>2 DEF StepsSound, Calls, None
<1>7. AnswersSound /\ FetchesSound /\ NewsSound
  BY <1>1, <1>2, <1>3 DEF AnswersSound, FetchesSound, NewsSound
<1>8. StatusSound
  BY <1>2 DEF StatusSound, NeverIdleInSilence
<1>9. TilesSound
  BY <1>1, <1>2, FS_EmptySet DEF TilesSound, None, NoHistory
<1>10. Unrepeated(inbox)
  BY <1>3 DEF Unrepeated
<1>11. BornOnce
  BY <1>2, <1>3 DEF BornOnce
<1> QED BY <1>4, <1>5, <1>6, <1>7, <1>8, <1>9, <1>10, <1>11 DEF SetupIInv

(* Whatever the socket, the timeouts and the others do, the set-up keeps    *)
(* its inductive invariant, the types included.  Of a tile on the transport *)
(* in use it says only that its producer is open, or that its end is on its *)
(* way to the page, or that it is one of past.overlooked.                   *)
THEOREM SetupSafe == SetupSpec => [](SetupIInv /\ BornOnce)
<1>1. SetupInit => SetupIInv /\ BornOnce
  BY StartInv
<1>2. SetupIInv /\ BornOnce /\ [SetupNext]_setupVars => (SetupIInv /\ BornOnce)'
  <2> SUFFICES ASSUME SetupIInv, BornOnce, [SetupNext]_setupVars PROVE (SetupIInv /\ BornOnce)'
    OBVIOUS
  <2>1. CASE SetupNext
    BY <2>1, StepInv, StepKnown
  <2>2. CASE UNCHANGED setupVars
    <3>1. /\ link' = link /\ page' = page /\ setup' = setup /\ remote' = remote /\ server' = server
          /\ inbox' = inbox /\ past' = past /\ Mail' = Mail
      BY <2>2 DEF setupVars, Mail
    <3>2. SetupTyped' /\ Unrepeated(inbox') /\ BornOnce'
      BY <3>1 DEF SetupIInv, SetupTyped, ClientTyped, ServerTyped, BornOnce
    <3>3. LinkSound' /\ StepsSound' /\ AnswersSound' /\ StatusSound'
      BY <3>1 DEF SetupIInv, LinkSound, StepsSound, AnswersSound, StatusSound, NeverIdleInSilence, InRoom
    <3>4. FetchesSound' /\ NewsSound' /\ TilesSound'
      BY <3>1 DEF SetupIInv, FetchesSound, NewsSound, TilesSound
    <3>5. ASSUME Current' PROVE NoneForgotten' /\ NoneOutlives'
      <4>1. NoneForgotten /\ NoneOutlives
        BY <3>1, <3>5 DEF SetupIInv, Current
      <4>2. NoneForgotten'
        BY <3>1, <4>1 DEF NoneForgotten, Here, Expected, ListAhead, Listed, SettingUpAgain
      <4>3. Coming' = Coming /\ \A c : Backed(c)' = Backed(c)
        BY <3>1 DEF Coming, Built, Backed
      <4>4. NoneOutlives'
        BY <3>1, <4>1, <4>3 DEF NoneOutlives
      <4> QED BY <4>2, <4>4
    <3> QED BY <3>2, <3>3, <3>4, <3>5 DEF SetupIInv
  <2> QED BY <2>1, <2>2
<1> QED BY <1>1, <1>2, PTL DEF SetupSpec

(* The page says "ready" only on a connection on which the server has its   *)
(* peer, unless the socket dropped between two consumes of that set-up; and *)
(* it never rests in a state that nothing will end.                         *)
THEOREM StatusSafe == SetupSpec => []StatusIsTrue
<1>1. SetupIInv => StatusIsTrue
  BY DEF SetupIInv, StatusSound, StatusIsTrue, ReadyIsJoined, Ready
<1> QED BY <1>1, SetupSafe, PTL

(* Once everything is answered, each open producer has its tile, unless its *)
(* consume failed, and each tile shows an open producer on the transport    *)
(* that is used, up to three races of the code: the producer closed or its  *)
(* owner left while the consume was awaited (useMediasoup.ts:472-497), a    *)
(* microphone closed while the server gave its consumer priority            *)
(* (sfu-handlers.ts:280-288), or a tile landed while a set-up waited for    *)
(* the connection (useMediasoup.ts:618, 798-841).                           *)
THEOREM TilesSafe == SetupSpec => []TilesMatchProducers
<1>1. SetupIInv => TilesMatchProducers
  <2> SUFFICES ASSUME SetupIInv, Quiet, InRoom PROVE TilesMatchProducers
    BY DEF TilesMatchProducers
  <2>1. SetupTyped /\ LinkSound /\ StepsSound /\ TilesSound
    BY DEF SetupIInv
  <2>2. /\ link.up /\ page.mounted /\ page.status = "ready" /\ setup.step = "idle" /\ remote.fetch = {}
        /\ Mail = {} /\ server.unannounced = {}
    BY NoMail DEF Quiet, Ready
  <2>3. setup.recv # None
    BY <2>1, <2>2 DEF StepsSound
  <2>4. Current /\ NoneForgotten /\ NoneOutlives
    BY <2>1, <2>2, <2>3 DEF LinkSound, Current, SetupIInv
  <2>5. setup.todo = {} /\ remote.pend = {}
    BY <2>1, <2>2 DEF StepsSound
  <2>6. ASSUME NEW p \in server.open PROVE [p |-> p, t |-> setup.recv] \in remote.tiles \cup past.missed
    <3>1. ~Expected(p)
      BY <2>2, <2>5 DEF Expected, ListAhead, Listed, SettingUpAgain
    <3>2. Here(p)
      BY <2>4, <3>1 DEF NoneForgotten
    <3> QED BY <2>2, <3>2 DEF Here
  <2>7. ASSUME NEW c \in remote.tiles PROVE (c.p \in server.open /\ c.t = setup.recv) \/ c \in past.overlooked
    <3>1. Backed(c)
      BY <2>4 DEF NoneOutlives
    <3> QED BY <2>1, <2>2, <3>1 DEF Backed, TilesSound
  <2> QED BY <2>6, <2>7 DEF TilesMatchProducers
<1> QED BY <1>1, SetupSafe, PTL
=============================================================================
