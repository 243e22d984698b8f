------------------------------ MODULE Devices ------------------------------
(***************************************************************************)
(* The capture devices of one participant, from the lobby's preview to the *)
(* end of the call: who holds each captured track, which producers carry   *)
(* it, and what the page says is on (useLobbyMedia.ts, LobbyPage.tsx; the  *)
(* capture, the toggles, the screen share, the producers and the cleanup   *)
(* of useMediasoup.ts).                                                    *)
(*                                                                         *)
(* getUserMedia, getDisplayMedia, produce and replaceTrack are awaited:    *)
(* clicks, reconnects and leaving come in between.  The retries of a       *)
(* set-up are MediaSetup's; here a set-up may begin again at any time.     *)
(***************************************************************************)
EXTENDS Naturals, FiniteSets

CONSTANTS
  MaxCaptures,    \* a bound: captures granted
  MaxSetups,      \* a bound: set-ups that reach a send transport
  MaxClicks       \* a bound: clicks on the camera, the microphone and the share button

ASSUME DevicesConstants == MaxCaptures \in Nat /\ MaxSetups \in Nat /\ MaxClicks \in Nat

Kinds == {"mic", "cam"}

VARIABLES
  phase,      \* "lobby", "call", "left"
  live,       \* captured tracks that are not stopped: [kind, id]
  asks,       \* getUserMedia and getDisplayMedia calls under way: [for, kind, n (click), of (set-up)]
  lobby,      \* streamRef, the enabled tracks, videoOnRef and audioOnRef
  call,       \* localStreamRef, the desired and the shown state
  send,       \* the send transport: set-ups so far, what the set-up is at, the producers map
  open,       \* producers of this client that are not closed: [kind, id, of (set-up), track, paused]
  work,       \* awaited produce and replaceTrack calls: [job, track, of (set-up or producer)]
  share,      \* screenProducerRef, localScreenStreamRef, isScreenSharing, tracks listened to
  hist        \* history and bounds: captures, clicks, producers, and the exceptions below

vars == <<phase, live, asks, lobby, call, send, open, work, share, hist>>

NoProducer == [k \in Kinds |-> 0]
Init ==
  /\ phase = "lobby" /\ live = {} /\ asks = {[for |-> "preview", kind |-> "cam", n |-> 0, of |-> 0]}
  /\ lobby = [stream |-> {}, enabled |-> {}, on |-> {}, listed |-> FALSE, gone |-> FALSE]
  /\ call = [stream |-> {}, captured |-> FALSE, desired |-> {}, shown |-> {}]
  /\ send = [n |-> 0, at |-> "idle", up |-> FALSE, map |-> NoProducer]
  /\ open = {} /\ work = {}
  /\ share = [producer |-> 0, stream |-> {}, shown |-> FALSE, heard |-> {}]
  /\ hist = [captures |-> 0, clicks |-> 0, producers |-> 0, stray |-> {}, overlapped |-> {}]

(* hist.stray: tracks granted when whoever asked had let go of them;       *)
(* hist.overlapped: kinds of device for which a click came in the middle   *)
(* of another click's awaits, or of the capture                            *)

Of(k, T)   == {t \in T : t.kind = k}
First(T)   == CHOOSE t \in T : \A u \in T : t.id <= u.id
Fresh(k)   == [kind |-> k, id |-> hist.captures + 1]
Granted(h) == [h EXCEPT !.captures = @ + 1]
Granting   == hist.captures < MaxCaptures
Asking(f, k)  == {a \in asks : a.for = f /\ a.kind = k}
Ask(f, k)     == [for |-> f, kind |-> k, n |-> hist.clicks, of |-> send.n]
Working(jobs) == {w \in work : w.job \in jobs}

(* one more click; K: the kinds it overlaps *)
Click(K) ==
  /\ hist.clicks < MaxClicks
  /\ hist' = [hist EXCEPT !.clicks = @ + 1, !.overlapped = @ \cup K]
If(c, S) == IF c THEN S ELSE {}

-----------------------------------------------------------------------------
(* the lobby: useLobbyMedia *)

(* init: either device may be refused; a preview that was left is stopped *)
PreviewGranted(a) ==
  /\ a \in asks /\ a.for = "preview" /\ asks' = asks \ {a}
  /\ \E K \in SUBSET Kinds :
       LET T == {[kind |-> k, id |-> hist.captures + IF k = "mic" THEN 1 ELSE Cardinality(K)] : k \in K}
       IN IF phase = "lobby"
          THEN /\ live' = T /\ lobby' = [lobby EXCEPT !.stream = T, !.listed = TRUE]
               /\ hist' = [hist EXCEPT !.captures = @ + Cardinality(K)]
          ELSE UNCHANGED <<live, lobby, hist>>
  /\ UNCHANGED <<phase, call, send, open, work, share>>

(* setVideoDevice, setAudioDevice *)
SwitchDevice(k) ==
  /\ phase = "lobby" /\ lobby.listed
  /\ Click(If(Asking("switch", k) # {}, {k}))
  /\ asks' = asks \cup {Ask("switch", k)}
  /\ live' = live \ Of(k, lobby.stream)
  /\ lobby' = [lobby EXCEPT !.stream = @ \ Of(k, @), !.enabled = @ \ Of(k, @)]
  /\ UNCHANGED <<phase, call, send, open, work, share>>

(* after stop there is no stream to add the track to *)
SwitchGranted(a) ==
  /\ a \in asks /\ a.for = "switch" /\ Granting /\ asks' = asks \ {a}
  /\ LET t == Fresh(a.kind)
     IN /\ live' = live \cup {t}
        /\ IF lobby.gone
           THEN hist' = [Granted(hist) EXCEPT !.stray = @ \cup {t}] /\ UNCHANGED lobby
           ELSE /\ hist' = Granted(hist)
                /\ lobby' = [lobby EXCEPT !.stream = @ \cup {t},
                              !.enabled = @ \cup If(a.kind \in lobby.on, {t})]
  /\ UNCHANGED <<phase, call, send, open, work, share>>

SwitchRefused(a) ==
  /\ a \in asks /\ a.for = "switch" /\ asks' = asks \ {a}
  /\ lobby' = [lobby EXCEPT !.on = @ \ {a.kind}]
  /\ UNCHANGED <<phase, live, call, send, open, work, share, hist>>

ToggleLobby(k) ==
  LET T == Of(k, lobby.stream) IN
  /\ phase = "lobby" /\ T # {} /\ Click({})
  /\ lobby' = IF First(T) \in lobby.enabled
              THEN [lobby EXCEPT !.enabled = @ \ T, !.on = @ \ {k}]
              ELSE [lobby EXCEPT !.enabled = @ \cup T, !.on = @ \cup {k}]
  /\ UNCHANGED <<phase, live, asks, call, send, open, work, share>>

StoppedInLobby == lobby.stream

(* stop, on Join and whenever the lobby is left, whose state goes with its   *)
(* page; Join hands over what is on                                         *)
LeaveLobby(next) ==
  /\ phase = "lobby" /\ phase' = next
  /\ live' = live \ StoppedInLobby
  /\ lobby' = [stream |-> {}, enabled |-> {}, on |-> {}, listed |-> FALSE, gone |-> TRUE]
  /\ call' = [call EXCEPT !.desired = lobby.on]
  /\ asks' = asks \cup If(next = "call", {Ask("capture", "mic")})
  /\ UNCHANGED <<send, open, work, share, hist>>

-----------------------------------------------------------------------------
(* the call: init of useMediasoup, the microphone first *)

CaptureAnswered(a) ==
  /\ a \in asks /\ a.for = "capture"
  /\ \E T \in {{}} \cup If(Granting, {{Fresh(a.kind)}}) :
       LET S == call.stream \cup T
           more == a.kind = "mic" /\ "cam" \in call.desired
       IN /\ hist' = IF T = {} THEN hist ELSE Granted(hist)
          /\ asks' = (asks \ {a}) \cup If(more, {Ask("capture", "cam")})
          /\ live' = IF phase = "left" /\ ~more THEN live \ S ELSE live \cup T
          /\ call' = IF more THEN [call EXCEPT !.stream = S]
                     ELSE IF phase = "left" THEN [call EXCEPT !.stream = {}]
                     ELSE [call EXCEPT !.stream = S, !.captured = TRUE,
                             !.shown = {k \in call.desired : Of(k, S) # {}}]
  /\ UNCHANGED <<phase, lobby, send, open, work, share>>

Paused(id, b) == {IF p.id = id THEN [p EXCEPT !.paused = b] ELSE p : p \in open}

(* toggleAudio *)
ToggleMic ==
  /\ phase = "call" /\ Click({})
  /\ LET on == "mic" \notin call.desired
     IN /\ call' = [call EXCEPT !.desired = IF on THEN @ \cup {"mic"} ELSE @ \ {"mic"},
             !.shown = IF on /\ call.captured /\ Of("mic", call.stream) # {}
                       THEN @ \cup {"mic"} ELSE @ \ {"mic"}]
        /\ open' = Paused(send.map["mic"], ~on)
  /\ UNCHANGED <<phase, live, asks, lobby, send, work, share>>

CamBusy == Asking("toggle", "cam") # {} \/ {w \in work : w.track.kind = "cam"} # {}

(* toggleVideo, off: the camera is released *)
CameraOff ==
  /\ phase = "call" /\ "cam" \in call.desired
  /\ Click(If(CamBusy \/ ~call.captured, {"cam"}))
  /\ LET T == If(call.captured, Of("cam", call.stream))
     IN /\ live' = live \ T
        /\ call' = [call EXCEPT !.desired = @ \ {"cam"}, !.shown = @ \ {"cam"}, !.stream = @ \ T]
        /\ open' = Paused(send.map["cam"], TRUE)
  /\ UNCHANGED <<phase, asks, lobby, send, work, share>>

(* toggleVideo, on: before the capture it does nothing *)
CameraOn ==
  /\ phase = "call" /\ "cam" \notin call.desired /\ call.captured
  /\ Click(If(CamBusy, {"cam"}))
  /\ call' = [call EXCEPT !.desired = @ \cup {"cam"}]
  /\ asks' = asks \cup {Ask("toggle", "cam")}
  /\ UNCHANGED <<phase, live, lobby, send, open, work, share>>

CameraFails(t) ==
  /\ live' = live \ {t}
  /\ call' = [call EXCEPT !.desired = @ \ {"cam"}, !.shown = @ \ {"cam"}]
  /\ UNCHANGED <<open, send>>

ReplacedNone(t) == {}
ReplacedTracks(t) == Of("cam", call.stream)

(* the track takes the place of the stream's; L: the live tracks *)
CameraAdded(t, L) ==
  /\ live' = L \ ReplacedTracks(t)
  /\ call' = [call EXCEPT !.stream = (@ \ Of("cam", @)) \cup {t}, !.shown = @ \cup {"cam"}]

CameraGranted(a) ==
  LET t == Fresh("cam") IN
  /\ a \in asks /\ a.for = "toggle" /\ Granting /\ asks' = asks \ {a}
  /\ IF "cam" \notin call.desired            \* switched off meanwhile: stopped
     THEN hist' = Granted(hist) /\ UNCHANGED <<live, call, work>>
     ELSE IF send.map["cam"] # 0 \/ send.up
     THEN /\ live' = live \cup {t} /\ hist' = Granted(hist) /\ UNCHANGED call
          /\ work' = work \cup {IF send.map["cam"] # 0
                                THEN [job |-> "replace", track |-> t, of |-> send.map["cam"]]
                                ELSE [job |-> "produce", track |-> t, of |-> send.n]}
     ELSE /\ CameraAdded(t, live \cup {t}) /\ UNCHANGED work
          /\ hist' = [Granted(hist) EXCEPT !.stray = @ \cup If(phase = "left", {t})]
  /\ UNCHANGED <<phase, lobby, send, open, share>>

CameraRefused(a) ==
  /\ a \in asks /\ a.for = "toggle" /\ asks' = asks \ {a}
  /\ call' = [call EXCEPT !.desired = @ \ {"cam"}, !.shown = @ \ {"cam"}]
  /\ UNCHANGED <<phase, live, lobby, send, open, work, share, hist>>

(* produce of job w, of a client that is still on that transport *)
OnTransport(w) == send.up /\ w.of = send.n
NewProducer(w, k, paused) == [kind |-> k, id |-> hist.producers + 1, track |-> w.track, paused |-> paused]
Produced(h) == [h EXCEPT !.producers = @ + 1]

(* replaceTrack or produce comes back: the camera is resumed, whatever was  *)
(* clicked meanwhile                                                        *)
CameraDone(w) ==
  /\ w \in work /\ w.job \in {"replace", "produce"} /\ work' = work \ {w}
  /\ \/ /\ CameraFails(w.track) /\ UNCHANGED hist
     \/ /\ w.job = "replace" /\ \E p \in open : p.id = w.of
        /\ open' = {IF p.id = w.of THEN [p EXCEPT !.track = w.track, !.paused = FALSE] ELSE p : p \in open}
        /\ CameraAdded(w.track, live) /\ UNCHANGED <<send, hist>>
     \/ /\ w.job = "produce" /\ OnTransport(w)
        /\ open' = open \cup {NewProducer(w, "cam", FALSE)}
        /\ send' = [send EXCEPT !.map["cam"] = hist.producers + 1]
        /\ hist' = Produced(hist) /\ CameraAdded(w.track, live)
  /\ UNCHANGED <<phase, asks, lobby, share>>

-----------------------------------------------------------------------------
(* set-ups: runSetup and setupSfu, as far as the local producers go *)

(* closing the transport closes its producers, whose listeners tell the     *)
(* producers map and the share                                              *)
ShareStopped == [producer |-> 0, stream |-> {}, shown |-> FALSE, heard |-> share.heard]
ListeningNever == FALSE
Listening == share.producer # 0 /\ \E p \in open : p.track \in share.heard
CloseSend(at) ==
  /\ send' = [send EXCEPT !.up = FALSE, !.map = NoProducer, !.at = at]
  /\ open' = {}
  /\ share' = IF Listening THEN ShareStopped ELSE share
  /\ live' = live \ If(Listening, share.stream)

(* runSetup; while the socket is down the old transport stays *)
SetupStarts ==
  /\ phase = "call" /\ call.captured /\ send.at = "idle" /\ send.n < MaxSetups
  /\ send' = [send EXCEPT !.at = "waiting", !.map = NoProducer]
  /\ UNCHANGED <<phase, live, asks, lobby, call, open, work, share, hist>>

SetupSignals ==
  /\ send.at = "waiting" /\ phase = "call" /\ CloseSend("signalling")
  /\ UNCHANGED <<phase, asks, lobby, call, work, hist>>

SendTransport ==
  /\ send.at = "signalling" /\ phase = "call"
  /\ send' = [send EXCEPT !.n = @ + 1, !.up = TRUE, !.at = "mic"]
  /\ UNCHANGED <<phase, live, asks, lobby, call, open, work, share, hist>>

NextStep(k) == IF k = "mic" THEN "cam" ELSE "idle"

SetupProduces(k) ==
  /\ send.at = k /\ Working({"setup"}) = {}
  /\ LET T == Of(k, call.stream)
     IN /\ work' = work \cup {[job |-> "setup", track |-> t, of |-> send.n] : t \in If(T # {}, {First(T)})}
        /\ send' = IF T = {} THEN [send EXCEPT !.at = NextStep(k)] ELSE send
        /\ hist' = [hist EXCEPT !.overlapped = @ \cup If(T # {} /\ k = "cam" /\ (CamBusy \/ send.map[k] # 0), {k})]
  /\ UNCHANGED <<phase, live, asks, lobby, call, open, share>>

StartPausedNever(k) == FALSE
StartPaused(k) == k \notin call.desired

SetupProduced(w) ==
  LET k == w.track.kind IN
  /\ w \in work /\ w.job = "setup" /\ OnTransport(w) /\ work' = work \ {w}
  /\ open' = open \cup {NewProducer(w, k, StartPaused(k))}
  /\ send' = [send EXCEPT !.map[k] = hist.producers + 1, !.at = NextStep(k)]
  /\ hist' = Produced(hist)
  /\ call' = [call EXCEPT !.shown = IF k \in call.desired THEN @ \cup {k} ELSE @ \ {k}]
  /\ UNCHANGED <<phase, live, asks, lobby, share>>

(* a call of the set-up fails, or the page was left *)
SetupFails ==
  /\ send.at \notin {"idle", "waiting"} /\ send' = [send EXCEPT !.at = "idle"]
  /\ work' = work \ Working({"setup"})
  /\ UNCHANGED <<phase, live, asks, lobby, call, open, share, hist>>

-----------------------------------------------------------------------------
(* the screen share *)

ShareBusy == Asking("share", "screen") # {} \/ Working({"share", "shareAudio"}) # {}

ShareScreen ==
  /\ phase = "call" /\ ~share.shown /\ share.producer = 0 /\ send.up
  /\ Click(If(ShareBusy, {"screen"}))
  /\ asks' = asks \cup {Ask("share", "screen")}
  /\ UNCHANGED <<phase, live, lobby, call, send, open, work, share>>

ShareGranted(a) ==
  LET t == Fresh("screen") IN
  /\ a \in asks /\ a.for = "share" /\ Granting /\ asks' = asks \ {a}
  /\ live' = live \cup {t} /\ hist' = Granted(hist)
  /\ work' = work \cup {[job |-> "share", track |-> t, of |-> a.of]}
  /\ UNCHANGED <<phase, lobby, call, send, open, share>>

ShareRefused(a) ==
  /\ a \in asks /\ a.for = "share" /\ asks' = asks \ {a}
  /\ UNCHANGED <<phase, live, lobby, call, send, open, work, share, hist>>

(* the video producer; when produce fails the tracks are not stopped *)
ShareProduced(w) ==
  /\ w \in work /\ w.job = "share"
  /\ \/ /\ work' = work \ {w}
        /\ hist' = [hist EXCEPT !.stray = @ \cup {w.track}] /\ UNCHANGED <<open, share>>
     \/ /\ OnTransport(w) /\ w.track \in live
        /\ work' = (work \ {w}) \cup {[w EXCEPT !.job = "shareAudio"]}
        /\ open' = open \cup {NewProducer(w, "screen", FALSE)}
        /\ share' = [share EXCEPT !.producer = hist.producers + 1]
        /\ hist' = Produced(hist)
  /\ UNCHANGED <<phase, live, asks, lobby, call, send>>

(* after the audio producer, or without one: the share is published and     *)
(* listens for its end, even when that came meanwhile                       *)
ShareStarted(w) ==
  /\ w \in work /\ w.job = "shareAudio" /\ work' = work \ {w}
  /\ share' = [share EXCEPT !.stream = {w.track}, !.shown = TRUE, !.heard = @ \cup {w.track}]
  /\ LET ended == w.track \notin live \/ ~OnTransport(w)
     IN hist' = [hist EXCEPT !.overlapped = @ \cup If(ended, {"screen"}),
                             !.stray = @ \cup If(ended, {w.track})]
  /\ UNCHANGED <<phase, live, asks, lobby, call, send, open>>

(* stopScreenShare *)
StopShare(L) ==
  IF share.producer = 0 THEN live' = L /\ UNCHANGED <<share, open>>
  ELSE /\ live' = L \ share.stream
       /\ open' = {p \in open : p.id # share.producer}
       /\ share' = ShareStopped

StopScreenShare ==
  /\ phase = "call" /\ share.shown /\ StopShare(live)
  /\ UNCHANGED <<phase, asks, lobby, call, send, work, hist>>

(* the browser's own stop button *)
ScreenEnded(t) ==
  /\ t \in Of("screen", live)
  /\ IF t \in share.heard THEN StopShare(live \ {t})
     ELSE live' = live \ {t} /\ UNCHANGED <<share, open>>
  /\ UNCHANGED <<phase, asks, lobby, call, send, work, hist>>

-----------------------------------------------------------------------------
(* the cleanup of useMediasoup *)

StoppedOnLeaving == share.stream \cup If(call.captured, call.stream)

LeaveCall ==
  /\ phase = "call" /\ phase' = "left"
  /\ live' = live \ StoppedOnLeaving
  /\ open' = {} /\ send' = [send EXCEPT !.up = FALSE, !.map = NoProducer]
  /\ share' = ShareStopped
  /\ call' = [call EXCEPT !.stream = If(~call.captured, @)]
  /\ UNCHANGED <<asks, lobby, work, hist>>

-----------------------------------------------------------------------------
Answers == \E a \in asks : \/ PreviewGranted(a) \/ SwitchGranted(a) \/ SwitchRefused(a) \/ CaptureAnswered(a)
                             \/ CameraGranted(a) \/ CameraRefused(a) \/ ShareGranted(a) \/ ShareRefused(a)
Done    == \E w \in work : CameraDone(w) \/ SetupProduced(w) \/ ShareProduced(w) \/ ShareStarted(w)
Clicks  == \/ \E k \in Kinds : SwitchDevice(k) \/ ToggleLobby(k)
           \/ ToggleMic \/ CameraOn \/ CameraOff \/ ShareScreen \/ StopScreenShare
           \/ LeaveLobby("call") \/ LeaveLobby("left") \/ LeaveCall
           \/ \E t \in live : ScreenEnded(t)
Setups  == SetupStarts \/ SetupSignals \/ SendTransport \/ SetupFails \/ \E k \in Kinds : SetupProduces(k)

Next == Answers \/ Done \/ Clicks \/ Setups

Spec == Init /\ [][Next]_vars

-----------------------------------------------------------------------------
Held == lobby.stream \cup call.stream \cup share.stream \cup {w.track : w \in work}

(* Every device that captures is held by whoever will stop it: the lobby's *)
(* or the call's stream, the share, or a call under way; except a track    *)
(* that was granted when whoever had asked for it had let go of it, and a  *)
(* share overtaken by another.                                             *)
NoLostCapture ==
  \A t \in live : t \in Held \cup hist.stray \/ (t.kind = "screen" /\ "screen" \in hist.overlapped)

Settled(k) == k \notin hist.overlapped /\ asks = {} /\ work = {} /\ send.at = "idle"

(* What the page shows as on is on, and what it shows as off is off: in    *)
(* the lobby, in the call and for the share, once nothing is under way,    *)
(* unless a click on the same device came in the middle of another.        *)
LobbyIsTrue(k) == k \in lobby.on <=> Of(k, lobby.stream) \cap lobby.enabled # {}
CallIsTrue(k)  == /\ k \in call.shown <=> k \in call.desired /\ Of(k, call.stream) # {}
                  /\ k = "cam" => (k \in call.shown <=> Of(k, live \ hist.stray) # {})
ShareIsTrue    == /\ share.shown <=> share.producer # 0
                  /\ share.shown => share.stream \subseteq live /\ \E p \in open : p.id = share.producer
ShownIsTrue ==
  /\ \A k \in Kinds : Settled(k) => CASE phase = "lobby" -> LobbyIsTrue(k)
                                      [] phase = "call"  -> call.captured => CallIsTrue(k)
                                      [] OTHER -> TRUE
  /\ Settled("screen") /\ phase = "call" => ShareIsTrue

(* Each device has at most one producer, and one that is off is paused:    *)
(* the others hear and see what the participant chose.                     *)
ProducersAsChosen ==
  \A k \in Kinds : Settled(k) /\ phase = "call" =>
    /\ Cardinality(Of(k, open)) <= 1
    /\ \A p \in Of(k, open) : p.id = send.map[k] /\ p.paused = (k \notin call.desired)
=============================================================================
