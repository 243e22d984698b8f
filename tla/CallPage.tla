------------------------------ MODULE CallPage ------------------------------
(***************************************************************************)
(* One participant's call page (RoomPage.tsx): the right rail, the unread  *)
(* badge, the composer, the microphone button, the consent to transcribe;  *)
(* and what it exchanges with the server (handlers.ts, sfu-handlers.ts).   *)
(*                                                                         *)
(* A socket listener queues updates of React's state and reads, of what it *)
(* closed over and of the refs, the state as it was last rendered: several *)
(* events can be handled before a render.  A click is rendered at once,    *)
(* with everything queued.  Packets are in order in each direction.        *)
(***************************************************************************)
EXTENDS Naturals, Sequences

CONSTANTS
  MaxActs,     \* a bound: what the participant and the others do
  MaxHosts     \* a bound: the host's mutes among that

ASSUME CallPageConstants == MaxActs \in Nat /\ MaxHosts \in Nat

Panels == {"none", "chat", "people", "transcript"}

VARIABLES
  page,      \* the state, with every queued update
  seen,      \* the state as last rendered: closures and refs
  wanted,    \* desiredAudioOnRef
  starting,  \* pendingTranscriptStartRef
  toServer, toPage,
  room,      \* the server: the microphone's producer, the transcript, who is host
  work,      \* what the server's handlers await
  talk       \* history and bounds

pageVars == <<page, seen, wanted, starting, toServer, toPage, room, work, talk>>

PageInit ==
  /\ \E on, consent, host, running \in BOOLEAN :
       /\ page = [panel |-> "none", unread |-> 0, audio |-> on, prompt |-> FALSE,
                  active |-> FALSE, consent |-> consent, dialog |-> FALSE,
                  input |-> 0, sending |-> 0, error |-> FALSE]
       /\ wanted = on
       /\ room = [paused |-> ~on, active |-> running, host |-> host]
       /\ toPage = IF running THEN <<[type |-> "snapshot"]>> ELSE <<>>
  /\ seen = page /\ starting = FALSE /\ toServer = <<>>
  /\ work = [reads |-> 0, worker |-> <<>>, refused |-> FALSE, scribes |-> [on \in BOOLEAN |-> 0]]
  /\ talk = [clicks |-> 0, events |-> 0, mutes |-> 0, typed |-> 0, sent |-> <<>>,
             unseen |-> 0, missed |-> 0, delivered |-> {}, failed |-> {}, asked |-> FALSE]

(* talk: drafts typed so far; the draft of each message sent, and which of   *)
(* the messages were delivered and which reported to have failed; messages   *)
(* of others since the chat was closed, and those that came between its      *)
(* being taken away and the render; whether the participant asked for a      *)
(* transcript and still wants it.                                            *)
(* work: host mutes whose room is being read; what the worker was asked;     *)
(* whether the participant's last flip of the microphone to be handled was   *)
(* refused, which toggleAudio swallows; starts and stops of a transcript     *)
(* whose room is being read                                                  *)

-----------------------------------------------------------------------------
(* what the participant does; the dialog that asks for consent is modal *)

Act == talk.clicks + talk.events < MaxActs
Clicked(p) ==
  /\ Act
  /\ page' = p /\ seen' = p
Counted(h) == [h EXCEPT !.clicks = @ + 1]
ByClick == talk' = Counted(talk)
Says(m) == toServer' = Append(toServer, m)
Silent == UNCHANGED toServer

ChatOpened(h) == [h EXCEPT !.unseen = 0, !.missed = 0]
OpenedKeepsBadge(p) == [p EXCEPT !.panel = "chat"]
Opened(p) == [p EXCEPT !.panel = "chat", !.unread = 0]

(* handleToggleChat, openChat (a preview of a message was clicked) *)
OpenChat ==
  /\ Clicked(Opened(page)) /\ talk' = Counted(ChatOpened(talk))
  /\ Silent /\ UNCHANGED <<wanted, starting, toPage, room, work>>

(* handleTogglePeople, onClose, and the other button of the open panel *)
SwitchPanel(panel) ==
  /\ panel \in {"none", "people"} /\ page.panel # panel
  /\ Clicked([page EXCEPT !.panel = panel]) /\ ByClick
  /\ Silent /\ UNCHANGED <<wanted, starting, toPage, room, work>>

Type ==
  /\ seen.panel = "chat"
  /\ Clicked([page EXCEPT !.input = talk.typed + 1, !.error = FALSE])
  /\ talk' = Counted([talk EXCEPT !.typed = @ + 1])
  /\ Silent /\ UNCHANGED <<wanted, starting, toPage, room, work>>

(* sendMessage; sending is the number of the message an answer is awaited   *)
(* for, chatSendPending                                                     *)
MaySend == seen.panel = "chat" /\ seen.input # 0 /\ seen.sending = 0
Send ==
  /\ MaySend
  /\ Clicked([page EXCEPT !.sending = Len(talk.sent) + 1])
  /\ talk' = Counted([talk EXCEPT !.sent = Append(@, seen.input)])
  /\ Says([type |-> "chat", draft |-> seen.input, n |-> Len(talk.sent) + 1])
  /\ UNCHANGED <<wanted, starting, toPage, room, work>>

(* toggleAudio, of page p *)
Flipped(p) == [p EXCEPT !.audio = ~wanted]
FlipMic ==
  /\ wanted' = ~wanted
  /\ Says([type |-> IF wanted THEN "pause" ELSE "resume"])

ToggleMic ==
  /\ Clicked(Flipped(page)) /\ ByClick /\ FlipMic
  /\ UNCHANGED <<starting, toPage, room, work>>

(* the button of the prompt to unmute *)
AnswerPrompt ==
  /\ seen.prompt
  /\ IF seen.audio
     THEN Clicked([page EXCEPT !.prompt = FALSE]) /\ Silent /\ UNCHANGED wanted
     ELSE Clicked([Flipped(page) EXCEPT !.prompt = FALSE]) /\ FlipMic
  /\ ByClick /\ UNCHANGED <<starting, toPage, room, work>>

DismissPrompt ==
  /\ seen.prompt
  /\ Clicked([page EXCEPT !.prompt = FALSE]) /\ ByClick
  /\ Silent /\ UNCHANGED <<wanted, starting, toPage, room, work>>

StartRequest == [type |-> "start", asked |-> talk.asked]

(* handleToggleTranscript: the panel of a transcript that is active or has  *)
(* entries, the host's start, or the question first                         *)
ToggleTranscript ==
  /\ \E entries \in BOOLEAN :
     IF seen.active \/ entries
     THEN /\ Clicked([page EXCEPT !.panel = IF @ = "transcript" THEN "none" ELSE "transcript",
                       !.dialog = @ \/ ~seen.consent])
          /\ ByClick /\ Silent /\ UNCHANGED starting
     ELSE /\ room.host
          /\ talk' = Counted([talk EXCEPT !.asked = TRUE])
          /\ Clicked([page EXCEPT !.dialog = @ \/ ~seen.consent])
          /\ starting' = (starting \/ ~seen.consent)
          /\ IF seen.consent THEN Says([type |-> "start", asked |-> TRUE]) ELSE Silent
  /\ UNCHANGED <<wanted, toPage, room, work>>

(* the panel of a transcript this participant does not contribute to *)
EnableContribution ==
  /\ seen.active /\ seen.panel = "transcript" /\ ~seen.consent
  /\ Clicked([page EXCEPT !.dialog = TRUE]) /\ ByClick
  /\ Silent /\ UNCHANGED <<wanted, starting, toPage, room, work>>

Accept ==
  /\ seen.dialog
  /\ Clicked([page EXCEPT !.consent = TRUE, !.dialog = FALSE]) /\ ByClick
  /\ IF starting THEN Says(StartRequest) ELSE Silent
  /\ starting' = FALSE
  /\ UNCHANGED <<wanted, toPage, room, work>>

StartKept == starting
StartAfterDecline == FALSE
Decline ==
  /\ seen.dialog
  /\ Clicked([page EXCEPT !.dialog = FALSE])
  /\ talk' = Counted([talk EXCEPT !.asked = FALSE])
  /\ starting' = StartAfterDecline
  /\ Silent /\ UNCHANGED <<wanted, toPage, room, work>>

StopTranscript ==
  /\ room.host /\ seen.active /\ seen.panel = "transcript"
  /\ Clicked(page) /\ Says([type |-> "stop"])
  /\ talk' = Counted([talk EXCEPT !.asked = FALSE])
  /\ UNCHANGED <<wanted, starting, toPage, room, work>>

Participant ==
  \/ /\ ~seen.dialog
     /\ \/ OpenChat \/ \E panel \in Panels : SwitchPanel(panel)
        \/ Type \/ Send \/ ToggleMic \/ AnswerPrompt \/ DismissPrompt
        \/ ToggleTranscript \/ EnableContribution \/ StopTranscript
  \/ Accept \/ Decline

-----------------------------------------------------------------------------
(* what the page's listeners do, and React *)

Render ==
  /\ seen # page /\ seen' = page
  /\ UNCHANGED <<page, wanted, starting, toServer, toPage, room, work, talk>>

Heard == toPage' = Tail(toPage) /\ UNCHANGED <<seen, starting, room, work>>
Is(type) == toPage # <<>> /\ Head(toPage).type = type
NoMic == UNCHANGED <<wanted, toServer>>

(* the chat-message listener reads showChatRef *)
HearChat ==
  LET other == ~Head(toPage).own
      badge == other /\ seen.panel # "chat"
      closed == other /\ page.panel # "chat"
  IN /\ Is("chat") /\ Heard /\ NoMic
     /\ page' = IF badge THEN [page EXCEPT !.unread = @ + 1] ELSE page
     /\ talk' = [talk EXCEPT !.unseen = IF closed THEN @ + 1 ELSE @,
                             !.missed = IF closed /\ ~badge THEN @ + 1 ELSE @]

(* the transcript-snapshot listener, told on joining of one that is active   *)
HearSnapshot ==
  /\ Is("snapshot") /\ Heard /\ NoMic
  /\ page' = [page EXCEPT !.active = TRUE, !.dialog = @ \/ ~page.consent]
  /\ UNCHANGED talk

(* the transcript-state listener takes the rail and asks for consent *)
HearState ==
  /\ Is("state") /\ Heard /\ NoMic
  /\ page' = IF Head(toPage).active
             THEN [page EXCEPT !.active = TRUE, !.panel = "transcript",
                    !.dialog = @ \/ ~page.consent]
             ELSE [page EXCEPT !.active = FALSE]
  /\ UNCHANGED talk

(* the answer to transcript-start *)
HearStarted ==
  /\ Is("started") /\ Heard /\ NoMic
  /\ page' = IF Head(toPage).ok THEN [page EXCEPT !.panel = "transcript"] ELSE page
  /\ UNCHANGED talk

HearMutedShown ==
  /\ Is("muted") /\ Heard /\ NoMic
  /\ page' = [page EXCEPT !.audio = FALSE]
  /\ UNCHANGED talk

(* onForceMuted, as registered at the last render *)
HearMuted ==
  /\ Is("muted") /\ Heard
  /\ IF seen.audio THEN page' = Flipped(page) /\ FlipMic ELSE UNCHANGED page /\ NoMic
  /\ UNCHANGED talk

HearUnmuteRequest ==
  /\ Is("unmute") /\ Heard /\ NoMic
  /\ page' = [page EXCEPT !.prompt = TRUE]
  /\ UNCHANGED talk

(* the answer to chat-message; one that comes after eight seconds is dropped *)
Cleared(p, draft) == [p EXCEPT !.input = IF @ = draft THEN 0 ELSE @, !.error = FALSE]
HearSent ==
  /\ Is("sent") /\ Heard /\ NoMic
  /\ LET m == Head(toPage)
         awaited == page.sending = m.n
         done == [page EXCEPT !.sending = 0]
     IN /\ page' = IF ~awaited THEN page
                   ELSE IF m.ok THEN Cleared(done, m.draft) ELSE [done EXCEPT !.error = TRUE]
        /\ talk' = IF awaited /\ ~m.ok THEN [talk EXCEPT !.failed = @ \cup {m.n}] ELSE talk

SendTimesOut ==
  /\ page.sending # 0
  /\ page' = [page EXCEPT !.sending = 0, !.error = TRUE]
  /\ talk' = [talk EXCEPT !.failed = @ \cup {page.sending}]
  /\ UNCHANGED <<seen, wanted, starting, toServer, toPage, room, work>>

Listeners ==
  \/ Render \/ HearChat \/ HearSnapshot \/ HearState \/ HearStarted \/ HearMuted \/ HearUnmuteRequest
  \/ HearSent \/ SendTimesOut

-----------------------------------------------------------------------------
(* the server, and the others *)

Emits(ms) == toPage' = toPage \o ms
PageStays == UNCHANGED <<page, seen, wanted, starting>>
State(on) == [type |-> "state", active |-> on]

ServeChat(m) ==
  /\ \/ /\ Emits(<<[type |-> "chat", own |-> TRUE],
                   [type |-> "sent", n |-> m.n, draft |-> m.draft, ok |-> TRUE]>>)
        /\ talk' = [talk EXCEPT !.delivered = @ \cup {m.n}]
     \/ /\ Emits(<<[type |-> "sent", n |-> m.n, draft |-> m.draft, ok |-> FALSE]>>)
        /\ UNCHANGED talk
  /\ UNCHANGED <<room, work>>

(* transcript-start, transcript-stop: the room is read, and the contributors *)
(* of one that ends are stopped                                              *)
ServeTranscript(on) ==
  /\ work' = [work EXCEPT !.scribes[on] = @ + 1]
  /\ UNCHANGED <<toPage, room, talk>>

TranscriptRead(on) ==
  /\ work.scribes[on] > 0
  /\ work' = [work EXCEPT !.scribes[on] = @ - 1]
  /\ \/ room' = [room EXCEPT !.active = on]
        /\ Emits(<<State(on)>> \o (IF on THEN <<[type |-> "started", ok |-> TRUE]>> ELSE <<>>))
     \/ UNCHANGED room /\ Emits(IF on THEN <<[type |-> "started", ok |-> FALSE]>> ELSE <<>>)
  /\ PageStays /\ UNCHANGED <<toServer, talk>>

(* sfu-pause-producer, sfu-resume-producer: asked of the worker, or refused *)
Asks(op) ==
  work' = [work EXCEPT !.worker = Append(@, [op |-> op, forced |-> FALSE]), !.refused = FALSE]
Refuses == work' = [work EXCEPT !.refused = TRUE]

Serve ==
  LET m == Head(toServer) IN
  /\ toServer # <<>> /\ toServer' = Tail(toServer) /\ PageStays
  /\ \/ m.type = "chat" /\ ServeChat(m)
     \/ m.type = "start" /\ ServeTranscript(TRUE)
     \/ m.type = "stop" /\ ServeTranscript(FALSE)
     \/ /\ m.type \in {"pause", "resume"} /\ (Asks(m.type) \/ Refuses)
        /\ UNCHANGED <<toPage, room, talk>>

(* pauseMic: the room was read, then the worker is asked *)
HostMuteRead ==
  /\ work.reads > 0 /\ PageStays
  /\ work' = [work EXCEPT !.reads = @ - 1,
                !.worker = @ \o (IF room.paused THEN <<>> ELSE <<[op |-> "pause", forced |-> TRUE]>>)]
  /\ UNCHANGED <<toServer, toPage, room, talk>>

(* the worker answers: the target of a host is told *)
WorkerAnswers ==
  LET w == Head(work.worker) IN
  /\ work.worker # <<>> /\ PageStays
  /\ work' = [work EXCEPT !.worker = Tail(@)]
  /\ room' = [room EXCEPT !.paused = w.op = "pause"]
  /\ Emits(IF w.forced THEN <<[type |-> "muted"]>> ELSE <<>>)
  /\ UNCHANGED <<toServer, talk>>

OtherSpeaks ==
  /\ Act /\ talk' = [talk EXCEPT !.events = @ + 1]
  /\ Emits(<<[type |-> "chat", own |-> FALSE]>>)
  /\ PageStays /\ UNCHANGED <<toServer, room, work>>

(* the admin, or the admin's other tab *)
OtherScribes ==
  /\ Act /\ talk' = [talk EXCEPT !.events = @ + 1]
  /\ room' = [room EXCEPT !.active = ~@] /\ Emits(<<State(~room.active)>>)
  /\ PageStays /\ UNCHANGED <<toServer, work>>

HostMutes ==
  /\ Act /\ talk.mutes < MaxHosts
  /\ talk' = [talk EXCEPT !.events = @ + 1, !.mutes = @ + 1]
  /\ work' = [work EXCEPT !.reads = @ + 1]
  /\ PageStays /\ UNCHANGED <<toServer, toPage, room>>

HostAsksToUnmute ==
  /\ Act /\ talk' = [talk EXCEPT !.events = @ + 1]
  /\ Emits(<<[type |-> "unmute"]>>)
  /\ PageStays /\ UNCHANGED <<toServer, room, work>>

Server == Serve \/ (\E on \in BOOLEAN : TranscriptRead(on)) \/ HostMuteRead \/ WorkerAnswers
Others == OtherSpeaks \/ OtherScribes \/ HostMutes \/ HostAsksToUnmute

PageNext == Participant \/ Listeners \/ Server \/ Others

-----------------------------------------------------------------------------

Quiet == toServer = <<>> /\ toPage = <<>> /\ work.reads = 0 /\ work.worker = <<>>

(* When nothing is under way for the microphone the server has its         *)
(* producer paused exactly if the page shows it off, in whatever order the *)
(* participant's clicks, a host's mutes and the renders in between came,   *)
(* unless the last flip was refused (RoomPage.tsx:448-452,                 *)
(* useMediasoup.ts:197-216, sfu-handlers.ts:330-366, 470-479).             *)
MuteAgrees ==
  Quiet => (work.refused \/ room.paused = ~page.audio) /\ wanted = page.audio

(* The badge counts every message of another participant since the chat    *)
(* was closed, except those handled after a transcript took the rail over  *)
(* and before that was rendered (RoomPage.tsx:353-375, 469-479).           *)
BadgeIsTrue ==
  IF page.panel = "chat" THEN page.unread = 0 ELSE page.unread + talk.missed = talk.unseen

Reached(draft) == \E n \in talk.delivered : talk.sent[n] = draft

(* A draft leaves the composer only when it has been delivered, and it is  *)
(* delivered again only if its earlier sending was reported to have failed *)
(* (RoomPage.tsx:481-499).                                                 *)
DraftsAreSentOnce ==
  /\ page.input # talk.typed => page.input = 0 /\ Reached(talk.typed)
  /\ \A m, n \in talk.delivered : m < n /\ talk.sent[m] = talk.sent[n] => m \in talk.failed

(* What the composer and the badge say of the chat is true.                *)
ChatIsHonest == BadgeIsTrue /\ DraftsAreSentOnce

(* A transcript is started by this page only for a participant who asked   *)
(* for it and did not take it back, however the question of consent was    *)
(* opened, answered or opened again by others (RoomPage.tsx:376-400,       *)
(* 512-546).                                                               *)
StartsAreWanted ==
  \A i \in DOMAIN toServer : toServer[i].type = "start" => toServer[i].asked

(* "Unmute is never forced" (sfu-handlers.ts:440): the microphone goes on  *)
(* by a click of its owner only.                                           *)
UnmuteIsNeverForced ==
  [][~wanted /\ wanted' => talk'.clicks > talk.clicks]_pageVars

=============================================================================
