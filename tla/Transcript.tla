----------------------------- MODULE Transcript -----------------------------
(***************************************************************************)
(* The shared transcript of one room: the store (transcript-manager.ts),   *)
(* the provider session of each contributing socket                        *)
(* (meeting-transcription.ts, deepgram-session.ts), the handlers that      *)
(* start and stop both (handlers.ts), and the copy and the contribution of *)
(* each open call page (RoomPage.tsx).                                     *)
(*                                                                         *)
(* A provider session is started and stopped across awaits: other handlers *)
(* run in between.  Packets of one socket are ordered in each direction    *)
(* and are lost when its other end has gone.                               *)
(***************************************************************************)
EXTENDS Naturals, Sequences, FiniteSets

CONSTANTS
  Tabs,            \* call pages, open throughout
  Sockets, TabOf,  \* connections, each used once, and the page that opens it
  Sessions,        \* provider sessions, each used once
  RefinerEnabled,  \* whether the refiner has a key
  MaxKept,         \* MAX_TRANSCRIPT_ENTRIES
  MaxTurns,        \* a bound: turns of speech that become entries
  MaxControls,     \* a bound: the admins' starts and stops
  MaxToggles,      \* a bound: microphones switched on or off, in all
  MaxRestarts,     \* a bound: server processes that die
  NoSocket, NoSession

ASSUME TranscriptConstants ==
  /\ TabOf \in [Sockets -> Tabs]
  /\ NoSocket \notin Sockets /\ NoSession \notin Sessions
  /\ RefinerEnabled \in BOOLEAN
  /\ MaxKept \in Nat \ {0} /\ MaxTurns \in Nat /\ MaxControls \in Nat
  /\ MaxToggles \in Nat /\ MaxRestarts \in Nat

(* An entry's id is the room's and its sequence number; its text is known   *)
(* by the server process it came from and by whether it was refined.        *)
Ids     == 1..MaxTurns
Absent  == [id |-> 0, era |-> 0, refined |-> FALSE]

VARIABLES
  (* server *)
  active, entries, nextSequence,
  sessions,        \* socket |-> its session in the Map
  stops,           \* transcript-stop handlers: the sessions each still awaits
  refining,        \* entries sent to the refiner
  live,            \* sockets in the room the server holds open
  joined,          \* those that have sent join-room
  met,             \* someone has joined since the process started
  (* providers *)
  stage,           \* session |-> where it is
  owner,           \* session |-> its socket
  stopping,        \* sessions told to stop
  orphans,         \* history: sessions another's failure took from the Map
  refused,         \* history: sockets told that their contribution failed
  (* call pages *)
  opened,          \* sockets used so far
  sock,            \* page |-> the socket it is connected with
  outbox,          \* page |-> packets kept for the next connection
  seen,            \* pages that believe the transcript active
  mic,             \* pages whose microphone is on and may be transcribed
  mirror,          \* page |-> id |-> entry it shows
  (* between them *)
  up, down,
  era, turns, controls, toggles

room      == <<live, joined, met>>
store     == <<active, entries, nextSequence>>
server    == <<store, sessions, stops, refining, room>>
providers == <<stage, owner, stopping, orphans, refused>>
pages     == <<opened, sock, outbox, seen, mic, mirror>>
bounds    == <<era, turns, controls, toggles>>
vars      == <<server, providers, pages, up, down, bounds>>

Init ==
  /\ active = FALSE /\ entries = <<>> /\ nextSequence = 1
  /\ sessions = [s \in Sockets |-> NoSession] /\ stops = {} /\ refining = {}
  /\ live = {} /\ joined = {} /\ met = FALSE
  /\ stage = [x \in Sessions |-> "none"] /\ owner = [x \in Sessions |-> NoSocket]
  /\ stopping = {} /\ orphans = {} /\ refused = {}
  /\ opened = {} /\ sock = [t \in Tabs |-> NoSocket] /\ outbox = [t \in Tabs |-> <<>>]
  /\ seen = {} /\ mic = {}
  /\ mirror = [t \in Tabs |-> [i \in Ids |-> Absent]]
  /\ up = [s \in Sockets |-> <<>>] /\ down = [s \in Sockets |-> <<>>]
  /\ era = 0 /\ turns = 0 /\ controls = 0 /\ toggles = 0

-----------------------------------------------------------------------------
(* Socket.IO *)

Attached(s) == sock[TabOf[s]] = s

Emit(to, m) ==
  [s \in Sockets |-> IF s \in to /\ Attached(s) THEN Append(down[s], m) ELSE down[s]]

Broadcast(m) == Emit(joined, m)

State(on)   == [type |-> "state", active |-> on]
Segment(e)  == [type |-> "segment", entry |-> e]

-----------------------------------------------------------------------------
(* The call page *)

(* The effect on shouldContributeTranscript: a change of its value, and      *)
(* nothing else, sends contributor-start or contributor-stop.               *)
Contributes(t, on, speaking) == t \in on /\ t \in speaking

Contribution(t, on, speaking) ==
  IF Contributes(t, on, speaking) = Contributes(t, seen, mic) THEN <<>>
  ELSE IF Contributes(t, on, speaking) THEN <<[type |-> "start"]>>
  ELSE <<[type |-> "stop"]>>

SetContribution(t, on, speaking) ==
  LET p == Contribution(t, on, speaking)
  IN  IF sock[t] = NoSocket
      THEN outbox' = [outbox EXCEPT ![t] = @ \o p] /\ UNCHANGED up
      ELSE up' = [up EXCEPT ![sock[t]] = @ \o p] /\ UNCHANGED outbox

ToggleMic(t) ==
  /\ toggles < MaxToggles /\ toggles' = toggles + 1
  /\ mic' = IF t \in mic THEN mic \ {t} ELSE mic \cup {t}
  /\ SetContribution(t, seen, mic')
  /\ UNCHANGED <<server, providers, opened, sock, seen, mirror, down,
                 era, turns, controls>>

(* what was kept goes first, then the connect listener's join-room *)
Connect(t, s) ==
  /\ sock[t] = NoSocket /\ s \notin opened /\ TabOf[s] = t
  /\ opened' = opened \cup {s}
  /\ live' = live \cup {s}
  /\ sock' = [sock EXCEPT ![t] = s]
  /\ up' = [up EXCEPT ![s] = Append(outbox[t], [type |-> "join"])]
  /\ outbox' = [outbox EXCEPT ![t] = <<>>]
  /\ UNCHANGED <<store, sessions, stops, refining, joined, met, providers, seen, mic,
                 mirror, down, bounds>>

LoseConnection(t) ==
  /\ sock[t] # NoSocket
  /\ sock' = [sock EXCEPT ![t] = NoSocket]
  /\ down' = [down EXCEPT ![sock[t]] = <<>>]
  /\ UNCHANGED <<server, providers, opened, outbox, seen, mic, mirror, up, bounds>>

(* mergeTranscriptEntries: what arrives replaces what has its id *)
MergeKeepsFirst(shown, list) ==
  [i \in Ids |-> LET new == {e \in list : e.id = i}
                 IN  IF new = {} \/ shown[i] # Absent THEN shown[i] ELSE CHOOSE e \in new : TRUE]
Merge(shown, list) ==
  [i \in Ids |-> LET new == {e \in list : e.id = i}
                 IN  IF new = {} THEN shown[i] ELSE CHOOSE e \in new : TRUE]

Receive(t) ==
  /\ sock[t] # NoSocket /\ down[sock[t]] # <<>>
  /\ down' = [down EXCEPT ![sock[t]] = Tail(@)]
  /\ LET m == Head(down[sock[t]])
     IN  /\ seen' = IF m.type \notin {"state", "snapshot"} THEN seen
                    ELSE IF m.active THEN seen \cup {t} ELSE seen \ {t}
         /\ mirror' = IF m.type = "segment" THEN [mirror EXCEPT ![t] = Merge(@, {m.entry})]
                      ELSE IF m.type = "snapshot" THEN [mirror EXCEPT ![t] = Merge(@, m.list)]
                      ELSE mirror
  /\ SetContribution(t, seen', mic)
  /\ UNCHANGED <<server, providers, opened, sock, mic, bounds>>

-----------------------------------------------------------------------------
(* transcript-manager.ts *)

AppendSegment(e) ==
  LET all == Append(entries, e)
  IN  entries' = IF Len(all) > MaxKept THEN Tail(all) ELSE all

Revised(r) == [i \in DOMAIN entries |-> IF entries[i].id = r.id THEN r ELSE entries[i]]

Activate   == active' = TRUE  /\ down' = Broadcast(State(TRUE))
Deactivate == active' = FALSE /\ down' = Broadcast(State(FALSE))

(* transcript-start, once the database has answered: the admin who sent it   *)
(* was in the room then and may have left since                             *)
StartTranscript ==
  /\ controls < MaxControls /\ controls' = controls + 1 /\ met
  /\ Activate
  /\ UNCHANGED <<entries, nextSequence, sessions, stops, refining, room, providers,
                 pages, up, era, turns, toggles>>

(* join-room's part in the transcript *)
Arrived(s, type) == s \in live /\ up[s] # <<>> /\ Head(up[s]).type = type
Handled(s) == up' = [up EXCEPT ![s] = Tail(@)]

Snapshot == [type |-> "snapshot", active |-> active, list |-> {entries[i] : i \in DOMAIN entries}]

JoinRoom(s) ==
  /\ Arrived(s, "join") /\ Handled(s)
  /\ joined' = joined \cup {s} /\ met' = TRUE
  /\ down' = Emit({s}, Snapshot)
  /\ UNCHANGED <<store, sessions, stops, refining, live, providers, pages, bounds>>

-----------------------------------------------------------------------------
(* meeting-transcription.ts and deepgram-session.ts *)

Unused == {x \in Sessions : stage[x] = "none"}

RefuseContributor(s) ==
  /\ Arrived(s, "start") /\ Handled(s)
  /\ s \notin joined \/ ~active
  /\ refused' = refused \cup {s}
  /\ UNCHANGED <<server, stage, owner, stopping, orphans, pages, down, bounds>>

(* a start that finds a session is answered with ok *)
StartContributor(s) ==
  /\ Arrived(s, "start") /\ Handled(s)
  /\ s \in joined /\ active /\ Unused # {}
  /\ LET x == CHOOSE x \in Unused : TRUE
     IN  IF sessions[s] # NoSession
         THEN UNCHANGED <<sessions, stage, owner>>
         ELSE /\ sessions' = [sessions EXCEPT ![s] = x]
              /\ stage' = [stage EXCEPT ![x] = "connecting"]
              /\ owner' = [owner EXCEPT ![x] = s]
  /\ UNCHANGED <<store, stops, refining, room, stopping, orphans, refused, pages, down, bounds>>

(* this.stopping is not tested after the await *)
ProviderAnsweredUnchecked(x) ==
  /\ stage[x] = "connecting"
  /\ stage' = [stage EXCEPT ![x] = "opening"]
  /\ UNCHANGED <<server, owner, stopping, orphans, refused, pages, up, down, bounds>>

(* the provider answers: a session told to stop meanwhile closes at once *)
ProviderAnswered(x) ==
  /\ stage[x] = "connecting"
  /\ stage' = [stage EXCEPT ![x] = IF x \in stopping THEN "closed" ELSE "opening"]
  /\ UNCHANGED <<server, owner, stopping, orphans, refused, pages, up, down, bounds>>

(* ... or refuses: startContributor removes whatever the socket has now *)
ProviderRefused(x) ==
  /\ stage[x] = "connecting"
  /\ stage' = [stage EXCEPT ![x] = "closed"]
  /\ sessions' = [sessions EXCEPT ![owner[x]] = NoSession]
  /\ orphans' = orphans \cup ({sessions[owner[x]]} \ {x, NoSession})
  /\ refused' = refused \cup {owner[x]}
  /\ UNCHANGED <<store, stops, refining, room, owner, stopping, pages, up, down, bounds>>

(* an open connection may close by itself, and open again *)
ProviderOpened(x) ==
  /\ stage[x] = "opening"
  /\ stage' = [stage EXCEPT ![x] = "open"]
  /\ UNCHANGED <<server, owner, stopping, orphans, refused, pages, up, down, bounds>>

ProviderClosed(x) ==
  /\ stage[x] = "open"
  /\ stage' = [stage EXCEPT ![x] = "opening"]
  /\ UNCHANGED <<server, owner, stopping, orphans, refused, pages, up, down, bounds>>

(* startContributor's onFinal: the entry is refined if there is a refiner *)
OnFinal ==
  /\ LET e == [id |-> nextSequence, era |-> era, refined |-> FALSE]
     IN  /\ AppendSegment(e)
         /\ down' = Broadcast(Segment(e))
         /\ refining' = IF RefinerEnabled THEN refining \cup {e} ELSE refining
  /\ nextSequence' = nextSequence + 1
  /\ UNCHANGED <<active, sessions, stops, room, providers, pages, up,
                 era, controls, toggles>>

(* handleTranscript: a turn is complete; those of a stopping session count *)
TurnHeard(x) ==
  /\ stage[x] \in {"open", "flushing"} /\ active
  /\ turns < MaxTurns /\ turns' = turns + 1
  /\ OnFinal

(* refine always answers: with Groq's text, with the merge of both, or with  *)
(* the first text when either request fails or takes too long               *)
Refine(e) == [e EXCEPT !.refined = TRUE]

(* its answers come in any order; an entry shifted out is not revised *)
Refined(e) ==
  /\ refining' = refining \ {e}
  /\ LET r == Refine(e)
     IN  IF \E i \in DOMAIN entries : entries[i].id = e.id
         THEN entries' = Revised(r) /\ down' = Broadcast(Segment(r))
         ELSE UNCHANGED <<entries, down>>
  /\ UNCHANGED <<active, nextSequence, sessions, stops, room, providers, pages, up, bounds>>

(* DeepgramMeetingSession.stop: an open session is given time to flush, one  *)
(* that still connects closes when the provider answers                     *)
StoppedStage(x) ==
  CASE stage[x] = "open"       -> "flushing"
    [] stage[x] = "connecting" -> "connecting"
    [] OTHER                   -> "closed"

StopSessionsForgotten(ss) ==
  /\ sessions' = [s \in Sockets |-> IF sessions[s] \in ss THEN NoSession ELSE sessions[s]]
  /\ UNCHANGED <<stopping, stage>>
StopSessions(ss) ==
  /\ sessions' = [s \in Sockets |-> IF sessions[s] \in ss THEN NoSession ELSE sessions[s]]
  /\ stopping' = stopping \cup ss
  /\ stage' = [x \in Sessions |-> IF x \in ss THEN StoppedStage(x) ELSE stage[x]]

(* transcript-stop, once the database has answered: it waits for the         *)
(* sessions in the Map, then the transcript is stopped                      *)
StopTranscript ==
  /\ controls < MaxControls /\ controls' = controls + 1 /\ met
  /\ LET ss   == {sessions[s] : s \in Sockets} \ {NoSession}
         wait == {x \in ss : stage[x] = "open"}
     IN  /\ StopSessions(ss)
         /\ IF wait = {}
            THEN Deactivate /\ UNCHANGED stops
            ELSE stops' = stops \cup {wait} /\ UNCHANGED <<active, down>>
  /\ UNCHANGED <<entries, nextSequence, refining, room, owner, orphans, refused, pages, up,
                 era, turns, toggles>>

Flushed(x) ==
  /\ stage[x] = "flushing"
  /\ stage' = [stage EXCEPT ![x] = "closed"]
  /\ stops' = {w \ {x} : w \in stops} \ {{}}
  /\ IF {x} \in stops THEN Deactivate ELSE UNCHANGED <<active, down>>
  /\ UNCHANGED <<entries, nextSequence, sessions, refining, room, owner, stopping,
                 orphans, refused, pages, up, bounds>>

StopContributor(s) ==
  /\ Arrived(s, "stop") /\ Handled(s)
  /\ StopSessions({sessions[s]} \ {NoSession})
  /\ UNCHANGED <<store, stops, refining, room, owner, orphans, refused, pages, down, bounds>>

Disconnect(s) ==
  /\ s \in live
  /\ live' = live \ {s} /\ joined' = joined \ {s}
  /\ up' = [up EXCEPT ![s] = <<>>]
  /\ StopSessions({sessions[s]} \ {NoSession})
  /\ UNCHANGED <<store, stops, refining, met, owner, orphans, refused, pages, down, bounds>>

(* the server process dies and another starts; nothing is persisted *)
Restart ==
  /\ era < MaxRestarts /\ era' = era + 1
  /\ active' = FALSE /\ entries' = <<>> /\ nextSequence' = 1
  /\ sessions' = [s \in Sockets |-> NoSession] /\ stops' = {} /\ refining' = {}
  /\ live' = {} /\ joined' = {} /\ met' = FALSE /\ up' = [s \in Sockets |-> <<>>]
  /\ stage' = [x \in Sessions |-> IF stage[x] = "none" THEN "none" ELSE "closed"]
  /\ UNCHANGED <<owner, stopping, orphans, refused, pages, down, turns, controls, toggles>>

-----------------------------------------------------------------------------
Page(t) ==
  \/ ToggleMic(t) \/ LoseConnection(t) \/ Receive(t)
  \/ \E s \in Sockets : Connect(t, s)

Handler(s) == JoinRoom(s) \/ RefuseContributor(s) \/ StartContributor(s) \/ StopContributor(s)

Provider(x) ==
  ProviderAnswered(x) \/ ProviderRefused(x) \/ ProviderOpened(x) \/ ProviderClosed(x)

Next ==
  \/ \E t \in Tabs : Page(t)
  \/ \E s \in Sockets : Handler(s) \/ Disconnect(s)
  \/ \E x \in Sessions : Provider(x) \/ TurnHeard(x) \/ Flushed(x)
  \/ \E e \in refining : Refined(e)
  \/ StartTranscript \/ StopTranscript \/ Restart
  \/ (\A s \in Sockets : ~Attached(s)) /\ UNCHANGED vars

Spec == Init /\ [][Next]_vars

-----------------------------------------------------------------------------
Connected(t) == sock[t] \in joined /\ up[sock[t]] = <<>> /\ down[sock[t]] = <<>>

(* transcript-manager.ts:34-36, "Every client receives entries from this     *)
(* store": a page with nothing on its way shows every entry the store keeps, *)
(* in its latest wording, and knows whether the transcript is active,        *)
(* however snapshots, segments, revisions, reconnects and restarts mix.      *)
MirrorsFollowStore ==
  \A t \in Tabs : Connected(t) =>
    /\ \A i \in DOMAIN entries : mirror[t][entries[i].id] = entries[i]
    /\ t \in seen <=> active

(* A session that runs and was not told to stop is its socket's, so stop,    *)
(* disconnect and the end of the transcript reach it, and the socket is      *)
(* open; the exception is one whose place in the Map a predecessor's late    *)
(* failure cleared (meeting-transcription.ts:67).                            *)
SessionsReachable ==
  /\ \A x \in Sessions \ (stopping \cup orphans) :
       stage[x] \in {"connecting", "opening", "open"} => sessions[owner[x]] = x
  /\ \A s \in Sockets : sessions[s] # NoSession => s \in joined

Quiet ==
  /\ \A s \in Sockets : up[s] = <<>> /\ down[s] = <<>> /\ (s \in live <=> Attached(s))
  /\ \A x \in Sessions : stage[x] \notin {"connecting", "flushing"}

(* Providers are paid by the minute: when the transcript is stopped and      *)
(* nothing is on its way any more, every session has ended, also one that    *)
(* was told to stop before it had connected or that started while a          *)
(* transcript-stop awaited the flush of the others.                          *)
StoppedMeansIdle ==
  Quiet /\ ~active => \A x \in Sessions \ orphans : stage[x] \in {"none", "closed"}
=============================================================================
