# Formal models of A-Meet

A-Meet is a video-meeting application: a Node server (Express, Socket.IO, mediasoup, MongoDB), a React client
(mediasoup-client), a Discord bot and shared contracts. This directory holds TLA+ models of the parts whose
correctness depends on the order of events, the TLC configurations that check them on small instances, and TLAPS
proofs of the properties that matter most for every size of the system.

## 1. The system

| Component | Code | State it keeps | Operations |
|---|---|---|---|
| Presence | `server/src/socket/handlers.ts`, `room-manager.ts`; `client/src/pages/RoomPage.tsx` | room → sockets, socket → room, leave timers; the participant list of each tab | join-room, leave-room, disconnect, leave timer; connect, lose connection, leave, close, the three listeners |
| SFU signalling | `server/src/socket/sfu-handlers.ts`, `server/src/sfu/sfu-rooms.ts`, `config.ts` | room → router and peers; each peer's transports, producers, consumers | ask for capabilities (join), create/connect transport, produce, consume, pause/resume/close, host moderation, relayed acts, end meeting, disconnect |
| Client media set-up | `client/src/hooks/useMediasoup.ts`, `services/mediasoup-signal.ts`, `utils/pending-producers.ts` | device, transports, producers, consumers, retry timer, set-up phase | set up, retry, manual retry, reconnect, consume, close |
| Lobby and devices | `client/src/hooks/useLobbyMedia.ts`, `pages/LobbyPage.tsx`, `hooks/useMediasoup.ts` | captured tracks and who holds them, what is shown as on | preview, switch device, toggle, join, share a screen, leave |
| Call page | `client/src/pages/RoomPage.tsx`, `hooks/useRoomLayout.ts`, `useScreenShare.ts`, `useHostModeration.ts`, `usePictureInPicture.ts`, `components/*` | rail, badge, composer, microphone, questions; tiles, shares, hands, spotlight, pin, layout, grid page; mini player | clicks, the listeners, renders, the tab hidden and shown |
| Rate limiting | `server/src/socket/rate-limit.ts` | token buckets per user and kind; sockets per user | guard an event, flood disconnect, evict idle users |
| Transcript store | `server/src/socket/transcript-manager.ts`; `client/src/utils/transcript.ts` | entries, sequence number, seen segment ids, expiry timer | start, stop, append, revise, snapshot, expire; merge on the client |
| Transcription providers | `server/src/transcription/*.ts` | a provider session per contributing socket, turn buffers | start, audio, stop, final, refine |
| Chat | `server/src/socket/handlers.ts`, `client/src/components/ChatPanel.tsx` | the draft, the message an answer is awaited for, the badge | chat-message with acknowledgement, refusal, time-out |
| Process lifecycle and worker pool | `server/src/server.ts`, `lifecycle.ts`, `ssm-entrypoint.ts`, `sfu/workers.ts`, `sfu/config.ts` | start-up progress, pool, next worker, drain step, forced-exit timer | start-up steps, place a room, a worker's death, signal, fatal error, drain step, forced exit |
| Meetings API | `server/src/controllers/room.controller.ts`, `models/Room.ts`; `client/src/components/UpcomingMeetings.tsx`, `ScheduleMeetingDialog.tsx` | rooms in MongoDB; the list and dialogs of a host's page | create with a unique code, edit, cancel, end, fetch with back-fill; load, reload, submit |
| Links into meetings | `client/src/components/RoomGuard.tsx`, `ProtectedRoute.tsx`, `utils/room-entry.ts`, `context/AuthContext.tsx`, `pages/LandingPage.tsx` | session, guard's answer, history entries, remembered link | open a link, refresh, go back, sign in and out, ask, redirect, join, start at once |
| Discord | `bot/src`, `server/src/controllers/discord.controller.ts`, `client/src/pages/LinkDiscordPage.tsx` | an interaction, a request, a link between accounts | `/meet link`, `/meet create`, link the account |
| Mesh relay | `server/src/socket/webrtc.ts` | ready sockets | ready, offer/answer/ice relay, disconnect; registered but unused by the client |
| Telegram notifier | `deploy/telegram-notifier` | last alarm state | suppress flapping alarms |
| Authentication, validation, routes, logging, environment | `server/src/middleware`, `routes`, `validation`, `config` | none that changes with the order of events | |

How they interact: the browser holds one Socket.IO connection per visit. Presence, SFU signalling, chat, transcript
control and rate limiting are handlers on that connection; each keeps its own maps keyed by room id and socket id and
each learns of the end of a connection by its own `disconnect` listener. Presence and transcripts share the expiry
timer; host moderation addresses a socket id that comes from presence or from the SFU's peer list. Node runs a handler
until its next `await`: synchronous handlers are atomic, and every `await` is a point where other handlers run. On the
page the same holds of listeners and clicks, with React in between: a listener queues updates and reads the state of
the last render. Meetings themselves are MongoDB documents, read and written by HTTP handlers, by the end of a call and
by the bot's endpoints; nothing but the document's own conditions orders these.

### What is hard, and what makes each part correct

**Presence.** A browser that loses its connection reconnects on a new socket; the server learns of the old socket's
end before, during or after. Three overlaps matter: the new socket joins before the old one's `disconnect`, within the
4-second grace window, or after it. A user may have several tabs, and a `leave-room` that could not be sent is flushed
on the next connection. Correct means: both indices of the registry and Socket.IO's own rooms agree and hold no closed
socket; a leave timer runs only for someone who is really gone; peers hear exactly one "joined" and one "left" per
visit; every participant list converges to who is in the room; the transcript of a room is dropped only when the room
stays empty, and then always.

**SFU rooms.** Joining crosses three awaits (database, Router, observer). Two first joins can overlap, the socket can
go while its join waits, and the meeting can be ended in between. Correct means: a Router is never closed under a peer
or under a join about to use it, it is closed when the last peer leaves, and what leaks is known.

**SFU media.** Creating a transport, a producer or a consumer looks up the peer, awaits the mediasoup worker, and then
registers the result with a peer that may be gone. A client whose set-up fails starts over on the same socket and
leaves the objects of the failed set-up on the server. Correct means: nobody misses a producer, only open producers are
offered, a client hears of every consumer that closes, a host's mute holds until the owner unmutes, and what a departed
peer leaves behind is accounted for.

**Client set-up.** A retry timer, a manual retry, a reconnect and the answers of an abandoned attempt race each other.
Correct means: a failed attempt is always followed by another or by a message to the user, "ready" means joined, and
there is one tile for each open producer and none for another.

**Devices.** `getUserMedia`, `getDisplayMedia`, `produce` and `replaceTrack` are awaited while the participant clicks,
leaves and reconnects. Correct means: whoever captures is stopped by somebody, what the page shows as on is on, and each
device has one producer, paused when the device is off.

**Call page.** Several events can be handled between two renders, by listeners that read refs, queued state and the
state of the last render. Host mutes race the owner's clicks; transcript events of others take the rail and ask for
consent; a message is reported to have failed after eight seconds and may have been delivered. Between pages, spotlights
overtake each other, hands and shares go up while tiles are on their way, and everything set of a participant stays set
after they left. The mini player opens and closes by calls to the browser that overlap. Correct means: microphone and
server agree, drafts survive and go out once, transcripts are started only by who wants them, the stage shows who is
there, pages agree on what is shared, and the mini player is open when its menu says so. A medium whose consume is
still awaited when its end is told lands all the same; what the pages show of it is the part that does not hold.

**Rate limiting.** Buckets are made on demand, refilled lazily, shared by the sockets of a user and forgotten some time
after the last socket went. Correct means: none of this shows. The store behaves as one bucket that nothing resets,
admits at most a burst and the sustained rate, and its `retryAfterMs` is neither early nor late.

**Transcripts and their providers.** A provider session is started and stopped asynchronously and may be restarted
while it is still starting; entries, revisions and snapshots reach a client interleaved. Correct means: a client's
mirror converges to the store, a socket that left has no open provider session, and nothing runs after a stop.

**Lifecycle.** A signal, a second signal, a fatal error and a worker's death can come in any order while draining.
Correct means: the process always exits, a clean exit has drained everything, in an order nobody left behind depends
on, and the readiness probe never says ready of a pool that is not whole.

**Meetings, links and the bot.** An edit, a cancellation, the end of a call and a back-fill each read a document and
write it later; lists are loaded while changes are made; the guard's answer for one code arrives at another; any call to
Discord may fail. Correct means: what is over stays over, the list settles on what is stored, nobody is in a call they
have not entered, and every command is answered, truthfully.

## 2. The modules

| Module | Models | Proofs | Checked by |
|---|---|---|---|
| `Presence` | registry, handlers, timers and the participant list of each tab, with the connections between them | `PresenceProofs` | `MCPresence`, `PresenceTabs.cfg`, `PresenceLive.cfg` |
| `SfuRooms` | joining, leaving and ending a meeting on the SFU | `SfuProofs` | `MCSfuRooms`, `SfuRoomsCalls.cfg` |
| `SfuMedia` | transports, producers, consumers and muting inside one SFU room | `SfuProofs` | `MCSfuMedia`, `SfuMedia.cfg` |
| `MediaSetup` | the page's set-up, retries, reconnects and consumer tiles | `MediaProofs` | `MCMediaSetup`, `MediaSetup.cfg` |
| `Devices` | captured tracks, their holders and producers, from the lobby through the call | `MediaProofs` | `MCDevices`, `Devices.cfg` |
| `TokenBuckets` | what the limiter promises, without a store | `TokenBucketsProofs` | through `RateLimit` |
| `RateLimit` | the limiter's store; implements `TokenBuckets` | `RateLimitProofs` | through `ApiServer` |
| `Transcript` | the shared transcript of one room: store, provider sessions, and the copy and contribution of each page | `TranscriptProofs` | `MCTranscript`, `Transcript.cfg` |
| `Lifecycle` | the API process and its worker pool | `SfuProofs` | through `ApiServer` |
| `MeetingDocs` | meetings as documents, and the handlers' reads and writes | `MeetingsProofs` | through `Meetings` |
| `PlanningPage` | the host's list of meetings and its dialogs; extends `MeetingDocs` | `MeetingsProofs` | through `Meetings` |
| `MeetingLinks` | a visitor's tab from a link to the call; extends `MeetingDocs` | `MeetingsProofs` | through `Meetings` |
| `DiscordBot` | a command of the bot, the account link; extends `MeetingDocs` | `MeetingsProofs` | through `Meetings` |
| `Meetings` | the three above at work on the same documents | `MeetingsProofs` | through `ApiServer`; `MeetingsRefresh.cfg` |
| `ApiServer` | one of `Lifecycle`, `RateLimit` and `Meetings`, which keep nothing in common | those of its parts | `MCApiServer`, `ApiServer.cfg` |
| `CallPage` | one participant's page in the call: rail, chat, microphone, questions | `CallProofs` | through `Call` |
| `CallStage` | what the pages of a call show of each other | `CallProofs` | through `Call` |
| `MiniPlayer` | the picture-in-picture window | `CallProofs` | through `Call` |
| `Call` | one of the three parts of the call page | `CallProofs` | `Call.cfg`, `CallUnmute.cfg`, `CallGhost.cfg` |

`PROJECT.json` maps every definition to the lines it stands for. A few definitions state a plausible mistake in the
code (a timer not cancelled, an index not cleared, a refill time not stored); their comments or names say so, they are
used by no specification, and each was checked to break the property it is paired with.

### Presence

A *socket* is one Socket.IO connection and is used once; `TabOf` says which tab may open it, which bounds the number
of reconnects, and `UserOf` says who is signed in on a tab. `rooms` is the Map of Maps of `room-manager.ts`, kept as a
sequence because `getRoomUsers` depends on insertion order; `socketRoom` is the reverse index; `pendingLeaves` and
`expiryTimers` are the timers that run. `up` and `down` are the packets in flight on each connection: in order, and
lost when the other end has gone. `page`, `sock`, `roster` and `buffered` are a tab.

`JoinRoom`, `LeaveRoom` and `Disconnect` are the three synchronous handlers, each with every call it makes:
timers, both indices, Socket.IO's room, the broadcasts and the transcript's expiry. `LeaveTimer` is the end of the
grace window, `ExpireTranscript` that of the six hours. `LoseConnection` is the tab's view of a failure and
`Disconnect` the server's: they happen independently, in either order. `LeaveCall` is the page's clean-up, and
`CloseTab` a reload or a crash, in which it never runs.

### SfuRooms

A Room object and its Router are named by the call that created them, so two overlapping first joins give two names
and the map holds the second. `pc` is where each `sfu-get-rtp-capabilities` handler is: `finding` (awaiting
`Room.findOne`), `creating` (awaiting the Router), `ready` (the promise resolved and the rest of the handler queued as
a microtask), `observing` (awaiting the audio level observer), `done`. While a handler is `ready` no new Socket.IO event
is handled (`Draining`); answers of other handlers may still arrive. `ending` holds the end-meeting handlers, which
read the document, tell the room and write the document, in that order. `raced` is a history variable: it becomes true
when a join's Router replaces another or a join registers a socket that is gone.

### SfuMedia

An object is named by its owner, by the *generation* (the attempt of the client's set-up) it belongs to and by what it
is. `tpc`, `ppc` and `cpc` give the await at which the handler that creates it is suspended. `transports`, `producers`
and `consumers` are the maps of `PeerState`; `openT`, `openP` and `openC` are what mediasoup holds open, and the
properties are about where these two differ. `NewSetup` is the client starting over: everything it does is on its own
side, which is why the objects of the generation before remain. A host's mute and the owner's pause and resume go
through one queue per producer, because mediasoup carries out the requests for one producer in order; `muted` is
history, set when a host's pause has been carried out and cleared by the owner's resume or a new set-up. A *cast* says
who does what in a behaviour (which tracks, who listens, who is host, how many set-ups fail); it is chosen once, and
the run explores all casts it is given.

### MediaSetup and Devices

`MediaSetup` is `useMediasoup.ts` without its devices. `setup.step` is where `setupSfu` is: waiting for the
socket, a call under way (`caps`, `transports`, `produce`, `list`), consuming the listed producers one after another
(`tiles`). `setup.net` is where that call's packet is: `held` in the socket's buffer, `sent`, or `served` with the answer
on its way. A consume has the same positions of its own in `remote.fetch`, so that consumes of announcements overlap
those of the set-up. `Drop` makes fail what had been sent; `SetupTimeout` and `ConsumeTimeout` are `request`'s timer, and
the server may still carry the call out. A microphone's consume waits once more on the server, `prioritised`, while
`setPriority` is awaited; until then the server does not listen to that consumer's end (`Deaf`), so that a close in
between is told to nobody. A set-up that waits for the socket (`wait`) has cleared the tiles already; the `connect`
event only wakes it (`Awaited`), since `runSetup` returns while a set-up is running, and a tile that was built during
the wait stays. A transport is named by how many there have been and the connection it was
made on; a tile is a producer and the transport it is received on. `past` collects the exceptions the properties name:
`overlooked` the tiles and consumes of these three races, `missed` the consumes that failed, `swallowed` a drop that
the set-up did not notice.
The producers still to be consumed and the queue of early ones are sets: the order of the list, and that in which the
closings of several consumers arrive, are left to chance. A producer that closed never opens again under its id.

`Devices` is the other half: `asks` are the `getUserMedia` and `getDisplayMedia` calls under way, `work` the `produce`
and `replaceTrack` calls, `live` the captured tracks nobody has stopped, `open` the producers the server has. The
preview's tracks go to the page when the lobby is joined; whatever a granted track finds gone is `hist.stray`. A set-up
may start over at any time: when, is `MediaSetup`'s subject.

### TokenBuckets and RateLimit

`TokenBuckets` has one bucket per actor and kind of event, filled by every tick of the clock. `RateLimit` has the
Map of actors (`kept`), the sockets of each (`live`), when the last one went (`emptySince`), the buckets that exist
(`held`) and their `tokens`, `last` refill time and `violations`. Time is in milliseconds and tokens in thousandths
(`Second` in general), so that a tick refills a whole number and the model is exact where the code uses floating point.
`Touch` is what every guarded event does first: sweep, then make or refill the bucket. `level` is the refinement
mapping: the content of the bucket if it were refilled now, and a full one if it does not exist.

### Transcript

`active`, `entries` and `nextSequence` are the store of `transcript-manager.ts`, `sessions` the Map of
`meeting-transcription.ts`. A provider session is used once; `stage` is where it is: `connecting` (its `start` awaits
the provider), `opening` and `open` (the connection exists, and is or is not usable), `flushing` (its `stop` awaits the
450 ms), `closed`. `stops` holds, for each `transcript-stop` under way, the sessions it still awaits, and `stopping` the
sessions whose flag of that name is set. On the page, `seen` and `mic` decide whether it contributes, and
`SetContribution` is the effect of `RoomPage.tsx:238-250`: it sends a packet only when that decision changes. `mirror`
is the merged list. An entry is known by its id, the server process it came from (`era`) and whether it has been
refined. `orphans` and `refused` are history.

### Lifecycle

`boot` is where `start()` is, `step` the drain step under way, `force` the ten-second timer. `pool`, `died` and
`nextIdx` are the variables of `workers.ts`; `dead` is what really happened to the workers, which `died` is meant to
remember. `Begin(k)` is what the k-th drain step does when it is called, `Finished(k)` when its promise settles;
`RunStep` goes from one to the next. A signal before `register()` kills the process, a fatal error and `DiedTimer`
end it at any point of the drain. A step that fails is logged and the next one begins, so `Begin(5)`, the database's
disconnect, may leave the database connected.

### MeetingDocs, PlanningPage, MeetingLinks, DiscordBot and Meetings

`rooms` is the collection, a function of the codes in use; `work` the handlers between their read and their write, each
with the document as it was read, because `save()` writes the fields that were changed and `updateOne` tests its own
condition. On the planning page every request is sent, carried out and answered in separate steps, and an answer may be
lost; `missed` is history: the page was not told of a change. In `MeetingLinks`, `browser` is what outlives a document
(history entries with their navigation state, the cookie, `sessionStorage`) and `visit` what does not; `Status` is
derived from result and address as in `RoomGuard.tsx`. In `DiscordBot` every call to Discord may fail and every request
may be aborted and still carried out. `Meetings` lets them work on the same documents together with other tabs and the
end of a call; `Casts` says which together. `ApiServer` puts `Lifecycle`, `RateLimit` and `Meetings` side by side, one
at a time: none reads what another keeps.

### CallPage, CallStage, MiniPlayer and Call

React is what makes these hard. In `CallPage`, `page` is the state with every queued update and `seen` the state as last
rendered: a listener queues into the first and reads the second, a click renders first, and `wanted` and `starting` are
refs, which are current. `toServer` and `toPage` are the packets of the socket, `room` what the server holds for this
participant. `work` is what handlers await: a host's mute reads the room, a start or stop of a transcript does
(`TranscriptRead`), and a pause or resume waits for the worker, or is refused, which `toggleAudio` swallows
(`work.refused`). `talk` is history: what was typed, sent, delivered, reported to have failed, and how many messages
came while the chat was closed. `CallStage` has every participant's page: tiles, shares, hands, the host's spotlight,
and what a page chose for itself. A medium is first `coming` (its consume is awaited), then `landed`, and its
participant is `known` once it has been resumed. `RemovePeer` and `ShareEnded` find what has landed, as `removePeer` and
`closeConsumerById` do; a medium still coming lands later, or is denied when the server no longer has its producer.
`lost` is history: the media whose end was told while they were coming; those of them that landed are the *ghosts*. A
page may lose its connection and come back before the server has noticed (`Part`, `Join`, `Noticed`). The rate limiter
may refuse a raised hand. `Kind` is the cascade that chooses the layout; the order of the cameras in the grid (raised
hands first) is left out, since who is on which page of the grid is no property's subject. A page that reconnects keeps
its state and gets a new socket. `MiniPlayer` has the browser's picture-in-picture window (`screen`) against the hook's
idea of it (`player`), with calls and events that take their time. The three share no state; `Call` runs one of them at
a time, so that one set of constants serves them all.

## 3. What the runs show

| Run | Instance | What it shows |
|---|---|---|
| `presence_tabs` | two users, one with two tabs open at once; three connections | the registry's safety, and exact announcements and lists, with every overlap of two tabs of one user |
| `presence_live` | two users, one tab each, one of which reconnects once | the same across a reconnect; a user who left, closed or crashed vanishes from every connected list |
| `sfu_rooms` | two people in one room, one of whom calls twice; a third alone in another; an admin who ends the meeting | Routers are held while used, no empty room stays, and the two join races are the only leaks |
| `media_setup` | three casts: a screen shared and watched with one failed set-up; a microphone listened to and muted by its owner; a microphone beside a share's audio, and a host who mutes | no missed producer and only open ones offered, video closures told, leftovers explained, a host's mute holds |
| `client_setup` | one page, two connections, one retry, two producers, two of: opened, closed, refused, too late; one of the producers a microphone | ready means joined, a page never waits for nothing, tiles match producers, recovery ends |
| `devices` | three captures, two set-ups, three clicks | whatever captures is held by somebody, what is shown is so, each device has one producer as chosen |
| `transcript` | one page, two connections, two provider sessions; two entries, of which the store keeps one; three microphone switches, two starts or stops, one restart | the page's copy follows the store; a session is lost to its stops only by the late failure of its predecessor; nothing runs after a stop |
| `api_server` | three workers with two rooms each, two sockets, two requests; one actor with two sockets, one bucket of two tokens, six ticks; two codes, two accounts: the page with other tabs and calls, the visitor with calls, the bot with three commands | readiness and the pool agree, rooms are spread, the drain is orderly, the process always ends; the store implements the ideal bucket, rate and retry times are exact; documents are durable, the list settles, calls are of meetings entered once, commands are answered truthfully |
| `call_page` | one page with four clicks or events of others, two host mutes among them; a host and a guest over three sockets with four joins, acts and choices; the mini player used four times | microphone, chat, transcript starts, stage, agreement between pages, mini player |
| `call_page_unmute` | one page, two host mutes and a click | *violated:* an unmute is never forced |
| `call_page_ghost` | a host and a guest, two sockets, four joins and acts | *violated:* who is in focus is present |
| `meetings_refresh` | a visitor with two navigations | *violated:* a refresh is sent to the preview |

### Bounds

*Presence:* a hazard needs an observer and one user with two sockets, either two tabs or one tab that reconnects; the
two configurations give each of these, and a second room adds nothing because no handler relates two rooms. *SfuRooms:*
a join race needs two calls for one room, the repeated call of one socket needs a third, and a second room shows that
one room's end leaves the other alone. *SfuMedia:* media relates an owner to a watcher, so two sockets and the tracks
each property is about; one failed set-up already leaves one abandoned generation. Two queued requests let a host's mute
and the owner's request wait for the same producer. The limits `MaxTransports` and `MaxProducers` have the code's shape
and are not reached by this instance. *MediaSetup:* two connections are a drop and a reconnect in the middle of
anything; one retry reaches the end of the ladder; of two producers one can be in the list and one announced. *Devices:*
a toggle overlaps another toggle, a set-up or leaving, which three clicks and two set-ups give; three captures are a
camera, a microphone and a share, or a device asked for twice. *Transcript:* the pages do not affect each other except
through entries, so one page that reconnects once is enough; the second session on one connection, a contribution
switched off and on again, takes the third switch, and the second entry is the one that shifts the first out.
*RateLimit:* six ticks are twice the grace period, enough to spend a bucket, be forgotten, come back and be refused; a
cost of 3 exceeds the bucket's 2 and is clamped. *Lifecycle:* three workers show the cursor wrap and the pool partly
built; two sockets and two requests, so that one of them can be left when the other is gone. *Meetings:* every hazard is
two requests about one document; the second code is the other address of a tab and the refused collision of a new code.
*Call:* each hazard is two or three events between two renders with a click before or after them, four acts of the page
(`MaxActs`); on the stage, one who joins, one who leaves and one who returns are three sockets (`MaxSockets`), which
with one act or choice are four moves (`MaxMoves`). The theorems below have none of these bounds.

The exploration of a run covers every order of these; the longest has 2.5 million states and takes under four minutes.
Deadlock is checked for the server's models, where the stuttering disjuncts of `SfuRooms`, `SfuMedia` and `Transcript`
stand for a system in which every socket is gone. It is off where the system really may stop: a process that has
ended, people who have used up their visits and a limiter whose clock is at its bound (`ApiServer`, `MeetingsRefresh`),
a page that was left (`MediaSetup`, `Devices`), people who have used up their clicks and moves (`Call`, `CallUnmute`,
`CallGhost`).

### Fairness

Each condition is weak fairness of something that stays enabled until it runs, and nothing is assumed of people.

* `DepartedVanish` (`Presence.FairSpec`): packets on an open connection arrive and are handled, because Socket.IO runs
  over an ordered reliable transport; timers fire, because Node's event loop is never blocked for good; a connection one
  end has lost is noticed by the other, because of Socket.IO's ping timeout.
* `RecoveryEnds` (`MediaSetup.FairSetup`): the retry timer fires, the page goes on after an await that is over, packets
  arrive and are answered or time out. Nothing is assumed of the connection: the property ends with a drop.
* `AlwaysEnds` (`Lifecycle`, in `ApiServer`): the two timers that exit fire. A drain step may hang and a request never
  be answered.
* `CommandsAnswered` (`Meetings`, in `ApiServer`): a handler of the bot goes on, since discord.js settles its promises
  and the abort ends every request. The server may never answer.

### What is found

Three statements of the code's comments do not hold of the code; each is a run and a finding in `PROJECT.json`.

*Unmute is never forced* (`sfu-handlers.ts:440-443`). Two mutes of one microphone (the host's two clicks, or mute and
mute-all) both read the room before either pause is carried out, and both are reported. The page's listener decides on
`localAudioOn` of the last render and toggles (`RoomPage.tsx:450`), so the second report, when it is handled before a
render, turns the microphone on again and asks the server to resume it.

*A stale pin or spotlight falls back* (`useRoomLayout.ts:43-44`). A participant leaves while a page awaits the consume of
their camera. `removePeer` (`useMediasoup.ts:570-581`) finds no consumer of theirs; the consume lands afterwards and sets
`remoteStreams` (`:478-497`), from which the layout takes who is present. A spotlight or pin of the one who left stays in
focus, and the ghost tile stays until the next set-up (`FocusIsPresent`).

*A page refresh is bounced to the lobby* (`RoomGuard.tsx:71-73`, `room-entry.ts:5-8`). The marker of a deliberate entry
is navigation state, which `BrowserRouter` keeps in `window.history`, where it survives a reload: the document that a
refresh loads is in the call at once (`RefreshesSeeThePreview`). `LinksLead` therefore asks only that a call was entered
once.

The passing properties hold with the exceptions they name. Each exception is something the code does that a reader of
it may not expect:

* *Presence.* A peer may keep the closed socket of a user who reconnected before the server noticed the old one's end;
  the new id is sent only when a leave timer was running (`handlers.ts:84-95`).
* *SFU rooms.* Two overlapping first joins leave a Router that is in no map, and a join that outlives its socket
  registers a peer that nothing removes (`LeaksOnlyByRaces`). A join between the announcement of a meeting's end and the
  write is neither refused nor told (`sfu-handlers.ts:432`).
* *SFU media.* After a repeated set-up a host's mute acts on the first, abandoned microphone of the peer's Map
  (`sfu-handlers.ts:463`), which is why `MuteEnforced` speaks of the first set-up. An entry of an abandoned set-up makes
  a new consume fail (`:261`). An audio consumer that closes while `setPriority` is awaited is never reported
  (`VideoClosuresTold`). A transport the server forgot without closing, or created after its peer had gone, keeps its
  ports (`LeftoversExplained`).
* *Client set-up.* A drop while the existing producers are consumed is swallowed, and the page can say ready without
  having joined (`past.swallowed`); a tile stays after its producer closed if the news came while it was being
  consumed, if a microphone closed before the server listened to its consumer (`sfu-handlers.ts:280-288`), or if the tile
  was built while a set-up waited for the connection (`past.overlooked`).
* *Devices.* A camera switched on during a set-up gives two producers (`ProducersAsChosen` leaves overlapped devices
  out); one switched off while it is being switched on
  may be overtaken; what is granted after the lobby was left keeps capturing (`hist.stray`); a share whose picker or
  produce is overtaken leaves its tracks running (`hist.overlapped`).
* *Transcripts.* A contributor's start that fails after it was stopped and started again removes its successor from the
  Map, and nobody stops that one any more (`SessionsReachable`). A page that reconnects while contributing is not
  started again (`RoomPage.tsx:238-250`). A second `transcript-stop` does not wait for the flush of the first. A page
  keeps its entries across a server restart until new ones have their ids.
* *Call page.* A message handled after a transcript took the rail and before the render is not counted by the badge; a
  message that timed out and was delivered is delivered twice when sent again; someone who joins later is not told of a
  raised hand or a spotlight, a hand raised while its tile is on the way is not shown (`past.blind`), and one the
  limiter refuses is up on its owner's page only (`past.refused`); a refused pause or resume leaves page and server
  apart until the next (`work.refused`). A tile or a share whose end was told while its consume was awaited is shown on
  (`Ghosts`). A mini player that the browser opens late stays over a tab that is shown again, or after the page was left
  (`screen.by = "late"`).
* *Meetings.* A list read before a cancellation was confirmed brings the meeting back until the next load; a dialog
  opened again while its request is under way gets that request's answer; a new meeting started at once navigates
  wherever its user has gone meanwhile; the bot may report failure of a meeting that is then created.

Met while reading, and outside every property: `server-restarting` has no listener on the client; the timer that leaves
2.5 s after `meeting-ended` is not cleared; with fewer tiles than the grid page in view, *Previous* first does nothing
visible; chat sent while reconnecting precedes `join-room` and is refused.

## 4. What is proved

The proofs hold for every value of the constants: any number of users, tabs, connections, rooms, calls, actors,
buckets, workers, sessions, entries, clicks and captures, any capacities, rates and times. For each model one inductive
invariant is shown to hold at first and to be kept by every action, and the properties follow from it. TLC checked each
invariant on the instances of section 3 before it was proved.

Two ideas recur. *What is on its way counts:* a page lags behind the server, so an invariant about it speaks of the
latest message on the channel between them; only when none is on its way does it speak of the page's own state.
*History names the exceptions:* where the code allows something a property excepts, the invariant drops its promise
exactly when the history variable says so, and keeps everything else.

* **Presence** (`PresenceProofs`): `TypeOK`, `RegistryAgrees`, `PendingLeaveMeansAbsent`, `TranscriptLifetime`,
  `PeersKeepUp`. The first four together are not inductive: `addUser` does not take a socket out of the room it is in,
  so a `join-room` handled for a socket that has already joined could leave it in two rooms at once. `JoinOnce` closes
  the gap: a connection carries at most one `join-room`, and only while its socket is in no room. It holds because the
  client sends `join-room` once per connection, after whatever it had buffered. `PeersKeepUp` is about the tabs, and
  rests on one lemma about the server: whatever a handler does to a room, a tab that stays in it is told nothing, the
  whole list, or who came or went, and that is the truth (`News`). The invariant carries it to the tab: the latest
  message about a user on its way to a tab shows each user who is in the room and none who is neither there nor in grace
  (`Told`); about a user in grace a tab may have heard either, because a list sent within the grace window leaves such a
  user out.
* **SfuRooms** (`SfuProofs`): types, `RouterHeldWhileUsed`, `NoIdleRoom`, `LeaksOnlyByRaces`. The last two speak
  of quiet moments; the inductive invariant says what holds between. `CallsAgree`: a join that has found its room finds
  it in the map until it registers, because no `disconnect` runs in between. `OccupiedOrComing`: a room in the map has a
  peer or a join about to become one. `CleanUnlessRaced`: as long as no join has raced, the peers of a mapped Room
  object are exactly the sockets that joined, whatever is under way, so an empty one can be closed.
* **SfuMedia** (`SfuProofs`): `OffersAreTrue`, `VideoClosuresTold`, `LeftoversExplained`, `MuteEnforced`. `MapsOwned`
  says what `PeerState`'s maps promise at every await: what is open is in its owner's map or accounted for, and a
  producer in the map of a peer that is present is open. `ListedKnow` joins the two ways a client learns of a
  producer, the list and the announcement, which overlap. `MutedHeld` follows a muted microphone through the handler
  that is still suspended when the host's pause comes.
* **Lifecycle** (`SfuProofs`): types, `PoolSound`, `OrderlyDrain`, for any number of workers.
  `ReadyIsWhole` is about the moment after start-up, so `PoolGrows` follows the pool from empty to full (a process that
  serves has all its workers or, with the SFU disabled or drained, none). `DeathsSeen` says that a death is forgotten
  only together with the pool, whose emptiness keeps readiness negative: this is why clearing the latch in
  `closeWorkers` is harmless. `DrainedSoFar` carries what each drain step has done to the later ones. `Placing` is the
  round-robin argument for `RoomsSpread`: the workers up to the cursor are one router ahead of the others;
  `NothingPlaced` gives it its start, the pool being built one worker at a time.
* **Devices** (`MediaProofs`): `NoLostCapture`, `ShownIsTrue`, `ProducersAsChosen`. `Granteds` and `Numbers` make every
  new track and producer a fresh one. `Early` says that until the page's own capture is over there is nothing of the
  call; `InLobby` and `Preview` hold before. `Sending`: the track a set-up is about to produce is still in the call's
  stream if it is live. `Cam` is the heart: unless the camera was overlapped, at most one click or call about it is
  under way, so its answer finds things as it left them. `Sharing` is the same for a share, from the picker to its end.
* **MediaSetup** (`MediaProofs`): types, `StatusIsTrue`, `TilesMatchProducers`, for any number of producers, owners and
  connections (`SetupIInv`). `TilesMatchProducers` speaks of a moment at which nothing is under way; the invariant says
  what holds before, while the set-up's transport belongs to the connection (`Current`). `NoneForgotten`: each open
  producer has its tile or its consume (`Here`), or something is still to come that will name it (`Expected`): its
  announcement, the list, the loop, the queue, or another set-up. The two ways cannot both miss it, because the server
  adds a producer before it announces it and answers in order. `NoneOutlives`: the server's consumer of each tile, and
  of each track being built, is still there, or the news of its end is on its way, or was overlooked; a microphone's
  that is given priority is what `Deaf` names. That leaves the gaps between: a consume answered twice (`FetchesSound`,
  one call for each producer and occasion, each answered once), an answer that meets another set-up (`AnswersSound`),
  and an id that comes back (`BornOnce`, kept beside the invariant: the client knows of no producer before there is
  one). `StepsSound` ties the step to its call and its transport; `StatusSound` adds to it that a page that is consuming
  or ready is in the room, or swallowed a drop.
* **Transcript** (`TranscriptProofs`): `SessionsReachable`, `StoppedMeansIdle`, `MirrorsFollowStore`. `Found` is the
  first of these: a session that runs and was not told to stop is where its owner's `stop` looks for it, unless it is an
  orphan of the late failure. The other two are about channels: the latest start or stop on the way to the server is
  what the page wants now (`AskInv`), the latest notice of the transcript's state is true (`BeliefInv`), and for each
  entry the store keeps the latest notice with its id shows it as it is (`MirrorInv`).
* **Meetings** (`MeetingsProofs`): `RoomsAreDurable`, `ListSettles`, `LinksLead`, and `Truthful` of the bot, the safety
  half of `CommandsAnswered`. `WorkAgrees`: what a handler has read is of a document that is still there with the same
  host, which is enough because a save writes only the fields its handler changed. `LoadsTrue` says that a list read and
  not marked late is the list there is; `PageAsked` matches the handlers at work with the open dialogs, so that each
  answer is about the question shown. `EntriesTrue` follows the markers of deliberate entry through the history of the
  tab.
* **CallPage, CallStage, MiniPlayer** (`CallProofs`): `MuteAgrees`, `ChatIsHonest`, `StartsAreWanted`, `StageIsSound`,
  `PagesAgree`, `MiniPlayerIsTrue`. `Mic`: the last flip on its way is what the participant wants (`Requested`), and what
  the worker or the server has is that too, unless the last one handled was refused or a host's mute is coming. `Drafts`:
  no draft is free to be sent again while a message that carried it might still be answered. On the stage, `OnStage` ties
  tiles and shares to the media that have landed. `AllTold` is the heart: what a page has or awaits is open on the server
  or the page will still hear of its end, unless it has heard of it already (`lost`); what is open it has, awaits or will
  hear of; and it hears of no end too soon. From this the ghosts are all that can be wrong once a page has handled its
  events. Hands and spotlights are as the latest event on its way says (`HandsTold`, `SpotlightTold`). `EventsTell`: the
  browser's last event on its way is the truth about the window.
* **TokenBuckets** (`TokenBucketsProofs`): `SustainedRate` and `PromiseExact`, under `BucketAssumption` (capacities and
  rates are positive). The invariant accounts tokens (`spent + level <= Full + Rate * clock`) and brackets each promise
  between one tick too few and just enough.
* **RateLimit** (`RateLimitProofs`): every step of the store is a step of `TokenBuckets` or leaves every bucket as it
  is (`BehavesAsIdeal`); from the theorems above and this refinement follow `SustainedRate` and `RetryAfterExact`. The
  key lemma is that a bucket that is swept is full by then, which is exactly what `GraceRefills` assumes: the grace
  period refills every bucket. It is true of the defaults (300 tokens at 100 per second and 20 at 5 per second, against
  ten minutes) and nothing in the code tests a configuration for it.

Only model-checked:

* The liveness properties, `DepartedVanish`, `RecoveryEnds`, `AlwaysEnds` and `CommandsAnswered`: liveness under
  fairness is beyond the prover.

## 5. Assumptions

* *Connections.* Socket.IO delivers in order and not twice; what was in flight when a connection ended is lost. On
  reconnecting it flushes buffered packets before `connect` is reported, and on the server a socket has left its rooms
  when `disconnect` is reported. `socket.disconnect()` runs the disconnect handler at once, and later packets of that
  socket are ignored.
* *Presence.* The rate limiter admits `join-room`. A client whose `join-room` were refused would stay out of the room
  until its next connection; the bucket of 300 makes that a matter of a flood.
* *One room per socket.* The client disconnects before it opens another room, and sends `join-room` on connecting,
  before any SFU call. The server does not enforce it (`room-manager.ts:8`).
* *Transcripts.* The pages stay open, their users have consented and their browsers can capture PCM; the server has its
  provider keys throughout. Who may start and stop is decided by the database and abstracted to "somebody who has been
  in the room". The provider may answer or refuse at any time, and lose and reopen its connection; every refinement
  ends, by an answer, a timeout or a fallback.
* *mediasoup* is external. It handles the requests for one object in order, closes what is on a closed transport
  together with it, reports a closed producer to its consumers later and one by one, and refuses a request about a
  closed object.
* *The browser.* `getUserMedia`, `getDisplayMedia` and the picture-in-picture calls may be granted or refused at any
  later time; their events come in tasks of their own. React renders a click at once and queued updates some time later,
  all of them together.
* *Database.* A read or a write of one document is atomic and may take any time. Failures of the database end a
  handler before it changes anything, as a refusal does. The unique index on the code is in place.
* *Discord.* An interaction's handler runs once; its calls settle.
* *Clock.* It does not go back. `Date.now` may; `refill` then takes the elapsed time as zero and stores the earlier time
  (`rate-limit.ts:56`), which gives tokens once the clock is right again.

## 6. What is not modelled

* The mesh relay (`webrtc.ts`): the client no longer uses it, and its handlers forward one event each.
* The Telegram notifier: deployed on its own, outside the meeting system.
* The shared contracts: type declarations.
* The server's authentication, validation, configuration and logging per request: no state that the order of events
  changes. The client's session is in `MeetingLinks`.
* Of SFU signalling: the active-speaker events, and the removal of a participant by a host, which ends in the
  `disconnect` that `SfuRooms` and `Presence` have. The per-peer caps are tested before an await and charged after it
  (`sfu-handlers.ts:106`); they are far from the numbers any client reaches.
* Of the pages: rendering, theming, notes, reactions, tooltips, measurements, the level meter and wording.
* Of the providers: audio buffers, interim texts and the wording of a refinement.

## 7. Plan

1. **Done:** the modules of section 2, with the proofs of section 4.
2. **Composition** of `MediaSetup` with `SfuMedia`, if an instance small enough exists: today each takes the other as an
   environment that may do anything the protocol allows.
