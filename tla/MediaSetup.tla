----------------------------- MODULE MediaSetup -----------------------------
(***************************************************************************)
(* One participant's client side of the SFU: how it sets its media up,     *)
(* repeats that after failures and reconnects, and keeps a tile for every  *)
(* remote producer (useMediasoup.ts, mediasoup-signal.ts,                  *)
(* pending-producers.ts), with the server and the other participants as    *)
(* its environment.                                                        *)
(*                                                                         *)
(* Socket.IO delivers in order, from both sides.  When the socket drops,   *)
(* the calls it had sent fail at once; a call made while it is down is     *)
(* held back and goes out on the next connection, before that connection's *)
(* `connect` event.  A consume call is on its way (at = "consume"), then   *)
(* its track is built from the answer ("build"), then the server's         *)
(* consumer is resumed ("resume").  The server answers for a microphone    *)
(* after giving its consumer priority (net = "prioritised"), and only then *)
(* listens to that consumer's end.                                         *)
(***************************************************************************)
EXTENDS Naturals, Sequences, FiniteSets, Functions

CONSTANTS
  Producers, OwnerOf,   \* the others' producers, and whose each one is
  Voices,               \* those of microphones
  MaxRetries,           \* MEDIA_MAX_RETRIES
  MaxConns,             \* a bound: connections the socket makes
  MaxEvents             \* a bound: producers opened or closed, and calls refused or too late

ASSUME MediaSetupConstants ==
  /\ DOMAIN OwnerOf = Producers /\ Voices \subseteq Producers
  /\ MaxRetries \in Nat /\ MaxConns \in Nat /\ MaxEvents \in Nat

VARIABLES
  link,      \* the socket: is it up, and how many connections it has made
  page,      \* the hook: mounted, captured, mediaRecovery's status, attempt, timer
  setup,     \* setupSfu: step, net (its call), todo (producers to consume), recv (transport)
  remote,    \* producerInfo, consumers (tiles), pendingProducers, consume calls under way
  server,    \* the connection it has our peer on, open producers, our live consumers
  inbox,     \* what the server has sent and the client has not handled
  past       \* history: see below

setupVars == <<link, page, setup, remote, server, inbox, past>>

(* overlooked: what the page has no reason to remove: consumes under way   *)
(* when their close event or their peer's departure went by, those whose   *)
(* producer closed while the server gave the consumer priority, and those  *)
(* that were built while a setup waited for the connection; missed:        *)
(* consumes that failed; swallowed: the socket dropped between two         *)
(* consumes of a setup                                                     *)
NoHistory == [overlooked |-> {}, missed |-> {}, swallowed |-> FALSE, events |-> 0, transports |-> 0]

None == [n |-> 0, on |-> 0]     \* no transport
Idling(recv) == [step |-> "idle", net |-> "none", todo |-> {}, recv |-> recv]
SetupInit ==
  /\ link = [up |-> FALSE, conn |-> 0]
  /\ page = [mounted |-> TRUE, captured |-> FALSE, status |-> "connecting", attempt |-> 0,
             timer |-> FALSE]
  /\ setup = Idling(None)
  /\ remote = [info |-> {}, tiles |-> {}, pend |-> {}, fetch |-> {}]
  /\ \E P \in SUBSET Producers :
       server = [joined |-> 0, open |-> P, born |-> P, unannounced |-> {}, consumers |-> {}]
  /\ inbox = <<>> /\ past = NoHistory

Calls    == {"caps", "transports", "produce", "list"}
Lost(n)  == n \in {"sent", "prioritised", "served"}        \* what a drop makes fail
Emitted(up) == IF up THEN "sent" ELSE "held"
Id(f)    == [p |-> f.p, t |-> f.t]
Fetching(by) == {f \in remote.fetch : f.by = by}
With(f, at, net) == [f EXCEPT !.at = at, !.net = net]
Replace(F, f, g) == (F \ {f}) \cup {g}

-----------------------------------------------------------------------------
(* runSetup, scheduleRetry *)

(* clearRemoteState; consume calls under way go on *)
Cleared(F) == [info |-> {}, tiles |-> {}, pend |-> {}, fetch |-> F]

(* runSetup, of a hook whose setup is not running; attempt is the number of *)
(* retries scheduled so far                                                 *)
RunSetup(attempt, up, F) ==
  /\ page' = [page EXCEPT !.captured = TRUE, !.timer = FALSE, !.attempt = attempt,
                !.status = IF attempt = 0 THEN "connecting" ELSE "reconnecting"]
  /\ remote' = Cleared(F)
  /\ past' = [past EXCEPT !.swallowed = FALSE]
  /\ setup' = IF up THEN [Idling(None) EXCEPT !.step = "caps", !.net = "sent"]
              ELSE [Idling(setup.recv) EXCEPT !.step = "wait"]

Retrying(pg)  == [pg EXCEPT !.attempt = @ + 1, !.timer = TRUE, !.status = "reconnecting"]
Ladder(pg) ==
  CASE ~pg.mounted -> pg
    [] pg.mounted /\ ~link.up -> [pg EXCEPT !.status = "reconnecting"]
    [] pg.mounted /\ link.up /\ pg.attempt >= MaxRetries -> [pg EXCEPT !.status = "exhausted"]
    [] OTHER -> Retrying(pg)

LadderNeverExhausted(pg) == IF pg.attempt >= MaxRetries THEN pg ELSE Ladder(pg)

(* scheduleRetry, when a call of the setup failed *)
ScheduleRetry(pg) == Ladder(pg)

SetupFailed ==
  /\ setup' = Idling(setup.recv)
  /\ page' = ScheduleRetry(page)

(* init: the tracks are there; the listeners are attached; the first setup *)
Captured ==
  /\ page.mounted /\ ~page.captured
  /\ RunSetup(page.attempt, link.up, remote.fetch)
  /\ UNCHANGED <<link, server, inbox>>

RetryTimer ==
  /\ page.timer
  /\ IF setup.step = "idle" THEN RunSetup(page.attempt, link.up, remote.fetch)
     ELSE page' = [page EXCEPT !.timer = FALSE] /\ UNCHANGED <<setup, remote, past>>
  /\ UNCHANGED <<link, server, inbox>>

(* the button of the exhausted state *)
RetryMedia ==
  /\ page.mounted /\ page.status = "exhausted"
  /\ IF link.up THEN RunSetup(0, TRUE, remote.fetch)
     ELSE /\ page' = [page EXCEPT !.attempt = 0, !.status = "reconnecting"]
          /\ UNCHANGED <<setup, remote, past>>
  /\ UNCHANGED <<link, server, inbox>>

-----------------------------------------------------------------------------
(* the socket *)

Flushed(F) == {IF f.net = "held" THEN [f EXCEPT !.net = "sent"] ELSE f : f \in F}

ResumesRetriesOnly == page.mounted /\ page.captured /\ setup.step = "idle" /\ page.attempt > 0

(* onSocketConnect; runSetup returns at once while a setup is running *)
Resumes == page.mounted /\ page.captured /\ setup.step = "idle"

(* the setup that waits for the connection goes on: it has cleared what it  *)
(* clears before it waited                                                  *)
Awaited ==
  /\ setup' = [Idling(None) EXCEPT !.step = "caps", !.net = "sent"]
  /\ past' = [past EXCEPT !.overlooked = @ \cup remote.tiles]

Connect ==
  /\ ~link.up /\ link.conn < MaxConns
  /\ link' = [up |-> TRUE, conn |-> link.conn + 1]
  /\ IF Resumes
     THEN RunSetup(0, TRUE, Flushed(remote.fetch))
     ELSE /\ page' = IF page.mounted /\ page.captured THEN [page EXCEPT !.attempt = 0] ELSE page
          /\ remote' = [remote EXCEPT !.fetch = Flushed(@)]
          /\ IF setup.step = "wait" THEN Awaited
             ELSE setup' = [setup EXCEPT !.net = IF @ = "held" THEN "sent" ELSE @] /\ UNCHANGED past
  /\ UNCHANGED <<server, inbox>>

(* onSocketDisconnect, then the calls that were sent fail; the server loses *)
(* the peer of this connection                                              *)
Drop ==
  /\ link.up
  /\ link' = [link EXCEPT !.up = FALSE]
  /\ page' = IF page.mounted /\ page.status # "exhausted"
             THEN [page EXCEPT !.status = "reconnecting"] ELSE page
  /\ setup' = IF setup.step \in Calls /\ Lost(setup.net) THEN Idling(setup.recv) ELSE setup
  /\ LET F == {f \in remote.fetch : Lost(f.net)}
     IN /\ remote' = [remote EXCEPT !.fetch = @ \ F, !.info = @ \ {f.p : f \in F}]
        /\ past' = [past EXCEPT !.missed = @ \cup {Id(f) : f \in F},
                                !.swallowed = @ \/ (setup.step = "tiles" /\ page.mounted)]
  /\ server' = [server EXCEPT !.joined = 0, !.consumers = {}]
  /\ inbox' = <<>>

-----------------------------------------------------------------------------
(* the calls of a setup, one after the other *)

After(step) == CASE step = "caps" -> {"transports"}
                 [] step = "transports" -> {"produce", "list"}   \* without a track: nothing to produce
                 [] step = "produce" -> {"list"}

(* loading the device and building an offer take a while; then the call is made *)
Emit ==
  /\ setup.net = "local"
  /\ IF page.mounted \/ setup.step = "transports"
     THEN setup' = [setup EXCEPT !.net = Emitted(link.up)]
     ELSE setup' = Idling(None)          \* the transport is closed: it throws
  /\ UNCHANGED <<link, page, remote, server, inbox, past>>

(* the server's side of one of them *)
InRoom == server.joined = link.conn
Serve ==
  /\ link.up /\ setup.net = "sent"
  /\ setup' = [setup EXCEPT !.net = "served"]
  /\ LET ok == setup.step \in {"caps", "list"} \/ InRoom
     IN inbox' = Append(inbox, [m |-> "answer", ok |-> ok,
                  ps |-> IF setup.step = "list" /\ InRoom THEN server.open ELSE {}])
  /\ server' = IF setup.step = "caps" THEN [server EXCEPT !.joined = link.conn] ELSE server
  /\ UNCHANGED <<link, page, remote, past>>

(* isAckError: request rejects *)
Rejected(a) == ~a.ok

Answered(a) ==
  IF ~page.mounted THEN setup' = Idling(setup.recv) /\ UNCHANGED <<page, past>>
  ELSE IF Rejected(a) THEN SetupFailed /\ UNCHANGED past
  ELSE /\ UNCHANGED page
       /\ IF setup.step = "list"
          THEN /\ setup' = [setup EXCEPT !.step = "tiles", !.net = "none", !.todo = a.ps]
               /\ UNCHANGED past
          ELSE \E s \in After(setup.step) :
                 /\ setup' = [setup EXCEPT !.step = s,
                      !.net = IF s \in {"transports", "produce"} THEN "local" ELSE Emitted(link.up),
                      !.recv = IF setup.step = "transports"
                               THEN [n |-> past.transports + 1, on |-> link.conn] ELSE @]
                 /\ past' = [past EXCEPT !.transports = IF setup.step = "transports" THEN @ + 1 ELSE @]

(* ten seconds without an answer; the server may have carried it out, and  *)
(* what it answers after that is dropped                                   *)
SetupTimeout ==
  /\ setup.step \in Calls /\ setup.net \in {"held", "sent"} /\ past.events < MaxEvents
  /\ past' = [past EXCEPT !.events = @ + 1]
  /\ \E carriedOut \in BOOLEAN :
       server' = IF carriedOut /\ link.up /\ setup.step = "caps"
                 THEN [server EXCEPT !.joined = link.conn] ELSE server
  /\ SetupFailed
  /\ UNCHANGED <<link, remote, inbox>>

(* for (const prod of existing) await consumeProducer(prod); then the queue *)
StartConsume(p, by) ==
  [remote EXCEPT !.info = @ \cup {p},
     !.fetch = @ \cup {[p |-> p, t |-> setup.recv, by |-> by, at |-> "consume", net |-> Emitted(link.up)]}]

Continuing == setup.step = "tiles" /\ Fetching("setup") = {}

(* the order of the list is left to chance *)
ConsumeExisting ==
  \E p \in setup.todo :
    /\ setup' = [setup EXCEPT !.todo = @ \ {p}]
    /\ remote' = IF p \in remote.info THEN remote ELSE StartConsume(p, "setup")
    /\ UNCHANGED page

DrainPending ==
  /\ setup.todo = {} /\ remote.pend # {}
  /\ setup' = [setup EXCEPT !.todo = remote.pend]
  /\ remote' = [remote EXCEPT !.pend = {}]
  /\ UNCHANGED page

SetupDone ==
  /\ setup.todo = {} /\ remote.pend = {}
  /\ setup' = Idling(setup.recv)
  /\ page' = [page EXCEPT !.status = "ready", !.attempt = 0]
  /\ UNCHANGED remote

NextTile ==
  /\ Continuing
  /\ IF page.mounted THEN ConsumeExisting \/ DrainPending \/ SetupDone
     ELSE setup' = Idling(None) /\ UNCHANGED <<page, remote>>
  /\ UNCHANGED <<link, server, inbox, past>>

-----------------------------------------------------------------------------
(* consumeProducer *)

Refused(f) == \/ ~InRoom \/ f.p \notin server.open \/ f.t.on # link.conn
              \/ \E c \in server.consumers : c.p = f.p

Answer(f, ok) ==
  /\ remote' = [remote EXCEPT !.fetch = Replace(@, f, [f EXCEPT !.net = "served"])]
  /\ inbox' = Append(inbox, [m |-> "consumed", f |-> [f EXCEPT !.net = "served"], ok |-> ok])

ServeConsume(f) ==
  /\ link.up /\ f \in remote.fetch /\ f.net = "sent"
  /\ LET ok == IF f.at = "consume" THEN ~Refused(f) ELSE Id(f) \in server.consumers
     IN /\ server' = IF f.at = "consume" /\ ok
                     THEN [server EXCEPT !.consumers = @ \cup {Id(f)}] ELSE server
        /\ IF f.at = "consume" /\ ok /\ f.p \in Voices
           THEN /\ remote' = [remote EXCEPT !.fetch = Replace(@, f, [f EXCEPT !.net = "prioritised"])]
                /\ UNCHANGED inbox
           ELSE Answer(f, ok)
  /\ UNCHANGED <<link, page, setup, past>>

(* setPriority is over, done or failed *)
Prioritised(f) ==
  /\ link.up /\ f \in remote.fetch /\ f.net = "prioritised"
  /\ Answer(f, TRUE)
  /\ UNCHANGED <<link, page, setup, server, past>>

(* the catch of consumeProducer: nothing is thrown *)
ConsumeFails(f) ==
  /\ remote' = [remote EXCEPT !.fetch = @ \ {f}, !.info = @ \ {f.p}]
  /\ past' = [past EXCEPT !.missed = @ \cup {Id(f)}]

Consumed(a) ==
  IF a.f \notin remote.fetch THEN UNCHANGED <<remote, past>>
  ELSE IF Rejected(a) THEN ConsumeFails(a.f)
  ELSE /\ UNCHANGED past
       /\ remote' = [remote EXCEPT !.fetch =
            IF a.f.at = "resume" \/ ~page.mounted THEN @ \ {a.f}
            ELSE Replace(@, a.f, With(a.f, "build", "none"))]

(* recvTransport.consume, which rejects on a closed transport *)
Build(f) ==
  /\ f \in remote.fetch /\ f.at = "build"
  /\ IF page.mounted /\ setup.recv = f.t
     THEN /\ remote' = [remote EXCEPT !.tiles = @ \cup {Id(f)},
                          !.fetch = Replace(@, f, With(f, "resume", Emitted(link.up)))]
          /\ UNCHANGED past
     ELSE ConsumeFails(f)
  /\ UNCHANGED <<link, page, setup, server, inbox>>

(* ten seconds without an answer to one of its calls *)
ConsumeTimeout(f) ==
  /\ f \in remote.fetch /\ f.net \in {"held", "sent", "prioritised"} /\ past.events < MaxEvents
  /\ remote' = [remote EXCEPT !.fetch = @ \ {f}, !.info = @ \ {f.p}]
  /\ past' = [past EXCEPT !.missed = @ \cup {Id(f)}, !.events = @ + 1]
  /\ \E carriedOut \in BOOLEAN :
       server' = IF carriedOut /\ link.up /\ f.net = "sent" /\ f.at = "consume" /\ ~Refused(f)
                 THEN [server EXCEPT !.consumers = @ \cup {Id(f)}] ELSE server
  /\ UNCHANGED <<link, page, setup, inbox>>

-----------------------------------------------------------------------------
(* events; they are listened to from the capture on *)

ProducerNewsAfterSetup(p) ==
  /\ UNCHANGED past
  /\ remote' = IF setup.step # "idle" \/ p \in remote.info THEN remote ELSE StartConsume(p, "event")

ProducerNews(p) ==
  /\ UNCHANGED past
  /\ remote' = IF setup.recv = None THEN [remote EXCEPT !.pend = @ \cup {p}]
               ELSE IF p \in remote.info THEN remote ELSE StartConsume(p, "event")

(* closeConsumerById *)
ConsumerClosed(c) ==
  /\ remote' = IF c \in remote.tiles
               THEN [remote EXCEPT !.tiles = @ \ {c}, !.info = @ \ {c.p}] ELSE remote
  /\ past' = [past EXCEPT !.overlooked = @ \cup {Id(f) : f \in {g \in remote.fetch : Id(g) = c /\ c \notin remote.tiles}}]

(* removePeer *)
PeerLeft(o) ==
  LET T == {c \in remote.tiles : OwnerOf[c.p] = o}
  IN /\ remote' = [remote EXCEPT !.tiles = @ \ T, !.info = @ \ {c.p : c \in T},
                     !.pend = {q \in @ : OwnerOf[q] # o}]
     /\ past' = [past EXCEPT !.overlooked =
           @ \cup {Id(f) : f \in {g \in remote.fetch : OwnerOf[g.p] = o /\ Id(g) \notin T}}]

Deliver ==
  /\ inbox # <<>> /\ link.up
  /\ inbox' = Tail(inbox)
  /\ LET msg == Head(inbox)
         heard == page.mounted /\ page.captured
     IN \/ msg.m = "answer" /\ Answered(msg) /\ UNCHANGED remote
        \/ msg.m = "consumed" /\ Consumed(msg) /\ UNCHANGED <<setup, page>>
        \/ msg.m = "new" /\ heard /\ ProducerNews(msg.p) /\ UNCHANGED <<setup, page>>
        \/ msg.m = "closed" /\ heard /\ ConsumerClosed(msg.c) /\ UNCHANGED <<setup, page>>
        \/ msg.m = "left" /\ heard /\ PeerLeft(msg.o) /\ UNCHANGED <<setup, page>>
        \/ msg.m \in {"new", "closed", "left"} /\ ~heard /\ UNCHANGED <<setup, page, remote, past>>
  /\ UNCHANGED <<link, server>>

-----------------------------------------------------------------------------
(* the others, and the server: a microphone is announced after an await *)

Eventful == past.events < MaxEvents /\ past' = [past EXCEPT !.events = @ + 1]

(* the room is told, to which this socket belongs at the latest when it is  *)
(* our peer's, and from the handling of join-room on                        *)
Told(msgs) == {inbox \o q : q \in IF ~link.up THEN {<<>>} ELSE IF InRoom THEN {msgs} ELSE {<<>>, msgs}}

Open(p) ==
  /\ p \notin server.born
  /\ server' = [server EXCEPT !.open = @ \cup {p}, !.born = @ \cup {p}, !.unannounced = @ \cup {p}]
  /\ Eventful
  /\ UNCHANGED <<link, page, setup, remote, inbox>>

Announce(p) ==
  /\ p \in server.unannounced
  /\ server' = [server EXCEPT !.unannounced = @ \ {p}]
  /\ inbox' \in Told(<<[m |-> "new", p |-> p]>>)
  /\ UNCHANGED <<link, page, setup, remote, past>>

(* the producers P, which open no more; the events of our consumers come in *)
(* any order, but for those the server does not listen to yet               *)
Orders(C) == {q \in [1..Cardinality(C) -> C] : Range(q) = C}
Deaf == {Id(f) : f \in {g \in remote.fetch : g.net = "prioritised"}}
Close(P, first) ==
  LET C == {c \in server.consumers : c.p \in P}
      H == C \ Deaf
  IN /\ server' = [server EXCEPT !.open = @ \ P, !.born = @ \cup P, !.consumers = @ \ C]
     /\ \E q \in Orders(H) :
          inbox' \in Told(first \o [i \in 1..Cardinality(H) |-> [m |-> "closed", c |-> q[i]]])
     /\ past.events < MaxEvents
     /\ past' = [past EXCEPT !.events = @ + 1, !.overlooked = @ \cup (C \cap Deaf)]
     /\ UNCHANGED <<link, page, setup, remote>>

CloseProducer(p) == p \in server.open /\ Close({p}, <<>>)

PeerLeaves(o) ==
  LET P == {p \in Producers : OwnerOf[p] = o}
  IN P \cap server.open # {} /\ Close(P, <<[m |-> "left", o |-> o]>>)

(* the cleanup of the hook *)
Unmount ==
  /\ page.mounted
  /\ page' = [page EXCEPT !.mounted = FALSE, !.timer = FALSE, !.attempt = 0]
  /\ setup' = IF setup.step = "wait" THEN Idling(None) ELSE [setup EXCEPT !.recv = None]
  /\ remote' = Cleared(remote.fetch)
  /\ UNCHANGED <<link, server, inbox, past>>

-----------------------------------------------------------------------------
Local  == Captured \/ RetryTimer \/ Emit \/ Deliver \/ \E f \in remote.fetch : Build(f)
Remote == Serve \/ \E f \in remote.fetch : ServeConsume(f) \/ Prioritised(f)
Faults == Drop \/ SetupTimeout \/ \E f \in remote.fetch : ConsumeTimeout(f)
Others == \/ \E p \in Producers : Open(p) \/ Announce(p) \/ CloseProducer(p)
          \/ \E p \in Producers : PeerLeaves(OwnerOf[p])

(* the loop goes on in the step that ended its last consume: nothing comes  *)
(* in between                                                               *)
SetupNext ==
  \/ NextTile
  \/ ~Continuing /\ (Local \/ Remote \/ Faults \/ Others \/ Connect \/ RetryMedia \/ Unmount)

SetupSpec == SetupInit /\ [][SetupNext]_setupVars

SetupFairness ==
  /\ WF_setupVars(RetryTimer) /\ WF_setupVars(Emit) /\ WF_setupVars(NextTile) /\ WF_setupVars(Deliver) /\ WF_setupVars(Serve)
  /\ WF_setupVars(\E f \in remote.fetch : ServeConsume(f)) /\ WF_setupVars(\E f \in remote.fetch : Prioritised(f))
  /\ WF_setupVars(\E f \in remote.fetch : Build(f))
FairSetup == SetupSpec /\ SetupFairness
-----------------------------------------------------------------------------
Ready == link.up /\ page.mounted /\ page.status = "ready" /\ setup.step = "idle"
Quiet == Ready /\ remote.fetch = {} /\ inbox = <<>> /\ server.unannounced = {}

(* The status says ready only of a connection on which the server has our  *)
(* peer, unless the socket dropped while the setup was consuming the       *)
(* existing producers, whose failures consumeProducer swallows.            *)
ReadyIsJoined == Ready => InRoom \/ past.swallowed

(* Once everything is answered, the tiles match the others' producers.     *)
(* There is one for each open producer unless its consume on the present   *)
(* transport failed: none falls between the list a setup was given and the *)
(* announcements around it.  And each shows an open producer on the        *)
(* present transport, but for three cases: the news went by while its      *)
(* consume was under way, when closeConsumerById and removePeer find       *)
(* nothing to remove (useMediasoup.ts:472-481, 535-581); a microphone      *)
(* closed before the server listened to its consumer's end                 *)
(* (sfu-handlers.ts:280-288); the tile was built after a setup had cleared *)
(* the tiles, and while it waited for the connection (useMediasoup.ts:     *)
(* 618, 835-841).                                                          *)
TilesMatchProducers ==
  Quiet /\ InRoom =>
    /\ \A p \in server.open : [p |-> p, t |-> setup.recv] \in remote.tiles \cup past.missed
    /\ \A c \in remote.tiles : (c.p \in server.open /\ c.t = setup.recv) \/ c \in past.overlooked

(* A connected page whose setup is not running waits for its retry timer,  *)
(* is ready, or offers the manual retry: it never waits for nothing.  A    *)
(* page that was left waits for nothing at all: it keeps no retry timer,   *)
(* no listener for the next connection and no tile.                        *)
NeverIdleInSilence ==
  IF page.mounted
  THEN page.captured /\ link.up /\ setup.step = "idle"
         => page.timer \/ page.status \in {"ready", "exhausted"}
  ELSE ~page.timer /\ setup.step # "wait" /\ remote.tiles = {}

(* What the page says of its set-up is true, and it is never left at that. *)
StatusIsTrue == ReadyIsJoined /\ NeverIdleInSilence

(* While the socket stays up, a setup or its retries come to an end: the   *)
(* page is ready or offers the manual retry.                               *)
RecoveryEnds ==
  page.mounted /\ page.captured /\ link.up
    ~> page.status \in {"ready", "exhausted"} \/ ~link.up \/ ~page.mounted
=============================================================================
