------------------------------ MODULE SfuMedia ------------------------------
(***************************************************************************)
(* The media objects of one SFU room: WebRTC transports, the producers and *)
(* consumers on them, and a host's mute (sfu-handlers.ts, sfu-rooms.ts).   *)
(* Every socket has joined; SfuRooms models joining.                       *)
(*                                                                         *)
(* A handler runs until its next await, where other handlers run.          *)
(* mediasoup carries out one producer's requests in order, closes what     *)
(* lives on a closed transport at once, and tells the server later, one    *)
(* consumer at a time, that a consumer's producer has gone.  A client that *)
(* gives up on a setup (a call failed or timed out) starts another on the  *)
(* same socket: its objects belong to the next generation.                 *)
(***************************************************************************)
EXTENDS Naturals, SequencesExt

CONSTANTS
  Peers,
  Casts,           \* what the clients do: the tracks each produces, who consumes,
                   \* who is a meeting admin, and two bounds, on the setups that
                   \* fail and on the requests waiting at one producer
  MaxTransports, MaxProducers

Tracks == {"mic", "camera", "screen", "screenAudio"}
Audio  == {"mic", "screenAudio"}

ASSUME SfuMediaConstants ==
  /\ \A c \in Casts : /\ c.kinds \in [Peers -> SUBSET Tracks]
                      /\ c.hears \subseteq Peers /\ c.hosts \subseteq Peers
                      /\ c.restarts \in Nat /\ c.queued \in Nat
  /\ MaxTransports \in Nat /\ MaxProducers \in Nat

Gens       == 1..(Max({c.restarts : c \in Casts}) + 1)
Transports == [of : Peers, gen : Gens, dir : {"send", "recv"}]

(* the objects a cast can come to have *)
Producers  ==
  {p \in [of : Peers, gen : Gens, kind : Tracks] :
     \E c \in Casts : p.gen <= c.restarts + 1 /\ p.kind \in c.kinds[p.of]}
Consumers  ==
  {k \in [of : Peers, gen : Gens, p : Producers] :
     /\ k.p.of # k.of
     /\ \E c \in Casts : k.gen <= c.restarts + 1 /\ k.of \in c.hears /\ k.p.kind \in c.kinds[k.p.of]}

(* the transports of an object's setup *)
SendOf(x) == [of |-> x.of, gen |-> x.gen, dir |-> "send"]
RecvOf(x) == [of |-> x.of, gen |-> x.gen, dir |-> "recv"]

VARIABLES
  cast,
  present,         \* sockets in room.peers; the Router is open while there are any
  gen,             \* socket |-> its client's current setup
  listed,          \* sockets whose current setup got the list of producers
  known,           \* socket |-> producers its client was told of in this setup
  tpc, ppc, cpc,   \* object |-> where the handler that creates it is
  openT, openP, openC,   \* mediasoup objects that are not closed
  transports,      \* socket |-> its peer's transports map
  producers,       \* socket |-> its peer's producers map, in insertion order
  consumers,       \* socket |-> its peer's consumers map
  told,            \* consumers whose client was sent sfu-consumer-closed
  released,        \* history: transports taken from the map by releaseTransport
  late,            \* history: transports created after their peer had gone
  paused,          \* producers that are paused
  queue,           \* producer |-> pauses and resumes not yet carried out
  muting,          \* targets of host mutes waiting for the database
  muted            \* sockets muted by a host that did not unmute since

client == <<gen, listed, known>>
mapT   == <<tpc, openT, transports, released, late>>
mapP   == <<ppc, openP, producers>>
mapC   == <<cpc, openC, consumers, told>>
mute   == <<paused, queue, muting, muted>>
mediaVars == <<cast, present, client, mapT, mapP, mapC, mute>>

MediaInit ==
  /\ cast \in Casts /\ present = Peers /\ gen = [s \in Peers |-> 1]
  /\ listed = {} /\ known = [s \in Peers |-> {}]
  /\ tpc = [t \in Transports |-> "none"]
  /\ ppc = [p \in Producers |-> "none"]
  /\ cpc = [c \in Consumers |-> "none"]
  /\ openT = {} /\ openP = {} /\ openC = {}
  /\ transports = [s \in Peers |-> {}]
  /\ producers = [s \in Peers |-> <<>>]
  /\ consumers = [s \in Peers |-> {}]
  /\ told = {} /\ released = {} /\ late = {}
  /\ paused = {} /\ queue = [p \in Producers |-> <<>>]
  /\ muting = {} /\ muted = {}

Produced(s) == ToSet(producers[s])

(* the client is in the room, on the setup the object is for, and has both *)
(* of that setup's transports                                              *)
Current(x)  == x.of \in present /\ x.gen = gen[x.of]
Equipped(x) == Current(x) /\ tpc[SendOf(x)] = "done" /\ tpc[RecvOf(x)] = "done"

-----------------------------------------------------------------------------
(* sfu-create-transport: first the send transport, then the other *)

CreateTransport(t) ==
  /\ Current(t) /\ tpc[t] = "none" /\ (t.dir = "recv" => tpc[SendOf(t)] = "done")
  /\ tpc' = [tpc EXCEPT ![t] =
              IF Cardinality(transports[t.of]) >= MaxTransports THEN "refused" ELSE "creating"]
  /\ UNCHANGED <<present, client, openT, transports, released, late, mapP, mapC, mute>>

TransportCreated(t) ==
  /\ tpc[t] = "creating"
  /\ IF present = {}
     THEN /\ tpc' = [tpc EXCEPT ![t] = "refused"]
          /\ UNCHANGED <<openT, transports, late>>
     ELSE /\ tpc' = [tpc EXCEPT ![t] = "done"]
          /\ openT' = openT \cup {t}
          /\ transports' = [transports EXCEPT ![t.of] = @ \cup {t}]
          /\ late' = IF t.of \in present THEN late ELSE late \cup {t}
  /\ UNCHANGED <<present, client, released, mapP, mapC, mute>>

(* ICE failed, or the client closed its end: releaseTransport *)
ReleaseTransport(t) ==
  /\ t \in openT /\ t \in transports[t.of]
  /\ transports' = [transports EXCEPT ![t.of] = @ \ {t}]
  /\ released' = released \cup {t}
  /\ UNCHANGED <<present, client, tpc, openT, late, mapP, mapC, mute>>

-----------------------------------------------------------------------------
(* sfu-produce, sfu-get-producers, sfu-close-producer *)

Produce(p) ==
  /\ Equipped(p) /\ ppc[p] = "none" /\ p.kind \in cast.kinds[p.of]
  /\ ppc' = [ppc EXCEPT ![p] =
              IF SendOf(p) \in transports[p.of] /\ Len(producers[p.of]) < MaxProducers
              THEN "producing" ELSE "refused"]
  /\ UNCHANGED <<present, client, mapT, openP, producers, mapC, mute>>

(* sfu-new-producer to everyone else in the room *)
ToldOf(p) == [s \in Peers |-> IF s \in present \ {p.of} THEN known[s] \cup {p} ELSE known[s]]

(* a microphone is first registered with the audio level observer *)
ProducerCreated(p) ==
  /\ ppc[p] = "producing"
  /\ IF SendOf(p) \in openT
     THEN /\ openP' = openP \cup {p}
          /\ producers' = [producers EXCEPT ![p.of] = Append(@, p)]
          /\ IF p.kind = "mic"
             THEN ppc' = [ppc EXCEPT ![p] = "observing"] /\ UNCHANGED known
             ELSE ppc' = [ppc EXCEPT ![p] = "done"] /\ known' = ToldOf(p)
     ELSE ppc' = [ppc EXCEPT ![p] = "refused"] /\ UNCHANGED <<openP, producers, known>>
  /\ UNCHANGED <<present, gen, listed, mapT, mapC, mute>>

Announce(p) ==
  /\ ppc[p] = "observing"
  /\ ppc' = [ppc EXCEPT ![p] = "done"]
  /\ known' = ToldOf(p)
  /\ UNCHANGED <<present, gen, listed, mapT, openP, producers, mapC, mute>>

ListOtherProducers(s) == UNION {Produced(o) : o \in present \ {s}}

GetProducers(s) ==
  /\ s \in present \ listed /\ Equipped([of |-> s, gen |-> gen[s]])
  /\ listed' = listed \cup {s}
  /\ known' = [known EXCEPT ![s] = @ \cup ListOtherProducers(s)]
  /\ UNCHANGED <<present, gen, mapT, mapP, mapC, mute>>

Restarts == {r \in Peers \X Gens : r[2] < gen[r[1]]}

(* runSetup after a failed attempt: clearRemoteState, then all over again *)
NewSetup(s) ==
  /\ s \in present \ listed /\ Cardinality(Restarts) < cast.restarts
  /\ gen' = [gen EXCEPT ![s] = @ + 1]
  /\ known' = [known EXCEPT ![s] = {}]
  /\ muted' = muted \ {s}
  /\ UNCHANGED <<present, listed, mapT, mapP, mapC, paused, queue, muting>>

ForgetProducerKept(p) == p \in Produced(p.of) /\ UNCHANGED producers
ForgetProducer(p) ==
  \E i \in DOMAIN producers[p.of] :
    producers[p.of][i] = p /\ producers' = [producers EXCEPT ![p.of] = RemoveAt(@, i)]

(* stopping a screen share *)
CloseProducer(p) ==
  /\ Current(p) /\ p.kind \in {"screen", "screenAudio"} /\ ppc[p] = "done"
  /\ openP' = openP \ {p} /\ ForgetProducer(p)
  /\ UNCHANGED <<present, client, mapT, ppc, mapC, mute>>

-----------------------------------------------------------------------------
(* sfu-consume *)

Duplicate(c) == \E e \in consumers[c.of] : e.p = c.p /\ e \in openC

Consume(c) ==
  /\ Equipped(c) /\ c.of \in cast.hears /\ c.p \in known[c.of] /\ cpc[c] = "none"
  /\ cpc' = [cpc EXCEPT ![c] =
              IF c.p \in openP /\ ~Duplicate(c) /\ RecvOf(c) \in transports[c.of]
              THEN "consuming" ELSE "refused"]
  /\ UNCHANGED <<present, client, mapT, mapP, openC, consumers, told, mute>>

ConsumerCreated(c) ==
  /\ cpc[c] = "consuming" /\ RecvOf(c) \in openT
  /\ openC' = openC \cup {c}
  /\ consumers' = [consumers EXCEPT ![c.of] = @ \cup {c}]
  /\ cpc' = [cpc EXCEPT ![c] = IF c.p.kind \in Audio THEN "prioritising" ELSE "done"]
  /\ UNCHANGED <<present, client, mapT, mapP, told, mute>>

ConsumeFailed(c) ==
  /\ cpc[c] = "consuming" /\ (RecvOf(c) \notin openT \/ c.p \notin openP)
  /\ cpc' = [cpc EXCEPT ![c] = "refused"]
  /\ UNCHANGED <<present, client, mapT, mapP, openC, consumers, told, mute>>

(* setPriority has been answered: only now are the close listeners added *)
Prioritised(c) ==
  /\ cpc[c] = "prioritising"
  /\ cpc' = [cpc EXCEPT ![c] = "done"]
  /\ UNCHANGED <<present, client, mapT, mapP, openC, consumers, told, mute>>

Listening(c) == cpc[c] = "done"

(* producerclose *)
ProducerGoneUntold(c) ==
  consumers' = [consumers EXCEPT ![c.of] = @ \ {c}] /\ UNCHANGED told
ProducerGone(c) ==
  IF Listening(c)
  THEN consumers' = [consumers EXCEPT ![c.of] = @ \ {c}] /\ told' = told \cup {c}
  ELSE UNCHANGED <<consumers, told>>

ConsumerClosed(c) ==
  /\ c \in openC /\ c.p \notin openP
  /\ openC' = openC \ {c}
  /\ ProducerGone(c)
  /\ UNCHANGED <<present, client, mapT, mapP, cpc, mute>>

-----------------------------------------------------------------------------
(* disconnect: removePeer, sfu-peer-left, closeRoomIfEmpty *)

RemovedTransportsSend(s) == {t \in transports[s] : t.dir = "send"}
RemovedTransports(s) == transports[s]

PeerDisconnects(s) ==
  /\ s \in present
  /\ present' = present \ {s}
  /\ openT' = IF present' = {} THEN {} ELSE openT \ RemovedTransports(s)
  /\ openP' = {p \in openP : SendOf(p) \in openT'}
  /\ openC' = {c \in openC : RecvOf(c) \in openT'}
  /\ transports' = [transports EXCEPT ![s] = {}]
  /\ producers' = [producers EXCEPT ![s] = <<>>]
  /\ consumers' = [consumers EXCEPT ![s] = {}]
  /\ known' = [o \in Peers |-> {p \in known[o] : p.of # s}]
  /\ UNCHANGED <<gen, listed, tpc, released, late, ppc, cpc, told, mute>>

-----------------------------------------------------------------------------
(* muting: by the owner (sfu-pause-producer, sfu-resume-producer) and by a *)
(* host (sfu-host-mute).  A request waits in the producer's queue.         *)

Ask(p, what) ==
  /\ Len(queue[p]) < cast.queued
  /\ queue' = [queue EXCEPT ![p] = Append(@, what)]

SetMic(p, what) ==
  /\ Current(p) /\ p.kind = "mic" /\ ppc[p] = "done" /\ p \in Produced(p.of)
  /\ what \in {"pause", "resume"} /\ Ask(p, what)
  /\ UNCHANGED <<present, client, mapT, mapP, mapC, paused, muting, muted>>

HostMute(s) ==
  /\ s \in present \ muting /\ (cast.hosts \cap present) \ {s} # {}
  /\ muting' = muting \cup {s}
  /\ UNCHANGED <<present, client, mapT, mapP, mapC, paused, queue, muted>>

(* the first audio producer that is not a screen share's *)
FirstOf(kinds, q) == {q[i] : i \in {j \in DOMAIN q : /\ q[j].kind \in kinds
                                                   /\ \A k \in 1..(j - 1) : q[k].kind \notin kinds}}
MicProducerAnyAudio(s) == FirstOf(Audio, producers[s])
MicProducer(s) == FirstOf({"mic"}, producers[s])

(* callerIsHost has answered *)
PauseMic(s) ==
  /\ s \in muting /\ muting' = muting \ {s}
  /\ IF MicProducer(s) \subseteq paused THEN UNCHANGED queue
                                       ELSE \E p \in MicProducer(s) : Ask(p, "mute")
  /\ UNCHANGED <<present, client, mapT, mapP, mapC, paused, muted>>

(* the head of the queue is carried out, or fails on a closed producer *)
Carried(p) ==
  /\ queue[p] # <<>> /\ queue' = [queue EXCEPT ![p] = Tail(@)]
  /\ LET what == Head(queue[p])
     IN  IF p \notin openP THEN UNCHANGED <<paused, muted>>
         ELSE /\ paused' = IF what = "resume" THEN paused \ {p} ELSE paused \cup {p}
              /\ muted'  = IF what = "mute" THEN muted \cup {p.of}
                           ELSE IF what = "resume" THEN muted \ {p.of} ELSE muted
  /\ UNCHANGED <<present, client, mapT, mapP, mapC, muting>>

-----------------------------------------------------------------------------
MediaNext ==
  /\ UNCHANGED cast
  /\ \/ \E t \in Transports : CreateTransport(t) \/ TransportCreated(t) \/ ReleaseTransport(t)
     \/ \E p \in Producers : \/ Produce(p) \/ ProducerCreated(p) \/ Announce(p) \/ CloseProducer(p)
                             \/ Carried(p) \/ \E what \in {"pause", "resume"} : SetMic(p, what)
     \/ \E c \in Consumers : \/ Consume(c) \/ ConsumerCreated(c) \/ ConsumeFailed(c)
                             \/ Prioritised(c) \/ ConsumerClosed(c)
     \/ \E s \in Peers : \/ GetProducers(s) \/ NewSetup(s) \/ PeerDisconnects(s)
                           \/ HostMute(s) \/ PauseMic(s)
     \/ present = {} /\ UNCHANGED mediaVars

MediaSpec == MediaInit /\ [][MediaNext]_mediaVars

-----------------------------------------------------------------------------
(* A client that has listed the producers knows every announced producer   *)
(* of everyone else, however its list and the announcements interleave,    *)
(* and what a list offers or a host's mute finds is open and its owner's   *)
(* (sfu-handlers.ts:213-234, 322-326, 385-390, sfu-rooms.ts:78-103).       *)
OffersAreTrue ==
  \A s \in present :
    /\ \A p \in Produced(s) : p \in openP /\ p.of = s
    /\ s \in listed => \A p \in ListOtherProducers(s) : ppc[p] = "done" => p \in known[s]

(* A client that was given a video consumer is told when it closes because *)
(* its producer did.  An audio consumer's listeners are attached after     *)
(* setPriority is awaited, and a close in between is never told.           *)
VideoClosuresTold ==
  \A c \in Consumers :
    c.p.kind \notin Audio /\ cpc[c] = "done" /\ c \notin openC /\ c.of \in present => c \in told

(* What is still open of a peer that has gone is on a transport that       *)
(* releaseTransport took from the peer's map or that was created after the *)
(* disconnect handler had run.                                             *)
LeftoversExplained ==
  \A t \in openT : t.of \in present \/ t \in released \cup late

(* A host's mute is enforced (sfu-handlers.ts:438-440): while no set-up of  *)
(* its owner failed, a microphone a host muted is not live until the owner *)
(* unmutes, whatever pauses and resumes of both wait at the producer.      *)
MuteEnforced ==
  \A p \in openP : p.kind = "mic" /\ p.of \in muted /\ gen[p.of] = 1 => p \in paused
=============================================================================
