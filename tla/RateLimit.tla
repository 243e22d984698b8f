----------------------------- MODULE RateLimit -----------------------------
(* The per-actor rate limiter of server/src/socket/rate-limit.ts: a Map of    *)
(* actors, each with the sockets it has open and the buckets it has used;     *)
(* buckets are made on demand and refilled lazily, and an actor whose last    *)
(* socket has been gone for the grace period is forgotten.                    *)
(* Time is counted in ticks (the code's milliseconds) and tokens in fractions *)
(* of 1 / Second, so that a tick refills a whole number of them.              *)
EXTENDS Integers

CONSTANTS Actors, Buckets, Sockets,
          ActorOf,       \* actorKeyFor: the actor a socket belongs to
          Capacity, RefillPerSec,  \* BucketConfig of each bucket
          Second,        \* ticks in a second (1000)
          Grace,         \* evictionGraceMs
          Threshold,     \* floodDisconnectThreshold
          MaxCost,       \* bound: the largest cost an event asks for
          MaxClock       \* bound: the last tick

Keys == Actors \X Buckets
Full == [k \in Keys |-> Second * Capacity[k[2]]]
Rate == [k \in Keys |-> RefillPerSec[k[2]]]

ASSUME LimiterAssumption ==
  /\ ActorOf \in [Sockets -> Actors]
  /\ Capacity \in [Buckets -> Nat \ {0}]
  /\ RefillPerSec \in [Buckets -> Nat \ {0}]
  /\ Second \in Nat \ {0}
  /\ Threshold \in Nat \ {0}
  /\ MaxCost \in Nat /\ MaxClock \in Nat /\ Grace \in Nat

(* "By then every bucket has fully refilled anyway": the defaults, 10 minutes *)
(* against 3 and 4 seconds, satisfy it; the configuration is not tested.      *)
ASSUME GraceRefills ==
  \A b \in Buckets : Second * Capacity[b] <= RefillPerSec[b] * Grace

VARIABLES clock,       \* Date.now()
          kept,        \* keys of the actors Map
          live,        \* entry.sockets
          emptySince,  \* entry.emptySince
          held,        \* the buckets that exist
          tokens, last, violations,  \* BucketState
          spent, promise  \* what the clients were admitted and told

told == <<spent, promise>>
limiterVars == <<clock, kept, live, emptySince, held, tokens, last, violations,
          spent, promise>>

Never == -1   \* null
NoPromise == [cost |-> 0, due |-> 0]
Capped(full, amount) == IF amount <= full THEN amount ELSE full
(* mutant: rounded down *)
TicksForFloor(deficit, rate) == deficit \div rate

TicksFor(deficit, rate) == (deficit + rate - 1) \div rate

Connected == UNION {live[a] : a \in Actors}

LimiterInit ==
  /\ clock = 0
  /\ kept = {}
  /\ live = [a \in Actors |-> {}]
  /\ emptySince = [a \in Actors |-> Never]
  /\ held = {}
  /\ tokens = Full
  /\ last = [k \in Keys |-> 0]
  /\ violations = [k \in Keys |-> 0]
  /\ spent = [k \in Keys |-> 0]
  /\ promise = [k \in Keys |-> NoPromise]

Tick ==
  /\ clock < MaxClock
  /\ clock' = clock + 1
  /\ UNCHANGED <<kept, live, emptySince, held, tokens, last, violations, told>>

(* mutant: the grace period is forgotten *)
SweptAtOnce == {a \in kept : live[a] = {} /\ emptySince[a] # Never}

(* mutant: null compares as a time long ago, and the sockets are not counted *)
SweptConnected == {a \in kept : emptySince[a] <= clock - Grace}

(* the actors sweep deletes *)
Swept == {a \in kept : /\ live[a] = {}
                       /\ emptySince[a] # Never
                       /\ emptySince[a] <= clock - Grace}

(* the buckets that outlive the sweep *)
Spared == {k \in held : k[1] \notin Swept}

(* tokens of a bucket after its refill; one that does not exist is made full *)
Refilled(k) ==
  IF k \in Spared
    THEN Capped(Full[k], tokens[k] + (clock - last[k]) * Rate[k])
    ELSE Full[k]

(* guard wraps the events of a new socket: track sweeps, makes the actor's    *)
(* entry when it has none, and attaches the socket to it                      *)
Connect(s) ==
  LET a == ActorOf[s] IN
  /\ s \notin Connected
  /\ kept' = (kept \ Swept) \union {a}
  /\ live' = [live EXCEPT ![a] = @ \union {s}]
  /\ emptySince' = [emptySince EXCEPT ![a] = Never]
  /\ held' = Spared
  /\ UNCHANGED <<clock, tokens, last, violations, told>>

Detach(s) ==
  LET a == ActorOf[s] IN
  /\ live' = [live EXCEPT ![a] = @ \ {s}]
  /\ emptySince' = IF live[a] \ {s} = {}
                     THEN [emptySince EXCEPT ![a] = clock] ELSE emptySince

Disconnect(s) ==
  /\ s \in Connected
  /\ Detach(s)
  /\ UNCHANGED <<clock, kept, held, tokens, last, violations, told>>

(* the tokens an event that asks for n costs *)
Cost(b, n) == Second * (IF n > 0 THEN Capped(Capacity[b], n) ELSE 1)

(* mutant: the time of the last refill is not updated *)
TouchNoTime(k, remaining) ==
  /\ kept' = kept \ Swept
  /\ held' = Spared \union {k}
  /\ tokens' = [tokens EXCEPT ![k] = remaining]
  /\ last' = [last EXCEPT ![k] = IF k \in Spared THEN @ ELSE clock]

(* what every guarded event does first: sweep, and make or refill its bucket *)
Touch(k, remaining) ==
  /\ kept' = kept \ Swept
  /\ held' = Spared \union {k}
  /\ tokens' = [tokens EXCEPT ![k] = remaining]
  /\ last' = [last EXCEPT ![k] = clock]

(* consecutive denials, counted no further than the threshold they are       *)
(* compared with                                                             *)
Denials(k) ==
  Capped(Threshold, 1 + IF k \in Spared THEN violations[k] ELSE 0)

Admit(s, b, n) ==
  LET k == <<ActorOf[s], b>> IN
  /\ s \in Connected
  /\ Refilled(k) >= Cost(b, n)
  /\ Touch(k, Refilled(k) - Cost(b, n))
  /\ violations' = [violations EXCEPT ![k] = 0]
  /\ spent' = [spent EXCEPT ![k] = @ + Cost(b, n)]
  /\ promise' = [promise EXCEPT ![k] = NoPromise]
  /\ UNCHANGED <<clock, live, emptySince>>

(* The event is dropped, and its acknowledgement says when to try again; an   *)
(* event without one is dropped in silence.                                   *)
Refuse(s, b, n, ack) ==
  LET k == <<ActorOf[s], b>> IN
  /\ s \in Connected
  /\ Refilled(k) < Cost(b, n)
  /\ Touch(k, Refilled(k))
  /\ violations' = [violations EXCEPT ![k] = Denials(k)]
  /\ Denials(k) < Threshold
  /\ promise' = IF ack
       THEN [promise EXCEPT ![k] =
              [cost |-> Cost(b, n),
               due |-> clock + TicksFor(Cost(b, n) - Refilled(k), Rate[k])]]
       ELSE promise
  /\ UNCHANGED <<clock, live, emptySince, spent>>

(* The denial that reaches the threshold cuts the socket, whose disconnect    *)
(* handler runs at once, and answers nothing.                                 *)
Cut(s, b, n) ==
  LET k == <<ActorOf[s], b>> IN
  /\ s \in Connected
  /\ Refilled(k) < Cost(b, n)
  /\ Touch(k, Refilled(k))
  /\ violations' = [violations EXCEPT ![k] = Denials(k)]
  /\ Denials(k) >= Threshold
  /\ Detach(s)
  /\ UNCHANGED <<clock, told>>

Send(s, b, n) ==
  \/ Admit(s, b, n)
  \/ \E ack \in BOOLEAN : Refuse(s, b, n, ack)
  \/ Cut(s, b, n)

LimiterNext ==
  \/ Tick
  \/ \E s \in Sockets : Connect(s) \/ Disconnect(s)
  \/ \E s \in Sockets, b \in Buckets, n \in 0 .. MaxCost : Send(s, b, n)

LimiterSpec == LimiterInit /\ [][LimiterNext]_limiterVars
-----------------------------------------------------------------------------
(* The abstract bucket: full unless the store says otherwise. *)
level == [k \in Keys |->
  IF k \in held THEN Capped(Full[k], tokens[k] + (clock - last[k]) * Rate[k])
                ELSE Full[k]]

Ideal == INSTANCE TokenBuckets WITH
  Keys <- Keys, Full <- Full, Rate <- Rate,
  clock <- clock, level <- level, spent <- spent, promise <- promise

TypeOK ==
  /\ clock \in 0 .. MaxClock
  /\ kept \subseteq Actors
  /\ live \in [Actors -> SUBSET Sockets]
  /\ emptySince \in [Actors -> Nat \union {Never}]
  /\ held \subseteq Keys
  /\ tokens \in [Keys -> Nat]
  /\ last \in [Keys -> Nat]
  /\ violations \in [Keys -> 0 .. Threshold]
  /\ spent \in [Keys -> Nat]
  /\ promise \in [Keys -> [cost : Nat, due : Nat]]
  /\ \A a \in Actors : \A s \in live[a] : ActorOf[s] = a

(* The store, with its lazy refills, buckets made on demand and sweeps, is    *)
(* the ideal limiter: no reconnect, parallel socket or eviction gives an      *)
(* actor a token more or less.                                                *)
BehavesAsIdeal == Ideal!Spec

(* "All of one actor's sockets share the same buckets, and a reconnect        *)
(* resumes the drained bucket": whatever its sockets do, an actor is admitted *)
(* at most one burst and the sustained rate.                                  *)
SustainedRate == Ideal!SustainedRate

(* retryAfterMs is exact: no earlier retry would have been admitted, and one  *)
(* at that time is, a clamped or unserializable message included.             *)
RetryAfterExact == Ideal!PromiseExact

(* An actor with an open socket is never evicted, and only actors in the      *)
(* store have buckets.                                                        *)
StoreConsistent ==
  /\ \A a \in Actors : live[a] # {} => a \in kept
  /\ \A k \in held : k[1] \in kept
=============================================================================
