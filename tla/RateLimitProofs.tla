--------------------------- MODULE RateLimitProofs ---------------------------
(* The store of RateLimit implements the ideal limiter of TokenBuckets, for   *)
(* any number of actors, sockets and buckets.                                 *)
EXTENDS RateLimit, TLAPS

LEMMA Division ==
  ASSUME NEW n \in Nat, NEW r \in Nat \ {0}
  PROVE  n \div r \in Nat
  BY SMT

LEMMA TicksForType ==
  ASSUME NEW d \in Nat \ {0}, NEW r \in Nat \ {0}
  PROVE  TicksFor(d, r) \in Nat
<1>1. d + r - 1 \in Nat
  OBVIOUS
<1> QED
  BY <1>1, Division DEF TicksFor

LEMMA OneMore == \A x, r \in Int : (x + 1) * r = x * r + r
  OBVIOUS

LEMMA ScaledUp ==
  ASSUME NEW x \in Nat, NEW y \in Nat, NEW r \in Nat, x <= y
  PROVE  x * r <= y * r /\ r * x <= r * y /\ x * r \in Nat
<1>1. (y - x) * r \in Nat
  BY y - x \in Nat
<1>2. (y - x) * r = y * r - x * r /\ x * r = r * x /\ y * r = r * y
  OBVIOUS
<1>3. x * r \in Nat
  OBVIOUS
<1> QED
  BY <1>1, <1>2, <1>3

(* the parameters of a bucket; one grace period refills it *)
LEMMA KeyFacts ==
  ASSUME NEW k \in Keys
  PROVE  /\ k[1] \in Actors /\ k[2] \in Buckets
         /\ Full[k] \in Nat \ {0} /\ Rate[k] \in Nat \ {0}
         /\ Full[k] <= Grace * Rate[k]
<1>1. k[1] \in Actors /\ k[2] \in Buckets
  BY DEF Keys
<1>2. /\ Capacity[k[2]] \in Nat \ {0} /\ RefillPerSec[k[2]] \in Nat \ {0}
      /\ Second \in Nat \ {0} /\ Grace \in Nat
      /\ Second * Capacity[k[2]] <= RefillPerSec[k[2]] * Grace
  BY <1>1, LimiterAssumption, GraceRefills
<1>3. Full[k] = Second * Capacity[k[2]] /\ Rate[k] = RefillPerSec[k[2]]
  BY DEF Full, Rate
<1>4. Second * Capacity[k[2]] \in Nat \ {0}
  BY <1>2
<1>5. RefillPerSec[k[2]] * Grace = Grace * RefillPerSec[k[2]]
  BY <1>2
<1> QED
  BY <1>1, <1>2, <1>3, <1>4, <1>5

(* every event costs between one token and what its bucket can hold *)
LEMMA CostFacts ==
  ASSUME NEW k \in Keys, NEW n \in Nat
  PROVE  Cost(k[2], n) \in 1 .. Full[k]
<1> DEFINE c == IF n > 0 THEN Capped(Capacity[k[2]], n) ELSE 1
<1>1. k[2] \in Buckets /\ Full[k] = Second * Capacity[k[2]]
  BY DEF Keys, Full
<1>2. Capacity[k[2]] \in Nat \ {0} /\ Second \in Nat \ {0}
  BY <1>1, LimiterAssumption
<1>3. c \in Nat \ {0} /\ c <= Capacity[k[2]]
  BY <1>2 DEF Capped
<1>4. Cost(k[2], n) = Second * c
  BY DEF Cost
<1> HIDE DEF c
<1>5. Second * c <= Second * Capacity[k[2]]
  BY <1>2, <1>3, ScaledUp
<1>6. Second * c \in Nat \ {0} /\ Second * Capacity[k[2]] \in Nat
  BY <1>2, <1>3
<1> QED
  BY <1>1, <1>4, <1>5, <1>6

-----------------------------------------------------------------------------
(* A bucket is held by an actor in the store, and was last used in the past.  *)
Stored(k) ==
  k \in held => last[k] <= clock /\ tokens[k] <= Full[k] /\ k[1] \in kept

(* An actor without sockets has been so since after its buckets' last use.    *)
Idle(a) ==
  a \in kept /\ live[a] = {} =>
    /\ emptySince[a] \in 0 .. clock
    /\ \A k \in held : k[1] = a => last[k] <= emptySince[a]

IInv ==
  /\ TypeOK
  /\ \A k \in Keys : Stored(k)
  /\ \A a \in Actors : Idle(a)
  /\ \A a \in Actors : live[a] # {} => a \in kept

(* a bucket that is swept away would be full *)
LEMMA SweptIsFull ==
  ASSUME IInv, NEW k \in held, k[1] \in Swept
  PROVE  Full[k] <= tokens[k] + (clock - last[k]) * Rate[k]
<1>1. k \in Keys
  BY DEF IInv, TypeOK
<1>0. /\ k[1] \in kept /\ live[k[1]] = {} /\ emptySince[k[1]] <= clock - Grace
      /\ k[1] \in Actors /\ Idle(k[1])
  BY <1>1, KeyFacts DEF Swept, IInv
<1>2. /\ clock \in Nat /\ last[k] \in Nat /\ tokens[k] \in Nat
      /\ last[k] <= emptySince[k[1]] /\ emptySince[k[1]] \in Nat
      /\ emptySince[k[1]] <= clock - Grace
  BY <1>0, <1>1 DEF IInv, TypeOK, Idle
<1>3. Grace \in Nat
  BY LimiterAssumption
<1>4. clock - last[k] \in Nat /\ Grace <= clock - last[k]
  BY <1>2, <1>3
<1>5. Grace * Rate[k] <= (clock - last[k]) * Rate[k]
  BY <1>1, <1>3, <1>4, KeyFacts, ScaledUp
<1>6. (clock - last[k]) * Rate[k] \in Nat /\ Grace * Rate[k] \in Nat
  BY <1>1, <1>3, <1>4, KeyFacts
<1> QED
  BY <1>1, <1>2, <1>5, <1>6, KeyFacts

(* what an event finds in its bucket is the bucket's level *)
LEMMA RefilledIsLevel ==
  ASSUME IInv, NEW k \in Keys
  PROVE  Refilled(k) = level[k] /\ level[k] \in 0 .. Full[k]
<1>1. /\ level[k] = IF k \in held
           THEN Capped(Full[k], tokens[k] + (clock - last[k]) * Rate[k])
           ELSE Full[k]
      /\ Full[k] \in Nat \ {0}
  BY KeyFacts DEF level
<1>2. CASE k \in held
  <2>1. clock - last[k] \in Nat /\ tokens[k] \in Nat
    BY <1>2 DEF IInv, TypeOK, Stored
  <2>2. (clock - last[k]) * Rate[k] \in Nat
    BY <2>1, KeyFacts
  <2>3. CASE k[1] \in Swept
    BY <1>1, <1>2, <2>1, <2>2, <2>3, SweptIsFull DEF Refilled, Spared, Capped
  <2>4. CASE k[1] \notin Swept
    BY <1>1, <1>2, <2>1, <2>2, <2>4 DEF Refilled, Spared, Capped
  <2> QED
    BY <2>3, <2>4
<1>3. CASE k \notin held
  BY <1>1, <1>3 DEF Refilled, Spared
<1> QED
  BY <1>2, <1>3

(* a guarded event changes the level of its own bucket and of no other *)
LEMMA TouchedLevel ==
  ASSUME IInv, NEW k \in Keys, NEW remaining \in 0 .. Full[k],
         Touch(k, remaining), clock' = clock
  PROVE  level' = [level EXCEPT ![k] = remaining]
<1>1. ASSUME NEW j \in Keys
      PROVE  level'[j] = IF j = k THEN remaining ELSE level[j]
  <2>1. level'[j] = IF j \in held'
          THEN Capped(Full[j], tokens'[j] + (clock' - last'[j]) * Rate[j])
          ELSE Full[j]
    BY DEF level
  <2>2. CASE j = k
    <3>1. j \in held' /\ tokens'[j] = remaining /\ last'[j] = clock
      BY <2>2 DEF Touch, IInv, TypeOK
    <3>2. clock \in Nat /\ Full[j] \in Nat /\ Rate[j] \in Nat
      BY KeyFacts DEF IInv, TypeOK
    <3>3. (clock - clock) * Rate[j] = 0
      BY <3>2
    <3> QED
      BY <2>1, <2>2, <3>1, <3>2, <3>3 DEF Capped
  <2>3. CASE j # k
    <3>1. tokens'[j] = tokens[j] /\ last'[j] = last[j]
      BY <2>3 DEF Touch, IInv, TypeOK
    <3>2. j \in held' <=> j \in Spared
      BY <2>3 DEF Touch
    <3>3. level'[j] = Refilled(j)
      BY <2>1, <3>1, <3>2 DEF Refilled
    <3> QED
      BY <2>3, <3>3, RefilledIsLevel
  <2> QED
    BY <2>2, <2>3
<1> QED
  BY <1>1 DEF level

-----------------------------------------------------------------------------
LEMMA InitIInv == LimiterInit => IInv
<1> SUFFICES ASSUME LimiterInit PROVE IInv
  OBVIOUS
<1>1. \A k \in Keys : Full[k] \in Nat \ {0}
  BY KeyFacts
<1>2. Full \in [Keys -> Nat]
  BY <1>1 DEF Full
<1>3. TypeOK
  BY <1>2, LimiterAssumption DEF LimiterInit, TypeOK, NoPromise, Never
<1>4. /\ \A k \in Keys : Stored(k)
      /\ \A a \in Actors : Idle(a)
      /\ \A a \in Actors : live[a] # {} => a \in kept
  BY DEF LimiterInit, Stored, Idle
<1> QED
  BY <1>3, <1>4 DEF IInv

LEMMA TickIInv == IInv /\ Tick => IInv'
<1> SUFFICES ASSUME IInv, Tick PROVE IInv'
  OBVIOUS
<1>1. /\ clock \in Nat /\ clock' = clock + 1 /\ MaxClock \in Nat
      /\ UNCHANGED <<kept, live, emptySince, held, tokens, last, violations,
                     spent, promise>>
  BY LimiterAssumption DEF IInv, TypeOK, Tick, told
<1>2. TypeOK'
  BY <1>1 DEF IInv, TypeOK, Tick
<1>3. ASSUME NEW k \in Keys PROVE Stored(k)'
  BY <1>1 DEF IInv, TypeOK, Stored
<1>4. ASSUME NEW a \in Actors PROVE Idle(a)'
  BY <1>1 DEF IInv, TypeOK, Idle
<1> QED
  BY <1>1, <1>2, <1>3, <1>4 DEF IInv

LEMMA ConnectIInv ==
  ASSUME NEW s \in Sockets, IInv, Connect(s)
  PROVE  IInv'
<1>1. /\ ActorOf[s] \in Actors
      /\ kept' = (kept \ Swept) \union {ActorOf[s]}
      /\ live' = [live EXCEPT ![ActorOf[s]] = @ \union {s}]
      /\ emptySince' = [emptySince EXCEPT ![ActorOf[s]] = Never]
      /\ held' = Spared
      /\ UNCHANGED <<clock, tokens, last, violations, spent, promise>>
  BY LimiterAssumption DEF Connect, told
<1>2. TypeOK'
  BY <1>1 DEF IInv, TypeOK, Spared
<1>3. ASSUME NEW k \in Keys PROVE Stored(k)'
  BY <1>1 DEF IInv, Stored, Spared
<1>4. ASSUME NEW a \in Actors PROVE Idle(a)'
  <2>1. CASE a = ActorOf[s]
    BY <1>1, <2>1 DEF IInv, TypeOK, Idle
  <2>2. CASE a # ActorOf[s]
    BY <1>1, <2>2 DEF IInv, TypeOK, Idle, Spared
  <2> QED
    BY <2>1, <2>2
<1>5. \A a \in Actors : live'[a] # {} => a \in kept'
  BY <1>1 DEF IInv, TypeOK, Swept
<1> QED
  BY <1>2, <1>3, <1>4, <1>5 DEF IInv

(* losing a socket leaves its actor idle since now *)
LEMMA DetachFacts ==
  ASSUME NEW s \in Sockets, IInv, s \in Connected, Detach(s)
  PROVE  /\ ActorOf[s] \in kept
         /\ live' \in [Actors -> SUBSET Sockets]
         /\ emptySince' \in [Actors -> Nat \union {Never}]
         /\ \A a \in Actors : \A t \in live'[a] : ActorOf[t] = a
         /\ \A a \in Actors : live'[a] # {} => live[a] # {}
         /\ \A a \in Actors : live'[a] = {} =>
              \/ live[a] = {} /\ emptySince'[a] = emptySince[a]
              \/ emptySince'[a] = clock
         /\ live[ActorOf[s]] # {}
<1>1. /\ ActorOf[s] \in Actors /\ s \in live[ActorOf[s]]
      /\ clock \in Nat
  BY LimiterAssumption DEF IInv, TypeOK, Connected
<1>2. ActorOf[s] \in kept /\ live[ActorOf[s]] # {}
  BY <1>1 DEF IInv
<1>3. live' \in [Actors -> SUBSET Sockets]
  BY <1>1 DEF IInv, TypeOK, Detach
<1>4. emptySince' \in [Actors -> Nat \union {Never}]
  BY <1>1 DEF IInv, TypeOK, Detach
<1>5. ASSUME NEW a \in Actors
      PROVE  live'[a] = IF a = ActorOf[s] THEN live[a] \ {s} ELSE live[a]
  BY <1>1 DEF IInv, TypeOK, Detach
<1>6. ASSUME NEW a \in Actors, live'[a] = {}
      PROVE  \/ live[a] = {} /\ emptySince'[a] = emptySince[a]
             \/ emptySince'[a] = clock
  <2>1. CASE a = ActorOf[s]
    BY <1>1, <1>5, <1>6, <2>1 DEF IInv, TypeOK, Detach
  <2>2. CASE a # ActorOf[s]
    BY <1>1, <1>5, <1>6, <2>2 DEF IInv, TypeOK, Detach
  <2> QED
    BY <2>1, <2>2
<1> QED
  BY <1>1, <1>2, <1>3, <1>4, <1>5, <1>6 DEF IInv, TypeOK

LEMMA DisconnectIInv ==
  ASSUME NEW s \in Sockets, IInv, Disconnect(s)
  PROVE  IInv'
<1>1. UNCHANGED <<clock, kept, held, tokens, last, violations, spent, promise>>
  BY DEF Disconnect, told
<1>2. /\ live' \in [Actors -> SUBSET Sockets]
      /\ emptySince' \in [Actors -> Nat \union {Never}]
      /\ \A a \in Actors : \A t \in live'[a] : ActorOf[t] = a
      /\ \A a \in Actors : live'[a] # {} => live[a] # {}
      /\ \A a \in Actors : live'[a] = {} =>
           \/ live[a] = {} /\ emptySince'[a] = emptySince[a]
           \/ emptySince'[a] = clock
  BY DetachFacts DEF Disconnect
<1>3. TypeOK'
  BY <1>1, <1>2 DEF IInv, TypeOK
<1>4. ASSUME NEW k \in Keys PROVE Stored(k)'
  BY <1>1 DEF IInv, Stored
<1>5. ASSUME NEW a \in Actors PROVE Idle(a)'
  <2> SUFFICES ASSUME a \in kept', live'[a] = {}
               PROVE  /\ emptySince'[a] \in 0 .. clock
                      /\ \A k \in held : k[1] = a => last[k] <= emptySince'[a]
    BY <1>1 DEF Idle
  <2>1. CASE live[a] = {} /\ emptySince'[a] = emptySince[a]
    BY <1>1, <2>1 DEF IInv, Idle
  <2>2. CASE emptySince'[a] = clock
    BY <2>2 DEF IInv, TypeOK, Stored
  <2> QED
    BY <1>2, <2>1, <2>2
<1> QED
  BY <1>1, <1>2, <1>3, <1>4, <1>5 DEF IInv

(* sockets only go, and an actor that loses its last one does so now *)
Leaving ==
  /\ live' \in [Actors -> SUBSET Sockets]
  /\ emptySince' \in [Actors -> Nat \union {Never}]
  /\ \A a \in Actors : \A t \in live'[a] : ActorOf[t] = a
  /\ \A a \in Actors : live'[a] # {} => live[a] # {}
  /\ \A a \in Actors : live'[a] = {} =>
       \/ live[a] = {} /\ emptySince'[a] = emptySince[a]
       \/ emptySince'[a] = clock

LEMMA TouchIInv ==
  ASSUME IInv, NEW k \in Keys, NEW remaining \in 0 .. Full[k],
         Touch(k, remaining), clock' = clock, live[k[1]] # {}, Leaving,
         violations' \in [Keys -> 0 .. Threshold],
         spent' \in [Keys -> Nat],
         promise' \in [Keys -> [cost : Nat, due : Nat]]
  PROVE  IInv'
<1>1. /\ kept' = kept \ Swept /\ held' = Spared \union {k}
      /\ tokens' = [tokens EXCEPT ![k] = remaining]
      /\ last' = [last EXCEPT ![k] = clock]
  BY DEF Touch
<1>2. /\ clock \in Nat /\ Full[k] \in Nat /\ remaining \in Nat
      /\ remaining <= Full[k] /\ k[1] \in Actors
  BY KeyFacts DEF IInv, TypeOK
<1>3. TypeOK'
  BY <1>1, <1>2 DEF IInv, TypeOK, Leaving, Spared
<1>4. ASSUME NEW a \in Actors, live[a] # {} PROVE a \in kept'
  BY <1>1, <1>4 DEF IInv, Swept
<1>5. ASSUME NEW j \in Keys PROVE Stored(j)'
  <2>1. CASE j = k
    BY <1>1, <1>2, <1>4, <2>1 DEF IInv, TypeOK, Stored
  <2>2. CASE j # k
    BY <1>1, <2>2 DEF IInv, TypeOK, Stored, Spared
  <2> QED
    BY <2>1, <2>2
<1>6. ASSUME NEW a \in Actors PROVE Idle(a)'
  <2> SUFFICES ASSUME a \in kept', live'[a] = {}
               PROVE  /\ emptySince'[a] \in 0 .. clock
                      /\ \A j \in held' : j[1] = a => last'[j] <= emptySince'[a]
    BY DEF Idle
  <2>1. CASE live[a] = {} /\ emptySince'[a] = emptySince[a]
    <3>1. Idle(a) /\ a \in kept /\ a # k[1]
      BY <1>1, <2>1 DEF IInv
    <3>2. ASSUME NEW j \in held', j[1] = a
          PROVE  j \in held /\ last'[j] = last[j]
      BY <1>1, <3>1, <3>2 DEF IInv, TypeOK, Spared
    <3> QED
      BY <2>1, <3>1, <3>2 DEF Idle
  <2>2. CASE emptySince'[a] = clock
    BY <1>2, <1>3, <1>5, <2>2 DEF Stored, TypeOK
  <2> QED
    BY <2>1, <2>2 DEF Leaving
<1>7. \A a \in Actors : live'[a] # {} => a \in kept'
  BY <1>4 DEF Leaving
<1> QED
  BY <1>3, <1>5, <1>6, <1>7 DEF IInv

LEMMA SenderFacts ==
  ASSUME NEW s \in Sockets, NEW b \in Buckets, NEW n \in Nat, IInv, s \in Connected
  PROVE  LET k == <<ActorOf[s], b>> IN
         /\ k \in Keys /\ live[k[1]] # {}
         /\ Cost(b, n) \in 1 .. Full[k] /\ Full[k] \in Nat
         /\ Refilled(k) = level[k] /\ level[k] \in 0 .. Full[k]
         /\ clock \in Nat /\ Rate[k] \in Nat \ {0} /\ Threshold \in Nat \ {0}
<1>1. ActorOf[s] \in Actors /\ s \in live[ActorOf[s]]
  BY LimiterAssumption DEF IInv, TypeOK, Connected
<1> DEFINE k == <<ActorOf[s], b>>
<1>2. k \in Keys /\ k[1] = ActorOf[s] /\ k[2] = b
  BY <1>1 DEF Keys
<1>3. Cost(b, n) \in 1 .. Full[k]
  BY <1>2, CostFacts
<1> QED
  BY <1>1, <1>2, <1>3, KeyFacts, RefilledIsLevel, LimiterAssumption
     DEF IInv, TypeOK

LEMMA DenialsType ==
  ASSUME IInv, NEW k \in Keys
  PROVE  Denials(k) \in 0 .. Threshold
  BY LimiterAssumption DEF IInv, TypeOK, Denials, Capped

LEMMA AdmitIInv ==
  ASSUME NEW s \in Sockets, NEW b \in Buckets, NEW n \in Nat, IInv, Admit(s, b, n)
  PROVE  IInv' /\ Ideal!Admit(<<ActorOf[s], b>>, Cost(b, n))
<1> DEFINE k == <<ActorOf[s], b>>
           cost == Cost(b, n)
<1>1. /\ k \in Keys /\ live[k[1]] # {} /\ Full[k] \in Nat
      /\ cost \in 1 .. Full[k] /\ Refilled(k) = level[k] /\ level[k] \in 0 .. Full[k]
      /\ Threshold \in Nat \ {0}
  BY SenderFacts DEF Admit
<1>2. /\ cost <= level[k] /\ Touch(k, level[k] - cost)
      /\ violations' = [violations EXCEPT ![k] = 0]
      /\ spent' = [spent EXCEPT ![k] = @ + cost]
      /\ promise' = [promise EXCEPT ![k] = NoPromise]
      /\ clock' = clock /\ live' = live /\ emptySince' = emptySince
  BY <1>1 DEF Admit
<1> HIDE DEF k, cost
<1>3. level[k] - cost \in 0 .. Full[k]
  BY <1>1, <1>2
<1>4. /\ violations' \in [Keys -> 0 .. Threshold]
      /\ spent' \in [Keys -> Nat]
      /\ promise' \in [Keys -> [cost : Nat, due : Nat]]
  BY <1>1, <1>2 DEF IInv, TypeOK, NoPromise
<1>5. Leaving
  BY <1>2 DEF IInv, TypeOK, Leaving
<1>6. IInv'
  BY <1>1, <1>2, <1>3, <1>4, <1>5, TouchIInv
<1>7. level' = [level EXCEPT ![k] = level[k] - cost]
  BY <1>1, <1>2, <1>3, TouchedLevel
<1>8. Ideal!Admit(k, cost)
  BY <1>2, <1>7 DEF Ideal!Admit, Ideal!NoPromise, NoPromise
<1> QED
  BY <1>6, <1>8 DEF k, cost

LEMMA RefuseIInv ==
  ASSUME NEW s \in Sockets, NEW b \in Buckets, NEW n \in Nat, NEW ack \in BOOLEAN,
         IInv, Refuse(s, b, n, ack)
  PROVE  /\ IInv'
         /\ \/ Ideal!Refuse(<<ActorOf[s], b>>, Cost(b, n))
            \/ UNCHANGED <<clock, level, spent, promise>>
<1> DEFINE k == <<ActorOf[s], b>>
           cost == Cost(b, n)
           due == clock + TicksFor(cost - level[k], Rate[k])
<1>1. /\ k \in Keys /\ live[k[1]] # {} /\ Full[k] \in Nat
      /\ cost \in 1 .. Full[k] /\ Refilled(k) = level[k] /\ level[k] \in 0 .. Full[k]
      /\ clock \in Nat /\ Rate[k] \in Nat \ {0}
  BY SenderFacts DEF Refuse
<1>2. /\ cost > level[k] /\ Touch(k, level[k])
      /\ violations' = [violations EXCEPT ![k] = Denials(k)]
      /\ promise' = IF ack THEN [promise EXCEPT ![k] = [cost |-> cost, due |-> due]]
                          ELSE promise
      /\ spent' = spent /\ clock' = clock /\ live' = live /\ emptySince' = emptySince
  BY <1>1 DEF Refuse
<1>3. due \in Nat
  <2> HIDE DEF k, cost
  <2>1. cost - level[k] \in Nat \ {0}
    BY <1>1, <1>2
  <2> QED
    BY <1>1, <2>1, TicksForType
<1>4. due = clock + Ideal!TicksFor(cost - level[k], Rate[k])
  BY DEF TicksFor, Ideal!TicksFor
<1> HIDE DEF k, cost, due
<1>5. /\ violations' \in [Keys -> 0 .. Threshold]
      /\ spent' \in [Keys -> Nat]
      /\ promise' \in [Keys -> [cost : Nat, due : Nat]]
  BY <1>1, <1>2, <1>3, DenialsType DEF IInv, TypeOK
<1>6. Leaving
  BY <1>2 DEF IInv, TypeOK, Leaving
<1>7. IInv'
  BY <1>1, <1>2, <1>5, <1>6, TouchIInv
<1>8. level' = level
  <2>1. level' = [level EXCEPT ![k] = level[k]]
    BY <1>1, <1>2, TouchedLevel
  <2> QED
    BY <2>1 DEF level
<1>9. Ideal!Refuse(k, cost) \/ UNCHANGED <<clock, level, spent, promise>>
  BY <1>2, <1>4, <1>8 DEF Ideal!Refuse
<1> QED
  BY <1>7, <1>9 DEF k, cost

LEMMA CutIInv ==
  ASSUME NEW s \in Sockets, NEW b \in Buckets, NEW n \in Nat, IInv, Cut(s, b, n)
  PROVE  IInv' /\ UNCHANGED <<clock, level, spent, promise>>
<1> DEFINE k == <<ActorOf[s], b>>
<1>1. /\ k \in Keys /\ live[k[1]] # {}
      /\ Refilled(k) = level[k] /\ level[k] \in 0 .. Full[k]
  BY SenderFacts DEF Cut
<1>2. /\ Touch(k, level[k]) /\ Detach(s) /\ s \in Connected
      /\ violations' = [violations EXCEPT ![k] = Denials(k)]
      /\ spent' = spent /\ promise' = promise /\ clock' = clock
  BY <1>1 DEF Cut, told
<1> HIDE DEF k
<1>3. /\ violations' \in [Keys -> 0 .. Threshold]
      /\ spent' \in [Keys -> Nat]
      /\ promise' \in [Keys -> [cost : Nat, due : Nat]]
  BY <1>1, <1>2, DenialsType DEF IInv, TypeOK
<1>4. Leaving
  BY <1>2, DetachFacts DEF Leaving
<1>5. IInv'
  BY <1>1, <1>2, <1>3, <1>4, TouchIInv
<1>6. level' = level
  <2>1. level' = [level EXCEPT ![k] = level[k]]
    BY <1>1, <1>2, TouchedLevel
  <2> QED
    BY <2>1 DEF level
<1> QED
  BY <1>2, <1>5, <1>6

LEMMA SendIInv ==
  ASSUME NEW s \in Sockets, NEW b \in Buckets, NEW n \in 0 .. MaxCost,
         IInv, Send(s, b, n)
  PROVE  /\ IInv'
         /\ Ideal!Next \/ UNCHANGED Ideal!vars
<1>1. n \in Nat
  BY LimiterAssumption
<1>2. /\ <<ActorOf[s], b>> \in Keys
      /\ Cost(b, n) \in 1 .. Full[<<ActorOf[s], b>>]
  BY <1>1, SenderFacts DEF Send, Admit, Refuse, Cut
<1>3. CASE Admit(s, b, n)
  BY <1>1, <1>2, <1>3, AdmitIInv DEF Ideal!Next
<1>4. ASSUME NEW ack \in BOOLEAN, Refuse(s, b, n, ack)
      PROVE  IInv' /\ (Ideal!Next \/ UNCHANGED Ideal!vars)
  BY <1>1, <1>2, <1>4, RefuseIInv DEF Ideal!Next, Ideal!vars
<1>5. CASE Cut(s, b, n)
  BY <1>1, <1>5, CutIInv DEF Ideal!vars
<1> QED
  BY <1>3, <1>4, <1>5 DEF Send

(* time passes in the store as in the ideal: nothing is stored, and every     *)
(* level rises by its rate                                                    *)
LEMMA TickIdeal == IInv /\ Tick => Ideal!Tick
<1> SUFFICES ASSUME IInv, Tick PROVE Ideal!Tick
  OBVIOUS
<1>1. /\ clock' = clock + 1 /\ clock \in Nat /\ spent' = spent /\ promise' = promise
      /\ held' = held /\ tokens' = tokens /\ last' = last
  BY DEF IInv, TypeOK, Tick, told
<1>2. ASSUME NEW k \in Keys
      PROVE  level'[k] = Ideal!Capped(Full[k], level[k] + Rate[k])
  <2>1. Full[k] \in Nat /\ Rate[k] \in Nat
    BY KeyFacts
  <2>2. CASE k \in held
    <3>1. level[k] = Capped(Full[k], tokens[k] + (clock - last[k]) * Rate[k])
      BY <2>2 DEF level
    <3>2. level'[k] = Capped(Full[k], tokens'[k] + (clock' - last'[k]) * Rate[k])
      BY <1>1, <2>2 DEF level
    <3>3. clock - last[k] \in Int /\ tokens[k] \in Nat
      BY <1>1 DEF IInv, TypeOK
    <3>4. clock' - last'[k] = (clock - last[k]) + 1
      BY <1>1 DEF IInv, TypeOK
    <3>5. (clock' - last'[k]) * Rate[k] = (clock - last[k]) * Rate[k] + Rate[k]
      BY <2>1, <3>3, <3>4, OneMore
    <3>6. (clock - last[k]) * Rate[k] \in Int
      BY <2>1, <3>3
    <3> QED
      BY <1>1, <2>1, <3>1, <3>2, <3>3, <3>5, <3>6 DEF Capped, Ideal!Capped
  <2>3. CASE k \notin held
    <3>1. level[k] = Full[k] /\ level'[k] = Full[k]
      BY <1>1, <2>3 DEF level
    <3> QED
      BY <2>1, <3>1 DEF Ideal!Capped
  <2> QED
    BY <2>2, <2>3
<1>3. level' = [k \in Keys |-> level'[k]]
  BY DEF level
<1> QED
  BY <1>1, <1>2, <1>3 DEF Ideal!Tick

(* a socket that comes or goes, and whatever that sweeps, leaves every level  *)
LEMMA ConnectIdeal ==
  ASSUME NEW s \in Sockets, IInv, Connect(s)
  PROVE  UNCHANGED Ideal!vars
<1>1. /\ clock' = clock /\ spent' = spent /\ promise' = promise
      /\ held' = Spared /\ tokens' = tokens /\ last' = last
  BY DEF Connect, told
<1>2. ASSUME NEW k \in Keys PROVE level'[k] = level[k]
  <2>1. level'[k] = Refilled(k)
    BY <1>1 DEF level, Refilled
  <2> QED
    BY <2>1, RefilledIsLevel
<1>3. level' = level
  BY <1>2 DEF level
<1> QED
  BY <1>1, <1>3 DEF Ideal!vars

LEMMA DisconnectIdeal ==
  ASSUME NEW s \in Sockets, Disconnect(s)
  PROVE  UNCHANGED Ideal!vars
  BY DEF Disconnect, told, Ideal!vars, level

LEMMA NextIInv == IInv /\ [LimiterNext]_limiterVars => IInv' /\ [Ideal!Next]_(Ideal!vars)
<1> SUFFICES ASSUME IInv, [LimiterNext]_limiterVars
             PROVE  IInv' /\ (Ideal!Next \/ UNCHANGED Ideal!vars)
  OBVIOUS
<1>1. CASE Tick
  BY <1>1, TickIInv, TickIdeal DEF Ideal!Next
<1>2. ASSUME NEW s \in Sockets, Connect(s) \/ Disconnect(s)
      PROVE  IInv' /\ UNCHANGED Ideal!vars
  BY <1>2, ConnectIInv, ConnectIdeal, DisconnectIInv, DisconnectIdeal
<1>3. ASSUME NEW s \in Sockets, NEW b \in Buckets, NEW n \in 0 .. MaxCost,
             Send(s, b, n)
      PROVE  IInv' /\ (Ideal!Next \/ UNCHANGED Ideal!vars)
  BY <1>3, SendIInv
<1>4. CASE UNCHANGED limiterVars
  <2>1. IInv'
    BY <1>4 DEF limiterVars, IInv, TypeOK, Stored, Idle
  <2>2. UNCHANGED Ideal!vars
    BY <1>4 DEF limiterVars, Ideal!vars, level
  <2> QED
    BY <2>1, <2>2
<1> QED
  BY <1>1, <1>2, <1>3, <1>4 DEF LimiterNext

LEMMA InitIdeal == LimiterInit => Ideal!Init
  BY DEF LimiterInit, Ideal!Init, level, Full, NoPromise, Ideal!NoPromise

LEMMA StoreInvariant == LimiterSpec => []IInv
  BY InitIInv, NextIInv, PTL DEF LimiterSpec

(* The store's Map of actors, lazily refilled and swept, is the ideal         *)
(* limiter: each step is one of its steps or leaves every bucket as it was.   *)
THEOREM StoreIsIdeal == LimiterSpec => BehavesAsIdeal
  BY InitIdeal, InitIInv, NextIInv, PTL
     DEF LimiterSpec, BehavesAsIdeal, Ideal!Spec

(* The store is well typed.                                                   *)
THEOREM RateLimitTypes == LimiterSpec => []TypeOK
<1>1. IInv => TypeOK
  BY DEF IInv
<1> QED
  BY <1>1, StoreInvariant, PTL

(* No actor is forgotten while it is connected, and no bucket outlives it.    *)
THEOREM ConnectedAreKept == LimiterSpec => []StoreConsistent
<1>1. IInv => StoreConsistent
  BY DEF IInv, TypeOK, Stored, StoreConsistent
<1> QED
  BY <1>1, StoreInvariant, PTL

IdealProofs == INSTANCE TokenBucketsProofs

LEMMA BucketsAreFit == IdealProofs!BucketAssumption
<1>1. \A k \in Keys : Full[k] \in Nat \ {0} /\ Rate[k] \in Nat \ {0}
  BY KeyFacts
<1> QED
  BY <1>1 DEF IdealProofs!BucketAssumption, Full, Rate

(* IdealProofs and Ideal are one specification *)
LEMMA IdealIsIdeal == BehavesAsIdeal => IdealProofs!Spec
<1>1. Ideal!Init => IdealProofs!Init
  BY DEF Ideal!Init, IdealProofs!Init, Ideal!NoPromise, IdealProofs!NoPromise
<1>2. Ideal!Next => IdealProofs!Next
  BY DEF Ideal!Next, IdealProofs!Next, Ideal!Tick, IdealProofs!Tick,
         Ideal!Admit, IdealProofs!Admit, Ideal!Refuse, IdealProofs!Refuse,
         Ideal!NoPromise, IdealProofs!NoPromise, Ideal!Capped, IdealProofs!Capped,
         Ideal!TicksFor, IdealProofs!TicksFor
<1>3. UNCHANGED Ideal!vars => UNCHANGED IdealProofs!vars
  BY DEF Ideal!vars, IdealProofs!vars
<1>4. [Ideal!Next]_(Ideal!vars) => [IdealProofs!Next]_(IdealProofs!vars)
  BY <1>2, <1>3
<1> QED
  BY <1>1, <1>4, PTL DEF BehavesAsIdeal, Ideal!Spec, IdealProofs!Spec

(* An actor is admitted at most one burst and the sustained rate, whatever    *)
(* its sockets do and however often it is forgotten.                          *)
THEOREM AdmittedAtMostTheRate == LimiterSpec => []SustainedRate
<1>1. IdealProofs!Spec => []IdealProofs!SustainedRate
  BY BucketsAreFit, IdealProofs!IdealSustainedRate
<1>2. IdealProofs!SustainedRate => SustainedRate
  BY DEF SustainedRate, Ideal!SustainedRate, IdealProofs!SustainedRate
<1> QED
  BY <1>1, <1>2, StoreIsIdeal, IdealIsIdeal, PTL

(* A client that waits as long as it was told is admitted, and not before.    *)
THEOREM RetryTimesAreExact == LimiterSpec => []RetryAfterExact
<1>1. IdealProofs!Spec => []IdealProofs!PromiseExact
  BY BucketsAreFit, IdealProofs!IdealPromiseExact
<1>2. IdealProofs!PromiseExact => RetryAfterExact
  BY DEF RetryAfterExact, Ideal!PromiseExact, IdealProofs!PromiseExact,
         Ideal!NoPromise, IdealProofs!NoPromise
<1> QED
  BY <1>1, <1>2, StoreIsIdeal, IdealIsIdeal, PTL
=============================================================================
