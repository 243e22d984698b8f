---------------------------- MODULE TokenBuckets ----------------------------
(* What the Socket.IO rate limiter promises, whatever it stores: one bucket   *)
(* of tokens per actor and kind of event, which every socket of the actor     *)
(* shares and nothing resets.  A bucket fills by Rate[k] at every tick of the *)
(* clock up to Full[k]; a request is admitted when the bucket covers its      *)
(* cost, and otherwise refused with the number of ticks after which it will. *)
EXTENDS Integers

CONSTANTS Keys,  \* an actor and a kind of event
          Full,  \* tokens a bucket holds
          Rate   \* tokens it gains in a tick

(* what a user of this module proves of its buckets *)
BucketAssumption ==
  /\ Full \in [Keys -> Nat \ {0}]
  /\ Rate \in [Keys -> Nat \ {0}]

VARIABLES clock,
          level,   \* tokens in each bucket now
          spent,   \* tokens admitted from each bucket since the start
          promise  \* the latest refusal of each bucket since it last admitted

vars == <<clock, level, spent, promise>>

NoPromise == [cost |-> 0, due |-> 0]

Capped(full, tokens) == IF tokens <= full THEN tokens ELSE full

(* the fewest ticks in which rate tokens a tick make up the deficit *)
TicksFor(deficit, rate) == (deficit + rate - 1) \div rate

Init ==
  /\ clock = 0
  /\ level = Full
  /\ spent = [k \in Keys |-> 0]
  /\ promise = [k \in Keys |-> NoPromise]

Tick ==
  /\ clock' = clock + 1
  /\ level' = [k \in Keys |-> Capped(Full[k], level[k] + Rate[k])]
  /\ UNCHANGED <<spent, promise>>

Admit(k, cost) ==
  /\ cost <= level[k]
  /\ level' = [level EXCEPT ![k] = @ - cost]
  /\ spent' = [spent EXCEPT ![k] = @ + cost]
  /\ promise' = [promise EXCEPT ![k] = NoPromise]
  /\ UNCHANGED clock

Refuse(k, cost) ==
  /\ cost > level[k]
  /\ promise' = [promise EXCEPT ![k] =
       [cost |-> cost, due |-> clock + TicksFor(cost - level[k], Rate[k])]]
  /\ UNCHANGED <<clock, level, spent>>

Next ==
  \/ Tick
  \/ \E k \in Keys : \E cost \in 1 .. Full[k] : Admit(k, cost) \/ Refuse(k, cost)

Spec == Init /\ [][Next]_vars
-----------------------------------------------------------------------------
TypeOK ==
  /\ clock \in Nat
  /\ level \in [Keys -> Nat]
  /\ spent \in [Keys -> Nat]
  /\ promise \in [Keys -> [cost : Nat, due : Nat]]
  /\ \A k \in Keys : level[k] <= Full[k] /\ promise[k].cost <= Full[k]

(* What is admitted from a bucket, over any time and any number of sockets,  *)
(* is at most one burst and the sustained rate.                              *)
SustainedRate == \A k \in Keys : spent[k] <= Full[k] + Rate[k] * clock

(* A refused request that is repeated no earlier than it was told to is       *)
(* admitted when nothing else was, and one repeated earlier is refused.       *)
PromiseExact ==
  \A k \in Keys : promise[k] # NoPromise =>
    (clock >= promise[k].due <=> level[k] >= promise[k].cost)
=============================================================================
