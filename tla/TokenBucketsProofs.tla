------------------------- MODULE TokenBucketsProofs -------------------------
(* What the ideal rate limiter of TokenBuckets guarantees, for any buckets.   *)
EXTENDS TokenBuckets, TLAPS

LEMMA Division ==
  ASSUME NEW n \in Nat, NEW r \in Nat \ {0}
  PROVE  /\ n \div r \in Nat
         /\ (n \div r) * r <= n
         /\ n < (n \div r) * r + r
  BY SMT

(* TicksFor is the least number of ticks that makes up the deficit *)
LEMMA TicksForExact ==
  ASSUME NEW d \in Nat \ {0}, NEW r \in Nat \ {0}
  PROVE  /\ TicksFor(d, r) \in Nat
         /\ d <= TicksFor(d, r) * r
         /\ d > TicksFor(d, r) * r - r
<1>1. d + r - 1 \in Nat
  OBVIOUS
<1> QED
  BY <1>1, Division DEF TicksFor

LEMMA OneLess == \A x, r \in Int : (x - 1) * r = x * r - r
  OBVIOUS

(* A refusal still to come due promises exactly the ticks the bucket needs;   *)
(* one that is due is covered.                                                *)
Promised(k) ==
  IF clock < promise[k].due
    THEN LET wait == (promise[k].due - clock) * Rate[k] IN
         /\ promise[k].cost - level[k] <= wait
         /\ promise[k].cost - level[k] > wait - Rate[k]
    ELSE level[k] >= promise[k].cost

Accounted(k) == spent[k] + level[k] <= Full[k] + Rate[k] * clock

IInv == BucketAssumption /\ TypeOK /\ \A k \in Keys : Accounted(k) /\ Promised(k)

LEMMA InitIInv == BucketAssumption /\ Init => IInv
<1> SUFFICES ASSUME BucketAssumption, Init PROVE IInv
  OBVIOUS
<1>1. TypeOK
  BY DEF BucketAssumption, Init, TypeOK, NoPromise
<1>2. ASSUME NEW k \in Keys PROVE Accounted(k) /\ Promised(k)
  BY DEF BucketAssumption, Init, Accounted, Promised, NoPromise
<1> QED
  BY <1>1, <1>2 DEF IInv

(* a tick fills every bucket and brings every promise a tick nearer *)
LEMMA TickIInv == IInv /\ Tick => IInv'
<1> SUFFICES ASSUME IInv, Tick PROVE IInv'
  OBVIOUS
<1>1. ASSUME NEW k \in Keys
      PROVE  /\ Full[k] \in Nat \ {0} /\ Rate[k] \in Nat \ {0}
             /\ level[k] \in 0 .. Full[k]
             /\ level'[k] = Capped(Full[k], level[k] + Rate[k])
  BY DEF BucketAssumption, IInv, TypeOK, Tick
<1>2. clock \in Nat /\ clock' = clock + 1
  BY DEF IInv, TypeOK, Tick
<1>3. TypeOK'
  BY <1>1, <1>2 DEF IInv, TypeOK, Tick, Capped
<1>4. ASSUME NEW k \in Keys PROVE Accounted(k)'
  <2>1. Rate[k] * (clock + 1) = Rate[k] * clock + Rate[k]
    BY <1>1, <1>2
  <2>2. Rate[k] * clock \in Nat
    BY <1>1, <1>2
  <2>3. spent[k] \in Nat /\ spent'[k] = spent[k] /\ Accounted(k)
    BY DEF IInv, TypeOK, Tick
  <2> QED
    BY <1>1, <1>2, <2>1, <2>2, <2>3 DEF Accounted, Capped
<1>5. ASSUME NEW k \in Keys PROVE Promised(k)'
  <2>1. /\ promise[k].cost \in 0 .. Full[k] /\ promise[k].due \in Nat
        /\ promise'[k] = promise[k] /\ Promised(k)
    BY <1>1 DEF IInv, TypeOK, Tick
  <2>2. (promise[k].due - (clock + 1)) * Rate[k]
          = (promise[k].due - clock) * Rate[k] - Rate[k]
    BY <1>1, <1>2, <2>1
  <2>3. (promise[k].due - clock) * Rate[k] \in Int
    BY <1>1, <1>2, <2>1
  <2>4. CASE clock + 1 < promise[k].due
    <3>1. (promise[k].due - (clock + 2)) * Rate[k] \in Nat
      BY <1>1, <1>2, <2>1, <2>4
    <3>2. promise[k].due - (clock + 1) - 1 = promise[k].due - (clock + 2)
      BY <1>2, <2>1
    <3>3. (promise[k].due - (clock + 2)) * Rate[k]
            = (promise[k].due - (clock + 1)) * Rate[k] - Rate[k]
      BY <1>1, <1>2, <2>1, <3>2, OneLess
    <3> QED
      BY <1>1, <1>2, <2>1, <2>2, <2>3, <2>4, <3>1, <3>3 DEF Promised, Capped
  <2>5. CASE clock + 1 = promise[k].due
    <3>1. (promise[k].due - clock) * Rate[k] = Rate[k]
      BY <1>1, <1>2, <2>1, <2>5
    <3> QED
      BY <1>1, <1>2, <2>1, <2>5, <3>1 DEF Promised, Capped
  <2>6. CASE clock >= promise[k].due
    BY <1>1, <1>2, <2>1, <2>6 DEF Promised, Capped
  <2> QED
    BY <1>2, <2>1, <2>4, <2>5, <2>6
<1> QED
  BY <1>3, <1>4, <1>5 DEF IInv

LEMMA AdmitIInv ==
  ASSUME NEW k \in Keys, NEW cost \in 1 .. Full[k], IInv, Admit(k, cost)
  PROVE  IInv'
<1>0. ASSUME NEW j \in Keys
      PROVE  /\ Full[j] \in Nat \ {0} /\ Rate[j] \in Nat \ {0}
             /\ level[j] \in 0 .. Full[j] /\ spent[j] \in Nat
  BY DEF BucketAssumption, IInv, TypeOK
<1>1. ASSUME NEW j \in Keys
      PROVE  /\ Full[j] \in Nat \ {0} /\ Rate[j] \in Nat \ {0}
             /\ level[j] \in 0 .. Full[j] /\ spent[j] \in Nat
             /\ level'[j] = IF j = k THEN level[j] - cost ELSE level[j]
             /\ spent'[j] = IF j = k THEN spent[j] + cost ELSE spent[j]
             /\ promise'[j] = IF j = k THEN NoPromise ELSE promise[j]
  BY <1>0 DEF IInv, TypeOK, Admit
<1>2. clock \in Nat /\ clock' = clock /\ cost \in Nat /\ cost <= level[k]
  BY <1>1 DEF IInv, TypeOK, Admit
<1>3. TypeOK'
  BY <1>1, <1>2 DEF IInv, TypeOK, Admit, NoPromise
<1>4. ASSUME NEW j \in Keys PROVE Accounted(j)'
  <2>1. Accounted(j) /\ Rate[j] * clock \in Nat
    BY <1>1, <1>2 DEF IInv
  <2> QED
    BY <1>1, <1>2, <2>1 DEF Accounted
<1>5. ASSUME NEW j \in Keys PROVE Promised(j)'
  <2>1. CASE j = k
    BY <1>1, <1>2, <2>1 DEF Promised, NoPromise
  <2>2. CASE j # k
    BY <1>1, <1>2, <2>2 DEF IInv, Promised
  <2> QED
    BY <2>1, <2>2
<1> QED
  BY <1>3, <1>4, <1>5 DEF IInv

LEMMA RefuseIInv ==
  ASSUME NEW k \in Keys, NEW cost \in 1 .. Full[k], IInv, Refuse(k, cost)
  PROVE  IInv'
<1>0. Full[k] \in Nat \ {0} /\ Rate[k] \in Nat \ {0}
  BY DEF BucketAssumption, IInv
<1>1. /\ Full[k] \in Nat \ {0} /\ Rate[k] \in Nat \ {0} /\ level[k] \in Nat
      /\ clock \in Nat /\ cost \in Nat /\ cost > level[k]
  BY <1>0 DEF IInv, TypeOK, Refuse
<1> DEFINE wait == TicksFor(cost - level[k], Rate[k])
<1>2. /\ wait \in Nat
      /\ cost - level[k] <= wait * Rate[k]
      /\ cost - level[k] > wait * Rate[k] - Rate[k]
  BY <1>1, TicksForExact
<1> HIDE DEF wait
<1>3. /\ clock' = clock /\ level' = level /\ spent' = spent
      /\ promise' = [promise EXCEPT ![k] = [cost |-> cost, due |-> clock + wait]]
  BY DEF Refuse, wait
<1>4. TypeOK'
  BY <1>1, <1>2, <1>3 DEF IInv, TypeOK
<1>5. ASSUME NEW j \in Keys PROVE Accounted(j)'
  BY <1>3 DEF IInv, Accounted
<1>6. ASSUME NEW j \in Keys PROVE Promised(j)'
  <2>1. CASE j = k
    <3>1. promise'[k] = [cost |-> cost, due |-> clock + wait]
      BY <1>3 DEF IInv, TypeOK
    <3>2. wait # 0
      BY <1>1, <1>2
    <3>3. clock' < promise'[k].due /\ promise'[k].due - clock' = wait
      BY <1>1, <1>2, <1>3, <3>1, <3>2
    <3> QED
      BY <1>2, <1>3, <2>1, <3>1, <3>3 DEF Promised
  <2>2. CASE j # k
    BY <1>3, <2>2 DEF IInv, TypeOK, Promised
  <2> QED
    BY <2>1, <2>2
<1> QED
  BY <1>4, <1>5, <1>6 DEF IInv

LEMMA NextIInv == IInv /\ [Next]_vars => IInv'
<1> SUFFICES ASSUME IInv, [Next]_vars PROVE IInv'
  OBVIOUS
<1>1. CASE Tick
  BY <1>1, TickIInv
<1>2. CASE \E k \in Keys : \E cost \in 1 .. Full[k] :
             Admit(k, cost) \/ Refuse(k, cost)
  BY <1>2, AdmitIInv, RefuseIInv
<1>3. CASE UNCHANGED vars
  BY <1>3 DEF vars, IInv, BucketAssumption, TypeOK, Accounted, Promised
<1> QED
  BY <1>1, <1>2, <1>3 DEF Next

LEMMA BucketsInvariant == ASSUME BucketAssumption PROVE Spec => []IInv
<1>1. Init => IInv
  BY InitIInv
<1> QED
  BY <1>1, NextIInv, PTL DEF Spec

(* Of a bucket at most one burst and the sustained rate are ever admitted.    *)
THEOREM IdealSustainedRate ==
  ASSUME BucketAssumption PROVE Spec => []SustainedRate
<1>1. IInv => SustainedRate
  <2> SUFFICES ASSUME IInv, NEW k \in Keys
               PROVE  spent[k] <= Full[k] + Rate[k] * clock
    BY DEF SustainedRate
  <2>1. spent[k] \in Nat /\ level[k] \in Nat /\ Accounted(k)
    BY DEF IInv, TypeOK
  <2>2. Rate[k] \in Nat /\ clock \in Nat /\ Full[k] \in Nat
    BY DEF BucketAssumption, IInv, TypeOK
  <2>3. Rate[k] * clock \in Nat
    BY <2>2
  <2> QED
    BY <2>1, <2>2, <2>3 DEF Accounted
<1> QED
  BY <1>1, BucketsInvariant, PTL

(* The time a refusal names is the first at which the bucket covers it.       *)
THEOREM IdealPromiseExact ==
  ASSUME BucketAssumption PROVE Spec => []PromiseExact
<1>1. IInv => PromiseExact
  <2> SUFFICES ASSUME IInv, NEW k \in Keys
               PROVE  clock >= promise[k].due <=> level[k] >= promise[k].cost
    BY DEF PromiseExact
  <2>1. /\ clock \in Nat /\ level[k] \in Nat /\ Rate[k] \in Nat \ {0}
        /\ promise[k].due \in Nat /\ promise[k].cost \in Nat /\ Promised(k)
    BY DEF BucketAssumption, IInv, TypeOK
  <2>2. CASE clock < promise[k].due
    <3>1. (promise[k].due - clock - 1) * Rate[k] \in Nat
      BY <2>1, <2>2
    <3>2. (promise[k].due - clock - 1) * Rate[k]
            = (promise[k].due - clock) * Rate[k] - Rate[k]
      BY <2>1
    <3> QED
      BY <2>1, <2>2, <3>1, <3>2 DEF Promised
  <2>3. CASE clock >= promise[k].due
    BY <2>1, <2>3 DEF Promised
  <2> QED
    BY <2>1, <2>2, <2>3
<1> QED
  BY <1>1, BucketsInvariant, PTL
=============================================================================
