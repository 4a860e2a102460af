---------------------------- MODULE BucketLemmas ----------------------------
(***************************************************************************)
(* Facts about the operators of Bucket that the proofs about a single      *)
(* bucket and about the limiter share.                                     *)
(***************************************************************************)
EXTENDS Bucket, ArithmeticLemmas, TLAPS

\* A refill yields a well-formed dimension and keeps its capacity.
LEMMA RefillDimType ==
    ASSUME NEW dim \in Dimension, NEW t \in Nat
    PROVE  RefillDim(dim, t) \in Dimension /\ RefillDim(dim, t).max = dim.max
<1> DEFINE p == NanosPer(dim.max)
           gained == (t - dim.last) \div p
<1>1. dim.max \in Nat /\ dim.cur \in Int /\ dim.last \in Nat
  BY DEF Dimension
<1>2. CASE CanRefill(dim, t) /\ gained > 0
  <2>1. dim.max \in Nat \ {0} /\ Minute \in Nat /\ t - dim.last \in Nat
    BY <1>1, <1>2, MinuteAssumption DEF CanRefill
  <2>2. p \in Nat \ {0}
    BY <1>2, <2>1, DivFacts DEF CanRefill, NanosPer
  <2>3. gained \in Nat
    BY <2>1, <2>2, DivFacts
  <2>4. gained * p \in Nat
    BY <2>2, <2>3
  <2>5. RefillDim(dim, t) = [dim EXCEPT !.cur = Lesser(dim.max, @ + gained),
                                        !.last = @ + gained * p]
    BY <1>2 DEF RefillDim
  <2> HIDE DEF gained, p
  <2>6. Lesser(dim.max, dim.cur + gained) \in Int /\ dim.last + gained * p \in Nat
    BY <1>1, <2>3, <2>4 DEF Lesser
  <2> QED
    BY <1>1, <2>5, <2>6 DEF Dimension
<1>3. CASE ~(CanRefill(dim, t) /\ gained > 0)
  BY <1>3 DEF RefillDim
<1> QED
  BY <1>2, <1>3

\* So does the refill of a whole bucket.
LEMMA RefillType ==
    ASSUME NEW b \in BucketType, NEW t \in Nat
    PROVE  /\ Refill(b, t) \in BucketType
           /\ \A d \in Dims : Refill(b, t)[d].max = b[d].max
BY RefillDimType DEF Refill, BucketType

\* A request costs natural numbers.
LEMMA CostIsNat ==
    ASSUME NEW tokens \in Int
    PROVE  Cost(tokens) \in [Dims -> Nat]
BY DEF Cost, Greater

\* Taking a cost, forced or not, keeps the bucket well formed and its capacities.
LEMMA TakenType ==
    ASSUME NEW b \in BucketType, NEW cost \in [Dims -> Nat]
    PROVE  /\ Taken(b, cost) \in BucketType /\ ForceTaken(b, cost) \in BucketType
           /\ \A d \in Dims : /\ Taken(b, cost)[d].max = b[d].max
                              /\ ForceTaken(b, cost)[d].max = b[d].max
                              /\ Taken(b, cost)[d].cur = b[d].cur - cost[d]
<1>1. ASSUME NEW d \in Dims
      PROVE  /\ [b[d] EXCEPT !.cur = @ - cost[d]] \in Dimension
             /\ [b[d] EXCEPT !.cur = Greater(@ - cost[d], -b[d].max)] \in Dimension
             /\ [b[d] EXCEPT !.cur = @ - cost[d]].max = b[d].max
             /\ [b[d] EXCEPT !.cur = Greater(@ - cost[d], -b[d].max)].max = b[d].max
             /\ [b[d] EXCEPT !.cur = @ - cost[d]].cur = b[d].cur - cost[d]
  <2>1. b[d] \in Dimension /\ cost[d] \in Nat
    BY DEF BucketType
  <2> QED
    BY <2>1 DEF Dimension, Greater
<1> QED
  BY <1>1 DEF Taken, ForceTaken, BucketType

\* A resize sets the capacities.
LEMMA ResizedType ==
    ASSUME NEW b \in BucketType, NEW cap \in [Dims -> Nat]
    PROVE  /\ Resized(b, cap) \in BucketType
           /\ \A d \in Dims : Resized(b, cap)[d].max = cap[d]
<1>1. ASSUME NEW d \in Dims
      PROVE  /\ [b[d] EXCEPT !.max = cap[d], !.cur = Lesser(@, cap[d])] \in Dimension
             /\ [b[d] EXCEPT !.max = cap[d], !.cur = Lesser(@, cap[d])].max = cap[d]
  <2>1. b[d] \in Dimension /\ cap[d] \in Nat
    BY DEF BucketType
  <2>2. Lesser(b[d].cur, cap[d]) \in Int
    BY <2>1 DEF Dimension, Lesser
  <2> QED
    BY <2>1, <2>2 DEF Dimension
<1> QED
  BY <1>1 DEF Resized, BucketType
=============================================================================
