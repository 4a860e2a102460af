------------------------- MODULE TokenBucketProofs --------------------------
(***************************************************************************)
(* What TokenBucket promises for every capacity, token estimate, headroom, *)
(* reserve and clock bound.                                                *)
(***************************************************************************)
EXTENDS TokenBucket, BucketLemmas, TLAPS

-----------------------------------------------------------------------------
(* Lemmas on the arithmetic of Bucket. *)

\* A capacity's reserve is a natural number, at most the capacity.
LEMMA FloorWithin ==
    ASSUME NEW m \in Nat
    PROVE  /\ FloorOf(m, FloorPercent) \in Nat
           /\ FloorOf(m, FloorPercent) <= m
<1>1. FloorPercent \in Nat /\ FloorPercent <= 100 /\ 100 \in Nat \ {0}
  BY FloorAssumption
<1>2. m * FloorPercent \in Nat /\ m * FloorPercent <= m * 100
  BY <1>1, MulMono
<1>3. FloorOf(m, FloorPercent) \in Nat
  BY <1>1, <1>2, DivFacts DEF FloorOf
<1>4. 100 * FloorOf(m, FloorPercent) <= m * 100
  BY <1>1, <1>2, <1>3, DivFacts DEF FloorOf
<1> QED
  BY <1>3, <1>4

\* A smaller capacity has a smaller reserve.
LEMMA FloorMono ==
    ASSUME NEW a \in Nat, NEW b \in Nat, a <= b
    PROVE  FloorOf(a, FloorPercent) <= FloorOf(b, FloorPercent)
<1>1. FloorPercent \in Nat /\ 100 \in Nat \ {0}
  BY FloorAssumption
<1>2. /\ a * FloorPercent \in Nat
      /\ b * FloorPercent \in Nat
      /\ a * FloorPercent <= b * FloorPercent
  BY <1>1, MulMono
<1>3. 100 * FloorOf(a, FloorPercent) <= b * FloorPercent
  BY <1>1, <1>2, DivFacts DEF FloorOf
<1>4. FloorOf(a, FloorPercent) \in Int
  BY FloorWithin
<1> QED
  BY <1>1, <1>2, <1>3, <1>4, DivBound DEF FloorOf

\* Shrinking a balance and the smallest capacity to the same new capacity keeps
\* the reserve.
LEMMA ReserveSurvivesResize ==
    ASSUME NEW least \in Nat, NEW cap \in Nat, NEW cur \in Int,
           NEW others \in Nat, cur >= FloorOf(least, FloorPercent) - others
    PROVE  Lesser(cur, cap)
             >= FloorOf(Lesser(least, cap), FloorPercent) - others
<1> DEFINE m == Lesser(least, cap)
<1>1. m \in Nat /\ m <= least /\ m <= cap
  BY DEF Lesser
<1> HIDE DEF m
<1>2. /\ FloorOf(m, FloorPercent) \in Nat
      /\ FloorOf(m, FloorPercent) <= m
      /\ FloorOf(m, FloorPercent) <= FloorOf(least, FloorPercent)
  BY <1>1, FloorWithin, FloorMono
<1>3. FloorOf(least, FloorPercent) \in Nat
  BY FloorWithin
<1>4. Lesser(cur, cap) >= FloorOf(m, FloorPercent) - others
  BY <1>1, <1>2, <1>3 DEF Lesser
<1> QED
  BY <1>4 DEF m

\* A refill keeps the dimension well formed, never moves its clock past the
\* present, never lowers a balance within capacity, and pays for every unit it
\* adds with at least p ticks of the clock, p being a lower bound on the price.
LEMMA RefillDimFacts ==
    ASSUME NEW dim \in Dimension, NEW t \in Nat, dim.last <= t,
           NEW p \in Nat \ {0},
           dim.max > 0 /\ NanosPer(dim.max) > 0 => p <= NanosPer(dim.max)
    PROVE  /\ RefillDim(dim, t) \in Dimension
           /\ RefillDim(dim, t).max = dim.max
           /\ RefillDim(dim, t).last <= t
           /\ dim.cur <= dim.max => /\ dim.cur <= RefillDim(dim, t).cur
                                    /\ RefillDim(dim, t).cur <= dim.max
           /\ p * (Greater(RefillDim(dim, t).cur, 0) - Greater(dim.cur, 0))
                 <= RefillDim(dim, t).last - dim.last
<1> DEFINE price == NanosPer(dim.max)
           gained == (t - dim.last) \div price
           pays == CanRefill(dim, t) /\ gained > 0
<1>1. CASE ~pays
  <2>1. RefillDim(dim, t) = dim
    BY <1>1 DEF RefillDim
  <2> QED
    BY <2>1, MinuteAssumption DEF Dimension, Greater
<1>2. CASE pays
  <2>1. dim.max \in Nat \ {0} /\ Minute \in Nat /\ t - dim.last \in Nat
    BY <1>2, MinuteAssumption DEF CanRefill, Dimension
  <2>2. price \in Nat \ {0} /\ p <= price
    BY <1>2, <2>1, DivFacts DEF CanRefill, NanosPer
  <2>3. gained \in Nat /\ price * gained <= t - dim.last
    BY <2>1, <2>2, DivFacts
  <2>4. gained * price \in Nat /\ p * gained <= gained * price
    <3> HIDE DEF price, gained
    <3> QED BY <2>2, <2>3, MulMono
  <2>5. RefillDim(dim, t) = [dim EXCEPT !.cur = Lesser(dim.max, @ + gained),
                                       !.last = @ + gained * price]
    BY <1>2 DEF RefillDim
  <2> DEFINE paid == gained * price
             extra == Greater(RefillDim(dim, t).cur, 0) - Greater(dim.cur, 0)
  <2>6. paid \in Nat /\ paid <= t - dim.last /\ p * gained <= paid
    <3> HIDE DEF price, gained
    <3> QED BY <2>2, <2>3, <2>4
  <2>7. RefillDim(dim, t) = [dim EXCEPT !.cur = Lesser(dim.max, @ + gained),
                                       !.last = @ + paid]
    BY <2>5
  <2> HIDE DEF price, gained, paid
  <2>8. /\ RefillDim(dim, t) \in Dimension
        /\ RefillDim(dim, t).max = dim.max
        /\ RefillDim(dim, t).last = dim.last + paid
        /\ RefillDim(dim, t).cur = Lesser(dim.max, dim.cur + gained)
    <3>1. Lesser(dim.max, dim.cur + gained) \in Int /\ dim.last + paid \in Nat
      BY <2>3, <2>6 DEF Dimension, Lesser
    <3> QED
      BY <2>7, <3>1 DEF Dimension
  <2>9. /\ RefillDim(dim, t).last <= t
        /\ dim.cur <= dim.max => /\ dim.cur <= RefillDim(dim, t).cur
                                 /\ RefillDim(dim, t).cur <= dim.max
    BY <2>3, <2>6, <2>8 DEF Dimension, Lesser
  <2>10. extra \in Int /\ extra <= gained
    BY <2>3, <2>8 DEF Dimension, Greater, Lesser
  <2>11. p * extra <= p * gained
    <3> HIDE DEF extra
    <3> QED BY <2>3, <2>10
  <2>12. p * extra \in Int /\ p * gained \in Int
    <3> HIDE DEF extra
    <3> QED BY <2>3, <2>10
  <2>13. p * extra <= RefillDim(dim, t).last - dim.last
    <3> HIDE DEF extra
    <3> QED BY <2>6, <2>8, <2>11, <2>12 DEF Dimension
  <2> QED
    BY <2>8, <2>9, <2>13
<1> QED
  BY <1>1, <1>2

-----------------------------------------------------------------------------
(* The inductive invariant, one dimension at a time: what holds of dimension  *)
(* d when its state is dim, the clock reads t and the ledger the other five.  *)

\* Best-effort takings and what a positive balance still offers, beyond the
\* initial capacity, have been paid for by the refill clock.
PaidFor(d, dim, net, start) ==
    Pace[d] * (net + Greater(dim.cur, 0) - start) <= dim.last

\* The reserve of the smallest capacity is there but for what others took.
Reserved(dim, least, others) ==
    /\ least <= dim.max
    /\ others < MaxOthers =>
           dim.cur >= FloorOf(least, FloorPercent) - others

\* Debt is bounded by the largest capacity so far.
DebtBounded(dim, most) == dim.max <= most /\ dim.cur >= -most

DimInv(d, dim, t, net, start, least, most, others) ==
    /\ dim.last <= t
    /\ dim.cur <= dim.max
    /\ \E c \in Capacities : dim.max = c[d]
    /\ PaidFor(d, dim, net, start)
    /\ Reserved(dim, least, others)
    /\ DebtBounded(dim, most)

Inv ==
    /\ now \in Nat
    /\ bucket \in BucketType
    /\ ledger \in LedgerType
    /\ \A d \in Dims :
          DimInv(d, bucket[d], now, ledger.net[d], ledger.start[d],
                 ledger.least[d], ledger.most[d], ledger.others[d])

\* A refill preserves the invariant of a dimension.
LEMMA RefillKeeps ==
    ASSUME NEW d \in Dims, NEW dim \in Dimension, NEW t \in Nat,
           NEW net \in Int, NEW start \in Nat, NEW least \in Nat,
           NEW most \in Nat, NEW others \in Nat,
           DimInv(d, dim, t, net, start, least, most, others)
    PROVE  /\ RefillDim(dim, t) \in Dimension
           /\ RefillDim(dim, t).max = dim.max
           /\ DimInv(d, RefillDim(dim, t), t, net, start, least, most,
                     others)
<1> DEFINE r == RefillDim(dim, t)
<1>1. dim.max > 0 /\ NanosPer(dim.max) > 0 => Pace[d] <= NanosPer(dim.max)
  BY PaceAssumption DEF DimInv
<1>2. Pace[d] \in Nat \ {0}
  BY PaceAssumption
<1>3. dim.last <= t /\ dim.cur <= dim.max
  BY DEF DimInv
<1>4. /\ r \in Dimension
      /\ r.max = dim.max
      /\ r.last <= t
      /\ dim.cur <= r.cur
      /\ r.cur <= dim.max
      /\ Pace[d] * (Greater(r.cur, 0) - Greater(dim.cur, 0))
            <= r.last - dim.last
  BY <1>1, <1>2, <1>3, RefillDimFacts
<1> HIDE DEF r
<1>5. PaidFor(d, r, net, start)
  <2> DEFINE g == Greater(dim.cur, 0)
             h == Greater(r.cur, 0)
  <2>1. g \in Int /\ h \in Int /\ dim.last \in Int /\ r.last \in Int
    BY <1>4 DEF Dimension, Greater
  <2>2. Pace[d] * (net + g - start) <= dim.last
    BY DEF DimInv, PaidFor
  <2>3. Pace[d] * (h - g) <= r.last - dim.last
    BY <1>4
  <2> HIDE DEF g, h
  <2>4. Pace[d] * (net + h - start)
           = Pace[d] * (net + g - start) + Pace[d] * (h - g)
    BY <1>2, <2>1
  <2>5. Pace[d] * (net + g - start) \in Int /\ Pace[d] * (h - g) \in Int
    BY <1>2, <2>1
  <2>6. Pace[d] * (net + h - start) <= r.last
    BY <2>1, <2>2, <2>3, <2>4, <2>5
  <2> QED
    BY <2>6 DEF PaidFor, h
<1>6. Reserved(r, least, others)
  BY <1>4, FloorWithin DEF DimInv, Reserved, Dimension
<1>7. DebtBounded(r, most)
  BY <1>4 DEF DimInv, DebtBounded, Dimension
<1> QED
  BY <1>3, <1>4, <1>5, <1>6, <1>7 DEF DimInv, r

\* Moving units from the balance to what is admitted, and the clock forward
\* only, leaves everything paid for.
LEMMA MovePays ==
    ASSUME NEW d \in Dims, NEW r \in Dimension, NEW s \in Dimension,
           NEW net \in Int, NEW net2 \in Int, NEW start \in Nat,
           PaidFor(d, r, net, start),
           r.last <= s.last,
           net2 + Greater(s.cur, 0) <= net + Greater(r.cur, 0)
    PROVE  PaidFor(d, s, net2, start)
<1> DEFINE a == net + Greater(r.cur, 0) - start
           b == net2 + Greater(s.cur, 0) - start
<1>1. Pace[d] \in Nat \ {0}
  BY PaceAssumption
<1>2. a \in Int /\ b \in Int /\ b <= a
  BY DEF Dimension, Greater
<1>3. Pace[d] * a <= r.last /\ r.last \in Int /\ s.last \in Int
  BY DEF PaidFor, Dimension
<1>4. Pace[d] * b <= s.last
  <2> HIDE DEF a, b
  <2>1. Pace[d] * b <= Pace[d] * a /\ Pace[d] * a \in Int /\ Pace[d] * b \in Int
    BY <1>1, <1>2
  <2> QED
    BY <1>3, <2>1
<1> QED
  BY <1>4 DEF PaidFor

-----------------------------------------------------------------------------
(* Every action preserves the invariant. *)

\* What the invariant says of the refilled bucket every method works on.
LEMMA Refilled ==
    ASSUME Inv, NEW d \in Dims
    PROVE  /\ bucket[d] \in Dimension
           /\ Refill(bucket, now)[d] \in Dimension
           /\ Refill(bucket, now)[d].max = bucket[d].max
           /\ DimInv(d, Refill(bucket, now)[d], now, ledger.net[d],
                     ledger.start[d], ledger.least[d], ledger.most[d],
                     ledger.others[d])
           /\ ledger.net[d] \in Int
           /\ ledger.start[d] \in Nat
           /\ ledger.least[d] \in Nat
           /\ ledger.most[d] \in Nat
           /\ ledger.others[d] \in Nat
<1>1. bucket[d] \in Dimension
  BY DEF Inv, BucketType
<1>2. /\ ledger.net[d] \in Int
      /\ ledger.start[d] \in Nat
      /\ ledger.least[d] \in Nat
      /\ ledger.most[d] \in Nat
      /\ ledger.others[d] \in Nat
  BY DEF Inv, LedgerType
<1>3. DimInv(d, bucket[d], now, ledger.net[d], ledger.start[d],
             ledger.least[d], ledger.most[d], ledger.others[d])
  BY DEF Inv
<1>4. Refill(bucket, now)[d] = RefillDim(bucket[d], now)
  BY DEF Refill
<1>5. now \in Nat
  BY DEF Inv
<1>6. /\ RefillDim(bucket[d], now) \in Dimension
      /\ RefillDim(bucket[d], now).max = bucket[d].max
      /\ DimInv(d, RefillDim(bucket[d], now), now, ledger.net[d],
                ledger.start[d], ledger.least[d], ledger.most[d],
                     ledger.others[d])
  BY <1>1, <1>2, <1>3, <1>5, RefillKeeps
<1> QED
  BY <1>1, <1>2, <1>4, <1>6

\* A new bucket (NewTokenBucketWithClock) satisfies the invariant.
LEMMA InitInv == Init => Inv
<1> SUFFICES ASSUME NEW cap \in Capacities,
                    now = 0,
                    bucket = NewTokenBucket(cap, 0),
                    ledger = [start  |-> cap,
                              least  |-> cap,
                              most   |-> cap,
                              net    |-> [d \in Dims |-> 0],
                              others |-> [d \in Dims |-> 0]]
             PROVE  Inv
  BY DEF Init
<1>1. cap \in [Dims -> Nat]
  BY CapacityAssumption
<1>2. bucket \in BucketType /\ ledger \in LedgerType
  BY <1>1 DEF NewTokenBucket, BucketType, Dimension, LedgerType
<1>3. ASSUME NEW d \in Dims
      PROVE  DimInv(d, bucket[d], now, ledger.net[d], ledger.start[d],
                    ledger.least[d], ledger.most[d], ledger.others[d])
  <2>1. bucket[d] = [max |-> cap[d], cur |-> cap[d], last |-> 0] /\ cap[d] \in Nat
    BY <1>1 DEF NewTokenBucket
  <2>2. /\ ledger.net[d] = 0
        /\ ledger.start[d] = cap[d]
        /\ ledger.least[d] = cap[d]
        /\ ledger.most[d] = cap[d]
        /\ ledger.others[d] = 0
    OBVIOUS
  <2>3. PaidFor(d, bucket[d], ledger.net[d], ledger.start[d])
    <3>1. ledger.net[d] + Greater(bucket[d].cur, 0) - ledger.start[d] = 0
      BY <2>1, <2>2 DEF Greater
    <3>2. Pace[d] \in Nat
      BY PaceAssumption
    <3> QED
      BY <2>1, <3>1, <3>2 DEF PaidFor
  <2>4. Reserved(bucket[d], ledger.least[d], ledger.others[d])
    BY <2>1, <2>2, FloorWithin DEF Reserved
  <2>5. DebtBounded(bucket[d], ledger.most[d])
    BY <2>1, <2>2 DEF DebtBounded
  <2> QED
    BY <2>1, <2>3, <2>4, <2>5 DEF DimInv
<1> QED
  BY <1>2, <1>3 DEF Inv

\* The passing of time alone preserves the invariant.
LEMMA TickInv == Inv /\ Tick => Inv'
<1> SUFFICES ASSUME Inv, Tick PROVE Inv'
  OBVIOUS
<1>1. now' = now + 1 /\ bucket' = bucket /\ ledger' = ledger
  BY DEF Tick
<1>2. now \in Nat /\ \A d \in Dims : bucket[d].last \in Nat
  BY DEF Inv, BucketType, Dimension
<1>3. ASSUME NEW d \in Dims
      PROVE  DimInv(d, bucket[d], now + 1, ledger.net[d], ledger.start[d],
                    ledger.least[d], ledger.most[d], ledger.others[d])
  BY <1>2 DEF Inv, DimInv
<1> QED
  BY <1>1, <1>2, <1>3 DEF Inv

\* SetCapacity preserves the invariant: the clamp keeps the balance within the
\* new capacity and takes nothing of the reserve of the smaller one.
LEMMA SetCapacityInv ==
    ASSUME Inv, NEW cap \in Capacities, SetCapacity(cap)
    PROVE  Inv'
<1> DEFINE b == Refill(bucket, now)
<1>1. cap \in [Dims -> Nat]
  BY CapacityAssumption
<1>2. now' = now /\ now \in Nat
  BY DEF SetCapacity, Inv
<1>3. ASSUME NEW d \in Dims
      PROVE  /\ bucket'[d] = [b[d] EXCEPT !.max = cap[d],
                                          !.cur = Lesser(@, cap[d])]
             /\ bucket'[d] \in Dimension
             /\ bucket'[d].max = cap[d]
             /\ bucket'[d].cur = Lesser(b[d].cur, cap[d])
             /\ bucket'[d].last = b[d].last
  <2>1. b[d] \in Dimension /\ cap[d] \in Nat
    BY <1>1, Refilled
  <2>2. bucket'[d] = [b[d] EXCEPT !.max = cap[d], !.cur = Lesser(@, cap[d])]
    BY DEF SetCapacity, Resized
  <2>3. Lesser(b[d].cur, cap[d]) \in Int
    BY <2>1 DEF Dimension, Lesser
  <2> QED
    BY <2>1, <2>2, <2>3 DEF Dimension
<1>4. ledger' = [ledger EXCEPT
                    !.least = [d \in Dims |-> Lesser(ledger.least[d], cap[d])],
                    !.most = [d \in Dims |-> Greater(ledger.most[d], cap[d])]]
  BY DEF SetCapacity
<1>5. /\ ledger'.net = ledger.net
      /\ ledger'.start = ledger.start
      /\ ledger'.others = ledger.others
      /\ \A d \in Dims : /\ ledger'.least[d] = Lesser(ledger.least[d], cap[d])
                         /\ ledger'.least[d] \in Nat
                         /\ ledger'.most[d] = Greater(ledger.most[d], cap[d])
                         /\ ledger'.most[d] \in Nat
      /\ ledger' \in LedgerType
  BY <1>1, <1>4 DEF Inv, LedgerType, Lesser, Greater
<1>6. bucket' \in BucketType
  <2>1. bucket' = [d \in Dims |-> bucket'[d]]
    BY DEF SetCapacity, Resized
  <2> QED
    BY <1>3, <2>1 DEF BucketType
<1>7. ASSUME NEW d \in Dims
      PROVE  DimInv(d, bucket'[d], now, ledger'.net[d], ledger'.start[d],
                    ledger'.least[d], ledger'.most[d], ledger'.others[d])
  <2> HIDE DEF b
  <2>1. /\ b[d] \in Dimension
        /\ DimInv(d, b[d], now, ledger.net[d], ledger.start[d],
                  ledger.least[d], ledger.most[d], ledger.others[d])
        /\ ledger.net[d] \in Int /\ ledger.start[d] \in Nat
        /\ ledger.least[d] \in Nat /\ ledger.others[d] \in Nat
        /\ ledger.most[d] \in Nat
    BY Refilled DEF b
  <2>2. cap[d] \in Nat
    BY <1>1
  <2>3. /\ bucket'[d].max = cap[d]
        /\ bucket'[d].cur = Lesser(b[d].cur, cap[d])
        /\ bucket'[d].last = b[d].last
        /\ bucket'[d] \in Dimension
    BY <1>3
  <2>4. Reserved(bucket'[d], ledger'.least[d], ledger'.others[d])
    <3>1. ledger.others[d] < MaxOthers =>
             b[d].cur >= FloorOf(ledger.least[d], FloorPercent)
                           - ledger.others[d]
      BY <2>1 DEF DimInv, Reserved
    <3>2. b[d].cur \in Int
      BY <2>1 DEF Dimension
    <3>3. ledger.others[d] < MaxOthers =>
             Lesser(b[d].cur, cap[d])
               >= FloorOf(Lesser(ledger.least[d], cap[d]), FloorPercent)
                    - ledger.others[d]
      BY <2>1, <2>2, <3>1, <3>2, ReserveSurvivesResize
    <3>4. Lesser(ledger.least[d], cap[d]) <= cap[d]
      BY <2>1, <2>2 DEF Lesser
    <3> QED
      BY <1>5, <2>3, <3>3, <3>4 DEF Reserved
  <2>5. b[d].cur \in Int /\ b[d].last \in Nat /\ b[d].last <= now
    BY <2>1 DEF Dimension, DimInv
  <2>6. /\ bucket'[d].cur <= bucket'[d].max
        /\ b[d].last <= bucket'[d].last
        /\ bucket'[d].last <= now
    BY <1>2, <2>2, <2>3, <2>5 DEF Lesser
  <2>7. ledger'.net[d] + Greater(bucket'[d].cur, 0)
             <= ledger.net[d] + Greater(b[d].cur, 0)
    BY <1>5, <2>1, <2>2, <2>3, <2>5 DEF Lesser, Greater
  <2>8. \E c \in Capacities : bucket'[d].max = c[d]
    BY <2>3
  <2>9. /\ ledger'.least[d] \in Nat
        /\ ledger'.net[d] \in Int
        /\ ledger'.others[d] \in Nat
        /\ ledger'.start[d] = ledger.start[d]
    BY <1>5, <2>1
  <2>10. PaidFor(d, bucket'[d], ledger'.net[d], ledger.start[d])
    <3>1. PaidFor(d, b[d], ledger.net[d], ledger.start[d])
      BY <2>1 DEF DimInv
    <3> QED
      BY <2>1, <2>3, <2>6, <2>7, <2>9, <3>1, MovePays
  <2>11. DebtBounded(bucket'[d], ledger'.most[d])
    <3>1. b[d].cur >= -ledger.most[d]
      BY <2>1 DEF DimInv, DebtBounded
    <3> QED
      BY <1>5, <2>1, <2>2, <2>3, <2>5, <3>1 DEF DebtBounded, Lesser, Greater
  <2> QED
    BY <2>4, <2>6, <2>8, <2>9, <2>10, <2>11 DEF DimInv
<1> QED
  BY <1>2, <1>5, <1>6, <1>7 DEF Inv

\* The calls that keep the capacity: bucket b goes to bucket', the clocks do not
\* go back, and what leaves the balance is booked.
LEMMA KeepCapacityInv ==
    ASSUME Inv, now' = now, bucket' \in BucketType, ledger' \in LedgerType,
           ledger'.start = ledger.start,
           ledger'.least = ledger.least,
           ledger'.most = ledger.most,
           NEW b,
           \A d \in Dims :
              /\ b[d] \in Dimension
              /\ DimInv(d, b[d], now, ledger.net[d], ledger.start[d],
                        ledger.least[d], ledger.most[d], ledger.others[d])
              /\ bucket'[d].max = b[d].max
              /\ bucket'[d].cur <= bucket'[d].max
              /\ bucket'[d].cur >= -ledger.most[d]
              /\ b[d].last <= bucket'[d].last
              /\ bucket'[d].last <= now
              /\ ledger'.net[d] + Greater(bucket'[d].cur, 0)
                   <= ledger.net[d] + Greater(b[d].cur, 0)
              /\ ledger'.others[d] < MaxOthers =>
                    bucket'[d].cur
                      >= FloorOf(ledger.least[d], FloorPercent)
                           - ledger'.others[d]
    PROVE  Inv'
<1>1. ASSUME NEW d \in Dims
      PROVE  DimInv(d, bucket'[d], now, ledger'.net[d], ledger'.start[d],
                    ledger'.least[d], ledger'.most[d], ledger'.others[d])
  <2>1. ledger.net[d] \in Int /\ ledger.start[d] \in Nat
    BY DEF Inv, LedgerType
  <2>2. bucket'[d] \in Dimension /\ ledger'.net[d] \in Int
    BY DEF BucketType, LedgerType
  <2>3. PaidFor(d, bucket'[d], ledger'.net[d], ledger.start[d])
    <3>1. PaidFor(d, b[d], ledger.net[d], ledger.start[d])
      BY DEF DimInv
    <3> QED
      BY <2>1, <2>2, <3>1, MovePays
  <2>4. /\ \E c \in Capacities : bucket'[d].max = c[d]
        /\ ledger.least[d] <= bucket'[d].max
        /\ bucket'[d].max <= ledger.most[d]
    BY DEF DimInv, Reserved, DebtBounded
  <2> QED
    BY <2>3, <2>4 DEF DimInv, Reserved, DebtBounded
<1> QED
  BY <1>1 DEF Inv

\* The calls whose takings are on others' account: they never lower the balance
\* without booking the difference.
LEMMA OthersAccountInv ==
    ASSUME Inv, now' = now, NEW after \in BucketType, bucket' = after,
           ledger' = OnOthersAccount(Refill(bucket, now), after),
           \A d \in Dims :
              /\ after[d].max = Refill(bucket, now)[d].max
              /\ after[d].cur <= after[d].max
              /\ after[d].cur >= -ledger.most[d]
              /\ Refill(bucket, now)[d].last <= after[d].last
              /\ after[d].last <= now
              /\ Greater(after[d].cur, 0)
                   <= Greater(Refill(bucket, now)[d].cur, 0)
    PROVE  Inv'
<1> DEFINE b == Refill(bucket, now)
           booked(d) == Greater(b[d].cur - after[d].cur, 0)
<1>1. ASSUME NEW d \in Dims
      PROVE  /\ b[d].cur \in Int /\ after[d].cur \in Int
             /\ booked(d) \in Nat /\ after[d].cur >= b[d].cur - booked(d)
  BY Refilled DEF Dimension, BucketType, Greater
<1>2. ledger' = [ledger EXCEPT !.others =
            [d \in Dims |-> Lesser(MaxOthers, ledger.others[d] + booked(d))]]
  BY DEF OnOthersAccount
<1>3. MaxOthers \in Nat
  BY BoundAssumption
<1> HIDE DEF booked, b
<1>4. ASSUME NEW d \in Dims
      PROVE  Lesser(MaxOthers, ledger.others[d] + booked(d)) \in Nat
  BY <1>1, <1>3 DEF Lesser, Inv, LedgerType
<1>5. /\ ledger' \in LedgerType
      /\ ledger'.start = ledger.start
      /\ ledger'.least = ledger.least
      /\ ledger'.most = ledger.most
      /\ ledger'.net = ledger.net
      /\ \A d \in Dims :
           ledger'.others[d] = Lesser(MaxOthers, ledger.others[d] + booked(d))
  BY <1>2, <1>4 DEF Inv, LedgerType
<1>6. ASSUME NEW d \in Dims, ledger'.others[d] < MaxOthers
      PROVE  after[d].cur >= FloorOf(ledger.least[d], FloorPercent)
                               - ledger'.others[d]
  <2>1. /\ ledger.others[d] \in Nat /\ ledger.least[d] \in Nat
        /\ Reserved(b[d], ledger.least[d], ledger.others[d])
    BY Refilled DEF DimInv, b
  <2>2. /\ ledger'.others[d] = ledger.others[d] + booked(d)
        /\ ledger.others[d] < MaxOthers
    BY <1>1, <1>3, <1>5, <1>6, <2>1 DEF Lesser
  <2>3. FloorOf(ledger.least[d], FloorPercent) \in Nat
    BY <2>1, FloorWithin
  <2>4. b[d].cur >= FloorOf(ledger.least[d], FloorPercent) - ledger.others[d]
    BY <2>1, <2>2 DEF Reserved
  <2> QED
    BY <1>1, <2>1, <2>2, <2>3, <2>4
<1>7. ASSUME NEW d \in Dims
      PROVE  ledger'.net[d] + Greater(bucket'[d].cur, 0)
               <= ledger.net[d] + Greater(Refill(bucket, now)[d].cur, 0)
  <2>1. ledger.net[d] \in Int /\ Refill(bucket, now)[d].cur \in Int
        /\ after[d].cur \in Int
    BY Refilled DEF Dimension, BucketType
  <2> QED
    BY <1>5, <2>1 DEF Greater
<1>8. ASSUME NEW d \in Dims
      PROVE  /\ Refill(bucket, now)[d] \in Dimension
             /\ DimInv(d, Refill(bucket, now)[d], now, ledger.net[d],
                       ledger.start[d], ledger.least[d], ledger.most[d],
                     ledger.others[d])
  BY Refilled
<1> QED
  BY <1>5, <1>6, <1>7, <1>8, KeepCapacityInv

\* A refused call leaves the refilled bucket.
LEMMA RefusedInv ==
    ASSUME Inv, now' = now, bucket' = Refill(bucket, now), ledger' = ledger
    PROVE  Inv'
<1>1. ASSUME NEW d \in Dims
      PROVE  /\ bucket'[d] \in Dimension
             /\ DimInv(d, bucket'[d], now, ledger.net[d], ledger.start[d],
                       ledger.least[d], ledger.most[d], ledger.others[d])
  BY Refilled
<1>2. bucket' \in BucketType
  BY <1>1 DEF Refill, BucketType
<1> QED
  BY <1>1, <1>2 DEF Inv

\* Every cost is a natural number.
LEMMA CostType ==
    ASSUME NEW tokens \in TokenCounts, NEW d \in Dims
    PROVE  Cost(tokens)[d] \in Nat
BY TokenAssumption DEF Cost, Greater

\* Taking a natural cost from a refilled bucket.
LEMMA TakenFacts ==
    ASSUME Inv, NEW tokens \in TokenCounts
    PROVE  /\ Taken(Refill(bucket, now), Cost(tokens)) \in BucketType
           /\ \A d \in Dims :
                /\ Taken(Refill(bucket, now), Cost(tokens))[d].max
                     = Refill(bucket, now)[d].max
                /\ Taken(Refill(bucket, now), Cost(tokens))[d].last
                     = Refill(bucket, now)[d].last
                /\ Taken(Refill(bucket, now), Cost(tokens))[d].cur
                     = Refill(bucket, now)[d].cur - Cost(tokens)[d]
<1> DEFINE b == Refill(bucket, now)
           c == Cost(tokens)
<1>1. ASSUME NEW d \in Dims PROVE b[d] \in Dimension /\ c[d] \in Nat
  BY Refilled, CostType
<1> HIDE DEF b, c
<1>2. ASSUME NEW d \in Dims
      PROVE  /\ Taken(b, c)[d] \in Dimension
             /\ Taken(b, c)[d].max = b[d].max
             /\ Taken(b, c)[d].last = b[d].last
             /\ Taken(b, c)[d].cur = b[d].cur - c[d]
  <2>1. Taken(b, c)[d] = [b[d] EXCEPT !.cur = b[d].cur - c[d]]
    BY DEF Taken
  <2>2. b[d].cur - c[d] \in Int
    BY <1>1 DEF Dimension
  <2> QED
    BY <1>1, <2>1, <2>2 DEF Dimension
<1>3. Taken(b, c) \in BucketType
  <2>1. Taken(b, c) = [d \in Dims |-> Taken(b, c)[d]]
    BY DEF Taken
  <2> QED
    BY <1>2, <2>1 DEF BucketType
<1> QED
  BY <1>2, <1>3 DEF b, c

\* TryAcquire preserves the invariant, whether it succeeds or not.
LEMMA TryAcquireInv ==
    ASSUME Inv, NEW tokens \in TokenCounts, TryAcquire(tokens)
    PROVE  Inv'
<1> DEFINE b == Refill(bucket, now)
           c == Cost(tokens)
<1>1. CASE Fits(b, c, 0)
  <2>1. /\ bucket' = Taken(b, c)
        /\ ledger' = OnOthersAccount(b, Taken(b, c))
        /\ now' = now
    BY <1>1 DEF TryAcquire
  <2>2. Taken(b, c) \in BucketType
    BY TakenFacts
  <2>3. ASSUME NEW d \in Dims
        PROVE  /\ Taken(b, c)[d].max = b[d].max
               /\ Taken(b, c)[d].cur <= Taken(b, c)[d].max
               /\ Taken(b, c)[d].cur >= -ledger.most[d]
               /\ b[d].last <= Taken(b, c)[d].last
               /\ Taken(b, c)[d].last <= now
               /\ Greater(Taken(b, c)[d].cur, 0) <= Greater(b[d].cur, 0)
    <3>1. /\ Taken(b, c)[d].max = b[d].max
          /\ Taken(b, c)[d].last = b[d].last
          /\ Taken(b, c)[d].cur = b[d].cur - c[d]
      BY TakenFacts
    <3>2. c[d] \in Nat
      BY CostType
    <3>3. /\ b[d] \in Dimension /\ b[d].last <= now /\ b[d].cur <= b[d].max
          /\ ledger.most[d] \in Nat
      BY Refilled DEF DimInv
    <3> HIDE DEF b, c
    <3>4. b[d].cur - c[d] >= FloorOf(b[d].max, 0)
      BY <1>1 DEF Fits
    <3>5. FloorOf(b[d].max, 0) = 0
      BY <3>3 DEF FloorOf, Dimension
    <3> QED
      BY <3>1, <3>2, <3>3, <3>4, <3>5 DEF Dimension, Greater
  <2> HIDE DEF c
  <2> QED
    BY <2>1, <2>2, <2>3, OthersAccountInv
<1>2. CASE ~Fits(b, c, 0)
  BY <1>2, RefusedInv DEF TryAcquire
<1> QED
  BY <1>1, <1>2

\* TryAcquireAbove preserves the invariant: what it takes is paid for and lies
\* above the floor.
LEMMA TryAcquireAboveInv ==
    ASSUME Inv, NEW tokens \in TokenCounts, TryAcquireAbove(tokens)
    PROVE  Inv'
<1> DEFINE b == Refill(bucket, now)
           c == Cost(tokens)
           fits == Fits(b, c, FloorPercent)
<1>1. CASE fits
  <2>1. /\ bucket' = Taken(b, c)
        /\ ledger' = [ledger EXCEPT !.net = [d \in Dims |-> ledger.net[d] + c[d]]]
        /\ now' = now
    BY <1>1 DEF TryAcquireAbove
  <2>2. \A d \in Dims : c[d] \in Nat
    BY CostType
  <2>3. bucket' \in BucketType
    BY <2>1, TakenFacts
  <2>4. \A d \in Dims : b[d].cur - c[d] >= FloorOf(b[d].max, FloorPercent)
    BY <1>1 DEF Fits
  <2>5. ASSUME NEW d \in Dims
        PROVE  /\ bucket'[d].max = b[d].max
               /\ bucket'[d].last = b[d].last
               /\ bucket'[d].cur = b[d].cur - c[d]
    BY <2>1, TakenFacts
  <2>6. ASSUME NEW d \in Dims
        PROVE  /\ b[d] \in Dimension
               /\ DimInv(d, b[d], now, ledger.net[d], ledger.start[d],
                         ledger.least[d], ledger.most[d], ledger.others[d])
               /\ ledger.net[d] \in Int
               /\ ledger.least[d] \in Nat
               /\ ledger.most[d] \in Nat
               /\ ledger.others[d] \in Nat
    BY Refilled
  <2> HIDE DEF b, c
  <2>7. /\ ledger' \in LedgerType
        /\ ledger'.start = ledger.start
        /\ ledger'.least = ledger.least
      /\ ledger'.most = ledger.most
        /\ ledger'.others = ledger.others
        /\ \A d \in Dims : ledger'.net[d] = ledger.net[d] + c[d]
    BY <2>1, <2>2 DEF Inv, LedgerType
  <2>8. ASSUME NEW d \in Dims
        PROVE  /\ bucket'[d].cur <= bucket'[d].max
               /\ b[d].last <= bucket'[d].last
               /\ bucket'[d].last <= now
    <3>1. b[d].last <= now /\ b[d].cur <= b[d].max
      BY <2>6 DEF DimInv
    <3> QED
      BY <2>2, <2>5, <2>6, <3>1 DEF Dimension
  <2>9. ASSUME NEW d \in Dims
        PROVE  bucket'[d].cur >= FloorOf(b[d].max, FloorPercent)
               /\ bucket'[d].cur \in Int
    BY <2>2, <2>4, <2>5, <2>6 DEF Dimension
  <2>10. ASSUME NEW d \in Dims
         PROVE  ledger'.net[d] + Greater(bucket'[d].cur, 0)
                  <= ledger.net[d] + Greater(b[d].cur, 0)
    <3>1. b[d].max \in Nat /\ b[d].cur \in Int
      BY <2>6 DEF Dimension
    <3>2. FloorOf(b[d].max, FloorPercent) \in Nat
      BY <3>1, FloorWithin
    <3> QED
      BY <2>2, <2>5, <2>6, <2>7, <2>9, <3>1, <3>2 DEF Greater
  <2>11. ASSUME NEW d \in Dims
         PROVE  bucket'[d].cur >= FloorOf(ledger.least[d], FloorPercent)
                                    - ledger'.others[d]
    <3>1. b[d].max \in Nat /\ ledger.least[d] <= b[d].max
      BY <2>6 DEF Dimension, DimInv, Reserved
    <3>2. /\ FloorOf(ledger.least[d], FloorPercent) \in Nat
          /\ FloorOf(b[d].max, FloorPercent) \in Nat
          /\ FloorOf(ledger.least[d], FloorPercent)
               <= FloorOf(b[d].max, FloorPercent)
      BY <2>6, <3>1, FloorWithin, FloorMono
    <3> QED
      BY <2>6, <2>7, <2>9, <3>2
  <2>12. ASSUME NEW d \in Dims PROVE bucket'[d].cur >= -ledger.most[d]
    <3>1. FloorOf(b[d].max, FloorPercent) \in Nat
      BY <2>6, FloorWithin DEF Dimension
    <3> QED
      BY <2>6, <2>9, <3>1
  <2> QED
    BY <2>1, <2>3, <2>5, <2>6, <2>7, <2>8, <2>10, <2>11, <2>12, KeepCapacityInv
<1>2. CASE ~fits
  BY <1>2, RefusedInv DEF TryAcquireAbove
<1> QED
  BY <1>1, <1>2

\* ForceAcquire preserves the invariant: its debt is on others' account.
LEMMA ForceAcquireInv ==
    ASSUME Inv, NEW tokens \in TokenCounts, ForceAcquire(tokens)
    PROVE  Inv'
<1> DEFINE b == Refill(bucket, now)
           c == Cost(tokens)
           after == ForceTaken(b, c)
<1>1. /\ bucket' = after
      /\ ledger' = OnOthersAccount(b, after)
      /\ now' = now
  BY DEF ForceAcquire
<1>2. ASSUME NEW d \in Dims
      PROVE  /\ after[d] \in Dimension
             /\ after[d].max = b[d].max
             /\ after[d].cur <= after[d].max
             /\ after[d].cur >= -ledger.most[d]
             /\ b[d].last <= after[d].last
             /\ after[d].last <= now
             /\ Greater(after[d].cur, 0) <= Greater(b[d].cur, 0)
  <2>1. c[d] \in Nat
    BY CostType
  <2>2. /\ b[d] \in Dimension /\ b[d].last <= now /\ b[d].cur <= b[d].max
        /\ ledger.most[d] \in Nat
        /\ b[d].max <= ledger.most[d] /\ b[d].cur >= -ledger.most[d]
    BY Refilled DEF DimInv, DebtBounded
  <2> HIDE DEF b, c
  <2>3. after[d] = [b[d] EXCEPT !.cur = Greater(b[d].cur - c[d], -b[d].max)]
    BY DEF ForceTaken
  <2>4. Greater(b[d].cur - c[d], -b[d].max) \in Int
    BY <2>1, <2>2 DEF Dimension, Greater
  <2>5. /\ after[d] \in Dimension
        /\ after[d].max = b[d].max
        /\ after[d].last = b[d].last
        /\ after[d].cur = Greater(b[d].cur - c[d], -b[d].max)
    BY <2>2, <2>3, <2>4 DEF Dimension
  <2> HIDE DEF after
  <2> QED
    BY <2>1, <2>2, <2>5 DEF Dimension, Greater
<1>3. after \in BucketType
  <2>1. after = [d \in Dims |-> after[d]]
    BY DEF ForceTaken
  <2> QED
    BY <1>2, <2>1 DEF BucketType
<1> HIDE DEF after
<1> QED
  BY <1>1, <1>2, <1>3, OthersAccountInv

\* SyncHeadroom preserves the invariant: it restarts the clocks at the present
\* time, which forfeits time that was paid for.
LEMMA SyncHeadroomInv ==
    ASSUME Inv, NEW headroom \in Headrooms, SyncHeadroom(headroom)
    PROVE  Inv'
<1> DEFINE b == Refill(bucket, now)
           after == Synced(b, headroom, now)
<1>1. /\ bucket' = after
      /\ ledger' = OnOthersAccount(b, after)
      /\ now' = now
  BY DEF SyncHeadroom
<1>2. ASSUME NEW d \in Dims
      PROVE  /\ after[d] \in Dimension
             /\ after[d].max = b[d].max
             /\ after[d].cur <= after[d].max
             /\ after[d].cur >= -ledger.most[d]
             /\ b[d].last <= after[d].last
             /\ after[d].last <= now
             /\ Greater(after[d].cur, 0) <= Greater(b[d].cur, 0)
  <2>1. headroom[d] \in Int /\ now \in Nat
    BY HeadroomAssumption DEF Inv
  <2>2. /\ b[d] \in Dimension /\ b[d].last <= now /\ b[d].cur <= b[d].max
        /\ ledger.most[d] \in Nat
        /\ b[d].max <= ledger.most[d] /\ b[d].cur >= -ledger.most[d]
    BY Refilled DEF DimInv, DebtBounded
  <2> HIDE DEF b
  <2> DEFINE left == IF headroom[d] <= 0 THEN 0 ELSE Lesser(b[d].cur, headroom[d])
  <2>3. after[d] = [b[d] EXCEPT !.cur = left, !.last = now]
    BY DEF Synced
  <2>4. left \in Int
    BY <2>1, <2>2 DEF Dimension, Lesser
  <2>5. /\ left <= b[d].max /\ left >= -ledger.most[d]
        /\ Greater(left, 0) <= Greater(b[d].cur, 0)
    BY <2>1, <2>2 DEF Dimension, Lesser, Greater
  <2> HIDE DEF left
  <2>6. /\ after[d] \in Dimension
        /\ after[d].max = b[d].max
        /\ after[d].last = now
        /\ after[d].cur = left
    BY <2>1, <2>2, <2>3, <2>4 DEF Dimension
  <2> QED
    BY <2>1, <2>2, <2>5, <2>6 DEF Dimension
<1>3. after \in BucketType
  <2>1. after = [d \in Dims |-> after[d]]
    BY DEF Synced
  <2> QED
    BY <1>2, <2>1 DEF BucketType
<1> HIDE DEF after
<1> QED
  BY <1>1, <1>2, <1>3, OthersAccountInv

\* Refund preserves the invariant: what it returns is booked as not admitted.
LEMMA RefundInv ==
    ASSUME Inv, NEW tokens \in TokenCounts, Refund(tokens)
    PROVE  Inv'
<1> DEFINE back(d) == IF d = "tpm" THEN tokens ELSE 0
<1>1. tokens \in Nat /\ now' = now /\ now \in Nat
  BY TokenAssumption DEF Refund, Inv
<1>2. ASSUME NEW d \in Dims
      PROVE  /\ bucket[d] \in Dimension
             /\ DimInv(d, bucket[d], now, ledger.net[d], ledger.start[d],
                       ledger.least[d], ledger.most[d], ledger.others[d])
             /\ bucket[d].cur <= bucket[d].max
             /\ bucket[d].last <= now
             /\ back(d) \in Nat
             /\ ledger.net[d] \in Int
             /\ ledger.most[d] \in Nat
             /\ bucket[d].cur >= -ledger.most[d]
  BY <1>1 DEF Inv, BucketType, LedgerType, DimInv, DebtBounded
<1>3. ASSUME NEW d \in Dims
      PROVE  /\ bucket'[d] \in Dimension
             /\ bucket'[d].max = bucket[d].max
             /\ bucket'[d].last = bucket[d].last
             /\ bucket'[d].cur = Lesser(bucket[d].max, bucket[d].cur + back(d))
  <2>1. CASE d = "tpm"
    <3>1. bucket'[d] = [bucket[d] EXCEPT !.cur =
                           Lesser(bucket[d].max, bucket[d].cur + tokens)]
      BY <2>1 DEF Refund, Refunded, Inv, BucketType
    <3>2. Lesser(bucket[d].max, bucket[d].cur + tokens) \in Int
      BY <1>1, <1>2 DEF Dimension, Lesser
    <3> QED
      BY <1>2, <2>1, <3>1, <3>2 DEF Dimension
  <2>2. CASE d # "tpm"
    <3>1. bucket'[d] = bucket[d]
      BY <2>2 DEF Refund, Refunded, Inv, BucketType
    <3> QED
      BY <1>2, <2>2, <3>1 DEF Dimension, Lesser
  <2> QED
    BY <2>1, <2>2
<1>4. bucket' \in BucketType
  <2>1. bucket' = [d \in Dims |-> bucket'[d]]
    BY DEF Refund, Refunded, Inv, BucketType
  <2> QED
    BY <1>3, <2>1 DEF BucketType
<1>5. /\ ledger' \in LedgerType
      /\ ledger'.start = ledger.start
      /\ ledger'.least = ledger.least
      /\ ledger'.most = ledger.most
      /\ ledger'.others = ledger.others
      /\ \A d \in Dims : ledger'.net[d] = ledger.net[d] - back(d)
  <2>1. ledger' = [ledger EXCEPT !.net =
                      [ledger.net EXCEPT !["tpm"] = ledger.net["tpm"] - tokens]]
    BY DEF Refund
  <2>2. ledger.net \in [Dims -> Int] /\ "tpm" \in Dims
    BY DEF Inv, LedgerType, Dims
  <2>3. [ledger.net EXCEPT !["tpm"] = ledger.net["tpm"] - tokens]
          \in [Dims -> Int]
    BY <1>1, <2>2
  <2> QED
    BY <1>2, <2>1, <2>2, <2>3 DEF Inv, LedgerType
<1> HIDE DEF back
<1>6. ASSUME NEW d \in Dims
      PROVE  /\ bucket'[d].cur <= bucket'[d].max
             /\ bucket[d].cur <= bucket'[d].cur
             /\ bucket'[d].cur >= -ledger.most[d]
             /\ bucket'[d].cur \in Int
             /\ bucket[d].last <= bucket'[d].last
             /\ bucket'[d].last <= now
             /\ ledger'.net[d] + Greater(bucket'[d].cur, 0)
                  <= ledger.net[d] + Greater(bucket[d].cur, 0)
  BY <1>1, <1>2, <1>3, <1>5 DEF Dimension, Lesser, Greater
<1>7. ASSUME NEW d \in Dims, ledger'.others[d] < MaxOthers
      PROVE  bucket'[d].cur >= FloorOf(ledger.least[d], FloorPercent)
                                 - ledger'.others[d]
  <2>1. ledger.least[d] \in Nat /\ ledger.others[d] \in Nat
    BY DEF Inv, LedgerType
  <2>2. FloorOf(ledger.least[d], FloorPercent) \in Nat
    BY <2>1, FloorWithin
  <2>3. bucket[d].cur >= FloorOf(ledger.least[d], FloorPercent)
                           - ledger.others[d]
    BY <1>2, <1>5, <1>7 DEF DimInv, Reserved
  <2> QED
    BY <1>2, <1>5, <1>6, <2>1, <2>2, <2>3 DEF Dimension
<1> QED
  BY <1>1, <1>2, <1>3, <1>4, <1>5, <1>6, <1>7, KeepCapacityInv

\* The invariant is inductive.
LEMMA NextInv == Inv /\ [Next]_vars => Inv'
<1> SUFFICES ASSUME Inv, [Next]_vars PROVE Inv'
  OBVIOUS
<1>1. CASE Tick
  BY <1>1, TickInv
<1>2. ASSUME NEW cap \in Capacities, SetCapacity(cap) PROVE Inv'
  BY <1>2, SetCapacityInv
<1>3. ASSUME NEW tokens \in TokenCounts, TryAcquire(tokens) PROVE Inv'
  BY <1>3, TryAcquireInv
<1>4. ASSUME NEW tokens \in TokenCounts, TryAcquireAbove(tokens) PROVE Inv'
  BY <1>4, TryAcquireAboveInv
<1>5. ASSUME NEW tokens \in TokenCounts, ForceAcquire(tokens) PROVE Inv'
  BY <1>5, ForceAcquireInv
<1>6. ASSUME NEW tokens \in TokenCounts, Refund(tokens) PROVE Inv'
  BY <1>6, RefundInv
<1>7. CASE GetAvailable
  BY <1>7, RefusedInv DEF GetAvailable
<1>8. ASSUME NEW headroom \in Headrooms, SyncHeadroom(headroom) PROVE Inv'
  BY <1>8, SyncHeadroomInv
<1>9. CASE UNCHANGED vars
  BY <1>9 DEF vars, Inv
<1> QED
  BY <1>1, <1>2, <1>3, <1>4, <1>5, <1>6, <1>7, <1>8, <1>9 DEF Next

-----------------------------------------------------------------------------
(* The theorems. *)

\* The inductive invariant holds of every bucket in every behaviour.
THEOREM InvHolds == Spec => []Inv
<1>1. Init => Inv
  BY InitInv
<1>2. Inv /\ [Next]_vars => Inv'
  BY NextInv
<1> QED
  BY <1>1, <1>2, PTL DEF Spec

\* Every method of bucket.go keeps the types, and no refill clock runs ahead of
\* the bucket's clock.
THEOREM TypeCorrect == Spec => []TypeOK
<1>1. Inv => TypeOK
  BY DEF Inv, TypeOK, DimInv
<1> QED
  BY <1>1, InvHolds, PTL

\* Whatever capacities SetCapacity is called with, refills and refunds never
\* bring a balance above the capacity in force.
THEOREM NeverAboveCapacity == Spec => []WithinCapacity
<1>1. Inv => WithinCapacity
  BY DEF Inv, WithinCapacity, DimInv
<1> QED
  BY <1>1, InvHolds, PTL

\* TryAcquireAbove enforces a rate: however calls, resizes, syncs, refunds and
\* clock readings interleave, what it admits is the initial capacity plus what
\* the elapsed time pays for.
THEOREM RateEnforced == Spec => []RateBound
<1>1. ASSUME Inv, NEW d \in Dims
      PROVE  ledger.net[d] <= ledger.start[d] + now \div Pace[d]
  <2> DEFINE g == Greater(bucket[d].cur, 0)
             excess == ledger.net[d] - ledger.start[d]
  <2>1. Pace[d] \in Nat \ {0}
    BY PaceAssumption
  <2>2. /\ ledger.net[d] \in Int /\ ledger.start[d] \in Nat /\ now \in Nat
        /\ bucket[d] \in Dimension
    BY <1>1 DEF Inv, LedgerType, BucketType
  <2>3. /\ Pace[d] * (ledger.net[d] + g - ledger.start[d]) <= bucket[d].last
        /\ bucket[d].last <= now
    BY <1>1 DEF Inv, DimInv, PaidFor
  <2>4. g \in Nat /\ bucket[d].last \in Int
    BY <2>2 DEF Dimension, Greater
  <2> HIDE DEF g
  <2>5. Pace[d] * excess <= now /\ excess \in Int
    <3>1. ledger.net[d] + g - ledger.start[d] = excess + g
      BY <2>2, <2>4
    <3>2. excess \in Int
      BY <2>2
    <3> HIDE DEF excess
    <3>3. Pace[d] * excess <= Pace[d] * (excess + g)
      BY <2>1, <2>4, <3>2
    <3>4. Pace[d] * excess \in Int /\ Pace[d] * (excess + g) \in Int
      BY <2>1, <2>4, <3>2
    <3> QED
      BY <2>2, <2>3, <2>4, <3>1, <3>2, <3>3, <3>4
  <2>6. excess <= now \div Pace[d]
    <3> HIDE DEF excess
    <3> QED BY <2>1, <2>2, <2>5, DivBound
  <2>7. now \div Pace[d] \in Nat
    BY <2>1, <2>2, DivFacts
  <2> QED
    BY <2>2, <2>6, <2>7
<1>2. Inv => RateBound
  BY <1>1 DEF RateBound
<1> QED
  BY <1>2, InvHolds, PTL

\* Best-effort traffic alone never eats into the critical reserve
\* (TryAcquireAbove's floor), also while SetCapacity changes the capacity.
THEOREM ReserveProtected == Spec => []ReserveForCritical
<1>1. Inv => ReserveForCritical
  BY DEF Inv, ReserveForCritical, DimInv, Reserved
<1> QED
  BY <1>1, InvHolds, PTL

\* As long as its capacity has not changed, a dimension that refills is full after
\* two minutes without traffic: ForceAcquire's cap on debt and refillLocked's
\* rounding of the price per unit add up to no more.
THEOREM DebtIsRepaid == Spec => []RecoversInTwoMinutes
<1>1. ASSUME Inv, NEW d \in Dims, ledger.least[d] = ledger.most[d],
             bucket[d].max > 0, NanosPer(bucket[d].max) > 0
      PROVE  RefillDim(bucket[d], now + 2 * Minute).cur = bucket[d].max
  <2> DEFINE dim == bucket[d]
             price == NanosPer(dim.max)
             elapsed == now + 2 * Minute - dim.last
             gained == elapsed \div price
  <2>1. /\ dim \in Dimension /\ now \in Nat /\ Minute \in Nat \ {0}
        /\ ledger.least[d] \in Nat /\ ledger.most[d] \in Nat
    BY <1>1, MinuteAssumption DEF Inv, BucketType, LedgerType
  <2>2. /\ dim.last <= now /\ dim.cur <= dim.max
        /\ ledger.least[d] <= dim.max /\ dim.max <= ledger.most[d]
        /\ dim.cur >= -ledger.most[d]
    BY <1>1 DEF Inv, DimInv, Reserved, DebtBounded
  <2>3. /\ dim.max \in Nat \ {0} /\ dim.cur \in Int /\ dim.last \in Nat
        /\ dim.cur >= -dim.max
    BY <1>1, <2>1, <2>2 DEF Dimension
  <2>4. price \in Nat \ {0} /\ dim.max * price <= Minute
    BY <1>1, <2>1, <2>3, DivFacts DEF NanosPer
  <2>5. elapsed \in Nat /\ elapsed >= 2 * Minute
    BY <2>1, <2>2, <2>3
  <2> HIDE DEF price, elapsed
  <2>6. price * (2 * dim.max) <= elapsed
    BY <2>1, <2>3, <2>4, <2>5
  <2>7. 2 * dim.max <= gained /\ gained \in Nat
    BY <2>3, <2>4, <2>5, <2>6, DivBound, DivFacts
  <2> HIDE DEF gained
  <2>8. CanRefill(dim, now + 2 * Minute) /\ gained > 0
    BY <1>1, <2>1, <2>2, <2>3, <2>7 DEF CanRefill
  <2>9. RefillDim(dim, now + 2 * Minute).cur = Lesser(dim.max, dim.cur + gained)
    BY <2>1, <2>8 DEF RefillDim, Dimension, gained, elapsed, price
  <2> QED
    BY <2>3, <2>7, <2>9 DEF Lesser
<1>2. Inv => RecoversInTwoMinutes
  BY <1>1 DEF RecoversInTwoMinutes
<1> QED
  BY <1>2, InvHolds, PTL

=============================================================================
