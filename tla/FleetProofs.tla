----------------------------- MODULE FleetProofs -----------------------------
(***************************************************************************)
(* Theorems about Fleet, for any finite number of replicas, any targets    *)
(* and demands, and any interval, TTL, threshold of failures and floor     *)
(* that Fleet's assumptions allow.                                         *)
(***************************************************************************)
EXTENDS Fleet, ArithmeticLemmas, TLAPS

USE DEF Dims

-----------------------------------------------------------------------------
(* The inductive invariant. *)

\* What the tracker keeps for a replica.
EntryOK(entry) ==
    /\ entry.lastSeen \in Int
    /\ \A t \in DOMAIN entry.avg :
          t \in DOMAIN Allowances /\ entry.avg[t] \in [Dims -> Nat]

TrackerOK(trk) ==
    /\ DOMAIN trk \subseteq Replicas
    /\ \A i \in DOMAIN trk : EntryOK(trk[i])

\* What the control plane answers: fractions.
SharesOK(shares) ==
    \A t \in DOMAIN shares, d \in Dims :
        shares[t][d].num \in Nat /\ shares[t][d].den \in Nat \ {0}

Slices == [DOMAIN Allowances -> [Dims -> Nat \ {0}]]

\* The number of intervals a call may still take.
Pending(rep) == IF rep.pc = "idle" THEN 1 ELSE 2

\* A replica that is up, at a time: its next tick is near, each failure since its
\* last share accounts for one interval, so does a disturbance of the fleet, and
\* too many failures mean the even split.
Timed(rep, time, disturbed) ==
    /\ rep.pc \in {"idle", "sent", "answered"}
    /\ rep.due \in Int /\ time <= rep.due /\ rep.due <= time + Interval
    /\ rep.failures \in Nat
    /\ rep.granted \in Nat /\ rep.granted <= time
    /\ rep.capacity \in Slices
    /\ rep.failures >= FallbackAfterFailures => rep.capacity = EvenSplit
    /\ rep.due <= rep.granted + (rep.failures + Pending(rep)) * Interval
    /\ rep.due <= Greater(rep.granted, disturbed) + Pending(rep) * Interval
    /\ rep.pc = "sent" => rep.demand \in Demands
    /\ rep.pc = "answered" => /\ rep.at \in Nat /\ rep.at <= time
                              /\ rep.due <= rep.at + Interval
                              /\ SharesOK(rep.shares)

\* The slice of a target for a fraction of it.
Slice(t, d, share) == Greater((Allowances[t][d] * share.num) \div share.den, 1)

\* A share that is newer than the last disturbance is what the tracker would answer
\* now.
Current(rep, r, trk, disturbed) ==
    /\ rep.granted > disturbed =>
          /\ r \in DOMAIN trk
          /\ \A t \in Tracked(trk), d \in Dims :
                rep.capacity[t][d] = Slice(t, d, Fraction(trk, r, t, d))
    /\ rep.pc = "answered" /\ rep.at > disturbed =>
          r \in DOMAIN trk /\ rep.shares = SharesOf(trk, r)

ClockInv ==
    /\ now \in 0..MaxTime /\ changed \in 0..now /\ events \in 0..MaxEvents
    /\ load \in [Replicas -> Demands]

TrackerInv ==
    TrackerOK(tracker) /\ \A i \in DOMAIN tracker : tracker[i].lastSeen <= now

ReplicasInv ==
    /\ DOMAIN replicas = Replicas
    /\ \A r \in Replicas : replicas[r].pc # "down" =>
          /\ Timed(replicas[r], now, changed)
          /\ Current(replicas[r], r, tracker, changed)

Inv == ClockInv /\ TrackerInv /\ ReplicasInv

-----------------------------------------------------------------------------
(* Lemmas on the fractions. *)

\* The demand that counts is a number.
LEMMA DemandType ==
    ASSUME NEW trk, TrackerOK(trk), NEW i \in DOMAIN trk, NEW t, NEW d \in Dims
    PROVE  DemandFor(trk[i].avg, t, d) \in Nat
  BY DEF TrackerOK, EntryOK, DemandFor

\* The demands of all replicas, as a function.
DemandsOf(trk, t, d) == [i \in DOMAIN trk |-> DemandFor(trk[i].avg, t, d)]

\* There are finitely many replicas in a tracker, and their demands add up.
LEMMA TotalType ==
    ASSUME NEW trk, TrackerOK(trk), NEW t, NEW d \in Dims
    PROVE  /\ IsFiniteSet(DOMAIN trk)
           /\ Cardinality(DOMAIN trk) \in Nat
           /\ DOMAIN trk # {} => Cardinality(DOMAIN trk) > 0
           /\ TotalDemand(trk, t, d) = SumFunctionOnSet(DemandsOf(trk, t, d), DOMAIN trk)
           /\ TotalDemand(trk, t, d) \in Nat
<1> DEFINE f == DemandsOf(trk, t, d)
<1>1. IsFiniteSet(DOMAIN trk)
  BY FleetAssumption, FS_Subset DEF TrackerOK
<1>2. /\ Cardinality(DOMAIN trk) \in Nat
      /\ DOMAIN trk # {} => Cardinality(DOMAIN trk) > 0
  <2>1. Cardinality(DOMAIN trk) \in Nat
    BY <1>1, FS_CardinalityType
  <2>2. Cardinality(DOMAIN trk) = 0 <=> DOMAIN trk = {}
    BY <1>1, FS_EmptySet
  <2> QED
    BY <2>1, <2>2
<1>3. DOMAIN f = DOMAIN trk /\ \A i \in DOMAIN trk : f[i] \in Nat
  BY DemandType DEF DemandsOf
<1>4. TotalDemand(trk, t, d) = SumFunctionOnSet(f, DOMAIN trk)
  <2>1. TotalDemand(trk, t, d) = SumFunctionOnSet(f, DOMAIN f)
    BY DEF TotalDemand, SumFunction, DemandsOf
  <2> QED
    BY <1>3, <2>1
<1> HIDE DEF f
<1>5. SumFunctionOnSet(f, DOMAIN trk) \in Int
  <2>1. \A i \in DOMAIN trk : f[i] \in Int
    BY <1>3
  <2> QED
    BY <1>1, <2>1, SumType
<1>6. 0 <= SumFunctionOnSet(f, DOMAIN trk)
  <2>1. {} \in SUBSET DOMAIN trk
    OBVIOUS
  <2>2. SumFunctionOnSet(f, {}) <= SumFunctionOnSet(f, DOMAIN trk)
    BY <1>1, <1>3, <2>1, SumOfPart
  <2> QED
    BY <2>2, SumOfNone
<1>7. SumFunctionOnSet(f, DOMAIN trk) \in Nat
  BY <1>5, <1>6
<1> QED
  BY <1>1, <1>2, <1>4, <1>7 DEF f

\* A fraction, without its LETs.
LEMMA FractionCases ==
    ASSUME NEW trk, NEW i, NEW t, NEW d
    PROVE  /\ TotalDemand(trk, t, d) <= 0 =>
                /\ Fraction(trk, i, t, d).num = 1
                /\ Fraction(trk, i, t, d).den = Cardinality(DOMAIN trk)
           /\ ~(TotalDemand(trk, t, d) <= 0) =>
                /\ Fraction(trk, i, t, d).num =
                      FloorPercent * TotalDemand(trk, t, d)
                        + (100 - FloorPercent) * Cardinality(DOMAIN trk)
                             * DemandFor(trk[i].avg, t, d)
                /\ Fraction(trk, i, t, d).den =
                      100 * Cardinality(DOMAIN trk) * TotalDemand(trk, t, d)
  BY DEF Fraction

\* The product of positive numbers is positive.
LEMMA PositiveProduct ==
    \A a, b \in Nat : a * b \in Nat /\ (a > 0 /\ b > 0 => a * b > 0)
  BY SMT

\* Numerators are natural numbers, denominators positive ones.
LEMMA FractionType ==
    ASSUME NEW trk, TrackerOK(trk), NEW i \in DOMAIN trk, NEW t, NEW d \in Dims
    PROVE  /\ Fraction(trk, i, t, d).num \in Nat
           /\ Fraction(trk, i, t, d).den \in Nat \ {0}
<1> DEFINE n == Cardinality(DOMAIN trk)
           total == TotalDemand(trk, t, d)
           mine == DemandFor(trk[i].avg, t, d)
<1>1. n \in Nat /\ n > 0 /\ total \in Nat /\ mine \in Nat
  BY TotalType, DemandType
<1>2. FloorPercent \in Nat /\ 100 - FloorPercent \in Nat
  BY TrackerAssumption
<1>3. CASE total <= 0
  <2>1. Fraction(trk, i, t, d).num = 1 /\ Fraction(trk, i, t, d).den = n
    BY <1>3, FractionCases
  <2> HIDE DEF n
  <2> QED
    BY <1>1, <2>1
<1>4. CASE ~(total <= 0)
  <2>1. /\ Fraction(trk, i, t, d).num
                = FloorPercent * total + (100 - FloorPercent) * n * mine
        /\ Fraction(trk, i, t, d).den = 100 * n * total
    BY <1>4, FractionCases
  <2> HIDE DEF n, total, mine
  <2>2. FloorPercent * total \in Nat /\ (100 - FloorPercent) * n \in Nat
    BY <1>1, <1>2, PositiveProduct
  <2>3. (100 - FloorPercent) * n * mine \in Nat
    BY <1>1, <2>2, PositiveProduct
  <2>4. 100 * n \in Nat /\ 100 * n > 0
    BY <1>1
  <2>5. 100 * n * total \in Nat /\ 100 * n * total > 0
    BY <1>1, <1>4, <2>4, PositiveProduct
  <2> QED
    BY <2>1, <2>2, <2>3, <2>5
<1> QED
  BY <1>3, <1>4

\* The arithmetic of fraction: floor and demand add up to the whole.
LEMMA FloorAndDemand ==
    ASSUME NEW a \in Int, NEW n \in Int, NEW total \in Int
    PROVE  (a * total) * n + ((100 - a) * n) * total = 100 * n * total
<1>1. (a * total) * n = a * (n * total)
  BY SMT
<1>2. ((100 - a) * n) * total = (100 - a) * (n * total)
  BY SMT
<1>3. (100 - a) * (n * total) = 100 * (n * total) - a * (n * total)
  <2> DEFINE p == n * total
  <2>1. p \in Int
    OBVIOUS
  <2> HIDE DEF p
  <2>2. (100 - a) * p = 100 * p - a * p
    BY <2>1, SMT
  <2> QED
    BY <2>2 DEF p
<1>4. 100 * n * total = 100 * (n * total)
  BY SMT
<1> DEFINE p == n * total
           q == a * p
<1>5. p \in Int /\ q \in Int
  OBVIOUS
<1> HIDE DEF p, q
<1>6. q + (100 * p - q) = 100 * p
  BY <1>5
<1> QED
  BY <1>1, <1>2, <1>3, <1>4, <1>6 DEF p, q

\* The fractions of the replicas in a tracker have one denominator, and their
\* numerators add up to it.
LEMMA FractionsAddUp ==
    ASSUME NEW trk, TrackerOK(trk), NEW i \in DOMAIN trk, NEW t, NEW d \in Dims
    PROVE  /\ \A j \in DOMAIN trk :
                 Fraction(trk, j, t, d).den = Fraction(trk, i, t, d).den
           /\ SumFunction([j \in DOMAIN trk |-> Fraction(trk, j, t, d).num])
                 = Fraction(trk, i, t, d).den
<1> DEFINE n == Cardinality(DOMAIN trk)
           total == TotalDemand(trk, t, d)
           nums == [j \in DOMAIN trk |-> Fraction(trk, j, t, d).num]
           f == DemandsOf(trk, t, d)
<1>1. /\ IsFiniteSet(DOMAIN trk) /\ n \in Nat /\ total \in Nat
      /\ total = SumFunctionOnSet(f, DOMAIN trk)
  BY TotalType
<1>2. SumFunction(nums) = SumFunctionOnSet(nums, DOMAIN trk)
  BY DEF SumFunction
<1>3. \A j \in DOMAIN trk : f[j] = DemandFor(trk[j].avg, t, d) /\ f[j] \in Nat
  BY DemandType DEF DemandsOf
<1>4. \A j \in DOMAIN trk : Fraction(trk, j, t, d).den = Fraction(trk, i, t, d).den
  BY FractionCases
<1>5. CASE total <= 0
  <2>1. \A j \in DOMAIN trk : nums[j] = 1
    BY <1>5, FractionCases
  <2>2. Fraction(trk, i, t, d).den = n
    BY <1>5, FractionCases
  <2> HIDE DEF nums
  <2>3. SumFunctionOnSet(nums, DOMAIN trk) = 1 * n
    BY <1>1, <2>1, SumConstant
  <2> HIDE DEF n
  <2>4. SumFunctionOnSet(nums, DOMAIN trk) = n
    BY <1>1, <2>3
  <2> QED
    BY <1>2, <1>4, <2>2, <2>4 DEF nums
<1>6. CASE ~(total <= 0)
  <2> DEFINE base == FloorPercent * total
             weight == (100 - FloorPercent) * n
             even == [j \in DOMAIN trk |-> base]
             scaled == [j \in DOMAIN trk |-> weight * f[j]]
  <2>1. base \in Int /\ weight \in Int
    BY <1>1, TrackerAssumption
  <2>2. \A j \in DOMAIN trk : nums[j] = even[j] + scaled[j]
    <3>1. \A j \in DOMAIN trk :
             Fraction(trk, j, t, d).num = base + weight * DemandFor(trk[j].avg, t, d)
      BY <1>6, FractionCases
    <3> HIDE DEF base, weight, f
    <3> QED
      BY <1>3, <3>1
  <2>3. Fraction(trk, i, t, d).den = 100 * n * total
    BY <1>6, FractionCases
  <2> HIDE DEF nums, f, n, total, base, weight
  <2>4. \A j \in DOMAIN trk : /\ even[j] = base /\ even[j] \in Int
                              /\ scaled[j] = weight * f[j] /\ scaled[j] \in Int
    BY <1>3, <2>1
  <2> HIDE DEF even, scaled
  <2>5. SumFunctionOnSet(nums, DOMAIN trk) =
           SumFunctionOnSet(even, DOMAIN trk) + SumFunctionOnSet(scaled, DOMAIN trk)
    BY <1>1, <2>2, <2>4, SumPlus
  <2>6. SumFunctionOnSet(even, DOMAIN trk) = base * n
    BY <1>1, <2>1, <2>4, SumConstant DEF n
  <2>7. SumFunctionOnSet(scaled, DOMAIN trk) = weight * total
    <3>1. \A j \in DOMAIN trk : f[j] \in Int /\ scaled[j] = weight * f[j]
      BY <1>3, <2>4
    <3> QED
      BY <1>1, <2>1, <3>1, SumScaled
  <2>8. base * n + weight * total = 100 * n * total
    BY <1>1, FloorAndDemand, TrackerAssumption DEF base, weight
  <2> QED
    BY <1>2, <1>4, <2>3, <2>5, <2>6, <2>7, <2>8 DEF nums
<1> QED
  BY <1>5, <1>6

-----------------------------------------------------------------------------
(* Lemmas on the tracker and on capacities. *)

\* A report leaves a well-formed tracker that knows the replica.
LEMMA ReportedType ==
    ASSUME NEW trk, TrackerOK(trk), NEW id \in Replicas, NEW demand \in Demands,
           NEW time \in Int
    PROVE  /\ TrackerOK(Reported(trk, id, demand, time))
           /\ id \in DOMAIN Reported(trk, id, demand, time)
           /\ \A i \in DOMAIN Reported(trk, id, demand, time) :
                 \/ Reported(trk, id, demand, time)[i].lastSeen = time
                 \/ /\ i \in DOMAIN trk
                    /\ Reported(trk, id, demand, time)[i] = trk[i]
<1> DEFINE new == Reported(trk, id, demand, time)
           kept == {j \in DOMAIN trk : time - trk[j].lastSeen <= TTL}
           avg == Folded(trk, id, demand)
<1>1. /\ DOMAIN new = kept \cup {id}
      /\ new[id] = [lastSeen |-> time, avg |-> avg]
      /\ \A i \in kept : i # id => new[i] = trk[i]
  BY DEF Reported
<1>2. \A t \in DOMAIN Latest(demand) : /\ t \in DOMAIN Allowances
                                       /\ Latest(demand)[t] \in [Dims -> Nat]
  <2>1. Unit \in Nat /\ \A x \in Int : Unit * Greater(x, 0) \in Nat
    BY TrackerAssumption, PositiveProduct DEF Greater
  <2>2. \A t \in DOMAIN demand : t \in DOMAIN Allowances /\ demand[t] \in [Dims -> Int]
    BY FleetAssumption
  <2> QED
    BY <2>1, <2>2 DEF Latest
<1>3. \A t \in DOMAIN avg : t \in DOMAIN Allowances /\ avg[t] \in [Dims -> Nat]
  <2>1. CASE id \in DOMAIN trk
    <3> DEFINE old == trk[id].avg
               latest == Latest(demand)
    <3>1. \A t \in DOMAIN old : t \in DOMAIN Allowances /\ old[t] \in [Dims -> Nat]
      BY <2>1 DEF TrackerOK, EntryOK
    <3>2. avg = Smooth(old, latest)
      BY <2>1 DEF Folded
    <3> HIDE DEF old, latest, avg
    <3>3. \A t, d : d \in Dims =>
             DemandFor(old, t, d) \in Nat /\ DemandFor(latest, t, d) \in Nat
      BY <1>2, <3>1 DEF DemandFor, latest
    <3>4. \A a, b \in Nat : (a + b) \div 2 \in Nat
      OBVIOUS
    <3>5. \A t \in DOMAIN Smooth(old, latest) :
             /\ t \in DOMAIN old \cup DOMAIN latest
             /\ Smooth(old, latest)[t] \in [Dims -> Nat]
      BY <3>3, <3>4 DEF Smooth
    <3> QED
      BY <1>2, <3>1, <3>2, <3>5 DEF latest
  <2>2. CASE id \notin DOMAIN trk
    BY <1>2, <2>2 DEF Folded
  <2> QED
    BY <2>1, <2>2
<1> HIDE DEF new, avg
<1>4. \A i \in DOMAIN new : \/ new[i].lastSeen = time /\ i = id
                            \/ i \in DOMAIN trk /\ new[i] = trk[i]
  BY <1>1
<1>5. TrackerOK(new)
  <2>1. DOMAIN new \subseteq Replicas
    BY <1>1 DEF TrackerOK
  <2>2. EntryOK(new[id])
    BY <1>1, <1>3 DEF EntryOK
  <2> QED
    BY <1>4, <2>1, <2>2 DEF TrackerOK
<1> QED
  BY <1>1, <1>4, <1>5 DEF new

\* Only targets with an allowance are reported.
LEMMA TrackedKnown ==
    ASSUME NEW trk, TrackerOK(trk)
    PROVE  Tracked(trk) \subseteq DOMAIN Allowances
  BY DEF Tracked, TrackerOK, EntryOK

\* The answer to a replica in the tracker holds fractions.
LEMMA SharesType ==
    ASSUME NEW trk, TrackerOK(trk), NEW i \in DOMAIN trk
    PROVE  /\ DOMAIN SharesOf(trk, i) = Tracked(trk)
           /\ \A t \in Tracked(trk), d \in Dims :
                 SharesOf(trk, i)[t][d] = Fraction(trk, i, t, d)
           /\ SharesOK(SharesOf(trk, i))
<1>1. /\ DOMAIN SharesOf(trk, i) = Tracked(trk)
      /\ \A t \in Tracked(trk), d \in Dims :
            SharesOf(trk, i)[t][d] = Fraction(trk, i, t, d)
  BY DEF SharesOf
<1> QED
  BY <1>1, FractionType DEF SharesOK

\* What a tracker answers depends on who is in it and on the averages only.
LEMMA SameAnswers ==
    ASSUME NEW trk, NEW new, DOMAIN new = DOMAIN trk,
           \A i \in DOMAIN trk : new[i].avg = trk[i].avg
    PROVE  /\ Tracked(new) = Tracked(trk)
           /\ \A i \in DOMAIN trk : \A t, d :
                 Fraction(new, i, t, d) = Fraction(trk, i, t, d)
           /\ \A i \in DOMAIN trk : SharesOf(new, i) = SharesOf(trk, i)
<1>1. Tracked(new) = Tracked(trk)
  BY DEF Tracked
<1>2. \A t, d : TotalDemand(new, t, d) = TotalDemand(trk, t, d)
  <2> TAKE t, d
  <2>1. [i \in DOMAIN new |-> DemandFor(new[i].avg, t, d)]
           = [i \in DOMAIN trk |-> DemandFor(trk[i].avg, t, d)]
    OBVIOUS
  <2> QED
    BY <2>1 DEF TotalDemand
<1>3. ASSUME NEW i \in DOMAIN trk, NEW t, NEW d
      PROVE  Fraction(new, i, t, d) = Fraction(trk, i, t, d)
  BY <1>2 DEF Fraction
<1>4. \A i \in DOMAIN trk : SharesOf(new, i) = SharesOf(trk, i)
  BY <1>1, <1>3 DEF SharesOf
<1> QED
  BY <1>1, <1>3, <1>4

\* The even split is positive.
LEMMA EvenSplitType == EvenSplit \in Slices
<1>1. \A t \in DOMAIN Allowances, d \in Dims :
         Allowances[t][d] \div ConfiguredReplicas \in Nat
  BY FleetAssumption, DivFacts
<1>2. \A x \in Nat : Greater(x, 1) \in Nat \ {0}
  BY DEF Greater
<1> QED
  BY <1>1, <1>2 DEF EvenSplit, Slices

\* ApplyShares leaves positive capacities, of the size of the shares.
LEMMA ResizedType ==
    ASSUME NEW capacity \in Slices, NEW shares, SharesOK(shares)
    PROVE  /\ ResizedTo(capacity, shares) \in Slices
           /\ \A t \in DOMAIN Allowances, d \in Dims : t \in DOMAIN shares =>
                 ResizedTo(capacity, shares)[t][d] = Slice(t, d, shares[t][d])
<1>1. DOMAIN capacity = DOMAIN Allowances
  BY DEF Slices
<1>2. \A t \in DOMAIN Allowances, d \in Dims : t \in DOMAIN shares =>
         Slice(t, d, shares[t][d]) \in Nat \ {0}
  <2> TAKE t \in DOMAIN Allowances, d \in Dims
  <2> HAVE t \in DOMAIN shares
  <2>1. /\ Allowances[t][d] \in Nat
        /\ shares[t][d].num \in Nat /\ shares[t][d].den \in Nat \ {0}
    BY FleetAssumption DEF SharesOK
  <2>2. Allowances[t][d] * shares[t][d].num \in Nat
    BY <2>1, PositiveProduct
  <2>3. (Allowances[t][d] * shares[t][d].num) \div shares[t][d].den \in Nat
    BY <2>1, <2>2, DivFacts
  <2> QED
    BY <2>3 DEF Slice, Greater
<1>3. ResizedTo(capacity, shares) =
         [t \in DOMAIN Allowances |-> [d \in Dims |->
             IF t \in DOMAIN shares THEN Slice(t, d, shares[t][d])
             ELSE capacity[t][d]]]
  BY <1>1 DEF ResizedTo, Slice
<1> QED
  BY <1>2, <1>3 DEF Slices

-----------------------------------------------------------------------------
(* Lemmas on one replica. *)

\* A disturbance of the fleet now accounts for the time until the next tick, and no
\* share is newer.
LEMMA DisturbedNow ==
    ASSUME NEW rep, NEW time \in Nat, NEW old \in 0..time, Timed(rep, time, old)
    PROVE  /\ Timed(rep, time, time)
           /\ \A r, trk : Current(rep, r, trk, time)
<1>1. Interval \in Nat
  BY FleetAssumption
<1>2. rep.granted \in Nat /\ rep.granted <= time /\ rep.due \in Int
  BY DEF Timed
<1>3. Greater(rep.granted, old) <= Greater(rep.granted, time)
  BY <1>2 DEF Greater
<1>4. /\ Greater(rep.granted, old) \in Int /\ Greater(rep.granted, time) \in Int
      /\ Pending(rep) * Interval \in Int
  BY <1>1, <1>2 DEF Greater, Pending
<1>5. rep.due <= Greater(rep.granted, time) + Pending(rep) * Interval
  <2>1. rep.due <= Greater(rep.granted, old) + Pending(rep) * Interval
    BY DEF Timed
  <2> QED
    BY <1>2, <1>3, <1>4, <2>1
<1>6. Timed(rep, time, time)
  BY <1>5 DEF Timed
<1>7. ~(rep.granted > time) /\ (rep.pc = "answered" => ~(rep.at > time))
  BY <1>2 DEF Timed
<1> QED
  BY <1>6, <1>7 DEF Current

\* A replica that has just started.
LEMMA StartedTimed ==
    ASSUME now \in Nat
    PROVE  /\ Timed(Started, now, now)
           /\ \A r, trk : Current(Started, r, trk, now)
<1>1. Interval \in Nat /\ FallbackAfterFailures \in Nat \ {0}
  BY FleetAssumption
<1>2. Pending(Started) = 1 /\ Started.granted = now /\ Started.due = now + Interval
  BY DEF Pending, Started
<1>3. now + Interval <= now + (0 + 1) * Interval /\ Greater(now, now) = now
  BY <1>1 DEF Greater
<1>4. Timed(Started, now, now)
  BY <1>1, <1>2, <1>3, EvenSplitType DEF Timed, Started
<1> QED
  BY <1>2, <1>4 DEF Current, Started

\* A replica whose call has failed.
LEMMA FailedTimed ==
    ASSUME NEW rep, NEW time \in Nat, NEW old \in 0..time, Timed(rep, time, old),
           Calling(rep)
    PROVE  /\ Timed(Failed(rep), time, time)
           /\ \A r, trk : Current(Failed(rep), r, trk, time)
<1> DEFINE new == Failed(rep)
<1>1. Interval \in Nat /\ FallbackAfterFailures \in Nat \ {0}
  BY FleetAssumption
<1>2. /\ new.pc = "idle" /\ new.due = rep.due /\ new.failures = rep.failures + 1
      /\ new.granted = rep.granted
      /\ new.capacity = IF rep.failures + 1 = FallbackAfterFailures
                        THEN EvenSplit ELSE rep.capacity
  BY DEF Failed
<1>3. /\ rep.due \in Int /\ time <= rep.due /\ rep.due <= time + Interval
      /\ rep.failures \in Nat
      /\ rep.granted \in Nat /\ rep.granted <= time
      /\ rep.capacity \in Slices
      /\ rep.failures >= FallbackAfterFailures => rep.capacity = EvenSplit
      /\ rep.due <= rep.granted + (rep.failures + 2) * Interval
  BY DEF Timed, Calling, Pending
<1> HIDE DEF new
<1>4. Pending(new) = 1
  BY <1>2 DEF Pending
<1>5. new.due <= new.granted + (new.failures + Pending(new)) * Interval
  <2>1. new.failures + Pending(new) = rep.failures + 2
    BY <1>2, <1>3, <1>4
  <2> QED
    BY <1>2, <1>3, <2>1
<1>6. new.due <= Greater(new.granted, time) + Pending(new) * Interval
  <2>1. Greater(new.granted, time) = time
    BY <1>2, <1>3 DEF Greater
  <2> QED
    BY <1>1, <1>2, <1>3, <1>4, <2>1
<1>7. /\ new.capacity \in Slices
      /\ new.failures >= FallbackAfterFailures => new.capacity = EvenSplit
  BY <1>1, <1>2, <1>3, EvenSplitType
<1>8. Timed(new, time, time)
  BY <1>2, <1>3, <1>5, <1>6, <1>7 DEF Timed
<1>9. \A r, trk : Current(new, r, trk, time)
  BY <1>2, <1>3 DEF Current
<1> QED
  BY <1>8, <1>9 DEF new

\* A step of one replica.
LEMMA ReplicaStep ==
    ASSUME ReplicasInv, NEW r \in Replicas, NEW new,
           replicas' = [replicas EXCEPT ![r] = new],
           new.pc # "down" => /\ Timed(new, now', changed')
                              /\ Current(new, r, tracker', changed'),
           \A q \in Replicas \ {r} : replicas[q].pc # "down" =>
               /\ Timed(replicas[q], now', changed')
               /\ Current(replicas[q], q, tracker', changed')
    PROVE  ReplicasInv'
<1>1. DOMAIN replicas' = Replicas
  BY DEF ReplicasInv
<1>2. replicas'[r] = new /\ \A q \in Replicas \ {r} : replicas'[q] = replicas[q]
  BY DEF ReplicasInv
<1> QED
  BY <1>1, <1>2 DEF ReplicasInv

\* The same, when nothing else changes for the other replicas.
LEMMA QuietStep ==
    ASSUME ReplicasInv, NEW r \in Replicas, NEW new,
           replicas' = [replicas EXCEPT ![r] = new],
           new.pc # "down" => /\ Timed(new, now, changed)
                              /\ Current(new, r, tracker, changed),
           UNCHANGED <<now, changed, tracker>>
    PROVE  ReplicasInv'
<1>1. \A q \in Replicas \ {r} : replicas[q].pc # "down" =>
               /\ Timed(replicas[q], now', changed')
               /\ Current(replicas[q], q, tracker', changed')
  BY DEF ReplicasInv
<1>2. new.pc # "down" => /\ Timed(new, now', changed')
                         /\ Current(new, r, tracker', changed')
  OBVIOUS
<1> QED
  BY <1>1, <1>2, ReplicaStep

-----------------------------------------------------------------------------
(* The invariant holds initially and every step keeps it. *)

\* The initial states.
LEMMA InitInv == Init => Inv
<1> SUFFICES ASSUME Init PROVE Inv
  OBVIOUS
<1>1. now = 0 /\ changed = 0 /\ now \in Nat
  BY DEF Init
<1>2. ClockInv
  BY FleetAssumption DEF Init, ClockInv
<1>3. TrackerInv
  BY DEF Init, TrackerInv, TrackerOK, EmptyTracker
<1>4. ReplicasInv
  <2>1. PICK started \in SUBSET Replicas :
           replicas = [r \in Replicas |-> IF r \in started THEN Started ELSE Down]
    BY DEF Init
  <2>2. Down.pc = "down"
    BY DEF Down
  <2>3. Timed(Started, now, changed) /\ \A r, trk : Current(Started, r, trk, changed)
    BY <1>1, StartedTimed
  <2> QED
    BY <2>1, <2>2, <2>3 DEF ReplicasInv
<1> QED
  BY <1>2, <1>3, <1>4 DEF Inv

\* The time passes; no tick is due.
LEMMA TickInv == Inv /\ Tick => Inv'
<1> SUFFICES ASSUME Inv, Tick PROVE Inv'
  OBVIOUS
<1>1. now' = now + 1 /\ now \in Nat /\ Interval \in Nat
  BY FleetAssumption DEF Tick, Inv, ClockInv
<1>2. ClockInv'
  BY FleetAssumption DEF Tick, Inv, ClockInv
<1>3. TrackerInv'
  BY <1>1 DEF Tick, Inv, TrackerInv, TrackerOK, EntryOK
<1>4. ASSUME NEW r \in Replicas, replicas[r].pc # "down"
      PROVE  Timed(replicas[r], now + 1, changed)
  <2> DEFINE rep == replicas[r]
  <2>1. rep.due > now /\ Timed(rep, now, changed)
    BY <1>4 DEF Tick, Up, Inv, ReplicasInv
  <2> HIDE DEF rep
  <2>2. now + 1 <= rep.due /\ rep.due <= now + 1 + Interval /\ rep.granted <= now + 1
    BY <1>1, <2>1 DEF Timed
  <2>3. rep.pc = "answered" => rep.at <= now + 1
    BY <1>1, <2>1 DEF Timed
  <2>4. Timed(rep, now + 1, changed)
    BY <2>1, <2>2, <2>3 DEF Timed
  <2> QED
    BY <2>4 DEF rep
<1>5. ReplicasInv'
  BY <1>1, <1>4 DEF Tick, Inv, ReplicasInv
<1> QED
  BY <1>2, <1>3, <1>5 DEF Inv

\* Traffic moves.
LEMMA ShiftLoadInv ==
    ASSUME Inv, NEW r \in Replicas, NEW demand \in Demands, ShiftLoad(r, demand)
    PROVE  Inv'
<1>1. ClockInv'
  BY FleetAssumption DEF ShiftLoad, Event, Inv, ClockInv
<1>2. TrackerInv'
  BY DEF ShiftLoad, Inv, TrackerInv, TrackerOK
<1>3. ReplicasInv'
  BY DEF ShiftLoad, Inv, ReplicasInv
<1> QED
  BY <1>1, <1>2, <1>3 DEF Inv

\* A replica starts.
LEMMA StartInv ==
    ASSUME Inv, NEW r \in Replicas, Start(r)
    PROVE  Inv'
<1>1. ClockInv'
  BY FleetAssumption DEF Start, Event, Inv, ClockInv
<1>2. TrackerInv'
  BY DEF Start, Inv, TrackerInv, TrackerOK
<1>3. now \in Nat /\ changed \in 0..now /\ now' = now /\ changed' = now
  BY DEF Start, Inv, ClockInv
<1>4. Timed(Started, now', changed') /\ Current(Started, r, tracker', changed')
  BY <1>3, StartedTimed
<1>5. \A q \in Replicas \ {r} : replicas[q].pc # "down" =>
               /\ Timed(replicas[q], now', changed')
               /\ Current(replicas[q], q, tracker', changed')
  BY <1>3, DisturbedNow DEF Inv, ReplicasInv
<1>6. ReplicasInv'
  BY <1>4, <1>5, ReplicaStep DEF Start, Inv
<1> QED
  BY <1>1, <1>2, <1>6 DEF Inv

\* A replica crashes.
LEMMA CrashInv ==
    ASSUME Inv, NEW r \in Replicas, Crash(r)
    PROVE  Inv'
<1>1. ClockInv'
  BY FleetAssumption DEF Crash, Event, Inv, ClockInv
<1>2. TrackerInv'
  BY DEF Crash, Inv, TrackerInv, TrackerOK
<1>3. Down.pc = "down"
  BY DEF Down
<1>4. ReplicasInv'
  BY <1>3, QuietStep DEF Crash, Inv
<1> QED
  BY <1>1, <1>2, <1>4 DEF Inv

\* A report is sent; the call may last one interval.
LEMMA SendInv ==
    ASSUME Inv, NEW r \in Replicas, Send(r)
    PROVE  Inv'
<1> DEFINE rep == replicas[r]
           new == [pc |-> "sent", due |-> rep.due + Interval,
                   failures |-> rep.failures, capacity |-> rep.capacity,
                   granted |-> rep.granted, demand |-> load[r]]
<1>1. ClockInv' /\ TrackerInv'
  BY DEF Send, Inv, ClockInv, TrackerInv, TrackerOK
<1>2. /\ rep.pc = "idle" /\ rep.due = now /\ load[r] \in Demands
      /\ Timed(rep, now, changed) /\ Current(rep, r, tracker, changed)
  BY DEF Send, Inv, ClockInv, ReplicasInv
<1>3. now \in Nat /\ changed \in Nat /\ Interval \in Nat \ {0}
  BY FleetAssumption DEF Inv, ClockInv
<1>4. /\ new.pc = "sent" /\ new.due = rep.due + Interval
      /\ new.failures = rep.failures /\ new.capacity = rep.capacity
      /\ new.granted = rep.granted /\ new.demand = load[r]
  OBVIOUS
<1>5. replicas' = [replicas EXCEPT ![r] = new]
  BY DEF Send
<1>6. UNCHANGED <<now, changed, tracker>>
  BY DEF Send
<1> HIDE DEF rep, new
<1>7. Timed(new, now, changed)
  <2>1. Pending(rep) = 1 /\ Pending(new) = 2
    BY <1>2, <1>4 DEF Pending
  <2>2. /\ rep.granted \in Nat /\ rep.failures \in Nat
        /\ rep.due <= rep.granted + (rep.failures + 1) * Interval
        /\ rep.due <= Greater(rep.granted, changed) + 1 * Interval
    BY <1>2, <2>1 DEF Timed
  <2>3. (rep.failures + 2) * Interval = (rep.failures + 1) * Interval + Interval
    BY <1>3, <2>2, SMT
  <2>4. (rep.failures + 1) * Interval \in Int /\ Greater(rep.granted, changed) \in Int
    BY <1>3, <2>2 DEF Greater
  <2>5. new.due <= new.granted + (new.failures + Pending(new)) * Interval
    BY <1>2, <1>3, <1>4, <2>1, <2>2, <2>3, <2>4
  <2>6. new.due <= Greater(new.granted, changed) + Pending(new) * Interval
    BY <1>2, <1>3, <1>4, <2>1, <2>2, <2>4
  <2> QED
    BY <1>2, <1>3, <1>4, <2>5, <2>6 DEF Timed
<1>8. Current(new, r, tracker, changed)
  BY <1>2, <1>4 DEF Current
<1>9. ReplicasInv'
  BY <1>5, <1>6, <1>7, <1>8, QuietStep DEF Inv
<1> QED
  BY <1>1, <1>9 DEF Inv

\* The control plane handles a report.  Either nothing that its answers depend on
\* changes, or this is a disturbance.
LEMMA HandleInv ==
    ASSUME Inv, NEW r \in Replicas, Handle(r)
    PROVE  Inv'
<1> DEFINE rep == replicas[r]
           new == [pc |-> "answered", due |-> rep.due, failures |-> rep.failures,
                   capacity |-> rep.capacity, granted |-> rep.granted,
                   shares |-> SharesOf(tracker', r), at |-> now]
           same == /\ DOMAIN tracker' = DOMAIN tracker
                   /\ \A i \in DOMAIN tracker : tracker'[i].avg = tracker[i].avg
<1>1. /\ rep.pc = "sent" /\ rep.demand \in Demands
      /\ Timed(rep, now, changed) /\ Current(rep, r, tracker, changed)
  BY DEF Handle, Inv, ReplicasInv, Timed
<1>2. now \in Nat /\ changed \in 0..now /\ Interval \in Nat \ {0} /\ now' = now
  BY FleetAssumption DEF Handle, Inv, ClockInv
<1>3. TrackerOK(tracker') /\ r \in DOMAIN tracker' /\ TrackerInv'
  <2>1. /\ tracker' = Reported(tracker, r, rep.demand, now)
        /\ TrackerOK(tracker) /\ now \in Int
        /\ \A i \in DOMAIN tracker : tracker[i].lastSeen <= now
    BY <1>2 DEF Handle, Inv, TrackerInv
  <2>2. /\ TrackerOK(tracker') /\ r \in DOMAIN tracker'
        /\ \A i \in DOMAIN tracker' : \/ tracker'[i].lastSeen = now
                                      \/ i \in DOMAIN tracker /\ tracker'[i] = tracker[i]
    BY <1>1, <2>1, ReportedType
  <2>3. \A i \in DOMAIN tracker' : tracker'[i].lastSeen <= now'
    BY <1>2, <2>1, <2>2
  <2> QED
    BY <2>2, <2>3 DEF TrackerInv, TrackerOK
<1>4. replicas' = [replicas EXCEPT ![r] = new]
  BY DEF Handle
<1>5. changed' = IF same THEN changed ELSE now
  BY DEF Handle
<1>6. ClockInv'
  BY <1>2, <1>5 DEF Handle, Inv, ClockInv
<1>7. \A q \in Replicas : replicas[q].pc # "down" =>
         /\ Timed(replicas[q], now', changed')
         /\ Current(replicas[q], q, tracker', changed')
  <2>1. CASE same
    <3>1. /\ Tracked(tracker') = Tracked(tracker)
          /\ \A i \in DOMAIN tracker : \A t, d :
                Fraction(tracker', i, t, d) = Fraction(tracker, i, t, d)
          /\ \A i \in DOMAIN tracker : SharesOf(tracker', i) = SharesOf(tracker, i)
      BY <2>1, SameAnswers
    <3>2. \A q \in Replicas : Current(replicas[q], q, tracker, changed)
                                 => Current(replicas[q], q, tracker', changed)
      BY <2>1, <3>1 DEF Current
    <3> QED
      BY <1>2, <1>5, <2>1, <3>2 DEF Inv, ReplicasInv
  <2>2. CASE ~same
    BY <1>2, <1>5, <2>2, DisturbedNow DEF Inv, ReplicasInv
  <2> QED
    BY <2>1, <2>2
<1>8. /\ new.pc = "answered" /\ new.due = rep.due
      /\ new.failures = rep.failures /\ new.capacity = rep.capacity
      /\ new.granted = rep.granted /\ new.at = now
      /\ new.shares = SharesOf(tracker', r)
  OBVIOUS
<1>9. Timed(rep, now', changed') /\ Current(rep, r, tracker', changed')
  BY <1>1, <1>7
<1> HIDE DEF rep, new, same
<1>10. Timed(new, now', changed')
  <2>1. Pending(new) = Pending(rep)
    BY <1>1, <1>8 DEF Pending
  <2>2. SharesOK(new.shares)
    BY <1>3, <1>8, SharesType
  <2>3. new.at \in Nat /\ new.at <= now' /\ new.due <= new.at + Interval
    BY <1>1, <1>2, <1>8 DEF Timed
  <2> QED
    BY <1>8, <1>9, <2>1, <2>2, <2>3 DEF Timed
<1>11. Current(new, r, tracker', changed')
  BY <1>3, <1>8, <1>9 DEF Current
<1>12. ReplicasInv'
  BY <1>4, <1>7, <1>10, <1>11, ReplicaStep DEF Inv
<1> QED
  BY <1>3, <1>6, <1>12 DEF Inv

\* The replica applies the shares.
LEMMA ApplyInv ==
    ASSUME Inv, NEW r \in Replicas, Apply(r)
    PROVE  Inv'
<1> DEFINE rep == replicas[r]
           new == [pc |-> "idle", due |-> rep.due, failures |-> 0,
                   capacity |-> ResizedTo(rep.capacity, rep.shares),
                   granted |-> rep.at]
<1>1. ClockInv' /\ TrackerInv'
  BY DEF Apply, Inv, ClockInv, TrackerInv, TrackerOK
<1>2. /\ rep.pc = "answered"
      /\ Timed(rep, now, changed) /\ Current(rep, r, tracker, changed)
  BY DEF Apply, Inv, ReplicasInv
<1>3. /\ now \in Nat /\ changed \in Nat /\ Interval \in Nat \ {0}
      /\ FallbackAfterFailures \in Nat \ {0}
  BY FleetAssumption DEF Inv, ClockInv
<1>4. /\ new.pc = "idle" /\ new.due = rep.due /\ new.failures = 0
      /\ new.capacity = ResizedTo(rep.capacity, rep.shares)
      /\ new.granted = rep.at
  OBVIOUS
<1>5. replicas' = [replicas EXCEPT ![r] = new]
  BY DEF Apply
<1>6. UNCHANGED <<now, changed, tracker>>
  BY DEF Apply
<1> HIDE DEF rep, new
<1>7. /\ rep.capacity \in Slices /\ SharesOK(rep.shares)
      /\ rep.at \in Nat /\ rep.at <= now /\ rep.due <= rep.at + Interval
      /\ rep.due \in Int
  BY <1>2 DEF Timed
<1>8. /\ new.capacity \in Slices
      /\ \A t \in DOMAIN Allowances, d \in Dims : t \in DOMAIN rep.shares =>
            new.capacity[t][d] = Slice(t, d, rep.shares[t][d])
  BY <1>4, <1>7, ResizedType
<1>9. Timed(new, now, changed)
  <2>1. Pending(new) = 1
    BY <1>4 DEF Pending
  <2>2. new.due <= new.granted + (new.failures + Pending(new)) * Interval
    BY <1>3, <1>4, <1>7, <2>1
  <2>3. new.due <= Greater(new.granted, changed) + Pending(new) * Interval
    BY <1>3, <1>4, <1>7, <2>1 DEF Greater
  <2> QED
    BY <1>2, <1>3, <1>4, <1>7, <1>8, <2>2, <2>3 DEF Timed
<1>10. Current(new, r, tracker, changed)
  <2> SUFFICES ASSUME rep.at > changed
               PROVE  /\ r \in DOMAIN tracker
                      /\ \A t \in Tracked(tracker), d \in Dims :
                            new.capacity[t][d] = Slice(t, d, Fraction(tracker, r, t, d))
    BY <1>4 DEF Current
  <2>1. r \in DOMAIN tracker /\ rep.shares = SharesOf(tracker, r)
    BY <1>2 DEF Current
  <2>2. TrackerOK(tracker)
    BY DEF Inv, TrackerInv
  <2>3. /\ DOMAIN rep.shares = Tracked(tracker)
        /\ \A t \in Tracked(tracker), d \in Dims :
              rep.shares[t][d] = Fraction(tracker, r, t, d)
    BY <2>1, <2>2, SharesType
  <2>4. Tracked(tracker) \subseteq DOMAIN Allowances
    BY <2>2, TrackedKnown
  <2> QED
    BY <1>8, <2>1, <2>3, <2>4
<1>11. ReplicasInv'
  BY <1>5, <1>6, <1>9, <1>10, QuietStep DEF Inv
<1> QED
  BY <1>1, <1>11 DEF Inv

\* A call fails.
LEMMA FailInv ==
    ASSUME Inv, NEW r \in Replicas, Fail(r)
    PROVE  Inv'
<1>1. ClockInv'
  BY FleetAssumption DEF Fail, Event, Inv, ClockInv
<1>2. TrackerInv'
  BY DEF Fail, Inv, TrackerInv, TrackerOK
<1>3. now \in Nat /\ changed \in 0..now /\ now' = now /\ changed' = now
  BY DEF Fail, Inv, ClockInv
<1>4. /\ replicas' = [replicas EXCEPT ![r] = Failed(replicas[r])]
      /\ Calling(replicas[r]) /\ replicas[r].pc # "down"
  BY DEF Fail, Calling
<1>5. /\ Timed(Failed(replicas[r]), now', changed')
      /\ Current(Failed(replicas[r]), r, tracker', changed')
  <2>1. Timed(replicas[r], now, changed)
    BY <1>4 DEF Inv, ReplicasInv
  <2> QED
    BY <1>3, <1>4, <2>1, FailedTimed
<1>6. \A q \in Replicas \ {r} : replicas[q].pc # "down" =>
               /\ Timed(replicas[q], now', changed')
               /\ Current(replicas[q], q, tracker', changed')
  BY <1>3, DisturbedNow DEF Inv, ReplicasInv
<1>7. ReplicasInv'
  BY <1>4, <1>5, <1>6, ReplicaStep DEF Inv
<1> QED
  BY <1>1, <1>2, <1>7 DEF Inv

\* The control plane restarts.
LEMMA RestartInv ==
    ASSUME Inv, Restart
    PROVE  Inv'
<1>1. ClockInv'
  BY FleetAssumption DEF Restart, Event, Inv, ClockInv
<1>2. TrackerInv'
  BY DEF Restart, TrackerInv, TrackerOK, EmptyTracker
<1>3. now \in Nat /\ changed \in 0..now /\ now' = now /\ changed' = now
  BY DEF Restart, Inv, ClockInv
<1>4. ASSUME NEW r \in Replicas, replicas'[r].pc # "down"
      PROVE  /\ Timed(replicas'[r], now', changed')
             /\ Current(replicas'[r], r, tracker', changed')
  <2>1. CASE Calling(replicas[r])
    <3>1. replicas'[r] = Failed(replicas[r]) /\ replicas[r].pc # "down"
      BY <2>1 DEF Restart, Calling
    <3>2. Timed(replicas[r], now, changed)
      BY <3>1 DEF Inv, ReplicasInv
    <3> QED
      BY <1>3, <2>1, <3>1, <3>2, FailedTimed
  <2>2. CASE ~Calling(replicas[r])
    <3>1. replicas'[r] = replicas[r]
      BY <2>2 DEF Restart
    <3>2. Timed(replicas[r], now, changed)
      BY <1>4, <3>1 DEF Inv, ReplicasInv
    <3> QED
      BY <1>3, <3>1, <3>2, DisturbedNow
  <2> QED
    BY <2>1, <2>2
<1>5. ReplicasInv'
  <2>1. DOMAIN replicas' = Replicas
    BY DEF Restart
  <2> QED
    BY <1>4, <2>1 DEF ReplicasInv
<1> QED
  BY <1>1, <1>2, <1>5 DEF Inv

\* Stuttering.
LEMMA StutterInv == Inv /\ UNCHANGED vars => Inv'
<1> SUFFICES ASSUME Inv, UNCHANGED vars PROVE Inv'
  OBVIOUS
<1> QED
  BY DEF Inv, ClockInv, TrackerInv, TrackerOK, ReplicasInv, vars

\* The inductive invariant.
THEOREM Inductive == Spec => []Inv
<1>1. Init => Inv
  BY InitInv
<1>2. Inv /\ [Next]_vars => Inv'
  <2> SUFFICES ASSUME Inv, [Next]_vars PROVE Inv'
    OBVIOUS
  <2>1. CASE TimeUp
    BY <2>1, StutterInv DEF TimeUp
  <2>2. CASE Tick
    BY <2>2, TickInv
  <2>3. CASE Restart
    BY <2>3, RestartInv
  <2>4. ASSUME NEW r \in Replicas, Start(r) \/ Crash(r) PROVE Inv'
    BY <2>4, StartInv, CrashInv
  <2>5. ASSUME NEW r \in Replicas, NEW demand \in Demands, ShiftLoad(r, demand)
        PROVE  Inv'
    BY <2>5, ShiftLoadInv
  <2>6. ASSUME NEW r \in Replicas, Send(r) \/ Handle(r) \/ Apply(r) \/ Fail(r)
        PROVE  Inv'
    BY <2>6, SendInv, HandleInv, ApplyInv, FailInv
  <2>7. CASE UNCHANGED vars
    BY <2>7, StutterInv
  <2> QED
    BY <2>1, <2>2, <2>3, <2>4, <2>5, <2>6, <2>7 DEF Next
<1> QED
  BY <1>1, <1>2, PTL DEF Spec

-----------------------------------------------------------------------------
(* The properties. *)

\* Types; in particular a reporter's next tick is never more than an interval away.
THEOREM TypeCorrect == Spec => []TypeOK
<1>1. Inv => TypeOK
  <2> SUFFICES ASSUME Inv PROVE TypeOK
    OBVIOUS
  <2>1. /\ now \in 0..MaxTime /\ changed \in 0..now /\ events \in 0..MaxEvents
        /\ Interval \in Nat
    BY FleetAssumption DEF Inv, ClockInv
  <2>2. /\ DOMAIN tracker \subseteq Replicas
        /\ \A i \in DOMAIN tracker : tracker[i].lastSeen <= now
    BY DEF Inv, TrackerInv, TrackerOK
  <2>3. \A r \in Up : Timed(replicas[r], now, changed)
    BY DEF Inv, ReplicasInv, Up
  <2>4. ASSUME NEW r \in Up
        PROVE  /\ replicas[r].pc \in {"idle", "sent", "answered"}
               /\ replicas[r].due \in now..(now + Interval)
               /\ replicas[r].capacity \in [DOMAIN Allowances -> [Dims -> Nat \ {0}]]
    BY <2>1, <2>3 DEF Timed, Slices
  <2> QED
    BY <2>1, <2>2, <2>4 DEF TypeOK
<1> QED
  BY <1>1, Inductive, PTL

\* "Shares across replicas sum to 1": the fractions of all active replicas add up to
\* exactly 1, for any number of replicas and any history of reports and evictions.
THEOREM SharesAddUp == Spec => []SharesSumToOne
<1>1. Inv => SharesSumToOne
  <2> SUFFICES ASSUME Inv PROVE SharesSumToOne
    OBVIOUS
  <2>1. TrackerOK(tracker)
    BY DEF Inv, TrackerInv
  <2> QED
    BY <2>1, FractionsAddUp DEF SharesSumToOne
<1> QED
  BY <1>1, Inductive, PTL

\* A share is given up at most an interval after the control plane has forgotten the
\* replica it was granted to.
THEOREM StaleSharesGivenUp == Spec => []StaleShareExpires
<1>1. Inv => StaleShareExpires
  <2> SUFFICES ASSUME Inv, NEW r \in Up,
                      now - replicas[r].granted > TTL + Interval
               PROVE  replicas[r].capacity = EvenSplit
    BY DEF StaleShareExpires
  <2> DEFINE rep == replicas[r]
  <2>1. Timed(rep, now, changed)
    BY DEF Inv, ReplicasInv, Up
  <2>2. /\ now \in Nat /\ TTL \in Nat /\ Interval \in Nat
        /\ FallbackAfterFailures \in Nat /\ FallbackAfterFailures * Interval <= TTL
    BY FleetAssumption, TrackerAssumption, TimingAssumption DEF Inv, ClockInv
  <2>3. now - rep.granted > TTL + Interval
    OBVIOUS
  <2> HIDE DEF rep
  <2>4. /\ rep.failures \in Nat /\ rep.granted \in Nat
        /\ rep.due \in Int /\ now <= rep.due
        /\ rep.due <= rep.granted + (rep.failures + Pending(rep)) * Interval
        /\ rep.failures >= FallbackAfterFailures => rep.capacity = EvenSplit
    BY <2>1 DEF Timed
  <2>5. ~(rep.failures < FallbackAfterFailures)
    <3> SUFFICES ASSUME rep.failures < FallbackAfterFailures PROVE FALSE
      OBVIOUS
    <3>1. Pending(rep) \in 1..2
      BY DEF Pending
    <3>2. rep.failures + Pending(rep) <= FallbackAfterFailures + 1
      BY <2>2, <2>4, <3>1
    <3>3. Interval * (rep.failures + Pending(rep))
             <= Interval * (FallbackAfterFailures + 1)
      BY <2>2, <2>4, <3>1, <3>2, MulMono
    <3>4. /\ Interval * (FallbackAfterFailures + 1)
                = FallbackAfterFailures * Interval + Interval
          /\ Interval * (rep.failures + Pending(rep))
                = (rep.failures + Pending(rep)) * Interval
      BY <2>2, <2>4, <3>1, SMT
    <3> DEFINE p == (rep.failures + Pending(rep)) * Interval
               q == FallbackAfterFailures * Interval
    <3>5. p <= q + Interval /\ p \in Int /\ q \in Int /\ q <= TTL
          /\ rep.due <= rep.granted + p
      BY <2>2, <2>4, <3>1, <3>3, <3>4
    <3> HIDE DEF p, q
    <3> QED
      BY <2>2, <2>3, <2>4, <3>5
  <2>6. rep.capacity = EvenSplit
    BY <2>2, <2>4, <2>5
  <2> QED
    BY <2>6 DEF rep
<1> QED
  BY <1>1, Inductive, PTL

\* Slices of a whole: quotients by a common denominator, of numerators that add up
\* to at most the denominator, add up to at most the whole, if those that are rounded
\* up to 1 are not counted.
LEMMA SlicesFit ==
    ASSUME NEW U, IsFiniteSet(U), NEW whole \in Nat, NEW den \in Nat \ {0},
           NEW num, NEW cap,
           \A r \in U : num[r] \in Nat,
           \A r \in U : cap[r] = Greater((whole * num[r]) \div den, 1),
           SumFunctionOnSet(num, U) <= den
    PROVE  SumFunctionOnSet(cap, U) <= whole + Cardinality({r \in U : cap[r] = 1})
<1> DEFINE ones == {r \in U : cap[r] = 1}
           q == [r \in U |-> (whole * num[r]) \div den]
           one == [r \in U |-> IF r \in ones THEN 1 ELSE 0]
           sum == [r \in U |-> q[r] + one[r]]
           scaled == [r \in U |-> den * q[r]]
           parts == [r \in U |-> whole * num[r]]
<1>1. ASSUME NEW r \in U
      PROVE  /\ q[r] \in Nat /\ parts[r] \in Nat /\ scaled[r] \in Int
             /\ scaled[r] <= parts[r] /\ scaled[r] = den * q[r]
             /\ parts[r] = whole * num[r]
             /\ one[r] \in Int /\ one[r] = IF r \in ones THEN 1 ELSE 0
             /\ cap[r] \in Int /\ sum[r] = q[r] + one[r] /\ cap[r] <= sum[r]
  <2> DEFINE m == whole * num[r]
  <2>1. m \in Nat
    BY PositiveProduct
  <2>2. q[r] = m \div den /\ parts[r] = m /\ scaled[r] = den * q[r]
    OBVIOUS
  <2>3. cap[r] = Greater(m \div den, 1)
    OBVIOUS
  <2> HIDE DEF m
  <2>4. q[r] \in Nat /\ den * q[r] <= m /\ den * q[r] \in Int
    BY <2>1, <2>2, DivFacts
  <2>5. cap[r] \in Int /\ cap[r] >= q[r] /\ (cap[r] = 1 \/ cap[r] = q[r])
    BY <2>2, <2>3, <2>4 DEF Greater
  <2>6. one[r] = (IF cap[r] = 1 THEN 1 ELSE 0) /\ sum[r] = q[r] + one[r]
        /\ (r \in ones <=> cap[r] = 1)
    OBVIOUS
  <2>7. cap[r] <= sum[r]
    <3> HIDE DEF q, one, sum
    <3> QED
      BY <2>4, <2>5, <2>6
  <2> QED
    BY <2>1, <2>2, <2>4, <2>5, <2>6, <2>7 DEF m
<1>2. SUBSET U # {} /\ U \cap ones = ones
  OBVIOUS
<1> HIDE DEF q, one, sum, scaled, parts, ones
<1>3. SumFunctionOnSet(cap, U) <= SumFunctionOnSet(sum, U)
  <2>1. \A r \in U : cap[r] \in Int /\ sum[r] \in Int /\ cap[r] <= sum[r]
    BY <1>1
  <2> QED
    BY <2>1, SumMonotone
<1>4. SumFunctionOnSet(sum, U) = SumFunctionOnSet(q, U) + SumFunctionOnSet(one, U)
  <2>1. \A r \in U : q[r] \in Int /\ one[r] \in Int /\ sum[r] = q[r] + one[r]
    BY <1>1
  <2> QED
    BY <2>1, SumPlus
<1>5. SumFunctionOnSet(one, U) = Cardinality(ones)
  <2>1. \A r \in U : one[r] = IF r \in ones THEN 1 ELSE 0
    BY <1>1
  <2>2. SumFunctionOnSet(one, U) = Cardinality(U \cap ones)
    BY <2>1, SumCounts
  <2> QED
    BY <1>2, <2>2
<1>6. SumFunctionOnSet(scaled, U) = den * SumFunctionOnSet(q, U)
  <2>1. \A r \in U : q[r] \in Int /\ scaled[r] = den * q[r]
    BY <1>1
  <2> QED
    BY <2>1, SumScaled
<1>7. SumFunctionOnSet(parts, U) = whole * SumFunctionOnSet(num, U)
  <2>1. \A r \in U : num[r] \in Int /\ parts[r] = whole * num[r]
    BY <1>1
  <2> QED
    BY <2>1, SumScaled
<1>8. SumFunctionOnSet(scaled, U) <= SumFunctionOnSet(parts, U)
  <2>1. \A r \in U : scaled[r] \in Int /\ parts[r] \in Int /\ scaled[r] <= parts[r]
    BY <1>1
  <2> QED
    BY <2>1, SumMonotone
<1>9. /\ SumFunctionOnSet(q, U) \in Int /\ SumFunctionOnSet(one, U) \in Int
      /\ SumFunctionOnSet(num, U) \in Int /\ SumFunctionOnSet(cap, U) \in Int
  <2>1. \A r \in U : q[r] \in Int /\ one[r] \in Int /\ num[r] \in Int /\ cap[r] \in Int
    BY <1>1
  <2> QED
    BY <2>1, SumType
<1>10. SumFunctionOnSet(q, U) <= whole
  <2> DEFINE s == SumFunctionOnSet(num, U)
  <2>1. s \in Int /\ s <= den
    BY <1>9
  <2> HIDE DEF s
  <2>2. whole * s <= whole * den /\ whole * den = den * whole
    BY <2>1, SMT
  <2>3. den * SumFunctionOnSet(q, U) <= den * whole
    BY <1>6, <1>7, <1>8, <1>9, <2>1, <2>2 DEF s
  <2> QED
    BY <1>9, <2>3, MulCancel
<1>11. SumFunctionOnSet(cap, U) <= whole + Cardinality(ones)
  BY <1>3, <1>4, <1>5, <1>9, <1>10
<1> QED
  BY <1>11 DEF ones

\* A fleet that has not been disturbed for two intervals works with no more than the
\* allowance, but for the slices that are rounded up to 1.
THEOREM SettledFleetFits == Spec => []SettledWithinAllowance
<1>1. Inv => SettledWithinAllowance
  <2> SUFFICES ASSUME Inv, now - changed > 2 * Interval,
                      NEW t \in Tracked(tracker), NEW d \in Dims
               PROVE  SumFunction([r \in Up |-> replicas[r].capacity[t][d]])
                        <= Allowances[t][d]
                           + Cardinality({r \in Up : replicas[r].capacity[t][d] = 1})
    BY DEF SettledWithinAllowance
  <2>1. TrackerOK(tracker) /\ IsFiniteSet(DOMAIN tracker) /\ IsFiniteSet(Up)
    BY TotalType, FleetAssumption, FS_Subset DEF Inv, TrackerInv, Up
  <2>2. t \in DOMAIN Allowances /\ Allowances[t][d] \in Nat
    BY <2>1, TrackedKnown, FleetAssumption
  <2>3. \A r \in Up : replicas[r].granted > changed
    <3> TAKE r \in Up
    <3> DEFINE rep == replicas[r]
    <3>1. Timed(rep, now, changed)
      BY DEF Inv, ReplicasInv, Up
    <3>2. now \in Nat /\ changed \in Nat /\ Interval \in Nat
      BY FleetAssumption DEF Inv, ClockInv
    <3>3. now - changed > 2 * Interval
      OBVIOUS
    <3> HIDE DEF rep
    <3>4. /\ rep.due \in Int /\ now <= rep.due /\ rep.granted \in Nat
          /\ rep.due <= Greater(rep.granted, changed) + Pending(rep) * Interval
      BY <3>1 DEF Timed
    <3>5. Pending(rep) * Interval <= 2 * Interval /\ Pending(rep) * Interval \in Int
      BY <3>2 DEF Pending
    <3>6. rep.granted > changed
      <4> DEFINE p == Pending(rep) * Interval
      <4>1. p \in Int /\ p <= 2 * Interval
        BY <3>5
      <4>2. rep.due <= Greater(rep.granted, changed) + p
        BY <3>4
      <4> HIDE DEF p
      <4> QED
        BY <3>2, <3>3, <3>4, <4>1, <4>2 DEF Greater
    <3> QED
      BY <3>6 DEF rep
  <2>4. \A r \in Up : /\ r \in DOMAIN tracker
                      /\ replicas[r].capacity[t][d]
                            = Slice(t, d, Fraction(tracker, r, t, d))
    BY <2>3 DEF Inv, ReplicasInv, Up, Current
  <2> DEFINE num == [r \in DOMAIN tracker |-> Fraction(tracker, r, t, d).num]
             cap == [r \in Up |-> replicas[r].capacity[t][d]]
  <2>5. PICK i \in DOMAIN tracker : TRUE
    BY DEF Tracked
  <2> DEFINE den == Fraction(tracker, i, t, d).den
  <2>6. /\ den \in Nat \ {0}
        /\ \A r \in DOMAIN tracker : num[r] \in Nat /\ Fraction(tracker, r, t, d).den = den
        /\ SumFunctionOnSet(num, DOMAIN tracker) = den
    <3>1. /\ den \in Nat \ {0} /\ \A r \in DOMAIN tracker : num[r] \in Nat
      BY <2>1, FractionType
    <3>2. /\ \A r \in DOMAIN tracker : Fraction(tracker, r, t, d).den = den
          /\ SumFunction(num) = den
      BY <2>1, FractionsAddUp
    <3>3. SumFunction(num) = SumFunctionOnSet(num, DOMAIN tracker)
      BY DEF SumFunction
    <3> QED
      BY <3>1, <3>2, <3>3
  <2>7. /\ \A r \in Up : num[r] \in Nat
        /\ \A r \in Up : cap[r] = Greater((Allowances[t][d] * num[r]) \div den, 1)
    BY <2>4, <2>6 DEF Slice
  <2>8. Up \in SUBSET DOMAIN tracker
    BY <2>4
  <2>9. {r \in Up : cap[r] = 1} = {r \in Up : replicas[r].capacity[t][d] = 1}
    OBVIOUS
  <2>10. SumFunction(cap) = SumFunctionOnSet(cap, Up)
    BY DEF SumFunction
  <2> HIDE DEF num, cap, den
  <2>11. SumFunctionOnSet(num, Up) <= den
    <3>1. SumFunctionOnSet(num, Up) <= SumFunctionOnSet(num, DOMAIN tracker)
      BY <2>1, <2>6, <2>8, SumOfPart
    <3> QED
      BY <2>6, <3>1
  <2>12. SumFunctionOnSet(cap, Up)
            <= Allowances[t][d] + Cardinality({r \in Up : cap[r] = 1})
    BY <2>1, <2>2, <2>6, <2>7, <2>11, SlicesFit
  <2> QED
    BY <2>9, <2>10, <2>12 DEF cap
<1> QED
  BY <1>1, Inductive, PTL
=============================================================================
