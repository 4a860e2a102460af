-------------------------- MODULE ArithmeticLemmas --------------------------
(***************************************************************************)
(* Quotients, least numbers, and sums of integer functions over finite     *)
(* sets (SumFunctionOnSet of the module Functions): what the proofs need   *)
(* to add up demands, fractions and capacities of any number of replicas.  *)
(* In place of an induction every lemma on sums looks at a smallest set    *)
(* that would refute it.                                                   *)
(***************************************************************************)
EXTENDS Integers, Functions, FiniteSets, FiniteSetTheorems,
        WellFoundedInduction, TLAPS

-----------------------------------------------------------------------------
(* Products and quotients. *)

\* Multiplication distributes over the two terms of a sum.
LEMMA Distribute ==
    \A k, a, b \in Int : k * (a + b) = k * a + k * b
  BY SMT

\* What a quotient of naturals is.
LEMMA DivFacts ==
    ASSUME NEW n \in Nat, NEW p \in Nat \ {0}
    PROVE  /\ n \div p \in Nat
           /\ p * (n \div p) <= n
           /\ n < p * (n \div p) + p
OBVIOUS

\* A product at most n bounds its factor by the quotient.
LEMMA DivBound ==
    ASSUME NEW n \in Nat, NEW p \in Nat \ {0}, NEW k \in Int, p * k <= n
    PROVE  k <= n \div p
BY DivFacts

\* Products are monotone.
LEMMA MulMono ==
    ASSUME NEW a \in Nat, NEW b \in Nat, NEW k \in Nat, a <= b
    PROVE  k * a <= k * b
OBVIOUS

\* A positive factor of both sides can be left out.
LEMMA MulCancel ==
    ASSUME NEW a \in Int, NEW b \in Int, NEW k \in Nat \ {0}, k * a <= k * b
    PROVE  a <= b
OBVIOUS

-----------------------------------------------------------------------------
(* Smallest counterexamples. *)

\* A non-empty set of subsets of a finite set has a smallest member.
LEMMA SmallestSet ==
    ASSUME NEW S, IsFiniteSet(S), NEW B \in SUBSET (SUBSET S), B # {}
    PROVE  \E s \in B : \A u \in B : u \subseteq s => u = s
<1>1. IsWellFoundedOn(StrictSubsetOrdering(S), SUBSET S)
  BY FS_StrictSubsetOrderingWellFounded, FS_FiniteSubsetsOfFinite
<1>2. PICK s \in B : \A u \in B : ~(<<u, s>> \in StrictSubsetOrdering(S))
  <2> HIDE DEF StrictSubsetOrdering, IsWellFoundedOn
  <2> QED
    BY <1>1, WFMin
<1>3. ASSUME NEW u \in B, u \subseteq s PROVE u = s
  <2>1. u \in SUBSET S /\ s \in SUBSET S
    OBVIOUS
  <2> QED
    BY <1>2, <1>3, <2>1 DEF StrictSubsetOrdering
<1> QED
  BY <1>3

\* A non-empty set of natural numbers has a least member.
LEMMA LeastNumber ==
    ASSUME NEW B \in SUBSET Nat, B # {}
    PROVE  \E n \in B : \A k \in B : n <= k
<1>1. PICK n \in B : \A k \in B : ~(<<k, n>> \in OpToRel(<, Nat))
  BY NatLessThanWellFounded, WFMin
<1>2. ASSUME NEW k \in B PROVE n <= k
  <2>1. k \in Nat /\ n \in Nat /\ ~(k < n)
    BY <1>1 DEF OpToRel
  <2> QED
    BY <2>1
<1> QED
  BY <1>2

-----------------------------------------------------------------------------
(* The recursion behind SumFunctionOnSet. *)

\* The member that the fold takes first.
First(s) == CHOOSE x \in s : TRUE

\* The fold adds up f over the members of D.
Adds(g, f, D) ==
    g = [s \in D |-> IF s = {} THEN 0 ELSE f[First(s)] + g[s \ {First(s)}]]

\* A non-empty set has a first member.
LEMMA FirstMember == \A s : s # {} => First(s) \in s
  BY DEF First

\* The subsets of S with at most n members.
Small(S, n) == {s \in SUBSET S : Cardinality(s) <= n}

\* The recursion has a solution on small sets.
LEMMA SumOfSmall ==
    ASSUME NEW S, IsFiniteSet(S), NEW f, NEW n \in Nat
    PROVE  \E g : Adds(g, f, Small(S, n))
<1> DEFINE B == {k \in Nat : ~ \E g : Adds(g, f, Small(S, k))}
<1>1. SUFFICES B = {}
  OBVIOUS
<1>2. SUFFICES ASSUME B # {} PROVE FALSE
  OBVIOUS
<1>3. PICK k \in B : \A j \in B : k <= j
  <2> B \in SUBSET Nat
    OBVIOUS
  <2> HIDE DEF B
  <2> QED
    BY <1>2, LeastNumber
<1>4. \A s \in SUBSET S : /\ IsFiniteSet(s) /\ Cardinality(s) \in Nat
                          /\ Cardinality(s) = 0 <=> s = {}
                          /\ s # {} => /\ s \ {First(s)} \in SUBSET S
                                       /\ Cardinality(s \ {First(s)}) = Cardinality(s) - 1
  BY FS_Subset, FS_CardinalityType, FS_EmptySet, FS_RemoveElement, FirstMember
<1>5. CASE k = 0
  <2> DEFINE g == [s \in Small(S, 0) |-> 0]
  <2>1. ASSUME NEW s \in Small(S, 0) PROVE s = {}
    <3>1. s \in SUBSET S /\ Cardinality(s) <= 0
      BY DEF Small
    <3>2. Cardinality(s) \in Nat /\ (Cardinality(s) = 0 <=> s = {})
      BY <1>4, <3>1
    <3> QED
      BY <3>1, <3>2
  <2>2. Adds(g, f, Small(S, 0))
    BY <2>1 DEF Adds
  <2> QED
    BY <1>5, <2>2
<1>6. CASE k # 0
  <2>1. k - 1 \in Nat /\ k - 1 \notin B
    BY <1>3, <1>6
  <2>2. PICK h : Adds(h, f, Small(S, k - 1))
    BY <2>1
  <2> DEFINE g == [s \in Small(S, k) |->
                      IF s = {} THEN 0 ELSE f[First(s)] + h[s \ {First(s)}]]
  <2>3. \A s \in Small(S, k - 1) :
           /\ s \in Small(S, k)
           /\ h[s] = IF s = {} THEN 0 ELSE f[First(s)] + h[s \ {First(s)}]
    <3>1. ASSUME NEW s \in Small(S, k - 1) PROVE s \in Small(S, k)
      <4>1. s \in SUBSET S /\ Cardinality(s) <= k - 1
        BY DEF Small
      <4>2. Cardinality(s) \in Nat
        BY <1>4, <4>1
      <4>3. Cardinality(s) <= k
        BY <2>1, <4>1, <4>2
      <4> QED
        BY <4>1, <4>3 DEF Small
    <3> QED
      BY <2>2, <3>1 DEF Adds
  <2>4. \A s \in Small(S, k - 1) : g[s] = h[s]
    BY <2>3
  <2>5. \A s \in Small(S, k) : s # {} => s \ {First(s)} \in Small(S, k - 1)
    BY <1>4 DEF Small
  <2>6. \A s \in Small(S, k) : s # {} => h[s \ {First(s)}] = g[s \ {First(s)}]
    BY <2>4, <2>5
  <2>7. g = [s \in Small(S, k) |->
                IF s = {} THEN 0 ELSE f[First(s)] + g[s \ {First(s)}]]
    BY <2>6
  <2>8. Adds(g, f, Small(S, k))
    BY <2>7 DEF Adds
  <2> QED
    BY <2>8
<1> QED
  BY <1>5, <1>6

\* The recursion has a solution on all subsets of a finite set.
LEMMA SumExists ==
    ASSUME NEW S, IsFiniteSet(S), NEW f
    PROVE  \E g : Adds(g, f, SUBSET S)
<1>1. Small(S, Cardinality(S)) = SUBSET S
  BY FS_Subset DEF Small
<1>2. Cardinality(S) \in Nat
  BY FS_CardinalityType
<1>3. \E g : Adds(g, f, Small(S, Cardinality(S)))
  BY <1>2, SumOfSmall
<1> QED
  BY <1>1, <1>3

\* SumFunctionOnSet is such a solution, at the whole set.
LEMMA SumIsAdded ==
    ASSUME NEW S, IsFiniteSet(S), NEW f
    PROVE  \E g : Adds(g, f, SUBSET S) /\ SumFunctionOnSet(f, S) = g[S]
<1> DEFINE it == CHOOSE g : g = [s \in SUBSET S |->
                    IF s = {} THEN 0
                    ELSE f[CHOOSE x \in s : TRUE] + g[s \ {CHOOSE x \in s : TRUE}]]
<1>1. SumFunctionOnSet(f, S) = it[S]
  BY DEF SumFunctionOnSet, FoldFunctionOnSet, MapThenFoldSet
<1>2. \E g : g = [s \in SUBSET S |->
                    IF s = {} THEN 0
                    ELSE f[CHOOSE x \in s : TRUE] + g[s \ {CHOOSE x \in s : TRUE}]]
  <2>1. PICK g : Adds(g, f, SUBSET S)
    BY SumExists
  <2>2. g = [s \in SUBSET S |->
               IF s = {} THEN 0
               ELSE f[CHOOSE x \in s : TRUE] + g[s \ {CHOOSE x \in s : TRUE}]]
    BY <2>1 DEF Adds, First
  <2> QED
    BY <2>2
<1>3. it = [s \in SUBSET S |->
                    IF s = {} THEN 0
                    ELSE f[CHOOSE x \in s : TRUE] + it[s \ {CHOOSE x \in s : TRUE}]]
  BY <1>2
<1> QED
  BY <1>1, <1>3 DEF Adds, First

\* What a solution assigns to a set depends on the values in that set only.
LEMMA SolutionsAgree ==
    ASSUME NEW S, IsFiniteSet(S), NEW T, NEW f, NEW e, NEW g, NEW h,
           Adds(g, f, SUBSET S), Adds(h, e, SUBSET T),
           NEW s \in SUBSET S, s \in SUBSET T, \A x \in s : f[x] = e[x]
    PROVE  g[s] = h[s]
<1> DEFINE B == {u \in SUBSET s : g[u] # h[u]}
<1>1. SUFFICES ASSUME B # {} PROVE FALSE
  OBVIOUS
<1>2. PICK u \in B : \A v \in B : v \subseteq u => v = u
  <2> B \in SUBSET (SUBSET S)
    OBVIOUS
  <2> HIDE DEF B
  <2> QED
    BY <1>1, SmallestSet
<1>3. /\ g[u] = IF u = {} THEN 0 ELSE f[First(u)] + g[u \ {First(u)}]
      /\ h[u] = IF u = {} THEN 0 ELSE e[First(u)] + h[u \ {First(u)}]
  BY DEF Adds
<1>4. CASE u = {}
  BY <1>3, <1>4
<1>5. CASE u # {}
  <2>1. First(u) \in u /\ f[First(u)] = e[First(u)]
    BY <1>5, FirstMember
  <2>2. u \ {First(u)} \in SUBSET s /\ u \ {First(u)} \notin B
    BY <1>2, <2>1
  <2>3. g[u \ {First(u)}] = h[u \ {First(u)}]
    BY <2>2
  <2> QED
    BY <1>3, <1>5, <2>1, <2>3
<1> QED
  BY <1>4, <1>5

-----------------------------------------------------------------------------
(* Sums. *)

\* Nothing adds up to 0.
LEMMA SumOfNone == \A f : SumFunctionOnSet(f, {}) = 0
<1> TAKE f
<1>1. PICK g : Adds(g, f, SUBSET {}) /\ SumFunctionOnSet(f, {}) = g[{}]
  BY SumIsAdded, FS_EmptySet
<1>2. {} \in SUBSET {}
  OBVIOUS
<1> QED
  BY <1>1, <1>2 DEF Adds

\* The sum takes the first member and adds up the rest.
LEMMA SumTakesFirst ==
    ASSUME NEW s, IsFiniteSet(s), s # {}, NEW f
    PROVE  SumFunctionOnSet(f, s)
               = f[First(s)] + SumFunctionOnSet(f, s \ {First(s)})
<1> DEFINE rest == s \ {First(s)}
<1>1. First(s) \in s /\ IsFiniteSet(rest) /\ rest \in SUBSET s
  BY FirstMember, FS_RemoveElement
<1>2. PICK g : Adds(g, f, SUBSET s) /\ SumFunctionOnSet(f, s) = g[s]
  BY SumIsAdded
<1>3. PICK h : Adds(h, f, SUBSET rest) /\ SumFunctionOnSet(f, rest) = h[rest]
  BY <1>1, SumIsAdded
<1>4. g[s] = f[First(s)] + g[rest]
  <2>1. s \in SUBSET s
    OBVIOUS
  <2> QED
    BY <1>2, <2>1 DEF Adds
<1>5. g[rest] = h[rest]
  <2> HIDE DEF rest
  <2>1. rest \in SUBSET rest
    OBVIOUS
  <2> QED
    BY <1>1, <1>2, <1>3, <2>1, SolutionsAgree
<1> QED
  BY <1>2, <1>3, <1>4, <1>5

\* Only the values in the set matter.
LEMMA SumSame ==
    ASSUME NEW s, IsFiniteSet(s), NEW f, NEW e, \A x \in s : f[x] = e[x]
    PROVE  SumFunctionOnSet(f, s) = SumFunctionOnSet(e, s)
<1>1. PICK g : Adds(g, f, SUBSET s) /\ SumFunctionOnSet(f, s) = g[s]
  BY SumIsAdded
<1>2. PICK h : Adds(h, e, SUBSET s) /\ SumFunctionOnSet(e, s) = h[s]
  BY SumIsAdded
<1>3. s \in SUBSET s
  OBVIOUS
<1>4. g[s] = h[s]
  BY <1>1, <1>2, <1>3, SolutionsAgree
<1> QED
  BY <1>1, <1>2, <1>4

\* Integers add up to an integer.
LEMMA SumType ==
    ASSUME NEW s, IsFiniteSet(s), NEW f, \A x \in s : f[x] \in Int
    PROVE  SumFunctionOnSet(f, s) \in Int
<1> DEFINE B == {u \in SUBSET s : SumFunctionOnSet(f, u) \notin Int}
<1>1. SUFFICES ASSUME B # {} PROVE FALSE
  OBVIOUS
<1>2. PICK u \in B : \A v \in B : v \subseteq u => v = u
  <2> B \in SUBSET (SUBSET s)
    OBVIOUS
  <2> HIDE DEF B
  <2> QED
    BY <1>1, SmallestSet
<1>3. CASE u = {}
  BY <1>3, SumOfNone
<1>4. CASE u # {}
  <2>1. First(u) \in u /\ IsFiniteSet(u)
    BY <1>4, FirstMember, FS_Subset
  <2>2. SumFunctionOnSet(f, u \ {First(u)}) \in Int
    BY <1>2, <2>1
  <2>3. SumFunctionOnSet(f, u) = f[First(u)] + SumFunctionOnSet(f, u \ {First(u)})
    BY <1>4, <2>1, SumTakesFirst
  <2>4. f[First(u)] \in Int
    BY <2>1
  <2> QED
    BY <2>2, <2>3, <2>4
<1> QED
  BY <1>3, <1>4

\* Any member may be taken out first.
LEMMA SumTakesAny ==
    ASSUME NEW s, IsFiniteSet(s), NEW f, \A x \in s : f[x] \in Int, NEW y \in s
    PROVE  SumFunctionOnSet(f, s) = f[y] + SumFunctionOnSet(f, s \ {y})
<1> DEFINE B == {u \in SUBSET s : \E x \in u :
                    SumFunctionOnSet(f, u) # f[x] + SumFunctionOnSet(f, u \ {x})}
<1>1. SUFFICES ASSUME B # {} PROVE FALSE
  <2>1. s \notin B
    OBVIOUS
  <2> QED
    BY <2>1
<1>2. PICK u \in B : \A v \in B : v \subseteq u => v = u
  <2> B \in SUBSET (SUBSET s)
    OBVIOUS
  <2> HIDE DEF B
  <2> QED
    BY <1>1, SmallestSet
<1>3. PICK x \in u : SumFunctionOnSet(f, u) # f[x] + SumFunctionOnSet(f, u \ {x})
  BY <1>2
<1>4. /\ IsFiniteSet(u) /\ u # {} /\ First(u) \in u
      /\ SumFunctionOnSet(f, u) = f[First(u)] + SumFunctionOnSet(f, u \ {First(u)})
  BY FirstMember, FS_Subset, SumTakesFirst
<1>5. First(u) # x
  BY <1>3, <1>4
<1> DEFINE c == First(u)
           rest == (u \ {c}) \ {x}
<1>6. SumFunctionOnSet(f, u \ {c}) = f[x] + SumFunctionOnSet(f, rest)
  <2>1. u \ {c} \in SUBSET s /\ u \ {c} \notin B /\ x \in u \ {c}
    BY <1>2, <1>4, <1>5
  <2> QED
    BY <2>1
<1>7. SumFunctionOnSet(f, u \ {x}) = f[c] + SumFunctionOnSet(f, rest)
  <2>1. u \ {x} \in SUBSET s /\ u \ {x} \notin B /\ c \in u \ {x}
    BY <1>2, <1>4, <1>5
  <2>2. SumFunctionOnSet(f, u \ {x}) = f[c] + SumFunctionOnSet(f, (u \ {x}) \ {c})
    BY <2>1
  <2>3. (u \ {x}) \ {c} = rest
    OBVIOUS
  <2> QED
    BY <2>2, <2>3
<1>8. SumFunctionOnSet(f, rest) \in Int /\ f[x] \in Int /\ f[c] \in Int
  <2>1. IsFiniteSet(rest) /\ rest \in SUBSET s
    BY <1>4, FS_Subset
  <2>2. SumFunctionOnSet(f, rest) \in Int
    <3> HIDE DEF rest
    <3> QED
      BY <2>1, SumType
  <2> QED
    BY <1>4, <2>2
<1> QED
  BY <1>3, <1>4, <1>6, <1>7, <1>8

\* Smaller values add up to less.
LEMMA SumMonotone ==
    ASSUME NEW s, IsFiniteSet(s), NEW f, NEW e,
           \A x \in s : f[x] \in Int /\ e[x] \in Int /\ f[x] <= e[x]
    PROVE  SumFunctionOnSet(f, s) <= SumFunctionOnSet(e, s)
<1> DEFINE B == {u \in SUBSET s : ~(SumFunctionOnSet(f, u) <= SumFunctionOnSet(e, u))}
<1>1. SUFFICES ASSUME B # {} PROVE FALSE
  OBVIOUS
<1>2. PICK u \in B : \A v \in B : v \subseteq u => v = u
  <2> B \in SUBSET (SUBSET s)
    OBVIOUS
  <2> HIDE DEF B
  <2> QED
    BY <1>1, SmallestSet
<1>3. CASE u = {}
  BY <1>3, SumOfNone
<1>4. CASE u # {}
  <2> DEFINE rest == u \ {First(u)}
  <2>1. First(u) \in u /\ IsFiniteSet(u) /\ IsFiniteSet(rest) /\ rest \in SUBSET s
    BY <1>4, FirstMember, FS_Subset
  <2>2. SumFunctionOnSet(f, rest) <= SumFunctionOnSet(e, rest)
    BY <1>2, <2>1
  <2>3. /\ SumFunctionOnSet(f, u) = f[First(u)] + SumFunctionOnSet(f, rest)
        /\ SumFunctionOnSet(e, u) = e[First(u)] + SumFunctionOnSet(e, rest)
    BY <1>4, <2>1, SumTakesFirst
  <2>4. SumFunctionOnSet(f, rest) \in Int /\ SumFunctionOnSet(e, rest) \in Int
    <3> HIDE DEF rest
    <3> QED
      BY <2>1, SumType
  <2>5. f[First(u)] \in Int /\ e[First(u)] \in Int /\ f[First(u)] <= e[First(u)]
    BY <2>1
  <2>6. SumFunctionOnSet(f, u) <= SumFunctionOnSet(e, u)
    BY <2>2, <2>3, <2>4, <2>5
  <2> QED
    BY <2>6
<1> QED
  BY <1>3, <1>4

\* The sum of sums.
LEMMA SumPlus ==
    ASSUME NEW s, IsFiniteSet(s), NEW f, NEW e, NEW h,
           \A x \in s : f[x] \in Int /\ e[x] \in Int /\ h[x] = f[x] + e[x]
    PROVE  SumFunctionOnSet(h, s) = SumFunctionOnSet(f, s) + SumFunctionOnSet(e, s)
<1> DEFINE B == {u \in SUBSET s : SumFunctionOnSet(h, u)
                                  # SumFunctionOnSet(f, u) + SumFunctionOnSet(e, u)}
<1>1. SUFFICES ASSUME B # {} PROVE FALSE
  OBVIOUS
<1>2. PICK u \in B : \A v \in B : v \subseteq u => v = u
  <2> B \in SUBSET (SUBSET s)
    OBVIOUS
  <2> HIDE DEF B
  <2> QED
    BY <1>1, SmallestSet
<1>3. CASE u = {}
  BY <1>3, SumOfNone
<1>4. CASE u # {}
  <2> DEFINE rest == u \ {First(u)}
  <2>1. First(u) \in u /\ IsFiniteSet(u) /\ IsFiniteSet(rest) /\ rest \in SUBSET s
    BY <1>4, FirstMember, FS_Subset
  <2>2. SumFunctionOnSet(h, rest)
            = SumFunctionOnSet(f, rest) + SumFunctionOnSet(e, rest)
    BY <1>2, <2>1
  <2>3. /\ SumFunctionOnSet(f, u) = f[First(u)] + SumFunctionOnSet(f, rest)
        /\ SumFunctionOnSet(e, u) = e[First(u)] + SumFunctionOnSet(e, rest)
        /\ SumFunctionOnSet(h, u) = h[First(u)] + SumFunctionOnSet(h, rest)
    BY <1>4, <2>1, SumTakesFirst
  <2>4. SumFunctionOnSet(f, rest) \in Int /\ SumFunctionOnSet(e, rest) \in Int
    <3> HIDE DEF rest
    <3> QED
      BY <2>1, SumType
  <2>5. /\ f[First(u)] \in Int /\ e[First(u)] \in Int
        /\ h[First(u)] = f[First(u)] + e[First(u)]
    BY <2>1
  <2>6. SumFunctionOnSet(h, u) = SumFunctionOnSet(f, u) + SumFunctionOnSet(e, u)
    BY <2>2, <2>3, <2>4, <2>5
  <2> QED
    BY <2>6
<1> QED
  BY <1>3, <1>4

\* A factor of all values is a factor of their sum.
LEMMA SumScaled ==
    ASSUME NEW s, IsFiniteSet(s), NEW f, NEW h, NEW k \in Int,
           \A x \in s : f[x] \in Int /\ h[x] = k * f[x]
    PROVE  SumFunctionOnSet(h, s) = k * SumFunctionOnSet(f, s)
<1> DEFINE B == {u \in SUBSET s : SumFunctionOnSet(h, u) # k * SumFunctionOnSet(f, u)}
<1>1. SUFFICES ASSUME B # {} PROVE FALSE
  OBVIOUS
<1>2. PICK u \in B : \A v \in B : v \subseteq u => v = u
  <2> B \in SUBSET (SUBSET s)
    OBVIOUS
  <2> HIDE DEF B
  <2> QED
    BY <1>1, SmallestSet
<1>3. CASE u = {}
  BY <1>3, SumOfNone
<1>4. CASE u # {}
  <2> DEFINE rest == u \ {First(u)}
  <2>1. First(u) \in u /\ IsFiniteSet(u) /\ IsFiniteSet(rest) /\ rest \in SUBSET s
    BY <1>4, FirstMember, FS_Subset
  <2>2. SumFunctionOnSet(h, rest) = k * SumFunctionOnSet(f, rest)
    BY <1>2, <2>1
  <2>3. /\ SumFunctionOnSet(f, u) = f[First(u)] + SumFunctionOnSet(f, rest)
        /\ SumFunctionOnSet(h, u) = h[First(u)] + SumFunctionOnSet(h, rest)
    BY <1>4, <2>1, SumTakesFirst
  <2>4. SumFunctionOnSet(f, rest) \in Int
    <3> HIDE DEF rest
    <3> QED
      BY <2>1, SumType
  <2>5. f[First(u)] \in Int /\ h[First(u)] = k * f[First(u)]
    BY <2>1
  <2>6. k * (f[First(u)] + SumFunctionOnSet(f, rest))
            = k * f[First(u)] + k * SumFunctionOnSet(f, rest)
    BY <2>4, <2>5, Distribute
  <2>7. SumFunctionOnSet(h, u) = k * SumFunctionOnSet(f, u)
    BY <2>2, <2>3, <2>5, <2>6
  <2> QED
    BY <2>7
<1> QED
  BY <1>3, <1>4

\* Ones for the members of a set and zeros for the others add up to its size.
LEMMA SumCounts ==
    ASSUME NEW s, IsFiniteSet(s), NEW T, NEW f,
           \A x \in s : f[x] = IF x \in T THEN 1 ELSE 0
    PROVE  SumFunctionOnSet(f, s) = Cardinality(s \cap T)
<1> DEFINE B == {u \in SUBSET s : SumFunctionOnSet(f, u) # Cardinality(u \cap T)}
<1>1. SUFFICES ASSUME B # {} PROVE FALSE
  OBVIOUS
<1>2. PICK u \in B : \A v \in B : v \subseteq u => v = u
  <2> B \in SUBSET (SUBSET s)
    OBVIOUS
  <2> HIDE DEF B
  <2> QED
    BY <1>1, SmallestSet
<1>3. CASE u = {}
  <2>1. u \cap T = {}
    BY <1>3
  <2> QED
    BY <1>3, <2>1, SumOfNone, FS_EmptySet
<1>4. CASE u # {}
  <2> DEFINE rest == u \ {First(u)}
  <2>1. First(u) \in u /\ IsFiniteSet(u) /\ IsFiniteSet(rest) /\ rest \in SUBSET s
    BY <1>4, FirstMember, FS_Subset
  <2>2. SumFunctionOnSet(f, rest) = Cardinality(rest \cap T)
    BY <1>2, <2>1
  <2>3. SumFunctionOnSet(f, u) = f[First(u)] + SumFunctionOnSet(f, rest)
    BY <1>4, <2>1, SumTakesFirst
  <2>4. IsFiniteSet(u \cap T) /\ rest \cap T = (u \cap T) \ {First(u)}
    BY <2>1, FS_Intersection
  <2>5. /\ Cardinality(u \cap T) \in Nat
        /\ Cardinality(rest \cap T) = IF First(u) \in u \cap T
                                      THEN Cardinality(u \cap T) - 1
                                      ELSE Cardinality(u \cap T)
    <3>1. Cardinality((u \cap T) \ {First(u)})
             = IF First(u) \in u \cap T THEN Cardinality(u \cap T) - 1
               ELSE Cardinality(u \cap T)
      BY <2>4, FS_RemoveElement
    <3> QED
      BY <2>4, <3>1, FS_CardinalityType
  <2>6. f[First(u)] = IF First(u) \in u \cap T THEN 1 ELSE 0
    BY <2>1
  <2>7. SumFunctionOnSet(f, u) = Cardinality(u \cap T)
    <3> HIDE DEF rest
    <3> QED
      BY <2>2, <2>3, <2>5, <2>6
  <2> QED
    BY <2>7
<1> QED
  BY <1>3, <1>4

\* The same value for all members.
LEMMA SumConstant ==
    ASSUME NEW s, IsFiniteSet(s), NEW k \in Int, NEW f, \A x \in s : f[x] = k
    PROVE  SumFunctionOnSet(f, s) = k * Cardinality(s)
<1> DEFINE one == [x \in s |-> 1]
<1>1. \A x \in s : one[x] = IF x \in s THEN 1 ELSE 0
  OBVIOUS
<1>2. SumFunctionOnSet(one, s) = Cardinality(s \cap s)
  <2> HIDE DEF one
  <2> QED
    BY <1>1, SumCounts
<1>3. \A x \in s : one[x] \in Int /\ f[x] = k * one[x]
  OBVIOUS
<1>4. SumFunctionOnSet(f, s) = k * SumFunctionOnSet(one, s)
  <2> HIDE DEF one
  <2> QED
    BY <1>3, SumScaled
<1>5. s \cap s = s
  OBVIOUS
<1> QED
  BY <1>2, <1>4, <1>5

\* Part of a sum of naturals is no more than the sum.
LEMMA SumOfPart ==
    ASSUME NEW s, IsFiniteSet(s), NEW t \in SUBSET s, NEW f,
           \A x \in s : f[x] \in Nat
    PROVE  SumFunctionOnSet(f, t) <= SumFunctionOnSet(f, s)
<1> DEFINE B == {u \in SUBSET s : t \subseteq u
                    /\ ~(SumFunctionOnSet(f, t) <= SumFunctionOnSet(f, u))}
<1>1. SUFFICES ASSUME B # {} PROVE FALSE
  OBVIOUS
<1>2. PICK u \in B : \A v \in B : v \subseteq u => v = u
  <2> B \in SUBSET (SUBSET s)
    OBVIOUS
  <2> HIDE DEF B
  <2> QED
    BY <1>1, SmallestSet
<1>3. IsFiniteSet(u) /\ IsFiniteSet(t) /\ SumFunctionOnSet(f, t) \in Int
  <2>1. IsFiniteSet(u) /\ IsFiniteSet(t) /\ \A x \in t : f[x] \in Int
    BY FS_Subset
  <2> QED
    BY <2>1, SumType
<1>4. CASE u = t
  BY <1>3, <1>4
<1>5. CASE u # t
  <2>1. PICK y \in u : y \notin t
    BY <1>5
  <2> DEFINE rest == u \ {y}
  <2>2. IsFiniteSet(rest) /\ rest \in SUBSET s /\ t \subseteq rest /\ rest # u
    BY <1>3, <2>1, FS_Subset
  <2>3. SumFunctionOnSet(f, t) <= SumFunctionOnSet(f, rest)
    BY <1>2, <2>2
  <2>4. SumFunctionOnSet(f, u) = f[y] + SumFunctionOnSet(f, rest)
    <3>1. \A x \in u : f[x] \in Int
      OBVIOUS
    <3> QED
      BY <1>3, <3>1, SumTakesAny
  <2>5. SumFunctionOnSet(f, rest) \in Int /\ f[y] \in Nat
    <3>1. \A x \in rest : f[x] \in Int
      BY <2>2
    <3>2. f[y] \in Nat
      OBVIOUS
    <3> HIDE DEF rest
    <3> QED
      BY <2>2, <3>1, <3>2, SumType
  <2>6. SumFunctionOnSet(f, t) <= SumFunctionOnSet(f, u)
    BY <1>3, <2>3, <2>4, <2>5
  <2> QED
    BY <2>6
<1> QED
  BY <1>4, <1>5
=============================================================================
