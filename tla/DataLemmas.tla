----------------------------- MODULE DataLemmas -----------------------------
(***************************************************************************)
(* Facts about the data the models are built from, for every size: the      *)
(* vectors a loop rebuilds (Vec) and the sums over finite sets.  Induction  *)
(* is by a least counterexample, as a set, from the well-foundedness of <   *)
(* and of strict inclusion.                                                 *)
(***************************************************************************)
EXTENDS Vec, SequencesExt, FiniteSetsExt, FiniteSetTheorems, SequenceTheorems, WellFoundedInduction, TLAPS

\* A non-empty set of natural numbers has a least element: induction over Nat.
LEMMA LeastNat ==
    ASSUME NEW T, T \subseteq Nat, T # {}
    PROVE  \E n \in T : \A m \in T : n <= m
<1>1. PICK n \in T : \A m \in T : <<m, n>> \notin OpToRel(<, Nat)
  BY NatLessThanWellFounded, WFMin
<1>2. \A m \in T : ~(m < n)
  BY <1>1 DEF OpToRel
<1>. QED
  BY <1>2

\* A set of numbers up to n has a largest.
LEMMA LargestUpTo ==
    ASSUME NEW n \in Nat, NEW T, T \subseteq 0..n, T # {}
    PROVE  \E m \in T : \A i \in T : i <= m
<1> DEFINE D == {n - i : i \in T}
<1>0. \A i \in T : i \in Int /\ 0 <= i /\ i <= n
  OBVIOUS
<1>1. D \subseteq Nat /\ D # {}
  <2>1. \A i \in T : n - i \in Nat
    BY <1>0
  <2>. QED BY <2>1
<1>2. \A i \in T : n - i \in D
  OBVIOUS
<1>3. \A d \in D : \E i \in T : d = n - i
  OBVIOUS
<1> HIDE DEF D
<1>4. PICK d \in D : \A x \in D : d <= x
  BY <1>1, LeastNat
<1>5. PICK m \in T : d = n - m
  BY <1>3
<1>6. ASSUME NEW i \in T PROVE i <= m
  <2>1. d <= n - i
    BY <1>2, <1>4
  <2>. QED BY <1>5, <2>1
<1>. QED BY <1>6

\* A non-empty set of subsets of a finite set has a smallest one: induction over subsets.
LEMMA LeastSet ==
    ASSUME NEW S, IsFiniteSet(S), NEW B, B \subseteq SUBSET S, B # {}
    PROVE  \E s \in B : \A t \in B : t \subseteq s => t = s
<1>1. B \subseteq FiniteSubsetsOf(S)
  BY FS_FiniteSubsetsOfFinite
<1>2. PICK s \in B : \A t \in B : <<t, s>> \notin StrictSubsetOrdering(S)
  BY <1>1, FS_StrictSubsetOrderingWellFounded, WFMin
<1>. QED
  BY <1>2 DEF StrictSubsetOrdering

-----------------------------------------------------------------------------
(* Sums over finite sets                                                   *)

\* The sum the totals of the contracts are compared with.
SumOver(f, S) == MapThenSumSet(LAMBDA x : f[x], S)

\* The element the fold takes first.
Chosen(s) == CHOOSE x \in s : TRUE

\* g is the recursive function behind the fold, on the sets of D.
IsSum(g, f, D) ==
    g = [s \in D |-> IF s = {} THEN 0 ELSE f[Chosen(s)] + g[s \ {Chosen(s)}]]

\* The fold of FiniteSetsExt is that function.
LEMMA SumOverDef ==
    ASSUME NEW f, NEW S
    PROVE SumOver(f, S) = (CHOOSE g : IsSum(g, f, SUBSET S))[S]
BY DEF SumOver, MapThenSumSet, MapThenFoldSet, IsSum, Chosen

\* The fold takes an element of the set.
LEMMA ChosenIn == ASSUME NEW s, s # {} PROVE Chosen(s) \in s
BY DEF Chosen

\* The recursion defines a function: built up by the size of the sets.
LEMMA SumExists ==
    ASSUME NEW f, NEW S, IsFiniteSet(S)
    PROVE  \E g : IsSum(g, f, SUBSET S)
<1> DEFINE Small(n) == {s \in SUBSET S : Cardinality(s) <= n}
           T == {n \in Nat : ~ \E g : IsSum(g, f, Small(n))}
<1>1. \A s \in SUBSET S : IsFiniteSet(s) /\ Cardinality(s) \in Nat
  BY FS_Subset, FS_CardinalityType
<1>2. \A s \in SUBSET S : s # {} => /\ s \ {Chosen(s)} \in SUBSET S
                                    /\ Cardinality(s \ {Chosen(s)}) = Cardinality(s) - 1
  BY <1>1, ChosenIn, FS_RemoveElement
<1>3. ASSUME NEW n \in Nat, n \in T, \A m \in T : n <= m PROVE FALSE
  <2>1. CASE n = 0
    <3>1. \A s \in Small(n) : s = {}
      BY <1>1, <2>1, FS_EmptySet
    <3>2. IsSum([s \in Small(n) |-> 0], f, Small(n))
      BY <3>1 DEF IsSum
    <3>. QED BY <1>3, <3>2
  <2>2. CASE n > 0
    <3>1. n - 1 \in Nat /\ n - 1 \notin T
      <4> HIDE DEF T
      <4>. QED BY <1>3, <2>2
    <3>2. PICK g : IsSum(g, f, Small(n - 1))
      BY <3>1
    <3>3. \A s \in Small(n) : s # {} => s \ {Chosen(s)} \in Small(n - 1)
      BY <1>1, <1>2
    <3>4. Small(n - 1) \subseteq Small(n)
      BY <1>1
    <3> DEFINE h == [s \in Small(n) |-> IF s = {} THEN 0 ELSE f[Chosen(s)] + g[s \ {Chosen(s)}]]
    <3> HIDE DEF Small
    <3>5. \A s \in Small(n - 1) : h[s] = g[s]
      BY <3>2, <3>4 DEF IsSum
    <3>6. \A s \in Small(n) : s # {} => h[s \ {Chosen(s)}] = g[s \ {Chosen(s)}]
      BY <3>3, <3>5
    <3>7. h = [s \in Small(n) |-> IF s = {} THEN 0 ELSE f[Chosen(s)] + h[s \ {Chosen(s)}]]
      BY <3>6
    <3>8. IsSum(h, f, Small(n))
      BY <3>7 DEF IsSum
    <3>. QED BY <1>3, <3>8
  <2>. QED BY <2>1, <2>2
<1>4. T = {}
  BY <1>3, LeastNat
<1>5. Small(Cardinality(S)) = SUBSET S
  BY <1>1, FS_Subset
<1>6. \E g : IsSum(g, f, Small(Cardinality(S)))
  BY <1>1, <1>4
<1>. QED
  BY <1>5, <1>6

\* One step of the recursion.
LEMMA SumUnroll ==
    ASSUME NEW g, NEW f, NEW S, IsSum(g, f, SUBSET S), NEW s \in SUBSET S
    PROVE  g[s] = IF s = {} THEN 0 ELSE f[Chosen(s)] + g[s \ {Chosen(s)}]
BY DEF IsSum

\* Sums of integers are integers.
LEMMA SumInInt ==
    ASSUME NEW g, NEW f, NEW S, IsFiniteSet(S), IsSum(g, f, SUBSET S), \A x \in S : f[x] \in Int
    PROVE  \A s \in SUBSET S : g[s] \in Int
<1> DEFINE B == {s \in SUBSET S : g[s] \notin Int}
<1>1. ASSUME NEW s \in B, \A t \in B : t \subseteq s => t = s PROVE FALSE
  <2>1. g[s] = IF s = {} THEN 0 ELSE f[Chosen(s)] + g[s \ {Chosen(s)}]
    BY SumUnroll
  <2>2. s # {}
    BY <2>1
  <2>3. Chosen(s) \in s
    BY <2>2, ChosenIn
  <2>4. g[s \ {Chosen(s)}] \in Int
    BY <1>1, <2>3
  <2>. QED BY <2>1, <2>2, <2>3, <2>4
<1>2. B = {}
  <2>1. B \subseteq SUBSET S
    OBVIOUS
  <2> HIDE DEF B
  <2>. QED BY <1>1, <2>1, LeastSet
<1>. QED BY <1>2

\* A sum depends on the summands only, not on the set the recursion was set up for.
LEMMA SumAgrees ==
    ASSUME NEW g, NEW f, NEW U, NEW h, NEW e, NEW S, IsFiniteSet(U), U \subseteq S,
           IsSum(g, f, SUBSET U), IsSum(h, e, SUBSET S), \A x \in U : f[x] = e[x]
    PROVE  \A s \in SUBSET U : g[s] = h[s]
<1> DEFINE B == {s \in SUBSET U : g[s] # h[s]}
<1>1. ASSUME NEW s \in B, \A t \in B : t \subseteq s => t = s PROVE FALSE
  <2>1. g[s] = IF s = {} THEN 0 ELSE f[Chosen(s)] + g[s \ {Chosen(s)}]
    <3>1. s \in SUBSET U
      OBVIOUS
    <3>. QED BY ONLY <3>1, IsSum(g, f, SUBSET U), SumUnroll
  <2>2. h[s] = IF s = {} THEN 0 ELSE e[Chosen(s)] + h[s \ {Chosen(s)}]
    <3>1. s \in SUBSET S
      OBVIOUS
    <3>. QED BY ONLY <3>1, IsSum(h, e, SUBSET S), SumUnroll
  <2>3. s # {}
    BY <2>1, <2>2
  <2>4. Chosen(s) \in s
    BY <2>3, ChosenIn
  <2>5. g[s \ {Chosen(s)}] = h[s \ {Chosen(s)}]
    BY <1>1, <2>4
  <2>6. f[Chosen(s)] = e[Chosen(s)]
    BY <2>4
  <2>. QED BY <2>1, <2>2, <2>3, <2>5, <2>6
<1>2. B = {}
  <2>1. B \subseteq SUBSET U
    OBVIOUS
  <2> HIDE DEF B
  <2>. QED BY <1>1, <2>1, LeastSet
<1>. QED BY <1>2

\* Any element may be taken first.
LEMMA SumAnyOrder ==
    ASSUME NEW g, NEW f, NEW S, IsFiniteSet(S), IsSum(g, f, SUBSET S), \A x \in S : f[x] \in Int
    PROVE  \A s \in SUBSET S : \A x \in s : g[s] = f[x] + g[s \ {x}]
<1> DEFINE B == {s \in SUBSET S : \E x \in s : g[s] # f[x] + g[s \ {x}]}
<1>1. ASSUME NEW s \in B, \A t \in B : t \subseteq s => t = s PROVE FALSE
  <2>1. PICK x \in s : g[s] # f[x] + g[s \ {x}]
    OBVIOUS
  <2>2. PICK y \in s : y = Chosen(s)
    BY ChosenIn
  <2>3. g[s] = f[y] + g[s \ {y}]
    BY <2>2, SumUnroll, ZenonT(40)
  <2>4. x # y
    BY <2>1, <2>3
  <2>5. g[s \ {y}] = f[x] + g[(s \ {y}) \ {x}]
    <3>1. s \ {y} \notin B /\ x \in s \ {y}
      BY <1>1, <2>4
    <3>. QED BY <3>1
  <2>6. g[s \ {x}] = f[y] + g[(s \ {x}) \ {y}]
    <3>1. s \ {x} \notin B /\ y \in s \ {x}
      BY <1>1, <2>4
    <3>. QED BY <3>1
  <2>7. (s \ {x}) \ {y} = (s \ {y}) \ {x}
    OBVIOUS
  <2>8. f[x] \in Int /\ f[y] \in Int /\ g[(s \ {y}) \ {x}] \in Int
    BY SumInInt
  <2>9. g[s] = f[y] + (f[x] + g[(s \ {y}) \ {x}])
    BY <2>3, <2>5
  <2>10. f[x] + g[s \ {x}] = f[x] + (f[y] + g[(s \ {y}) \ {x}])
    BY <2>6, <2>7
  <2> HIDE DEF B
  <2>. QED BY ONLY <2>1, <2>8, <2>9, <2>10
<1>2. B = {}
  <2>1. B \subseteq SUBSET S
    OBVIOUS
  <2> HIDE DEF B
  <2>. QED BY <1>1, <2>1, LeastSet
<1>. QED BY <1>2

\* SumOver through the recursive function.
LEMMA SumOverFacts ==
    ASSUME NEW f, NEW S, IsFiniteSet(S)
    PROVE  \E g : IsSum(g, f, SUBSET S) /\ SumOver(f, S) = g[S]
BY SumExists, SumOverDef

\* The sum over nothing.
LEMMA SumOfNone == ASSUME NEW f PROVE SumOver(f, {}) = 0
<1>1. PICK g : IsSum(g, f, SUBSET {}) /\ SumOver(f, {}) = g[{}]
  BY SumOverFacts, FS_EmptySet
<1>. QED BY <1>1, SumUnroll

\* The sum over a finite set of integers is an integer.
LEMMA SumType ==
    ASSUME NEW f, NEW S, IsFiniteSet(S), \A x \in S : f[x] \in Int
    PROVE  SumOver(f, S) \in Int
<1>1. PICK g : IsSum(g, f, SUBSET S) /\ SumOver(f, S) = g[S]
  BY SumOverFacts
<1>. QED BY <1>1, SumInInt

\* Equal summands, equal sums.
LEMMA SumSame ==
    ASSUME NEW f, NEW e, NEW S, IsFiniteSet(S), \A x \in S : f[x] = e[x]
    PROVE  SumOver(f, S) = SumOver(e, S)
<1>1. PICK g : IsSum(g, f, SUBSET S) /\ SumOver(f, S) = g[S]
  BY SumOverFacts
<1>2. PICK h : IsSum(h, e, SUBSET S) /\ SumOver(e, S) = h[S]
  BY SumOverFacts
<1>. QED BY <1>1, <1>2, SumAgrees

\* One element more or less.
LEMMA SumRemove ==
    ASSUME NEW f, NEW S, IsFiniteSet(S), NEW x \in S, \A y \in S : f[y] \in Int
    PROVE  SumOver(f, S) = f[x] + SumOver(f, S \ {x})
<1>1. PICK g : IsSum(g, f, SUBSET S) /\ SumOver(f, S) = g[S]
  BY SumOverFacts
<1>2. IsFiniteSet(S \ {x}) /\ S \ {x} \subseteq S
  BY FS_RemoveElement
<1>3. PICK h : IsSum(h, f, SUBSET (S \ {x})) /\ SumOver(f, S \ {x}) = h[S \ {x}]
  BY <1>2, SumOverFacts
<1>4. h[S \ {x}] = g[S \ {x}]
  BY <1>1, <1>2, <1>3, SumAgrees
<1>5. g[S] = f[x] + g[S \ {x}]
  BY <1>1, SumAnyOrder
<1>. QED BY <1>1, <1>3, <1>4, <1>5

-----------------------------------------------------------------------------
(* Vectors rebuilt by a loop                                               *)

\* r[i] is the vector after i rounds of the loop, for i up to n.
IsKept(r, s, K, n) ==
    r = [i \in 0..n |-> IF i = 0 THEN <<>>
                        ELSE IF s[i] \in K THEN Append(r[i - 1], s[i]) ELSE r[i - 1]]

\* Kept is the last round of the loop.
LEMMA KeptDef ==
    ASSUME NEW s, NEW K
    PROVE  Kept(s, K) = (CHOOSE r : IsKept(r, s, K, Len(s)))[Len(s)]
BY DEF Kept, IsKept

\* The recursion defines a function: built up round by round.
LEMMA KeptExists ==
    ASSUME NEW s, NEW K, NEW n \in Nat
    PROVE  \E r : IsKept(r, s, K, n)
<1> DEFINE T == {m \in Nat : ~ \E r : IsKept(r, s, K, m)}
<1>1. ASSUME NEW m \in Nat, m \in T, \A k \in T : m <= k PROVE FALSE
  <2>1. CASE m = 0
    <3>1. IsKept([i \in 0..m |-> <<>>], s, K, m)
      BY <2>1 DEF IsKept
    <3>. QED BY <1>1, <3>1
  <2>2. CASE m > 0
    <3>1. m - 1 \in Nat /\ m - 1 \notin T
      <4> HIDE DEF T
      <4>. QED BY <1>1, <2>2
    <3>2. PICK r : IsKept(r, s, K, m - 1)
      BY <3>1
    <3> DEFINE q == [i \in 0..m |-> IF i = 0 THEN <<>>
                        ELSE IF s[i] \in K THEN Append(r[i - 1], s[i]) ELSE r[i - 1]]
    <3>3. \A i \in 0..(m - 1) : q[i] = r[i]
      <4>1. \A i \in 0..(m - 1) : r[i] = IF i = 0 THEN <<>>
                        ELSE IF s[i] \in K THEN Append(r[i - 1], s[i]) ELSE r[i - 1]
        BY <3>2 DEF IsKept
      <4>2. \A i \in 0..(m - 1) : i \in 0..m
        OBVIOUS
      <4>. QED BY <4>1, <4>2
    <3>4. \A i \in 0..m : i # 0 => i - 1 \in 0..(m - 1)
      OBVIOUS
    <3>5. \A i \in 0..m : i # 0 => q[i - 1] = r[i - 1]
      <4> HIDE DEF q
      <4>. QED BY <3>3, <3>4
    <3>6. q = [i \in 0..m |-> IF i = 0 THEN <<>>
                        ELSE IF s[i] \in K THEN Append(q[i - 1], s[i]) ELSE q[i - 1]]
      BY <3>5
    <3>7. IsKept(q, s, K, m)
      BY <3>6 DEF IsKept
    <3>. QED BY <1>1, <3>7
  <2>. QED BY <2>1, <2>2
<1>2. T = {}
  BY <1>1, LeastNat
<1>. QED
  BY <1>2

\* h says where the elements of r come from: in their order, and just those of K
\* among the first n of s.
PlacedBy(h, r, s, K, n) ==
    /\ h \in [1..Len(r) -> 1..n]
    /\ \A j, k \in 1..Len(r) : j < k => h[j] < h[k]
    /\ \A j \in 1..Len(r) : r[j] = s[h[j]]
    /\ \A i \in 1..n : s[i] \in K <=> \E j \in 1..Len(r) : h[j] = i

\* One round of the loop.
LEMMA KeptRound ==
    ASSUME NEW S, NEW s \in Seq(S), NEW K, NEW m \in Nat, m # 0, m <= Len(s), NEW r \in Seq(S), NEW h,
           PlacedBy(h, r, s, K, m - 1),
           NEW q, q = IF s[m] \in K THEN Append(r, s[m]) ELSE r
    PROVE  q \in Seq(S) /\ \E g : PlacedBy(g, q, s, K, m)
<1>0. m \in 1..Len(s) /\ s[m] \in S /\ Len(r) \in Nat
  OBVIOUS
<1>1. CASE s[m] \notin K
  <2>1. PlacedBy(h, r, s, K, m)
    BY <1>0, <1>1, SMTT(30) DEF PlacedBy
  <2>. QED BY <1>1, <2>1
<1>2. CASE s[m] \in K
  <2> DEFINE n == Len(r) + 1
             g == [j \in 1..n |-> IF j = n THEN m ELSE h[j]]
  <2>1. q = Append(r, s[m]) /\ q \in Seq(S) /\ Len(q) = n /\ q[n] = s[m]
    BY <1>0, <1>2
  <2>2. \A j \in 1..Len(r) : q[j] = r[j]
    BY <1>0, <2>1
  <2>3. \A j \in 1..n : j = n \/ j \in 1..Len(r)
    BY <1>0
  <2>4. n \in 1..n /\ g[n] = m
    BY <1>0
  <2>a. \A j \in 1..Len(r) : j \in 1..n /\ j < n
    BY <1>0
  <2>b. \A j \in 1..Len(r) : h[j] \in 1..(m - 1)
    BY DEF PlacedBy
  <2>c. \A j \in 1..Len(r) : g[j] = h[j]
    BY <2>a
  <2>5. \A j \in 1..Len(r) : j \in 1..n /\ j < n /\ g[j] = h[j] /\ h[j] \in 1..(m - 1)
    BY <2>a, <2>b, <2>c
  <2>6. g \in [1..n -> 1..m]
    <3>1. 1..(m - 1) \subseteq 1..m /\ m \in 1..m
      OBVIOUS
    <3>2. \A j \in 1..Len(r) : h[j] \in 1..m
      BY <2>b, <3>1
    <3>3. \A j \in 1..n : (IF j = n THEN m ELSE h[j]) \in 1..m
      BY <2>3, <3>1, <3>2
    <3>. QED BY <3>3
  <2> HIDE DEF g
  <2>7. \A j, k \in 1..n : j < k => g[j] < g[k]
    <3> SUFFICES ASSUME NEW j \in 1..n, NEW k \in 1..n, j < k PROVE g[j] < g[k]
      OBVIOUS
    <3>1. j \in 1..Len(r)
      BY <2>3
    <3>2. CASE k = n
      <4>1. g[j] \in 1..(m - 1)
        BY <2>5, <3>1
      <4>. QED BY <4>1, <3>2, <2>4
    <3>3. CASE k \in 1..Len(r)
      <4>1. h[j] < h[k]
        BY <3>1, <3>3 DEF PlacedBy
      <4>. QED BY <4>1, <2>5, <3>1, <3>3
    <3>. QED BY <2>3, <3>2, <3>3
  <2>8. \A j \in 1..n : q[j] = s[g[j]]
    <3>1. \A j \in 1..Len(r) : q[j] = s[g[j]]
      BY <2>2, <2>5 DEF PlacedBy
    <3>. QED BY <2>1, <2>3, <2>4, <3>1
  <2>9. \A i \in 1..m : s[i] \in K <=> \E j \in 1..n : g[j] = i
    <3> SUFFICES ASSUME NEW i \in 1..m PROVE s[i] \in K <=> \E j \in 1..n : g[j] = i
      OBVIOUS
    <3>1. CASE i = m
      BY <1>2, <2>4, <3>1
    <3>2. CASE i \in 1..(m - 1)
      <4>1. s[i] \in K <=> \E j \in 1..Len(r) : h[j] = i
        BY <3>2 DEF PlacedBy
      <4>2. (\E j \in 1..Len(r) : h[j] = i) => \E j \in 1..n : g[j] = i
        BY <2>5
      <4>3. ASSUME NEW j \in 1..n, g[j] = i PROVE \E k \in 1..Len(r) : h[k] = i
        <5>1. j # n
          BY <3>2, <2>4, <4>3
        <5>. QED BY <2>3, <2>5, <4>3, <5>1
      <4>. QED BY <4>1, <4>2, <4>3
    <3>. QED BY <3>1, <3>2
  <2>10. PlacedBy(g, q, s, K, m)
    BY <2>1, <2>6, <2>7, <2>8, <2>9 DEF PlacedBy
  <2>. QED BY <2>1, <2>10
<1>. QED BY <1>1, <1>2

\* The places of a rebuilt vector are in order.
LEMMA PlacesInOrder ==
    ASSUME NEW S, NEW r \in Seq(S), NEW n \in Nat, NEW h, NEW s, NEW K, PlacedBy(h, r, s, K, n),
           NEW j \in 1..Len(r), NEW k \in 1..Len(r), h[j] < h[k]
    PROVE  j < k
<1>1. Len(r) \in Nat /\ j \in Int /\ k \in Int
  OBVIOUS
<1>2. h[j] \in Int /\ h[k] \in Int /\ (k < j => h[k] < h[j])
  BY DEF PlacedBy
<1>3. j = k => h[j] = h[k]
  OBVIOUS
<1>. QED BY ONLY <1>1, <1>2, <1>3, h[j] < h[k]

\* What the loop leaves: the elements of K, once for each place, in their order.
LEMMA KeptFrom ==
    ASSUME NEW S, NEW s \in Seq(S), NEW K
    PROVE  Kept(s, K) \in Seq(S) /\ \E h : PlacedBy(h, Kept(s, K), s, K, Len(s))
<1>1. PICK r : IsKept(r, s, K, Len(s)) /\ Kept(s, K) = r[Len(s)]
  <2>1. Len(s) \in Nat
    OBVIOUS
  <2>. QED BY <2>1, KeptExists, KeptDef
<1> DEFINE T == {m \in 0..Len(s) : ~(r[m] \in Seq(S) /\ \E h : PlacedBy(h, r[m], s, K, m))}
<1>2. ASSUME NEW m \in 0..Len(s), m \in T, \A k \in T : m <= k PROVE FALSE
  <2>1. r[m] = IF m = 0 THEN <<>> ELSE IF s[m] \in K THEN Append(r[m - 1], s[m]) ELSE r[m - 1]
    BY <1>1 DEF IsKept
  <2>2. CASE m = 0
    <3>1. r[m] = <<>>
      BY <2>1, <2>2
    <3>2. PlacedBy([j \in 1..0 |-> 0], <<>>, s, K, 0)
      <4>1. Len(<<>>) = 0 /\ 1..0 = {}
        OBVIOUS
      <4>. QED BY <4>1 DEF PlacedBy
    <3>3. <<>> \in Seq(S)
      OBVIOUS
    <3>4. r[m] \in Seq(S) /\ \E h : PlacedBy(h, r[m], s, K, m)
      <4> HIDE DEF T
      <4>. QED BY <2>2, <3>1, <3>2, <3>3
    <3>. QED BY <1>2, <3>4
  <2>3. CASE m # 0
    <3>1. m - 1 \in 0..Len(s) /\ m - 1 \notin T /\ m \in Nat /\ m <= Len(s)
      <4> HIDE DEF T
      <4>. QED BY <1>2, <2>3
    <3>2. r[m - 1] \in Seq(S)
      BY <3>1
    <3>3. PICK h : PlacedBy(h, r[m - 1], s, K, m - 1)
      BY <3>1
    <3>4. r[m] = IF s[m] \in K THEN Append(r[m - 1], s[m]) ELSE r[m - 1]
      BY <2>1, <2>3
    <3>5. r[m] \in Seq(S) /\ \E g : PlacedBy(g, r[m], s, K, m)
      <4>1. \A q : q = (IF s[m] \in K THEN Append(r[m - 1], s[m]) ELSE r[m - 1])
                      => q \in Seq(S) /\ \E g : PlacedBy(g, q, s, K, m)
        BY ONLY s \in Seq(S), <3>1, <3>2, <3>3, <2>3, KeptRound
      <4>. QED BY ONLY <3>4, <4>1
    <3>. QED BY <1>2, <3>5
  <2>. QED BY <2>2, <2>3
<1>3. T = {}
  <2>1. T \subseteq Nat /\ T \subseteq 0..Len(s)
    OBVIOUS
  <2> HIDE DEF T
  <2>. QED BY <1>2, <2>1, LeastNat
<1>4. Len(s) \in 0..Len(s)
  OBVIOUS
<1>. QED BY <1>1, <1>3, <1>4

\* Its elements are those of s that are in K.
LEMMA KeptElements ==
    ASSUME NEW S, NEW s \in Seq(S), NEW K, NEW x
    PROVE  (\E j \in 1..Len(Kept(s, K)) : Kept(s, K)[j] = x)
              <=> x \in K /\ \E i \in 1..Len(s) : s[i] = x
<1> DEFINE r == Kept(s, K)
<1>1. PICK h : PlacedBy(h, r, s, K, Len(s))
  BY KeptFrom
<1> HIDE DEF r
<1>2. ASSUME NEW j \in 1..Len(r), r[j] = x PROVE x \in K /\ \E i \in 1..Len(s) : s[i] = x
  <2>1. h[j] \in 1..Len(s) /\ r[j] = s[h[j]]
    BY <1>1 DEF PlacedBy
  <2>2. s[h[j]] \in K
    BY <1>1, <2>1 DEF PlacedBy
  <2>. QED BY <1>2, <2>1, <2>2
<1>3. ASSUME NEW i \in 1..Len(s), s[i] = x, x \in K PROVE \E j \in 1..Len(r) : r[j] = x
  <2>1. PICK j \in 1..Len(r) : h[j] = i
    BY <1>1, <1>3 DEF PlacedBy
  <2>2. r[j] = s[h[j]]
    BY <1>1 DEF PlacedBy
  <2>. QED BY <1>3, <2>1, <2>2
<1>4. (\E j \in 1..Len(r) : r[j] = x) <=> x \in K /\ \E i \in 1..Len(s) : s[i] = x
  BY <1>2, <1>3
<1>. QED BY <1>4 DEF r

\* There are n numbers from 1 to n.
LEMMA IntervalSize ==
    ASSUME NEW n \in Nat
    PROVE  IsFiniteSet(1..n) /\ Cardinality(1..n) = n
<1>1. 1 \in Int /\ n \in Int
  OBVIOUS
<1>2. /\ IsFiniteSet(1..n)
      /\ Cardinality(1..n) = IF 1 > n THEN 0 ELSE n - 1 + 1
  BY <1>1, FS_Interval
<1>. QED BY <1>2

\* It is at most as long, and holds nothing twice unless s does.
LEMMA KeptSize ==
    ASSUME NEW S, NEW s \in Seq(S), NEW K
    PROVE  /\ Kept(s, K) \in Seq(S)
           /\ Len(Kept(s, K)) <= Len(s)
           /\ IsInjective(s) => IsInjective(Kept(s, K))
<1> DEFINE r == Kept(s, K)
<1>1. r \in Seq(S)
  BY KeptFrom
<1>2. PICK h : PlacedBy(h, r, s, K, Len(s))
  BY KeptFrom
<1> HIDE DEF r
<1>3. Len(r) \in Nat /\ Len(s) \in Nat /\ DOMAIN r = 1..Len(r) /\ DOMAIN s = 1..Len(s)
  BY <1>1
<1>4. \A j, k \in 1..Len(r) : h[j] = h[k] => j = k
  <2> SUFFICES ASSUME NEW j \in 1..Len(r), NEW k \in 1..Len(r), h[j] = h[k], j # k PROVE FALSE
    OBVIOUS
  <2>1. h[j] \in Int /\ h[k] \in Int
    BY <1>2 DEF PlacedBy
  <2>2. j < k \/ k < j
    OBVIOUS
  <2>3. h[j] < h[k] \/ h[k] < h[j]
    BY <1>2, <2>2 DEF PlacedBy
  <2>. QED BY <2>1, <2>3
<1>5. Len(r) <= Len(s)
  <2>1. h \in Injection(1..Len(r), 1..Len(s))
    <3>1. h \in [1..Len(r) -> 1..Len(s)] /\ DOMAIN h = 1..Len(r)
      BY <1>2 DEF PlacedBy
    <3>2. IsInjective(h)
      BY <1>4, <3>1 DEF IsInjective
    <3>. QED BY <3>1, <3>2 DEF Injection
  <2>2. /\ Cardinality(1..Len(r)) = Len(r) /\ IsFiniteSet(1..Len(s))
        /\ Cardinality(1..Len(s)) = Len(s)
    BY <1>3, IntervalSize
  <2>. QED BY <2>1, <2>2, FS_Injection
<1>6. ASSUME IsInjective(s) PROVE IsInjective(r)
  <2>1. \A j \in 1..Len(r) : h[j] \in 1..Len(s) /\ r[j] = s[h[j]]
    BY <1>2 DEF PlacedBy
  <2>. QED BY <1>3, <1>4, <1>6, <2>1 DEF IsInjective
<1>7. r \in Seq(S) /\ Len(r) <= Len(s) /\ (IsInjective(s) => IsInjective(r))
  BY <1>1, <1>5, <1>6
<1>. QED BY <1>7 DEF r

\* Appending to the second of two vectors.
LEMMA ConcatAppend ==
    ASSUME NEW S, NEW x \in Seq(S), NEW y \in Seq(S), NEW e \in S
    PROVE  Append(x \o y, e) = x \o Append(y, e)
<1> DEFINE u == <<e>>
<1>1. u \in Seq(S) /\ x \o y \in Seq(S)
  OBVIOUS
<1>2. Append(y, e) = y \o u /\ Append(x \o y, e) = (x \o y) \o u
  BY <1>1, AppendIsConcat
<1> HIDE DEF u
<1>3. (x \o y) \o u = x \o (y \o u)
  BY <1>1, ConcatAssociative, SMTT(30)
<1>. QED
  BY <1>2, <1>3

\* The loop over two vectors one after the other.
LEMMA KeptConcat ==
    ASSUME NEW S, NEW a \in Seq(S), NEW z \in Seq(S), NEW K
    PROVE  Kept(a \o z, K) = Kept(a, K) \o Kept(z, K)
<1> DEFINE s == a \o z
<1>1. /\ s \in Seq(S) /\ Len(s) = Len(a) + Len(z) /\ Len(a) \in Nat /\ Len(z) \in Nat
      /\ \A i \in 1..Len(a) : s[i] = a[i]
      /\ \A i \in 1..Len(z) : s[Len(a) + i] = z[i]
  OBVIOUS
<1>2. PICK ra : IsKept(ra, a, K, Len(a)) /\ Kept(a, K) = ra[Len(a)]
  BY <1>1, KeptExists, KeptDef
<1>3. PICK rz : IsKept(rz, z, K, Len(z)) /\ Kept(z, K) = rz[Len(z)]
  BY <1>1, KeptExists, KeptDef
<1>4. PICK rs : IsKept(rs, s, K, Len(s)) /\ Kept(s, K) = rs[Len(s)]
  <2>1. Len(s) \in Nat
    BY <1>1
  <2> HIDE DEF s
  <2>. QED BY <2>1, KeptExists, KeptDef
<1> HIDE DEF s
<1>5. \A i \in 0..Len(a) : rs[i] = ra[i]
  <2> DEFINE T == {i \in 0..Len(a) : rs[i] # ra[i]}
  <2>1. ASSUME NEW i \in 0..Len(a), rs[i] # ra[i], \A j \in T : i <= j PROVE FALSE
    <3>1. i \in 0..Len(s)
      BY <1>1
    <3>2. ra[i] = IF i = 0 THEN <<>> ELSE IF a[i] \in K THEN Append(ra[i - 1], a[i]) ELSE ra[i - 1]
      BY <1>2 DEF IsKept
    <3>3. rs[i] = IF i = 0 THEN <<>> ELSE IF s[i] \in K THEN Append(rs[i - 1], s[i]) ELSE rs[i - 1]
      BY <1>4, <3>1 DEF IsKept
    <3>4. i # 0
      BY <2>1, <3>2, <3>3
    <3>5. s[i] = a[i]
      BY <1>1, <3>4
    <3>6. rs[i - 1] = ra[i - 1]
      <4>1. i - 1 \in 0..Len(a) /\ i - 1 \notin T
        <5> HIDE DEF T
        <5>. QED BY <1>1, <2>1, <3>4
      <4>. QED BY <4>1
    <3>. QED BY <2>1, <3>2, <3>3, <3>4, <3>5, <3>6
  <2>2. T = {}
    <3>1. T \subseteq Nat /\ T \subseteq 0..Len(a) /\ \A i \in T : rs[i] # ra[i]
      OBVIOUS
    <3> HIDE DEF T
    <3>. QED BY <2>1, <3>1, LeastNat
  <2>. QED BY <2>2
<1>6. \A j \in 0..Len(z) : rz[j] \in Seq(S)
  <2> DEFINE T == {j \in 0..Len(z) : rz[j] \notin Seq(S)}
  <2>1. ASSUME NEW i \in 0..Len(z), rz[i] \notin Seq(S), \A j \in T : i <= j PROVE FALSE
    <3>2. rz[i] = IF i = 0 THEN <<>> ELSE IF z[i] \in K THEN Append(rz[i - 1], z[i]) ELSE rz[i - 1]
      BY <1>3 DEF IsKept
    <3>4. i # 0
      BY <2>1, <3>2
    <3>5. z[i] \in S
      BY <1>1, <3>4
    <3>6. rz[i - 1] \in Seq(S)
      <4>1. i - 1 \in 0..Len(z) /\ i - 1 \notin T
        <5> HIDE DEF T
        <5>. QED BY <1>1, <2>1, <3>4
      <4>. QED BY <4>1
    <3>. QED BY <2>1, <3>2, <3>4, <3>5, <3>6
  <2>2. T = {}
    <3>1. T \subseteq Nat /\ T \subseteq 0..Len(z) /\ \A i \in T : rz[i] \notin Seq(S)
      OBVIOUS
    <3> HIDE DEF T
    <3>. QED BY <2>1, <3>1, LeastNat
  <2>. QED BY <2>2
<1>7. ra[Len(a)] \in Seq(S)
  BY <1>2, KeptSize
<1>8. \A j \in 0..Len(z) : rs[Len(a) + j] = ra[Len(a)] \o rz[j]
  <2> DEFINE T == {j \in 0..Len(z) : rs[Len(a) + j] # ra[Len(a)] \o rz[j]}
  <2>1. ASSUME NEW i \in 0..Len(z), rs[Len(a) + i] # ra[Len(a)] \o rz[i], \A j \in T : i <= j
        PROVE  FALSE
    <3>1. Len(a) + i \in 0..Len(s)
      BY <1>1
    <3>2. rz[i] = IF i = 0 THEN <<>> ELSE IF z[i] \in K THEN Append(rz[i - 1], z[i]) ELSE rz[i - 1]
      BY <1>3 DEF IsKept
    <3>3. rs[Len(a) + i] = IF Len(a) + i = 0 THEN <<>>
                           ELSE IF s[Len(a) + i] \in K THEN Append(rs[Len(a) + i - 1], s[Len(a) + i])
                                ELSE rs[Len(a) + i - 1]
      <4>1. \A m \in 0..Len(s) : rs[m] = IF m = 0 THEN <<>>
                ELSE IF s[m] \in K THEN Append(rs[m - 1], s[m]) ELSE rs[m - 1]
        BY <1>4 DEF IsKept
      <4> HIDE DEF T
      <4>. QED BY ONLY <3>1, <4>1
    <3>4. CASE i = 0
      <4>1. rs[Len(a)] = ra[Len(a)]
        BY <1>1, <1>5
      <4>2. Len(a) + i = Len(a) /\ rz[i] = <<>>
        BY <1>1, <3>2, <3>4
      <4>3. ra[Len(a)] \o <<>> = ra[Len(a)]
        BY <1>7, ConcatEmptySeq
      <4>. QED BY <2>1, <4>1, <4>2, <4>3
    <3>5. CASE i # 0
      <4>1. s[Len(a) + i] = z[i] /\ z[i] \in S
        BY <1>1, <3>5
      <4>2. rs[Len(a) + (i - 1)] = ra[Len(a)] \o rz[i - 1] /\ i - 1 \in 0..Len(z)
        <5>1. i - 1 \in 0..Len(z) /\ i - 1 \notin T
          <6> HIDE DEF T
          <6>. QED BY <1>1, <2>1, <3>5
        <5>. QED BY <5>1
      <4>3. Len(a) + i # 0 /\ Len(a) + (i - 1) = Len(a) + i - 1
        BY <1>1, <3>5
      <4>4. rz[i - 1] \in Seq(S)
        BY <1>6, <4>2
      <4>5. Append(ra[Len(a)] \o rz[i - 1], z[i]) = ra[Len(a)] \o Append(rz[i - 1], z[i])
        <5>1. PICK x \in Seq(S) : x = ra[Len(a)]
          BY <1>7
        <5>2. PICK y \in Seq(S) : y = rz[i - 1]
          BY <4>4
        <5>3. PICK e \in S : e = z[i]
          BY <4>1
        <5>4. Append(x \o y, e) = x \o Append(y, e)
          BY ONLY x \in Seq(S), y \in Seq(S), e \in S, ConcatAppend, SMTT(30)
        <5>. QED BY ONLY <5>1, <5>2, <5>3, <5>4
      <4>6. rs[Len(a) + i] = IF z[i] \in K THEN Append(ra[Len(a)] \o rz[i - 1], z[i])
                             ELSE ra[Len(a)] \o rz[i - 1]
        BY <3>3, <4>1, <4>2, <4>3
      <4>. QED BY <2>1, <3>2, <3>5, <4>5, <4>6
    <3>. QED BY <3>4, <3>5
  <2>2. T = {}
    <3>1. T \subseteq 0..Len(z) /\ \A i \in T : rs[Len(a) + i] # ra[Len(a)] \o rz[i]
      BY Zenon
    <3>2. 0..Len(z) \subseteq Nat
      OBVIOUS
    <3> HIDE DEF T
    <3>3. T \subseteq Nat
      BY <3>1, <3>2
    <3>4. ASSUME NEW i \in T, \A j \in T : i <= j PROVE FALSE
      BY <2>1, <3>1, <3>4, Zenon
    <3>. QED BY <3>3, <3>4, LeastNat
  <2>. QED BY <2>2
<1>9. rs[Len(s)] = ra[Len(a)] \o rz[Len(z)]
  <2>1. Len(z) \in 0..Len(z) /\ Len(s) = Len(a) + Len(z)
    BY <1>1
  <2>. QED BY <1>8, <2>1, Zenon
<1>. QED
  BY <1>2, <1>3, <1>4, <1>9 DEF s

\* f is c on T, and 0 elsewhere.
ConstantOn(f, S, T, c) == \A x \in S : f[x] = IF x \in T THEN c ELSE 0

\* The sum of one number for each element of a part of the set.
LEMMA SumOfConstant ==
    ASSUME NEW f, NEW S, IsFiniteSet(S), NEW T, NEW c \in Int, ConstantOn(f, S, T, c)
    PROVE  SumOver(f, S) = Cardinality(S \cap T) * c
<1>1. PICK g : IsSum(g, f, SUBSET S) /\ SumOver(f, S) = g[S]
  BY SumOverFacts
<1> DEFINE B == {s \in SUBSET S : g[s] # Cardinality(s \cap T) * c}
<1>2. ASSUME NEW s \in B, \A t \in B : t \subseteq s => t = s PROVE FALSE
  <2>0. s \in SUBSET S /\ g[s] # Cardinality(s \cap T) * c
    OBVIOUS
  <2>1. g[s] = IF s = {} THEN 0 ELSE f[Chosen(s)] + g[s \ {Chosen(s)}]
    BY ONLY <1>1, <2>0, SumUnroll, ZenonT(40)
  <2>2. s # {}
    <3>1. ASSUME s = {} PROVE FALSE
      <4>1. s \cap T = {}
        BY <3>1
      <4>2. Cardinality(s \cap T) = 0
        BY <4>1, FS_EmptySet
      <4>. QED BY <2>0, <2>1, <3>1, <4>2
    <3>. QED BY <3>1
  <2>3. PICK x \in s : x = Chosen(s)
    BY <2>2, ChosenIn
  <2>4. PICK r : r = s \ {x}
    OBVIOUS
  <2>5. r \in SUBSET S /\ r # s /\ r \subseteq s
    BY <2>0, <2>4
  <2>6. g[r] = Cardinality(r \cap T) * c
    BY <1>2, <2>5
  <2>7. g[s] = f[x] + g[r]
    BY <2>1, <2>2, <2>3, <2>4
  <2>8. IsFiniteSet(s \cap T)
    BY <2>0, FS_Subset
  <2>9. f[x] = IF x \in T THEN c ELSE 0
    BY <2>0 DEF ConstantOn
  <2> HIDE DEF B
  <2>10. CASE x \in T
    <3>1. r \cap T = (s \cap T) \ {x} /\ x \in s \cap T
      BY <2>4, <2>10
    <3>2. PICK k : k = Cardinality(r \cap T)
      OBVIOUS
    <3>3. k = Cardinality(s \cap T) - 1 /\ Cardinality(s \cap T) \in Nat
      BY <2>8, <3>1, <3>2, FS_RemoveElement, FS_CardinalityType
    <3>4. k \in Int /\ Cardinality(s \cap T) = k + 1
      BY <3>3
    <3>5. (k + 1) * c = c + k * c
      BY ONLY c \in Int, <3>4
    <3>6. g[s] = c + k * c
      BY <2>6, <2>7, <2>9, <2>10, <3>2
    <3>7. Cardinality(s \cap T) * c = (k + 1) * c
      BY <3>4
    <3>. QED BY ONLY <2>0, <3>5, <3>6, <3>7
  <2>11. CASE x \notin T
    <3>1. r \cap T = s \cap T
      BY <2>4, <2>11
    <3>2. Cardinality(s \cap T) \in Nat
      BY <2>8, FS_CardinalityType
    <3>3. PICK k \in Nat : k = Cardinality(s \cap T)
      BY <3>2
    <3>4. k * c \in Int
      OBVIOUS
    <3>5. g[s] = 0 + k * c
      BY <2>6, <2>7, <2>9, <2>11, <3>1, <3>3
    <3>. QED BY <2>0, <3>3, <3>4, <3>5
  <2>. QED BY <2>10, <2>11
<1>3. B = {}
  <2>1. B \subseteq SUBSET S
    OBVIOUS
  <2> HIDE DEF B
  <2>. QED BY <1>2, <2>1, LeastSet
<1>4. S \in SUBSET S
  OBVIOUS
<1>. QED BY <1>1, <1>3, <1>4

\* The image of a finite set is finite.
LEMMA ImageFinite ==
    ASSUME NEW S, IsFiniteSet(S), NEW h
    PROVE  IsFiniteSet({h[x] : x \in S})
<1>1. PICK T, g : T = {h[x] : x \in S} /\ g = [x \in S |-> h[x]]
  OBVIOUS
<1>2. g \in Surjection(S, T)
  BY <1>1 DEF Surjection
<1>. QED BY <1>1, <1>2, FS_Surjection

\* A sum does not change when its terms are renamed one to one.
LEMMA SumReindex ==
    ASSUME NEW f, NEW S, IsFiniteSet(S), NEW e, NEW h, \A x \in S : f[x] \in Int /\ e[h[x]] = f[x],
           \A x, y \in S : x # y => h[x] # h[y]
    PROVE  SumOver(f, S) = SumOver(e, {h[x] : x \in S})
<1> DEFINE Img(s) == {h[x] : x \in s}
           B == {s \in SUBSET S : SumOver(f, s) # SumOver(e, Img(s))}
<1>1. ASSUME NEW s \in B, \A t \in B : t \subseteq s => t = s PROVE FALSE
  <2>1. s \subseteq S /\ SumOver(f, s) # SumOver(e, Img(s)) /\ IsFiniteSet(s)
    BY FS_Subset
  <2>2. s # {}
    <3>1. ASSUME s = {} PROVE FALSE
      <4>1. Img(s) = {}
        BY <3>1
      <4>. QED BY <2>1, <3>1, <4>1, SumOfNone
    <3>. QED BY <3>1
  <2>3. PICK x \in s : TRUE
    BY <2>2
  <2>4. PICK r, ir, is : r = s \ {x} /\ ir = Img(r) /\ is = Img(s)
    OBVIOUS
  <2>5. SumOver(f, r) = SumOver(e, ir)
    <3>1. r \subseteq s /\ r # s /\ r \in SUBSET S
      BY <2>1, <2>4
    <3>. QED BY <1>1, <2>4, <3>1
  <2>6. SumOver(f, s) = f[x] + SumOver(f, r)
    BY <2>1, <2>4, SumRemove
  <2>7. IsFiniteSet(is)
    BY <2>1, <2>4, ImageFinite
  <2>8. h[x] \in is /\ ir = is \ {h[x]}
    BY <2>1, <2>4
  <2>9. \A y \in is : e[y] \in Int
    BY <2>1, <2>4
  <2>10. SumOver(e, is) = e[h[x]] + SumOver(e, ir)
    BY <2>7, <2>8, <2>9, SumRemove
  <2>. QED BY <2>1, <2>4, <2>5, <2>6, <2>10
<1>2. B \subseteq SUBSET S
  OBVIOUS
<1>3. S \in B => FALSE
  <2>1. PICK C : C = B
    OBVIOUS
  <2> HIDE DEF B
  <2>. QED BY <1>1, <1>2, <2>1, LeastSet
<1>. QED BY <1>3

\* Numbers that increase from one to the next are all different.
LEMMA IncreasingDiffer ==
    ASSUME NEW n \in Nat, NEW f, \A k \in 1..n : f[k] \in Int, \A k \in 1..n - 1 : f[k] < f[k + 1]
    PROVE  \A j, k \in 1..n : j # k => f[j] # f[k]
<1> DEFINE T == {d \in Nat : d # 0 /\ \E k \in 1..n : k + d <= n /\ ~(f[k] < f[k + d])}
<1>1. ASSUME NEW d \in T, \A c \in T : d <= c PROVE FALSE
  <2>1. PICK k \in 1..n : d # 0 /\ k + d <= n /\ ~(f[k] < f[k + d])
    OBVIOUS
  <2>2. PICK c : c = d - 1
    OBVIOUS
  <2>3. c \in Nat /\ d = c + 1
    BY <2>1, <2>2
  <2>4. PICK q : q = k + c
    OBVIOUS
  <2>5. q \in 1..n - 1 /\ q \in 1..n /\ k + d = q + 1 /\ q + 1 \in 1..n
    BY <2>1, <2>3, <2>4
  <2>6. f[q] < f[k + d]
    BY <2>5
  <2>7. c # 0 => f[k] < f[q]
    <3>1. ~(d <= c)
      BY <2>3
    <3>2. c \notin T
      BY <1>1, <3>1
    <3>. QED BY <2>1, <2>3, <2>4, <2>5, <3>2
  <2>8. c = 0 => q = k
    BY <2>4
  <2>. QED BY <2>1, <2>3, <2>5, <2>6, <2>7, <2>8
<1>2. T = {}
  <2>1. T \subseteq Nat
    OBVIOUS
  <2>2. T # {} => \E d \in T : \A c \in T : d <= c
    BY <2>1, LeastNat
  <2>. QED BY <1>1, <2>2
<1>3. ASSUME NEW j \in 1..n, NEW k \in 1..n, j < k PROVE f[j] < f[k]
  <2>1. k - j \in Nat /\ k - j # 0 /\ j + (k - j) = k
    BY <1>3
  <2>2. k - j \notin T
    BY <1>2
  <2>3. j + (k - j) <= n
    BY <2>1
  <2>4. f[j] < f[j + (k - j)]
    BY <2>1, <2>2, <2>3
  <2>. QED BY <2>1, <2>4
<1>4. ASSUME NEW j \in 1..n, NEW k \in 1..n, j # k PROVE f[j] # f[k]
  <2>1. CASE j < k
    BY <1>3, <2>1
  <2>2. CASE k < j
    <3>1. f[k] < f[j] /\ f[k] \in Int /\ f[j] \in Int
      BY <1>3, <2>2
    <3>. QED BY <3>1
  <2>. QED BY <1>4, <2>1, <2>2
<1>. QED BY <1>4

-----------------------------------------------------------------------------
(* Sequences                                                               *)

\* The last of a sequence and those before it.
LEMMA LastFront ==
    ASSUME NEW S, NEW s \in Seq(S), s # <<>>, NEW n, n = Len(s)
    PROVE  /\ n \in Nat \ {0} /\ Last(s) = s[n] /\ s[n] \in S /\ Front(s) \in Seq(S) /\ Len(Front(s)) = n - 1
           /\ \A i \in 1..(n - 1) : Front(s)[i] = s[i]
<1>1. n \in Nat \ {0} /\ s[n] \in S
  BY EmptySeq
<1>2. PICK m : m = n - 1
  OBVIOUS
<1>3. Front(s) = SubSeq(s, 1, m) /\ m \in Nat /\ m <= n /\ m \in 0..n
  BY <1>1, <1>2 DEF Front
<1>4. Front(s) \in Seq(S) /\ Len(Front(s)) = m /\ \A i \in 1..m : Front(s)[i] = s[i]
  BY <1>1, <1>3, SubSeqProperties
<1>. QED BY <1>1, <1>2, <1>4 DEF Last

\* Sequences with the same elements.
LEMMA SameSeq ==
    ASSUME NEW S, NEW s \in Seq(S), NEW T, NEW t \in Seq(T), Len(s) = Len(t), \A i \in 1..Len(s) : s[i] = t[i]
    PROVE  s = t
<1>1. PICK U : U = S \cup T
  OBVIOUS
<1>2. s \in Seq(U) /\ t \in Seq(U)
  BY <1>1
<1>. QED BY <1>2, SeqEqual

\* An element more is a round more.
LEMMA KeptAppend ==
    ASSUME NEW S, NEW s \in Seq(S), NEW x \in S, NEW K
    PROVE  Kept(Append(s, x), K) = IF x \in K THEN Append(Kept(s, K), x) ELSE Kept(s, K)
<1>1. PICK z : z = <<x>>
  OBVIOUS
<1>2. z \in Seq(S) /\ Len(z) = 1 /\ z[1] = x
  BY <1>1
<1>3. Kept(z, K) = IF x \in K THEN <<x>> ELSE <<>>
  <2>1. PICK r : IsKept(r, z, K, 1) /\ Kept(z, K) = r[1]
    BY <1>2, KeptExists, KeptDef
  <2>2. r[0] = <<>> /\ r[1] = IF z[1] \in K THEN Append(r[0], z[1]) ELSE r[0]
    <3>1. \A i \in 0..1 : r[i] = IF i = 0 THEN <<>> ELSE IF z[i] \in K THEN Append(r[i - 1], z[i]) ELSE r[i - 1]
      BY <2>1 DEF IsKept
    <3>2. 0 \in 0..1 /\ 1 \in 0..1 /\ 1 - 1 = 0 /\ 1 # 0
      OBVIOUS
    <3>3. r[0] = <<>>
      BY <3>1, <3>2
    <3>4. r[1] = IF z[1] \in K THEN Append(r[1 - 1], z[1]) ELSE r[1 - 1]
      BY <3>1, <3>2
    <3>. QED BY <3>2, <3>3, <3>4
  <2>. QED BY <1>2, <2>1, <2>2
<1>4. Append(s, x) = s \o z
  BY <1>1, AppendIsConcat
<1>5. Kept(s \o z, K) = Kept(s, K) \o Kept(z, K)
  BY <1>2, KeptConcat
<1>6. Kept(s, K) \in Seq(S)
  BY KeptFrom
<1>7. CASE x \in K
  <2>1. Append(Kept(s, K), x) = Kept(s, K) \o z
    BY <1>1, <1>6, AppendIsConcat
  <2>. QED BY <1>1, <1>3, <1>4, <1>5, <1>7, <2>1
<1>8. CASE x \notin K
  <2>1. Kept(s, K) \o <<>> = Kept(s, K)
    BY <1>6, ConcatEmptySeq
  <2>. QED BY <1>3, <1>4, <1>5, <1>8, <2>1
<1>. QED BY <1>7, <1>8

\* The loop asks only whether elements are in the set.
LEMMA KeptSame ==
    ASSUME NEW S, NEW s \in Seq(S), NEW K, NEW L, \A i \in 1..Len(s) : s[i] \in K <=> s[i] \in L
    PROVE  Kept(s, K) = Kept(s, L)
<1>1. PICK n : n = Len(s) /\ n \in Nat
  OBVIOUS
<1>2. PICK a : IsKept(a, s, K, n) /\ Kept(s, K) = a[n]
  BY <1>1, KeptExists, KeptDef
<1>3. PICK b : IsKept(b, s, L, n) /\ Kept(s, L) = b[n]
  BY <1>1, KeptExists, KeptDef
<1> DEFINE T == {i \in 0..n : a[i] # b[i]}
<1>4. ASSUME NEW i \in 0..n, a[i] # b[i], \A j \in T : i <= j PROVE FALSE
  <2>1. a[i] = IF i = 0 THEN <<>> ELSE IF s[i] \in K THEN Append(a[i - 1], s[i]) ELSE a[i - 1]
    BY <1>2 DEF IsKept
  <2>2. b[i] = IF i = 0 THEN <<>> ELSE IF s[i] \in L THEN Append(b[i - 1], s[i]) ELSE b[i - 1]
    BY <1>3 DEF IsKept
  <2>3. i # 0
    BY <1>4, <2>1, <2>2
  <2>4. i - 1 \in 0..n /\ i \in 1..n /\ ~(i <= i - 1)
    BY <1>1, <2>3
  <2>5. a[i - 1] = b[i - 1]
    BY <1>4, <2>4
  <2>. QED BY <1>1, <1>4, <2>1, <2>2, <2>3, <2>4, <2>5
<1>5. T \subseteq Nat
  OBVIOUS
<1>6. T = {}
  <2> SUFFICES ASSUME T # {} PROVE FALSE
    OBVIOUS
  <2>1. PICK i \in T : \A j \in T : i <= j
    <3> HIDE DEF T
    <3>. QED BY <1>5, LeastNat
  <2>. QED BY <1>4, <2>1
<1>7. n \in 0..n
  BY <1>1
<1>. QED BY <1>2, <1>3, <1>6, <1>7

\* Nothing is left when no element is in the set.
LEMMA KeptNone ==
    ASSUME NEW S, NEW s \in Seq(S), NEW K, \A i \in 1..Len(s) : s[i] \notin K
    PROVE  Kept(s, K) = <<>>
<1>1. PICK r : r = Kept(s, K) /\ r \in Seq(S)
  BY KeptFrom
<1>2. ASSUME NEW j \in 1..Len(r) PROVE FALSE
  <2>1. PICK x : x = r[j]
    OBVIOUS
  <2>2. (\E l \in 1..Len(Kept(s, K)) : Kept(s, K)[l] = x)
           <=> x \in K /\ \E i \in 1..Len(s) : s[i] = x
    BY ONLY s \in Seq(S), KeptElements
  <2>3. \E l \in 1..Len(Kept(s, K)) : Kept(s, K)[l] = x
    BY <1>1, <2>1
  <2>. QED BY <2>2, <2>3
<1>3. Len(r) = 0
  BY <1>1, <1>2
<1>. QED BY <1>1, <1>3
=============================================================================
