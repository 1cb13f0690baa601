---------------------------- MODULE ManifestProofs ----------------------------
(***************************************************************************)
(* Facts about the operators of Manifest and Cost, for manifests of any    *)
(* size: what a sum over a finite set is, what the sort of RunAll returns, *)
(* and how the figures of the estimate are related.                        *)
(* Induction over data is an argument by a smallest counterexample: a      *)
(* family of subsets of a finite set has a minimal member.                 *)
(***************************************************************************)
EXTENDS Cost, FiniteSetTheorems, TLAPS

LEMMA MinimalMember ==
  ASSUME NEW S, IsFiniteSet(S), NEW T \in SUBSET (SUBSET S), T # {}
  PROVE  \E x \in T : \A y \in T : y \subseteq x => y = x
<1>1. IsWellFoundedOn(StrictSubsetOrdering(S), SUBSET S)
  BY FS_StrictSubsetOrderingWellFounded, FS_FiniteSubsetsOfFinite
<1>2. \E x \in T : \A y \in T : ~ (<<y, x>> \in StrictSubsetOrdering(S))
  BY <1>1, WFMin
<1> QED
  BY <1>2 DEF StrictSubsetOrdering

-------------------------------------------------------------------------------
(* Sums *)

Some(s) == CHOOSE x \in s : TRUE
Sum(f, S) == SumFunctionOnSet(f, S)

(* g adds up f over the subsets of S, one element at a time. *)
AddsUp(g, f, S) ==
  g = [s \in SUBSET S |-> IF s = {} THEN 0 ELSE f[Some(s)] + g[s \ {Some(s)}]]

LEMMA SumIsChosen ==
  ASSUME NEW f, NEW S
  PROVE  Sum(f, S) = (CHOOSE g : AddsUp(g, f, S))[S]
BY DEF Sum, SumFunctionOnSet, FoldFunctionOnSet, MapThenFoldSet, AddsUp, Some

LEMMA SomeIn ==
  ASSUME NEW s, s # {}
  PROVE  Some(s) \in s
BY DEF Some

LEMMA AddsUpAt ==
  ASSUME NEW f, NEW S, NEW g, AddsUp(g, f, S), NEW s \in SUBSET S
  PROVE  g[s] = IF s = {} THEN 0 ELSE f[Some(s)] + g[s \ {Some(s)}]
<1> DEFINE G == [t \in SUBSET S |-> IF t = {} THEN 0 ELSE f[Some(t)] + g[t \ {Some(t)}]]
<1>1. g = G
  BY DEF AddsUp
<1>2. G[s] = IF s = {} THEN 0 ELSE f[Some(s)] + g[s \ {Some(s)}]
  OBVIOUS
<1> QED
  BY <1>1, <1>2

(* There is only one such g, whichever set it was made for. *)
LEMMA AddsUpOnce ==
  ASSUME NEW f, NEW S, IsFiniteSet(S), NEW g, AddsUp(g, f, S), NEW h, AddsUp(h, f, S)
  PROVE  \A s \in SUBSET S : g[s] = h[s]
<1> DEFINE T == {s \in SUBSET S : g[s] # h[s]}
<1> SUFFICES ASSUME T # {} PROVE FALSE
  OBVIOUS
<1>1. PICK s \in T : \A y \in T : y \subseteq s => y = s
  <2> HIDE DEF T
  <2>1. T \in SUBSET (SUBSET S)
    BY DEF T
  <2> QED
    BY <2>1, MinimalMember
<1>2. s # {}
  BY <1>1, AddsUpAt
<1>3. Some(s) \in s
  BY <1>2, SomeIn
<1>4. s \ {Some(s)} \in SUBSET S /\ s \ {Some(s)} \notin T
  BY <1>1, <1>3
<1>5. g[s \ {Some(s)}] = h[s \ {Some(s)}]
  BY <1>4
<1> QED
  BY <1>1, <1>2, <1>5, AddsUpAt

(* The equation SumFunctionOnSet stands for. *)
LEMMA SumUnfold ==
  ASSUME NEW f, NEW S, IsFiniteSet(S)
  PROVE  Sum(f, S) = IF S = {} THEN 0 ELSE f[Some(S)] + Sum(f, S \ {Some(S)})
<1> DEFINE Unfolds(s) == Sum(f, s) = IF s = {} THEN 0 ELSE f[Some(s)] + Sum(f, s \ {Some(s)})
           T == {s \in SUBSET S : ~Unfolds(s)}
<1> SUFFICES ASSUME T # {} PROVE FALSE
  OBVIOUS
<1>1. PICK s \in T : \A y \in T : y \subseteq s => y = s
  <2> HIDE DEF T
  <2>1. T \in SUBSET (SUBSET S)
    BY DEF T
  <2> QED
    BY <2>1, MinimalMember
<1> DEFINE h == [t \in SUBSET s |->
                   IF t = s THEN IF s = {} THEN 0 ELSE f[Some(s)] + Sum(f, s \ {Some(s)})
                            ELSE Sum(f, t)]
<1>2. ASSUME NEW t \in SUBSET s
      PROVE  h[t] = IF t = {} THEN 0 ELSE f[Some(t)] + h[t \ {Some(t)}]
  <2>1. t # {} => t \ {Some(t)} \in SUBSET s /\ t \ {Some(t)} # s
    BY SomeIn
  <2>2. t # {} => h[t \ {Some(t)}] = Sum(f, t \ {Some(t)})
    BY <2>1
  <2>3. t # s => Unfolds(t)
    BY <1>1
  <2> QED
    BY <2>2, <2>3
<1>3. AddsUp(h, f, s)
  <2>1. h = [t \in SUBSET s |-> h[t]]
    OBVIOUS
  <2> HIDE DEF h
  <2> QED
    BY <1>2, <2>1 DEF AddsUp
<1>4. AddsUp(CHOOSE g : AddsUp(g, f, s), f, s)
  BY <1>3
<1>5. IsFiniteSet(s)
  BY <1>1, FS_Subset
<1>6. (CHOOSE g : AddsUp(g, f, s))[s] = h[s]
  <2> HIDE DEF h
  <2> QED
    BY <1>3, <1>4, <1>5, AddsUpOnce
<1>7. Sum(f, s) = h[s]
  BY <1>6, SumIsChosen
<1> QED
  BY <1>1, <1>7

(* Induction over the subsets of a finite set: Good is the set of the subsets *)
(* that have the property in question.                                        *)
LEMMA SubsetInduction ==
  ASSUME NEW S, IsFiniteSet(S), NEW Good,
         \A s \in SUBSET S : (\A t \in SUBSET s : t # s => t \in Good) => s \in Good
  PROVE  S \in Good
<1> DEFINE T == {s \in SUBSET S : s \notin Good}
<1> SUFFICES ASSUME T # {} PROVE FALSE
  OBVIOUS
<1>1. PICK s \in T : \A y \in T : y \subseteq s => y = s
  <2> HIDE DEF T
  <2>1. T \in SUBSET (SUBSET S)
    BY DEF T
  <2> QED
    BY <2>1, MinimalMember
<1> QED
  BY <1>1

(* The same, taking out one element at a time. *)
LEMMA SomeInduction ==
  ASSUME NEW S, IsFiniteSet(S), NEW Good,
         {} \in Good,
         \A s \in SUBSET S : s # {} /\ s \ {Some(s)} \in Good => s \in Good
  PROVE  S \in Good
<1>1. \A s \in SUBSET S : (\A t \in SUBSET s : t # s => t \in Good) => s \in Good
  BY SomeIn
<1> QED
  BY <1>1, SubsetInduction

LEMMA SumOfNone ==
  ASSUME NEW f
  PROVE  Sum(f, {}) = 0
<1>1. IsFiniteSet({})
  BY FS_EmptySet
<1> QED
  BY <1>1, SumUnfold

LEMMA SumType ==
  ASSUME NEW f, NEW S, IsFiniteSet(S), \A x \in S : f[x] \in Int
  PROVE  Sum(f, S) \in Int
<1> DEFINE Good == {s \in SUBSET S : Sum(f, s) \in Int}
<1>1. {} \in Good
  BY SumOfNone
<1>2. ASSUME NEW s \in SUBSET S, s # {}, s \ {Some(s)} \in Good
      PROVE  s \in Good
  <2>1. IsFiniteSet(s)
    BY FS_Subset
  <2>2. Sum(f, s) = f[Some(s)] + Sum(f, s \ {Some(s)})
    BY <1>2, <2>1, SumUnfold
  <2> QED
    BY <1>2, <2>2, SomeIn
<1>3. S \in Good
  <2> HIDE DEF Good
  <2> QED
    BY <1>1, <1>2, SomeInduction
<1> QED
  BY <1>3

(* A sum may be begun with any of its elements. *)
LEMMA SumTakeOut ==
  ASSUME NEW f, NEW S, IsFiniteSet(S), \A x \in S : f[x] \in Int, NEW y \in S
  PROVE  Sum(f, S) = f[y] + Sum(f, S \ {y})
<1> DEFINE Good == {s \in SUBSET S : \A z \in s : Sum(f, s) = f[z] + Sum(f, s \ {z})}
<1>1. ASSUME NEW s \in SUBSET S, \A t \in SUBSET s : t # s => t \in Good
      PROVE  s \in Good
  <2> SUFFICES ASSUME NEW z \in s
               PROVE  Sum(f, s) = f[z] + Sum(f, s \ {z})
    OBVIOUS
  <2> DEFINE first == Some(s)
             both == (s \ {first}) \ {z}
  <2>1. first \in s
    BY SomeIn
  <2>2. IsFiniteSet(s) /\ IsFiniteSet(both)
    BY FS_Subset
  <2>3. Sum(f, s) = f[first] + Sum(f, s \ {first})
    BY <2>2, SumUnfold
  <2> HIDE DEF first
  <2>4. CASE z = first
    BY <2>3, <2>4
  <2>5. CASE z # first
    <3>1. Sum(f, s \ {first}) = f[z] + Sum(f, both)
      <4>1. s \ {first} \in Good
        BY <1>1, <2>1
      <4> QED
        BY <2>5, <4>1
    <3>2. Sum(f, s \ {z}) = f[first] + Sum(f, both)
      <4>1. s \ {z} \in Good
        BY <1>1
      <4>2. (s \ {z}) \ {first} = both
        OBVIOUS
      <4> QED
        BY <2>1, <2>5, <4>1, <4>2
    <3>3. f[z] \in Int /\ f[first] \in Int
      BY <2>1
    <3>4. Sum(f, both) \in Int
      BY <2>2, SumType
    <3> HIDE DEF both
    <3> QED
      BY <2>3, <3>1, <3>2, <3>3, <3>4
  <2> QED
    BY <2>4, <2>5
<1>2. S \in Good
  <2> HIDE DEF Good
  <2> QED
    BY <1>1, SubsetInduction
<1> QED
  BY <1>2

LEMMA SumMonotone ==
  ASSUME NEW f, NEW g, NEW S, IsFiniteSet(S),
         \A x \in S : f[x] \in Int /\ g[x] \in Int /\ f[x] <= g[x]
  PROVE  Sum(f, S) <= Sum(g, S)
<1> DEFINE Good == {s \in SUBSET S : Sum(f, s) <= Sum(g, s)}
<1>1. {} \in Good
  BY SumOfNone
<1>2. ASSUME NEW s \in SUBSET S, s # {}, s \ {Some(s)} \in Good
      PROVE  s \in Good
  <2> DEFINE x == Some(s)
             rest == s \ {x}
  <2>1. IsFiniteSet(s) /\ IsFiniteSet(rest)
    BY FS_Subset
  <2>2. Sum(f, s) = f[x] + Sum(f, rest) /\ Sum(g, s) = g[x] + Sum(g, rest)
    BY <1>2, <2>1, SumUnfold
  <2>3. Sum(f, rest) \in Int /\ Sum(g, rest) \in Int
    BY <2>1, SumType
  <2>4. x \in S
    BY <1>2, SomeIn
  <2>5. Sum(f, rest) <= Sum(g, rest)
    BY <1>2
  <2> HIDE DEF x, rest
  <2> QED
    BY <2>2, <2>3, <2>4, <2>5
<1>3. S \in Good
  <2> HIDE DEF Good
  <2> QED
    BY <1>1, <1>2, SomeInduction
<1> QED
  BY <1>3

LEMMA SumOfNaturals ==
  ASSUME NEW f, NEW S, IsFiniteSet(S), \A x \in S : f[x] \in Nat
  PROVE  Sum(f, S) \in Nat
<1> DEFINE Good == {s \in SUBSET S : Sum(f, s) \in Nat}
<1>1. {} \in Good
  BY SumOfNone
<1>2. ASSUME NEW s \in SUBSET S, s # {}, s \ {Some(s)} \in Good
      PROVE  s \in Good
  <2>1. IsFiniteSet(s)
    BY FS_Subset
  <2>2. Sum(f, s) = f[Some(s)] + Sum(f, s \ {Some(s)})
    BY <1>2, <2>1, SumUnfold
  <2> QED
    BY <1>2, <2>2, SomeIn
<1>3. S \in Good
  <2> HIDE DEF Good
  <2> QED
    BY <1>1, <1>2, SomeInduction
<1> QED
  BY <1>3

(* A sum of natural numbers is no less than any of them. *)
LEMMA SumCovers ==
  ASSUME NEW f, NEW S, IsFiniteSet(S), \A x \in S : f[x] \in Nat, NEW y \in S
  PROVE  Sum(f, S) >= f[y]
<1>1. Sum(f, S) = f[y] + Sum(f, S \ {y})
  BY SumTakeOut
<1>2. Sum(f, S \ {y}) \in Nat
  BY FS_Subset, SumOfNaturals
<1> QED
  BY <1>1, <1>2

(* Summing over other names of the same elements. *)
LEMMA SumRenamed ==
  ASSUME NEW S, IsFiniteSet(S), NEW T, NEW h \in Injection(S, T), NEW f, NEW g,
         \A x \in S : f[x] \in Int /\ g[h[x]] = f[x]
  PROVE  Sum(g, {h[x] : x \in S}) = Sum(f, S)
<1> DEFINE Image(s) == {h[x] : x \in s}
           Good == {s \in SUBSET S : IsFiniteSet(Image(s)) /\ Sum(g, Image(s)) = Sum(f, s)}
<1>1. {} \in Good
  <2>1. Image({}) = {}
    OBVIOUS
  <2> QED
    BY <2>1, SumOfNone, FS_EmptySet
<1>2. ASSUME NEW s \in SUBSET S, s # {}, s \ {Some(s)} \in Good
      PROVE  s \in Good
  <2> DEFINE x == Some(s)
             rest == s \ {x}
  <2>1. x \in s
    BY <1>2, SomeIn
  <2>2. IsFiniteSet(s) /\ Sum(f, s) = f[x] + Sum(f, rest)
    BY <1>2, FS_Subset, SumUnfold
  <2>3. Image(s) = Image(rest) \cup {h[x]} /\ h[x] \notin Image(rest)
    BY <2>1 DEF Injection, IsInjective
  <2>4. IsFiniteSet(Image(s))
    <3>1. IsFiniteSet(Image(rest))
      BY <1>2
    <3> HIDE DEF Image, rest
    <3> QED
      BY <2>3, <3>1, FS_AddElement
  <2>5. \A y \in Image(s) : g[y] \in Int
    OBVIOUS
  <2>6. Sum(g, Image(s)) = g[h[x]] + Sum(g, Image(s) \ {h[x]})
    <3>1. h[x] \in Image(s)
      BY <2>1
    <3> HIDE DEF Image, x
    <3> QED
      BY <2>4, <2>5, <3>1, SumTakeOut
  <2>7. Image(s) \ {h[x]} = Image(rest)
    BY <2>3
  <2>8. Sum(g, Image(rest)) = Sum(f, rest)
    BY <1>2
  <2> QED
    BY <2>1, <2>2, <2>4, <2>6, <2>7, <2>8
<1>3. S \in Good
  <2> HIDE DEF Good
  <2> QED
    BY <1>1, <1>2, SomeInduction
<1> QED
  BY <1>3

(* Figures within half a unit each add up to figures within half a unit each. *)
LEMMA SumOfRounded ==
  ASSUME NEW f, NEW g, NEW S, IsFiniteSet(S), NEW unit \in Nat,
         \A x \in S : /\ f[x] \in Int /\ g[x] \in Int
                      /\ -unit <= 2 * (unit * f[x] - g[x])
                      /\ 2 * (unit * f[x] - g[x]) <= unit
  PROVE  /\ -(unit * Cardinality(S)) <= 2 * (unit * Sum(f, S) - Sum(g, S))
         /\ 2 * (unit * Sum(f, S) - Sum(g, S)) <= unit * Cardinality(S)
<1> DEFINE Near(n, a, b) == -(unit * n) <= 2 * (unit * a - b) /\ 2 * (unit * a - b) <= unit * n
           Good == {s \in SUBSET S : Near(Cardinality(s), Sum(f, s), Sum(g, s))}
<1>1. {} \in Good
  <2>1. Sum(f, {}) = 0 /\ Sum(g, {}) = 0 /\ Cardinality({}) = 0
    BY SumOfNone, FS_EmptySet
  <2> QED
    BY <2>1
<1>2. ASSUME NEW s \in SUBSET S, s # {}, s \ {Some(s)} \in Good
      PROVE  s \in Good
  <2> DEFINE x == Some(s)
             rest == s \ {x}
  <2>1. x \in s
    BY <1>2, SomeIn
  <2>2. IsFiniteSet(s) /\ IsFiniteSet(rest)
    BY FS_Subset
  <2>3. Sum(f, s) = f[x] + Sum(f, rest) /\ Sum(g, s) = g[x] + Sum(g, rest)
    BY <1>2, <2>2, SumUnfold
  <2>4. Cardinality(s) = Cardinality(rest) + 1 /\ Cardinality(rest) \in Nat
    BY <2>1, <2>2, FS_RemoveElement, FS_CardinalityType
  <2>5. Sum(f, rest) \in Int /\ Sum(g, rest) \in Int
    BY <2>2, SumType
  <2>6. Near(Cardinality(rest), Sum(f, rest), Sum(g, rest))
    BY <1>2
  <2>7. ASSUME NEW n \in Nat, NEW a \in Int, NEW b \in Int, NEW c \in Int, NEW d \in Int,
               Near(n, a, b), Near(1, c, d)
        PROVE  Near(n + 1, c + a, d + b)
    <3>1. unit * (n + 1) = unit * n + unit /\ unit * (c + a) = unit * c + unit * a
      OBVIOUS
    <3>2. unit * n \in Int /\ unit * a \in Int /\ unit * c \in Int
      OBVIOUS
    <3> QED
      BY <2>7, <3>1, <3>2
  <2>8. Near(1, f[x], g[x]) /\ f[x] \in Int /\ g[x] \in Int
    <3>1. x \in S
      BY <2>1
    <3> HIDE DEF x
    <3> QED
      BY <3>1
  <2>9. Near(Cardinality(s), Sum(f, s), Sum(g, s))
    <3> HIDE DEF Near, x, rest
    <3> QED
      BY <2>3, <2>4, <2>5, <2>6, <2>7, <2>8
  <2> QED
    BY <2>9
<1>3. S \in Good
  <2> HIDE DEF Good
  <2> QED
    BY <1>1, <1>2, SomeInduction
<1> QED
  BY <1>3

-------------------------------------------------------------------------------
(* The sort of RunAll, for any finite set of keys of one length. *)

LEMMA LeastIndex ==
  ASSUME NEW N \in Nat, NEW D \in SUBSET (1 .. N), D # {}
  PROVE  \E n \in D : \A m \in D : n <= m
<1> DEFINE T == {1 .. n : n \in D}
<1>1. IsFiniteSet(1 .. N)
  BY FS_Interval
<1>2. T \in SUBSET (SUBSET (1 .. N)) /\ T # {}
  <2>1. \A n \in D : 1 .. n \in SUBSET (1 .. N)
    OBVIOUS
  <2>2. PICK n \in D : TRUE
    OBVIOUS
  <2>3. 1 .. n \in T
    OBVIOUS
  <2> QED
    BY <2>1, <2>3
<1>3. PICK x \in T : \A y \in T : y \subseteq x => y = x
  <2> DEFINE S == 1 .. N
  <2>1. IsFiniteSet(S) /\ T \in SUBSET (SUBSET S) /\ T # {}
    BY <1>1, <1>2
  <2> HIDE DEF T, S
  <2> QED
    BY <2>1, MinimalMember
<1>4. PICK n \in D : x = 1 .. n
  BY <1>3
<1>5. ASSUME NEW m \in D, m < n PROVE FALSE
  <2>1. 1 .. m \in T /\ 1 .. m \subseteq x
    BY <1>4, <1>5
  <2>2. 1 .. m = 1 .. n
    BY <1>3, <1>4, <2>1
  <2>3. n \in 1 .. n /\ n \notin 1 .. m
    BY <1>5
  <2> QED
    BY <2>2, <2>3
<1> QED
  BY <1>5

LEMMA BeforeIsOrder ==
  ASSUME NEW N \in Nat, NEW a \in [1 .. N -> Int], NEW b \in [1 .. N -> Int],
         NEW c \in [1 .. N -> Int]
  PROVE  /\ ~Before(a, a)
         /\ Before(a, b) /\ Before(b, c) => Before(a, c)
         /\ Before(a, b) \/ a = b \/ Before(b, a)
<1>1. ~Before(a, a)
  BY DEF Before
<1>2. ASSUME Before(a, b), Before(b, c) PROVE Before(a, c)
  <2>1. PICK n \in 1 .. N : a[n] < b[n] /\ \A i \in 1 .. n - 1 : a[i] = b[i]
    BY <1>2 DEF Before
  <2>2. PICK m \in 1 .. N : b[m] < c[m] /\ \A i \in 1 .. m - 1 : b[i] = c[i]
    BY <1>2 DEF Before
  <2> DEFINE k == IF n <= m THEN n ELSE m
  <2>3. a[k] < c[k]
    BY <2>1, <2>2
  <2>4. \A i \in 1 .. k - 1 : a[i] = c[i]
    BY <2>1, <2>2
  <2> QED
    BY <2>3, <2>4 DEF Before
<1>3. ASSUME a # b PROVE Before(a, b) \/ Before(b, a)
  <2> DEFINE D == {n \in 1 .. N : a[n] # b[n]}
  <2>1. D # {}
    <3>1. a = [n \in 1 .. N |-> a[n]] /\ b = [n \in 1 .. N |-> b[n]]
      OBVIOUS
    <3>2. D = {} => \A n \in 1 .. N : a[n] = b[n]
      OBVIOUS
    <3> HIDE DEF D
    <3> QED
      BY <1>3, <3>1, <3>2
  <2>2. PICK n \in D : \A m \in D : n <= m
    <3> HIDE DEF D
    <3>1. D \in SUBSET (1 .. N)
      BY DEF D
    <3> QED
      BY <2>1, <3>1, LeastIndex
  <2>3. \A i \in 1 .. n - 1 : a[i] = b[i]
    BY <2>2
  <2>4. a[n] < b[n] \/ b[n] < a[n]
    BY <2>2
  <2> QED
    BY <2>3, <2>4 DEF Before
<1> QED
  BY <1>1, <1>2, <1>3

(* What RunAll makes of its keys. *)
Ranks(keys) == [k \in keys |-> 1 + Cardinality({j \in keys : Before(j, k)})]
Sorted(keys) ==
  LET rank == Ranks(keys) IN [n \in 1 .. Cardinality(keys) |-> CHOOSE k \in keys : rank[k] = n]

LEMMA RankIsStrict ==
  ASSUME NEW N \in Nat, NEW keys \in SUBSET [1 .. N -> Int], IsFiniteSet(keys),
         NEW a \in keys, NEW b \in keys, Before(a, b)
  PROVE  Ranks(keys)[a] < Ranks(keys)[b]
<1> DEFINE Lower(k) == {j \in keys : Before(j, k)}
<1>1. Lower(a) \in SUBSET Lower(b)
  BY BeforeIsOrder
<1>2. Lower(a) # Lower(b)
  BY BeforeIsOrder
<1>3. IsFiniteSet(Lower(a)) /\ IsFiniteSet(Lower(b))
  BY FS_Subset
<1>4. Cardinality(Lower(a)) \in Nat /\ Cardinality(Lower(b)) \in Nat
  BY <1>3, FS_CardinalityType
<1>5. Cardinality(Lower(a)) < Cardinality(Lower(b))
  <2> HIDE DEF Lower
  <2> QED
    BY <1>1, <1>2, <1>3, <1>4, FS_Subset
<1> QED
  BY <1>4, <1>5 DEF Ranks

LEMMA RankIsBijection ==
  ASSUME NEW N \in Nat, NEW keys \in SUBSET [1 .. N -> Int], IsFiniteSet(keys)
  PROVE  /\ Ranks(keys) \in [keys -> 1 .. Cardinality(keys)]
         /\ \A a, b \in keys : Ranks(keys)[a] = Ranks(keys)[b] => a = b
         /\ \A n \in 1 .. Cardinality(keys) : \E k \in keys : Ranks(keys)[k] = n
<1> DEFINE size == Cardinality(keys)
<1>1. size \in Nat
  BY FS_CardinalityType
<1>2. ASSUME NEW k \in keys
      PROVE  Ranks(keys)[k] \in 1 .. size
  <2> DEFINE lower == {j \in keys : Before(j, k)}
  <2>1. lower \in SUBSET keys /\ lower # keys
    BY BeforeIsOrder
  <2>2. Cardinality(lower) \in Nat /\ Cardinality(lower) < size
    <3> HIDE DEF lower
    <3>1. IsFiniteSet(lower)
      BY <2>1, FS_Subset
    <3>2. Cardinality(lower) \in Nat
      BY <3>1, FS_CardinalityType
    <3>3. Cardinality(lower) <= size /\ (size = Cardinality(lower) => keys = lower)
      BY <2>1, FS_Subset
    <3> QED
      BY <1>1, <2>1, <3>2, <3>3
  <2>3. Ranks(keys)[k] = 1 + Cardinality(lower)
    BY DEF Ranks
  <2> HIDE DEF lower, size
  <2> QED
    BY <1>1, <2>2, <2>3
<1>3. Ranks(keys) \in [keys -> 1 .. size]
  BY <1>2 DEF Ranks
<1>4. ASSUME NEW a \in keys, NEW b \in keys, Ranks(keys)[a] = Ranks(keys)[b]
      PROVE  a = b
  <2>1. ~Before(a, b) /\ ~Before(b, a)
    <3>1. Ranks(keys)[a] \in Int /\ Ranks(keys)[b] \in Int
      BY <1>2
    <3> QED
      BY <1>4, <3>1, RankIsStrict
  <2> QED
    BY <2>1, BeforeIsOrder
<1>5. Ranks(keys) \in Injection(keys, 1 .. size)
  BY <1>3, <1>4 DEF Injection, IsInjective
<1>6. IsFiniteSet(1 .. size) /\ Cardinality(1 .. size) = size
  BY <1>1, FS_Interval
<1>7. Ranks(keys) \in Surjection(keys, 1 .. size)
  BY <1>5, <1>6, FS_Injection
<1> QED
  BY <1>3, <1>4, <1>7 DEF Surjection

(* Every key has one row, and the rows are in order. *)
LEMMA SortedRows ==
  ASSUME NEW N \in Nat, NEW keys \in SUBSET [1 .. N -> Int], IsFiniteSet(keys)
  PROVE  /\ Cardinality(keys) \in Nat
         /\ Sorted(keys) \in [1 .. Cardinality(keys) -> keys]
         /\ \A k \in keys : \E n \in 1 .. Cardinality(keys) : Sorted(keys)[n] = k
         /\ \A n \in 1 .. Cardinality(keys) : \A m \in 1 .. n - 1 :
              Before(Sorted(keys)[m], Sorted(keys)[n])
<1> DEFINE size == Cardinality(keys)
           rank == Ranks(keys)
           row == Sorted(keys)
<1>1. size \in Nat
  BY FS_CardinalityType
<1>2. /\ rank \in [keys -> 1 .. size]
      /\ \A a, b \in keys : rank[a] = rank[b] => a = b
      /\ \A n \in 1 .. size : \E k \in keys : rank[k] = n
  BY RankIsBijection
<1>3. ASSUME NEW n \in 1 .. size
      PROVE  row[n] \in keys /\ rank[row[n]] = n
  <2>1. row[n] = CHOOSE k \in keys : rank[k] = n
    BY DEF Sorted
  <2>2. \E k \in keys : rank[k] = n
    BY <1>2
  <2> HIDE DEF row, rank, size
  <2> QED
    BY <2>1, <2>2
<1>4. row \in [1 .. size -> keys]
  BY <1>3 DEF Sorted
<1>5. ASSUME NEW k \in keys
      PROVE  \E n \in 1 .. size : row[n] = k
  <2>1. rank[k] \in 1 .. size
    BY <1>2
  <2> HIDE DEF row, rank, size
  <2> QED
    BY <1>2, <1>3, <2>1
<1>6. ASSUME NEW n \in 1 .. size, NEW m \in 1 .. n - 1
      PROVE  Before(row[m], row[n])
  <2>1. m \in 1 .. size /\ m < n
    BY <1>1
  <2>2. row[m] \in keys /\ row[n] \in keys /\ rank[row[m]] = m /\ rank[row[n]] = n
    BY <1>3, <2>1
  <2>3. row[m] # row[n]
    BY <2>1, <2>2
  <2>4. ~Before(row[n], row[m])
    <3> HIDE DEF row
    <3>1. Before(row[n], row[m]) => rank[row[n]] < rank[row[m]]
      BY <2>2, RankIsStrict
    <3> QED
      BY <2>1, <2>2, <3>1
  <2> HIDE DEF row, rank
  <2> QED
    BY <2>2, <2>3, <2>4, BeforeIsOrder
<1> QED
  BY <1>1, <1>4, <1>5, <1>6

(* A set of positions closed downwards is the first so many. *)
LEMMA FirstSoMany ==
  ASSUME NEW N \in Nat, NEW D \in SUBSET (1 .. N),
         \A n \in D : \A m \in 1 .. n - 1 : m \in D
  PROVE  /\ Cardinality(D) \in Nat
         /\ D = 1 .. Cardinality(D)
<1> DEFINE gone == (1 .. N + 1) \ D
<1>1. gone \in SUBSET (1 .. N + 1) /\ gone # {}
  <2>1. N + 1 \in gone
    OBVIOUS
  <2> QED
    BY <2>1
<1>2. PICK n \in gone : \A m \in gone : n <= m
  <2>1. N + 1 \in Nat
    OBVIOUS
  <2> HIDE DEF gone
  <2> QED
    BY <1>1, <2>1, LeastIndex
<1>3. D = 1 .. n - 1
  <2>1. ASSUME NEW m \in D PROVE m \in 1 .. n - 1
    <3>1. m # n /\ ~(n < m)
      BY <1>2
    <3> QED
      BY <1>2, <3>1
  <2>2. ASSUME NEW m \in 1 .. n - 1 PROVE m \in D
    BY <1>2
  <2> QED
    BY <2>1, <2>2
<1>4. Cardinality(1 .. n - 1) = n - 1
  BY <1>2, FS_Interval
<1> QED
  BY <1>2, <1>3, <1>4

-------------------------------------------------------------------------------
(* What the rules find is finite, and its keys are comparable. *)

LEMMA ListFacts ==
  ASSUME NEW C, NEW s \in Seq(C)
  PROVE  Len(s) \in Nat /\ DOMAIN s = 1 .. Len(s) /\ \A i \in DOMAIN s : s[i] \in C
OBVIOUS

LEMMA IntervalFinite ==
  ASSUME NEW n \in Nat
  PROVE  IsFiniteSet(1 .. n)
BY FS_Interval

LEMMA RowFinite ==
  ASSUME NEW S, IsFiniteSet(S)
  PROVE  \A x : IsFiniteSet({x} \X S) /\ IsFiniteSet(S \X {x})
<1> SUFFICES ASSUME NEW x PROVE IsFiniteSet({x} \X S) /\ IsFiniteSet(S \X {x})
  OBVIOUS
<1>1. IsFiniteSet({x})
  BY FS_Singleton
<1> QED
  BY <1>1, FS_Product

LEMMA ContainersTyped ==
  ASSUME NEW r, Typed(r)
  PROVE  /\ Len(AllContainers(r)) \in Nat
         /\ DOMAIN AllContainers(r) = 1 .. Len(AllContainers(r))
         /\ \A i \in DOMAIN AllContainers(r) :
              LET c == AllContainers(r)[i]
              IN c.env \in Seq(Range(c.env)) /\ Amounts(c.requests) /\ Amounts(c.limits)
         /\ IsWorkload(r) => /\ r.containers \in Seq(Range(r.init) \cup Range(r.containers))
                             /\ Len(r.containers) <= Len(AllContainers(r))
<1>1. CASE ~IsWorkload(r)
  BY <1>1 DEF AllContainers
<1>2. CASE IsWorkload(r)
  <2> DEFINE cs == Range(r.init) \cup Range(r.containers)
  <2>1. r.init \in Seq(cs) /\ r.containers \in Seq(cs)
    BY <1>2 DEF Typed
  <2>2. \A c \in cs : c.env \in Seq(Range(c.env)) /\ Amounts(c.requests) /\ Amounts(c.limits)
    BY <1>2 DEF Typed
  <2>3. AllContainers(r) = r.init \o r.containers
    BY <1>2 DEF AllContainers
  <2> HIDE DEF cs
  <2>4. AllContainers(r) \in Seq(cs) /\ Len(AllContainers(r)) = Len(r.init) + Len(r.containers)
    BY <2>1, <2>3
  <2>5. /\ Len(AllContainers(r)) \in Nat
        /\ DOMAIN AllContainers(r) = 1 .. Len(AllContainers(r))
        /\ \A i \in DOMAIN AllContainers(r) : AllContainers(r)[i] \in cs
    BY <2>4, ListFacts
  <2>6. Len(r.init) \in Nat /\ Len(r.containers) \in Nat
    BY <2>1, ListFacts
  <2>7. Len(r.containers) <= Len(AllContainers(r))
    <3>1. \A a, b \in Nat : \A x : x = a + b => b <= x
      OBVIOUS
    <3> QED
      BY <2>4, <2>6, <3>1, Zenon
  <2>8. \A i \in DOMAIN AllContainers(r) :
          LET c == AllContainers(r)[i]
          IN c.env \in Seq(Range(c.env)) /\ Amounts(c.requests) /\ Amounts(c.limits)
    BY <2>2, <2>5
  <2>9. r.containers \in Seq(Range(r.init) \cup Range(r.containers))
    BY <2>1 DEF cs
  <2> QED
    BY <2>5, <2>7, <2>8, <2>9
<1> QED
  BY <1>1, <1>2

(* The places the rules may find fault with. *)
EnvPlaces(cs) == UNION {{c} \X DOMAIN cs[c].env : c \in DOMAIN cs}
Places(r) == {Whole} \cup ((DOMAIN AllContainers(r)) \X {0}) \cup EnvPlaces(AllContainers(r))

LEMMA ChecksPlaces ==
  ASSUME NEW r, Typed(r), NEW all
  PROVE  Check(r, all) \subseteq (1 .. 13) \X Places(r)
<1> DEFINE cs == AllContainers(r)
<1>1. WholeIf(TRUE) \subseteq Places(r) /\ WholeIf(FALSE) \subseteq Places(r)
  BY DEF WholeIf, Places
<1>2. RootUser(r) \subseteq (DOMAIN cs) \X {0}
  BY DEF RootUser, Those
<1>3. Privileged(r) \subseteq (DOMAIN cs) \X {0}
  BY DEF Privileged, Those
<1>4. HardcodedSecret(r) \subseteq Places(r)
  BY DEF HardcodedSecret, Places, EnvPlaces
<1>5. MissingResources(r) \subseteq (DOMAIN cs) \X {0}
  BY DEF MissingResources, Those
<1>6. MissingProbes(r) \subseteq (DOMAIN cs) \X {0}
  <2>1. CASE IsWorkload(r)
    <3>1. DOMAIN r.containers \subseteq DOMAIN cs
      <4>1. r.containers \in Seq(Range(r.init) \cup Range(r.containers))
        BY <2>1, ContainersTyped
      <4>2. Len(r.containers) \in Nat /\ DOMAIN r.containers = 1 .. Len(r.containers)
        BY <4>1, ListFacts
      <4>3. /\ Len(cs) \in Nat /\ DOMAIN cs = 1 .. Len(cs)
            /\ Len(r.containers) <= Len(cs)
        BY <2>1, ContainersTyped
      <4> HIDE DEF cs
      <4> QED
        BY <4>2, <4>3
    <3>2. MissingProbes(r) \subseteq (DOMAIN r.containers) \X {0}
      BY <2>1 DEF MissingProbes, Those
    <3> HIDE DEF cs
    <3> QED
      BY <3>1, <3>2
  <2>2. CASE ~IsWorkload(r)
    BY <2>2 DEF MissingProbes
  <2> QED
    BY <2>1, <2>2
<1>7. UnpinnedImage(r) \subseteq (DOMAIN cs) \X {0}
  <2> DEFINE bad == {c \in DOMAIN cs : ~cs[c].image.digest /\ cs[c].image.tag \in {"", "latest"}}
  <2>1. UnpinnedImage(r) = {<<c, 0>> : c \in bad}
    BY DEF UnpinnedImage, Those
  <2>2. bad \subseteq DOMAIN cs
    OBVIOUS
  <2> HIDE DEF bad, cs
  <2> QED
    BY <2>1, <2>2
<1>8. /\ HostNamespaces(r) \subseteq Places(r)
      /\ NoReplicaCount(r) \subseteq Places(r)
      /\ MissingCostLabels(r) \subseteq Places(r)
      /\ PVCWithoutStorageClass(r) \subseteq Places(r)
      /\ NoGracePeriod(r) \subseteq Places(r)
      /\ MissingPDB(r, all) \subseteq Places(r)
      /\ NoNetworkPolicy(r, all) \subseteq Places(r)
  BY <1>1 DEF HostNamespaces, NoReplicaCount, MissingCostLabels, PVCWithoutStorageClass,
              NoGracePeriod, MissingPDB, NoNetworkPolicy, WholeIf
<1>9. (DOMAIN cs) \X {0} \subseteq Places(r)
  BY DEF Places
<1> HIDE DEF cs
<1>10. /\ RootUser(r) \subseteq Places(r)
       /\ Privileged(r) \subseteq Places(r)
       /\ MissingResources(r) \subseteq Places(r)
       /\ MissingProbes(r) \subseteq Places(r)
       /\ UnpinnedImage(r) \subseteq Places(r)
  BY <1>2, <1>3, <1>5, <1>6, <1>7, <1>9
<1> QED
  BY <1>4, <1>8, <1>10 DEF Check, OwnChecks

LEMMA ImageFinite ==
  ASSUME NEW f, IsFiniteSet(DOMAIN f)
  PROVE  IsFiniteSet({f[x] : x \in DOMAIN f})
<1> DEFINE T == {f[x] : x \in DOMAIN f}
           g == [x \in DOMAIN f |-> f[x]]
<1>1. g \in Surjection(DOMAIN f, T)
  BY DEF Surjection
<1> HIDE DEF g, T
<1>2. IsFiniteSet(T)
  BY <1>1, FS_Surjection
<1> QED
  BY <1>2 DEF T

LEMMA PlacesFinite ==
  ASSUME NEW r, Typed(r)
  PROVE  IsFiniteSet(Places(r)) /\ Places(r) \subseteq Int \X Int
<1> DEFINE cs == AllContainers(r)
           f == [c \in DOMAIN cs |-> {c} \X DOMAIN cs[c].env]
<1>1. IsFiniteSet(DOMAIN cs) /\ DOMAIN cs \subseteq Int
  <2>1. Len(cs) \in Nat /\ DOMAIN cs = 1 .. Len(cs)
    BY ContainersTyped
  <2> HIDE DEF cs
  <2> QED
    BY <2>1, IntervalFinite
<1>2. ASSUME NEW c \in DOMAIN cs
      PROVE  IsFiniteSet({c} \X DOMAIN cs[c].env) /\ DOMAIN cs[c].env \subseteq Int
  <2>1. DOMAIN cs[c].env = 1 .. Len(cs[c].env) /\ Len(cs[c].env) \in Nat
    <3>1. cs[c].env \in Seq(Range(cs[c].env))
      BY ContainersTyped
    <3> QED
      BY <3>1, ListFacts
  <2>2. IsFiniteSet(DOMAIN cs[c].env)
    BY <2>1, IntervalFinite
  <2> DEFINE names == DOMAIN cs[c].env
  <2>3. names \subseteq Int
    BY <2>1
  <2>4. IsFiniteSet(names)
    BY <2>2
  <2> HIDE DEF names
  <2>5. IsFiniteSet({c} \X names)
    BY <2>4, RowFinite
  <2> QED
    BY <2>3, <2>5 DEF names
<1>3. IsFiniteSet(EnvPlaces(cs))
  <2> DEFINE T == {f[c] : c \in DOMAIN f}
  <2>1. EnvPlaces(cs) = UNION T
    BY DEF EnvPlaces
  <2>2. IsFiniteSet(T)
    <3> HIDE DEF f
    <3>1. IsFiniteSet(DOMAIN f)
      BY <1>1 DEF f
    <3> QED
      BY <3>1, ImageFinite
  <2>3. \A t \in T : IsFiniteSet(t)
    BY <1>2
  <2> HIDE DEF T
  <2> QED
    BY <2>1, <2>2, <2>3, FS_UNION
<1>4. IsFiniteSet({Whole}) /\ IsFiniteSet((DOMAIN cs) \X {0})
  <2> HIDE DEF cs
  <2>1. IsFiniteSet((DOMAIN cs) \X {0})
    BY <1>1, RowFinite
  <2> QED
    BY <2>1, FS_Singleton
<1>5. IsFiniteSet(Places(r))
  <2>1. IsFiniteSet({Whole} \cup ((DOMAIN cs) \X {0}))
    BY <1>4, FS_Union
  <2> QED
    BY <1>3, <2>1, FS_Union DEF Places
<1>6. Places(r) \subseteq Int \X Int
  <2>1. EnvPlaces(cs) \subseteq Int \X Int
    <3> SUFFICES ASSUME NEW c \in DOMAIN cs PROVE {c} \X DOMAIN cs[c].env \subseteq Int \X Int
      BY DEF EnvPlaces
    <3>1. c \in Int /\ DOMAIN cs[c].env \subseteq Int
      BY <1>1, <1>2
    <3> HIDE DEF cs
    <3> QED
      BY <3>1
  <2>2. (DOMAIN cs) \X {0} \subseteq Int \X Int
    <3> HIDE DEF cs
    <3> QED
      BY <1>1
  <2>3. {Whole} \subseteq Int \X Int
    BY DEF Whole
  <2> QED
    BY <2>1, <2>2, <2>3 DEF Places
<1> QED
  BY <1>5, <1>6

(* A directory whose files are lists of documents, typed where they decode. *)
Readable(dir) ==
  /\ IsFiniteSet(DOMAIN dir) /\ DOMAIN dir \subseteq Int
  /\ \A p \in DOMAIN dir : Len(dir[p]) \in Nat /\ DOMAIN dir[p] = 1 .. Len(dir[p])
  /\ \A pos \in Parse(dir) : Typed(At(dir, pos))

LEMMA PositionsFinite ==
  ASSUME NEW dir, Readable(dir)
  PROVE  /\ IsFiniteSet(Positions(dir)) /\ Positions(dir) \subseteq Int \X Int
         /\ IsFiniteSet(Parse(dir)) /\ Parse(dir) \subseteq Positions(dir)
<1> DEFINE f == [p \in DOMAIN dir |-> {p} \X DOMAIN dir[p]]
           T == {f[p] : p \in DOMAIN f}
<1>1. ASSUME NEW p \in DOMAIN dir
      PROVE  IsFiniteSet({p} \X DOMAIN dir[p])
  <2>1. Len(dir[p]) \in Nat /\ DOMAIN dir[p] = 1 .. Len(dir[p])
    BY DEF Readable
  <2>2. IsFiniteSet(DOMAIN dir[p])
    BY <2>1, IntervalFinite
  <2> QED
    BY <2>2, RowFinite
<1>2. IsFiniteSet(T)
  <2> HIDE DEF f
  <2>1. IsFiniteSet(DOMAIN f)
    BY DEF Readable, f
  <2> QED
    BY <2>1, ImageFinite
<1>3. Positions(dir) = UNION T
  BY DEF Positions
<1>4. \A t \in T : IsFiniteSet(t)
  BY <1>1
<1>5. IsFiniteSet(Positions(dir))
  <2> HIDE DEF T
  <2> QED
    BY <1>2, <1>3, <1>4, FS_UNION
<1>6. Positions(dir) \subseteq Int \X Int
  BY DEF Positions, Readable
<1>7. Parse(dir) \subseteq Positions(dir)
  BY DEF Parse
<1> QED
  BY <1>5, <1>6, <1>7, FS_Subset

LEMMA ViolationsFinite ==
  ASSUME NEW dir, Readable(dir)
  PROVE  IsFiniteSet(Violations(dir))
<1> DEFINE found == [pos \in Parse(dir) |-> {pos} \X Check(At(dir, pos), Resources(dir))]
           T == {found[pos] : pos \in DOMAIN found}
<1>1. ASSUME NEW pos \in Parse(dir)
      PROVE  IsFiniteSet({pos} \X Check(At(dir, pos), Resources(dir)))
  <2> DEFINE r == At(dir, pos)
             check == Check(r, Resources(dir))
  <2>1. Typed(r)
    BY DEF Readable
  <2>2. IsFiniteSet((1 .. 13) \X Places(r))
    <3> HIDE DEF r
    <3>1. IsFiniteSet(Places(r))
      BY <2>1, PlacesFinite
    <3>2. IsFiniteSet(1 .. 13)
      BY IntervalFinite
    <3> QED
      BY <3>1, <3>2, FS_Product
  <2>3. check \subseteq (1 .. 13) \X Places(r)
    <3> HIDE DEF r
    <3> QED
      BY <2>1, ChecksPlaces
  <2> HIDE DEF r, check
  <2>4. IsFiniteSet(check)
    BY <2>2, <2>3, FS_Subset
  <2> QED
    BY <2>4, RowFinite DEF check, r
<1>2. IsFiniteSet(T)
  <2> HIDE DEF found
  <2>1. IsFiniteSet(DOMAIN found)
    BY PositionsFinite DEF found
  <2> QED
    BY <2>1, ImageFinite
<1>3. \A t \in T : IsFiniteSet(t)
  BY <1>1
<1>4. Violations(dir) = UNION T
  BY DEF Violations
<1> HIDE DEF T
<1> QED
  BY <1>2, <1>3, <1>4, FS_UNION

Keys(dir) == {SortKey(dir, x[1], x[2]) : x \in Violations(dir)}

LEMMA KeysTyped ==
  ASSUME NEW dir, Readable(dir)
  PROVE  IsFiniteSet(Keys(dir)) /\ Keys(dir) \in SUBSET [1 .. 7 -> Int]
<1> DEFINE key == [x \in Violations(dir) |-> SortKey(dir, x[1], x[2])]
<1>1. IsFiniteSet({key[x] : x \in DOMAIN key})
  <2> HIDE DEF key
  <2>1. IsFiniteSet(DOMAIN key)
    BY ViolationsFinite DEF key
  <2> QED
    BY <2>1, ImageFinite
<1>2. ASSUME NEW x \in Violations(dir)
      PROVE  SortKey(dir, x[1], x[2]) \in [1 .. 7 -> Int]
  <2>1. PICK pos \in Parse(dir) : x \in {pos} \X Check(At(dir, pos), Resources(dir))
    BY DEF Violations
  <2> DEFINE v == x[2]
  <2>2. x[1] = pos /\ v \in Check(At(dir, pos), Resources(dir))
    BY <2>1
  <2>3. Typed(At(dir, pos))
    BY DEF Readable
  <2>4. v \in (1 .. 13) \X (Int \X Int)
    BY <2>2, <2>3, ChecksPlaces, PlacesFinite
  <2>5. pos \in Int \X Int
    BY PositionsFinite
  <2>6. At(dir, pos).name \in Int
    BY <2>3 DEF Typed
  <2>7. SeverityRank(v[1]) \in Int
    BY DEF SeverityRank
  <2> HIDE DEF v
  <2>8. SortKey(dir, pos, v) \in [1 .. 7 -> Int]
    BY <2>4, <2>5, <2>6, <2>7 DEF SortKey
  <2> QED
    BY <2>2, <2>8 DEF v
<1> QED
  BY <1>1, <1>2 DEF Keys

(* RunAll sorts: each violation has a row, there are no others, and each row comes *)
(* before the next by severity, rule, name and place, so none has two rows, for    *)
(* manifests of any size (RunAll in registry.go).                                  *)
THEOREM RunAllRows ==
  ASSUME NEW dir, Readable(dir)
  PROVE  LET rows == RunAll(dir)
             size == Cardinality(Keys(dir))
         IN /\ size \in Nat
            /\ rows \in [1 .. size -> Keys(dir)]
            /\ \A k \in Keys(dir) : \E n \in 1 .. size : rows[n] = k
            /\ \A n \in 1 .. size : \A m \in 1 .. n - 1 : Before(rows[m], rows[n])
<1>1. RunAll(dir) = Sorted(Keys(dir))
  BY DEF RunAll, Sorted, Ranks, Keys
<1>2. IsFiniteSet(Keys(dir)) /\ Keys(dir) \in SUBSET [1 .. 7 -> Int]
  BY KeysTyped
<1>3. 7 \in Nat
  OBVIOUS
<1> QED
  BY <1>1, <1>2, <1>3, SortedRows

(* A row tells where it was found, and its severity is that of its rule. *)
LEMMA RowOfFinding ==
  ASSUME NEW dir, Readable(dir), NEW k \in Keys(dir)
  PROVE  /\ k \in [1 .. 7 -> Int]
         /\ k[1] = SeverityRank(k[2])
         /\ \E pos \in Parse(dir) : \E v \in Check(At(dir, pos), Resources(dir)) :
              k = SortKey(dir, pos, v) /\ v[1] = k[2] /\ pos = <<k[4], k[5]>>
<1>1. PICK x \in Violations(dir) : k = SortKey(dir, x[1], x[2])
  BY DEF Keys
<1>2. PICK pos \in Parse(dir) : x \in {pos} \X Check(At(dir, pos), Resources(dir))
  BY DEF Violations
<1> DEFINE v == x[2]
<1>3. x[1] = pos /\ v \in Check(At(dir, pos), Resources(dir))
  BY <1>2
<1>4. pos \in Int \X Int
  BY PositionsFinite
<1>5. k = SortKey(dir, pos, v)
  BY <1>1, <1>3
<1> HIDE DEF v
<1>6. k[1] = SeverityRank(k[2]) /\ v[1] = k[2] /\ pos = <<k[4], k[5]>>
  BY <1>4, <1>5 DEF SortKey
<1>7. k \in [1 .. 7 -> Int]
  BY KeysTyped
<1> QED
  BY <1>3, <1>5, <1>6, <1>7

LEMMA FindingHasRow ==
  ASSUME NEW dir, Readable(dir), NEW pos \in Parse(dir),
         NEW v \in Check(At(dir, pos), Resources(dir))
  PROVE  \E n \in DOMAIN RunAll(dir) : RunAll(dir)[n] = SortKey(dir, pos, v)
<1>1. <<pos, v>> \in Violations(dir)
  BY DEF Violations
<1>2. SortKey(dir, pos, v) \in Keys(dir)
  BY <1>1 DEF Keys
<1> QED
  BY <1>2, RunAllRows

(* No critical rule looks beyond its resource. *)
Critical(d) == \E v \in OwnChecks(d) : v[1] <= 4

LEMMA CriticalIsOwn ==
  ASSUME NEW d, Typed(d), NEW all
  PROVE  Critical(d) <=> \E v \in Check(d, all) : SeverityRank(v[1]) = 0
<1>1. ASSUME NEW v \in Check(d, all), SeverityRank(v[1]) = 0
      PROVE  v \in OwnChecks(d) /\ v[1] <= 4
  <2>1. v[1] \in Int
    BY ChecksPlaces
  <2>2. v[1] <= 4
    BY <1>1, <2>1 DEF SeverityRank
  <2>3. v \notin {7} \X MissingPDB(d, all) /\ v \notin {10} \X NoNetworkPolicy(d, all)
    BY <2>2
  <2> QED
    BY <2>2, <2>3 DEF Check
<1>2. ASSUME NEW v \in OwnChecks(d), v[1] <= 4
      PROVE  v \in Check(d, all) /\ SeverityRank(v[1]) = 0
  BY <1>2 DEF Check, SeverityRank
<1> QED
  BY <1>1, <1>2 DEF Critical

LEMMA CriticalRows ==
  ASSUME NEW dir, Readable(dir)
  PROVE  (\E n \in DOMAIN RunAll(dir) : RunAll(dir)[n][1] = 0)
           <=> \E pos \in Parse(dir) : Critical(At(dir, pos))
<1> DEFINE rows == RunAll(dir)
<1>1. ASSUME NEW n \in DOMAIN rows, rows[n][1] = 0
      PROVE  \E pos \in Parse(dir) : Critical(At(dir, pos))
  <2>1. rows[n] \in Keys(dir)
    BY RunAllRows
  <2>2. PICK pos \in Parse(dir) : \E v \in Check(At(dir, pos), Resources(dir)) :
          v[1] = rows[n][2]
    BY <2>1, RowOfFinding
  <2>3. \E v \in Check(At(dir, pos), Resources(dir)) : SeverityRank(v[1]) = 0
    BY <1>1, <2>1, <2>2, RowOfFinding
  <2>4. Typed(At(dir, pos))
    BY DEF Readable
  <2> QED
    BY <2>3, <2>4, CriticalIsOwn
<1>2. ASSUME NEW pos \in Parse(dir), Critical(At(dir, pos))
      PROVE  \E n \in DOMAIN rows : rows[n][1] = 0
  <2>1. Typed(At(dir, pos))
    BY DEF Readable
  <2>2. PICK v \in Check(At(dir, pos), Resources(dir)) : SeverityRank(v[1]) = 0
    BY <1>2, <2>1, CriticalIsOwn
  <2>3. PICK n \in DOMAIN rows : rows[n] = SortKey(dir, pos, v)
    BY FindingHasRow
  <2>4. SortKey(dir, pos, v)[1] = 0
    BY <2>2 DEF SortKey
  <2> QED
    BY <2>3, <2>4
<1> QED
  BY <1>1, <1>2

-------------------------------------------------------------------------------
(* The groups of the table. *)

(* Between two rows of the table, one after the other by Before. *)
LEMMA RowsByRuleAndName ==
  ASSUME NEW a \in [1 .. 7 -> Int], NEW b \in [1 .. 7 -> Int], Before(a, b),
         a[1] = SeverityRank(a[2]), b[1] = SeverityRank(b[2])
  PROVE  /\ a[1] <= b[1]
         /\ a[2] < b[2] \/ (a[2] = b[2] /\ a[3] <= b[3])
<1>1. PICK n \in 1 .. 7 : a[n] < b[n] /\ \A m \in 1 .. n - 1 : a[m] = b[m]
  BY DEF Before
<1>2. \A i \in 1 .. 7 : a[i] \in Int /\ b[i] \in Int
  OBVIOUS
<1>3. CASE n = 1
  <2>1. a[2] < b[2]
    BY <1>1, <1>2, <1>3 DEF SeverityRank
  <2> QED
    BY <1>1, <1>2, <1>3, <2>1
<1>4. CASE n = 2
  BY <1>1, <1>2, <1>4
<1>5. CASE n >= 3
  <2>1. a[1] = b[1] /\ a[2] = b[2]
    BY <1>1, <1>5
  <2>2. a[3] <= b[3]
    BY <1>1, <1>2, <1>5
  <2> QED
    BY <1>2, <2>1, <2>2
<1> QED
  BY <1>3, <1>4, <1>5

LEMMA Groups ==
  ASSUME NEW N \in Nat, NEW rank \in [1 .. N -> 0 .. 2],
         \A n \in 1 .. N : \A m \in 1 .. n - 1 : rank[m] <= rank[n],
         NEW size,
         size = [k \in 0 .. 2 |-> Cardinality({n \in 1 .. N : rank[n] = k})]
  PROVE  /\ size[0] \in Nat /\ size[1] \in Nat /\ size[2] \in Nat
         /\ N = size[0] + size[1] + size[2]
         /\ \A n \in 1 .. N : /\ rank[n] = 0 <=> n <= size[0]
                              /\ rank[n] = 2 <=> n > size[0] + size[1]
<1> DEFINE Group(k) == {n \in 1 .. N : rank[n] = k}
           upper == Group(0) \cup Group(1)
<1>1. IsFiniteSet(1 .. N) /\ Cardinality(1 .. N) = N
  BY FS_Interval
<1>2. IsFiniteSet(Group(0)) /\ IsFiniteSet(Group(1)) /\ IsFiniteSet(Group(2))
  BY <1>1, FS_Subset
<1>3. /\ size[0] = Cardinality(Group(0)) /\ size[0] \in Nat
      /\ size[1] = Cardinality(Group(1)) /\ size[1] \in Nat
      /\ size[2] = Cardinality(Group(2)) /\ size[2] \in Nat
  BY <1>2, FS_CardinalityType
<1>4. IsFiniteSet(upper) /\ Cardinality(upper) = size[0] + size[1]
  <2>1. Group(0) \cap Group(1) = {}
    OBVIOUS
  <2> HIDE DEF Group
  <2>2. /\ IsFiniteSet(upper)
        /\ Cardinality(upper) = Cardinality(Group(0)) + Cardinality(Group(1)) - Cardinality({})
    BY <1>2, <2>1, FS_Union
  <2>3. Cardinality({}) = 0
    BY FS_EmptySet
  <2> HIDE DEF upper
  <2> QED
    BY <1>3, <2>2, <2>3
<1>5. N = size[0] + size[1] + size[2]
  <2>1. upper \cap Group(2) = {} /\ upper \cup Group(2) = 1 .. N
    OBVIOUS
  <2> HIDE DEF Group, upper
  <2>2. Cardinality(1 .. N) = Cardinality(upper) + Cardinality(Group(2)) - Cardinality({})
    BY <1>2, <1>4, <2>1, FS_Union
  <2>3. Cardinality({}) = 0
    BY FS_EmptySet
  <2> QED
    BY <1>1, <1>3, <1>4, <2>2, <2>3
<1>6. Group(0) = 1 .. size[0]
  <2>1. Group(0) \in SUBSET (1 .. N)
    OBVIOUS
  <2>2. \A n \in Group(0) : \A m \in 1 .. n - 1 : m \in Group(0)
    OBVIOUS
  <2> HIDE DEF Group
  <2> QED
    BY <1>3, <2>1, <2>2, FirstSoMany
<1>7. upper = 1 .. size[0] + size[1]
  <2>1. upper \in SUBSET (1 .. N)
    OBVIOUS
  <2>2. \A n \in upper : \A m \in 1 .. n - 1 : m \in upper
    OBVIOUS
  <2> HIDE DEF upper
  <2> QED
    BY <1>4, <2>1, <2>2, FirstSoMany
<1>8. ASSUME NEW n \in 1 .. N
      PROVE  /\ rank[n] = 0 <=> n <= size[0]
             /\ rank[n] = 2 <=> n > size[0] + size[1]
  <2>1. rank[n] = 0 <=> n \in Group(0)
    OBVIOUS
  <2>2. rank[n] = 2 <=> n \notin upper
    OBVIOUS
  <2> HIDE DEF Group, upper
  <2>3. n \in Group(0) <=> n <= size[0]
    BY <1>3, <1>6
  <2>4. n \in upper <=> n <= size[0] + size[1]
    BY <1>3, <1>7
  <2> QED
    BY <1>3, <2>1, <2>2, <2>3, <2>4
<1> QED
  BY <1>3, <1>5, <1>8

-------------------------------------------------------------------------------
(* Money *)

LEMMA Cancel ==
  ASSUME NEW d \in Nat \ {0}, NEW a \in Int, NEW b \in Int, d * a < d * b
  PROVE  a < b
<1> SUFFICES ASSUME b <= a PROVE d * b <= d * a
  OBVIOUS
<1> QED
  OBVIOUS

LEMMA Division ==
  ASSUME NEW d \in Nat \ {0}, NEW a \in Int
  PROVE  /\ a \div d \in Int
         /\ d * (a \div d) <= a
         /\ a < d * (a \div d + 1)
OBVIOUS

LEMMA DivisionMonotone ==
  ASSUME NEW d \in Nat \ {0}, NEW a \in Int, NEW b \in Int, a <= b
  PROVE  a \div d <= b \div d
<1> DEFINE x == a \div d  y == b \div d
<1>1. x \in Int /\ y \in Int /\ d * x <= a /\ b < d * (y + 1)
  BY Division
<1> HIDE DEF x, y
<1>2. d * x < d * (y + 1)
  BY <1>1
<1>3. x < y + 1
  BY <1>1, <1>2, Cancel
<1> QED
  BY <1>1, <1>3 DEF x, y

LEMMA CentFact == Cent \in Nat \ {0} /\ 2 * Cent \in Nat \ {0}
BY CostAssumption

LEMMA RoundType ==
  ASSUME NEW v \in Int
  PROVE  Round2(v) \in Int
<1>1. (2 * v + Cent) \div (2 * Cent) \in Int /\ (-(2 * v + Cent)) \div (2 * Cent) \in Int
  BY CentFact, Division
<1> QED
  BY <1>1 DEF Round2

LEMMA RoundMonotone ==
  ASSUME NEW v \in Int, NEW w \in Int, v <= w
  PROVE  Round2(v) <= Round2(w)
<1> DEFINE x == 2 * v + Cent
           y == 2 * w + Cent
           d == 2 * Cent
<1>1. x \in Int /\ y \in Int /\ x <= y /\ d \in Nat \ {0}
  BY CentFact
<1>2. /\ Round2(v) = IF x >= 0 THEN x \div d ELSE -((-x) \div d)
      /\ Round2(w) = IF y >= 0 THEN y \div d ELSE -((-y) \div d)
  BY DEF Round2
<1> HIDE DEF x, y, d
<1>3. CASE x >= 0
  BY <1>1, <1>2, <1>3, DivisionMonotone
<1>4. CASE x < 0 /\ y < 0
  <2>1. (-y) \div d <= (-x) \div d
    BY <1>1, DivisionMonotone
  <2>2. (-y) \div d \in Int /\ (-x) \div d \in Int
    BY <1>1, Division
  <2> QED
    BY <1>1, <1>2, <1>4, <2>1, <2>2
<1>5. CASE x < 0 /\ y >= 0
  <2>1. 0 \div d <= (-x) \div d /\ 0 \div d <= y \div d
    BY <1>1, <1>5, DivisionMonotone
  <2>2. 0 \div d = 0
    BY <1>1
  <2>3. (-x) \div d \in Int /\ y \div d \in Int
    BY <1>1, Division
  <2> QED
    BY <1>1, <1>2, <1>5, <2>1, <2>2, <2>3
<1> QED
  BY <1>1, <1>3, <1>4, <1>5

(* A figure that is not negative is rounded by half a cent at most. *)
LEMMA RoundNear ==
  ASSUME NEW v \in Nat
  PROVE  /\ Round2(v) \in Nat
         /\ -Cent <= 2 * (Cent * Round2(v) - v)
         /\ 2 * (Cent * Round2(v) - v) <= Cent
<1> DEFINE x == 2 * v + Cent
           d == 2 * Cent
           q == x \div d
<1>1. x \in Nat /\ d \in Nat \ {0}
  BY CentFact
<1>2. Round2(v) = q
  BY <1>1 DEF Round2
<1>3. q \in Int /\ d * q <= x /\ x < d * (q + 1)
  <2> HIDE DEF x, d
  <2> QED
    BY <1>1, Division
<1>4. 0 \div d <= q /\ 0 \div d = 0
  BY <1>1, DivisionMonotone
<1> HIDE DEF q
<1>5. d * q = 2 * (Cent * q) /\ d * (q + 1) = 2 * (Cent * q) + 2 * Cent /\ Cent * q \in Int
  BY <1>3, CentFact
<1> QED
  BY <1>2, <1>3, <1>4, <1>5, CentFact

LEMMA RoundWhole ==
  ASSUME NEW n \in Nat
  PROVE  Round2(Cent * n) = n
<1> DEFINE q == Round2(Cent * n)
<1>1. Cent * n \in Nat
  BY CentFact
<1>2. q \in Nat /\ -Cent <= 2 * (Cent * q - Cent * n) /\ 2 * (Cent * q - Cent * n) <= Cent
  BY <1>1, RoundNear
<1> HIDE DEF q
<1>3. Cent * (q - n) = Cent * q - Cent * n /\ Cent * q \in Int
  BY <1>2, CentFact
<1>4. Cent * (q - n) < Cent * 1 /\ Cent * (n - q) < Cent * 1
  BY <1>1, <1>2, <1>3, CentFact
<1>5. q - n < 1 /\ n - q < 1
  BY <1>2, <1>4, CentFact, Cancel
<1> QED
  BY <1>2, <1>5 DEF q

-------------------------------------------------------------------------------
(* The figures of the estimate *)

LEMMA AmountTyped ==
  ASSUME NEW list, Amounts(list), NEW x
  PROVE  Amount(list, x) \in Int
BY DEF Amounts, Amount

LEMMA TotalsAreSums ==
  ASSUME NEW r, NEW x
  PROVE  LET cs == AllContainers(r)
         IN /\ Requested(r, x) = Sum([i \in DOMAIN cs |-> Amount(cs[i].requests, x)], DOMAIN cs)
            /\ Limited(r, x) = Sum([i \in DOMAIN cs |-> HighEnd(cs[i], x)], DOMAIN cs)
BY DEF Requested, Limited, Total, SumFunction, Sum

LEMMA ContainersFinite ==
  ASSUME NEW r, Typed(r)
  PROVE  IsFiniteSet(DOMAIN AllContainers(r))
<1>1. Len(AllContainers(r)) \in Nat /\ DOMAIN AllContainers(r) = 1 .. Len(AllContainers(r))
  BY ContainersTyped
<1> QED
  BY <1>1, IntervalFinite

LEMMA ContainerAmounts ==
  ASSUME NEW r, Typed(r), NEW i \in DOMAIN AllContainers(r), NEW x
  PROVE  /\ Amount(AllContainers(r)[i].requests, x) \in Int
         /\ HighEnd(AllContainers(r)[i], x) \in Int
<1> DEFINE c == AllContainers(r)[i]
<1>1. Amounts(c.requests) /\ Amounts(c.limits)
  BY ContainersTyped
<1> HIDE DEF c
<1>2. Amount(c.requests, x) \in Int /\ Amount(c.limits, x) \in Int
  BY <1>1, AmountTyped
<1>3. HighEnd(c, x) \in Int
  BY <1>2 DEF HighEnd
<1> QED
  BY <1>2, <1>3 DEF c

LEMMA TotalsTyped ==
  ASSUME NEW r, Typed(r), NEW x
  PROVE  Requested(r, x) \in Int /\ Limited(r, x) \in Int
<1> DEFINE cs == AllContainers(r)
           f == [i \in DOMAIN cs |-> Amount(cs[i].requests, x)]
           g == [i \in DOMAIN cs |-> HighEnd(cs[i], x)]
<1>1. Requested(r, x) = Sum(f, DOMAIN cs) /\ Limited(r, x) = Sum(g, DOMAIN cs)
  BY TotalsAreSums
<1>2. \A i \in DOMAIN cs : f[i] \in Int /\ g[i] \in Int
  BY ContainerAmounts
<1>3. IsFiniteSet(DOMAIN cs)
  BY ContainersFinite
<1> HIDE DEF f, g, cs
<1> QED
  BY <1>1, <1>2, <1>3, SumType

(* The low end is below the high end if it is so in each container. *)
LEMMA RequestedBelowLimited ==
  ASSUME NEW r, Typed(r), NEW x,
         \A i \in DOMAIN AllContainers(r) :
           Amount(AllContainers(r)[i].requests, x) <= HighEnd(AllContainers(r)[i], x)
  PROVE  Requested(r, x) <= Limited(r, x)
<1> DEFINE cs == AllContainers(r)
           f == [i \in DOMAIN cs |-> Amount(cs[i].requests, x)]
           g == [i \in DOMAIN cs |-> HighEnd(cs[i], x)]
<1>1. Requested(r, x) = Sum(f, DOMAIN cs) /\ Limited(r, x) = Sum(g, DOMAIN cs)
  BY TotalsAreSums
<1>2. \A i \in DOMAIN cs : f[i] \in Int /\ g[i] \in Int /\ f[i] <= g[i]
  BY ContainerAmounts
<1>3. IsFiniteSet(DOMAIN cs)
  BY ContainersFinite
<1> HIDE DEF f, g, cs
<1> QED
  BY <1>1, <1>2, <1>3, SumMonotone

LEMMA RatesPositive ==
  ASSUME NEW cloud \in Clouds
  PROVE  /\ Pricing[cloud].vcpuHour \in Nat \ {0}
         /\ Pricing[cloud].gibHour \in Nat \ {0}
         /\ Pricing[cloud].hoursPerMonth \in Nat \ {0}
BY CostAssumption

LEMMA ProductMonotone ==
  ASSUME NEW a \in Int, NEW b \in Int, NEW k \in Nat, a <= b
  PROVE  a * k <= b * k
OBVIOUS

LEMMA PriceMonotone ==
  ASSUME NEW cloud \in Clouds, NEW a \in Int, NEW b \in Int, NEW c \in Int, NEW d \in Int,
         NEW k \in Nat, a <= c, b <= d
  PROVE  MonthlyPrice(Pricing[cloud], a, b, k) <= MonthlyPrice(Pricing[cloud], c, d, k)
<1> DEFINE p == Pricing[cloud].vcpuHour  q == Pricing[cloud].gibHour  h == Pricing[cloud].hoursPerMonth
<1>1. p \in Nat /\ q \in Nat /\ h \in Nat
  BY RatesPositive
<1>2. /\ MonthlyPrice(Pricing[cloud], a, b, k) = (a * p + b * q) * h * k
      /\ MonthlyPrice(Pricing[cloud], c, d, k) = (c * p + d * q) * h * k
  BY DEF MonthlyPrice
<1> HIDE DEF p, q, h
<1>3. a * p <= c * p /\ b * q <= d * q
  BY <1>1, ProductMonotone
<1> DEFINE x == a * p + b * q  y == c * p + d * q
<1>4. x \in Int /\ y \in Int /\ x <= y
  <2>1. a * p \in Int /\ b * q \in Int /\ c * p \in Int /\ d * q \in Int
    BY <1>1
  <2> QED
    BY <1>3, <2>1
<1> HIDE DEF x, y
<1>5. x * h \in Int /\ y * h \in Int /\ x * h <= y * h
  BY <1>1, <1>4, ProductMonotone
<1>6. x * h * k <= y * h * k
  BY <1>5, ProductMonotone
<1> QED
  BY <1>2, <1>6 DEF x, y

LEMMA PriceTyped ==
  ASSUME NEW cloud \in Clouds, NEW a \in Int, NEW b \in Int, NEW k \in Int
  PROVE  MonthlyPrice(Pricing[cloud], a, b, k) \in Int
BY RatesPositive DEF MonthlyPrice

LEMMA ReplicasTyped ==
  ASSUME NEW r, Typed(r), IsWorkload(r)
  PROVE  Replicas(r) \in Int
BY DEF Typed, Replicas

LEMMA StorageRateTyped ==
  ASSUME NEW cloud \in Clouds, NEW class
  PROVE  StorageRate(Pricing[cloud], class) \in Nat
<1> DEFINE table == Pricing[cloud].storage
<1>1. "default" \in DOMAIN table /\ \A x \in DOMAIN table : table[x] \in Nat
  BY CostAssumption DEF Range
<1> HIDE DEF table
<1>2. (IF class \in DOMAIN table THEN table[class] ELSE table["default"]) \in Nat
  BY <1>1
<1> QED
  BY <1>2 DEF StorageRate, table

Priced(dir) ==
  {pos \in Parse(dir) : IsWorkload(At(dir, pos)) \/ At(dir, pos).kind = "PersistentVolumeClaim"}

LineOf(dir, cloud) ==
  [pos \in Priced(dir) |->
     IF IsWorkload(At(dir, pos)) THEN EstimateWorkload(dir, pos, Pricing[cloud])
                                 ELSE EstimateStorage(dir, pos, Pricing[cloud])]

Lines(dir, cloud) == {LineOf(dir, cloud)[pos] : pos \in Priced(dir)}
LowOf(dir, cloud) == [pos \in Priced(dir) |-> LineOf(dir, cloud)[pos].low]
HighOf(dir, cloud) == [pos \in Priced(dir) |-> LineOf(dir, cloud)[pos].high]

LEMMA EstimateParts ==
  ASSUME NEW dir, NEW cloud
  PROVE  LET est == EstimateManifest(dir, cloud)
         IN /\ est.lines = Lines(dir, cloud)
            /\ est.low = Round2(Cent * Sum(LowOf(dir, cloud), Priced(dir)))
            /\ est.high = Round2(Cent * Sum(HighOf(dir, cloud), Priced(dir)))
<1>1. SumFunction(LowOf(dir, cloud)) = Sum(LowOf(dir, cloud), Priced(dir))
  BY DEF SumFunction, Sum, LowOf
<1>2. SumFunction(HighOf(dir, cloud)) = Sum(HighOf(dir, cloud), Priced(dir))
  BY DEF SumFunction, Sum, HighOf
<1>3. EstimateManifest(dir, cloud) =
        [lines |-> Lines(dir, cloud),
         low |-> Round2(Cent * SumFunction(LowOf(dir, cloud))),
         high |-> Round2(Cent * SumFunction(HighOf(dir, cloud)))]
  BY DEF EstimateManifest, Lines, LowOf, HighOf, LineOf, Priced
<1> QED
  BY <1>1, <1>2, <1>3

LEMMA LineOfWorkload ==
  ASSUME NEW dir, NEW cloud, NEW pos \in Priced(dir), IsWorkload(At(dir, pos))
  PROVE  LET r == At(dir, pos)
             l == LineOf(dir, cloud)[pos]
         IN /\ l.pos = pos
            /\ l.exactLow = MonthlyPrice(Pricing[cloud], Requested(r, "cpu"), Requested(r, "memory"), Replicas(r))
            /\ l.exactHigh = MonthlyPrice(Pricing[cloud], Limited(r, "cpu"), Limited(r, "memory"), Replicas(r))
            /\ l.low = Round2(l.exactLow) /\ l.high = Round2(l.exactHigh)
            /\ l.note <=> \A x \in {"cpu", "memory"} : Requested(r, x) = 0 /\ Limited(r, x) = 0
<1>1. LineOf(dir, cloud)[pos] = EstimateWorkload(dir, pos, Pricing[cloud])
  BY DEF LineOf
<1> QED
  BY <1>1 DEF EstimateWorkload, Line

LEMMA LineOfClaim ==
  ASSUME NEW dir, NEW cloud, NEW pos \in Priced(dir), ~IsWorkload(At(dir, pos))
  PROVE  LET r == At(dir, pos)
             l == LineOf(dir, cloud)[pos]
         IN /\ l.pos = pos
            /\ l.exactLow = r.size * StorageRate(Pricing[cloud], r.storageClassName)
            /\ l.exactHigh = l.exactLow
            /\ l.low = Round2(l.exactLow) /\ l.high = l.low
<1>1. LineOf(dir, cloud)[pos] = EstimateStorage(dir, pos, Pricing[cloud])
  BY DEF LineOf
<1> QED
  BY <1>1 DEF EstimateStorage, Line

LEMMA LineTyped ==
  ASSUME NEW dir, Readable(dir), NEW cloud \in Clouds, NEW pos \in Priced(dir)
  PROVE  LET l == LineOf(dir, cloud)[pos]
         IN /\ l.pos = pos
            /\ l.exactLow \in Int /\ l.exactHigh \in Int
            /\ l.low = Round2(l.exactLow) /\ l.high = Round2(l.exactHigh)
            /\ l.low \in Int /\ l.high \in Int
<1> DEFINE r == At(dir, pos)
           l == LineOf(dir, cloud)[pos]
<1>1. Typed(r)
  BY DEF Readable, Priced
<1>2. CASE IsWorkload(r)
  <2>1. /\ l.pos = pos /\ l.low = Round2(l.exactLow) /\ l.high = Round2(l.exactHigh)
        /\ l.exactLow = MonthlyPrice(Pricing[cloud], Requested(r, "cpu"), Requested(r, "memory"), Replicas(r))
        /\ l.exactHigh = MonthlyPrice(Pricing[cloud], Limited(r, "cpu"), Limited(r, "memory"), Replicas(r))
    BY <1>2, LineOfWorkload
  <2> HIDE DEF r, l
  <2>2. /\ Requested(r, "cpu") \in Int /\ Requested(r, "memory") \in Int
        /\ Limited(r, "cpu") \in Int /\ Limited(r, "memory") \in Int
        /\ Replicas(r) \in Int
    BY <1>1, <1>2, TotalsTyped, ReplicasTyped
  <2>3. l.exactLow \in Int /\ l.exactHigh \in Int
    BY <2>1, <2>2, PriceTyped
  <2> QED
    BY <2>1, <2>3, RoundType DEF l
<1>3. CASE ~IsWorkload(r)
  <2>1. /\ l.pos = pos /\ l.low = Round2(l.exactLow) /\ l.high = Round2(l.exactHigh)
        /\ l.exactLow = r.size * StorageRate(Pricing[cloud], r.storageClassName)
        /\ l.exactHigh = l.exactLow
    BY <1>3, LineOfClaim
  <2>2. r.kind = "PersistentVolumeClaim"
    BY <1>3 DEF Priced
  <2> HIDE DEF r, l
  <2>3. r.size \in Int
    BY <1>1, <2>2 DEF Typed
  <2>4. StorageRate(Pricing[cloud], r.storageClassName) \in Nat
    BY StorageRateTyped
  <2>5. l.exactLow \in Int /\ l.exactHigh \in Int
    BY <2>1, <2>3, <2>4
  <2> QED
    BY <2>1, <2>5, RoundType DEF l
<1> QED
  BY <1>2, <1>3

LEMMA PricedFinite ==
  ASSUME NEW dir, Readable(dir)
  PROVE  IsFiniteSet(Priced(dir))
<1>1. Priced(dir) \in SUBSET Parse(dir)
  BY DEF Priced
<1> QED
  BY <1>1, PositionsFinite, FS_Subset

(* Each priced resource has a line of its own. *)
LEMMA LinesAreDistinct ==
  ASSUME NEW dir, Readable(dir), NEW cloud \in Clouds
  PROVE  /\ LineOf(dir, cloud) \in Injection(Priced(dir), Lines(dir, cloud))
         /\ IsFiniteSet(Lines(dir, cloud))
         /\ Cardinality(Lines(dir, cloud)) = Cardinality(Priced(dir))
<1> DEFINE f == LineOf(dir, cloud)
           P == Priced(dir)
           L == Lines(dir, cloud)
<1>1. f \in [P -> L] /\ \A l \in L : \E pos \in P : f[pos] = l
  BY DEF LineOf, Lines
<1>2. \A x, y \in P : f[x] = f[y] => x = y
  BY LineTyped
<1>3. IsFiniteSet(P)
  BY PricedFinite
<1> HIDE DEF f, P, L
<1>4. f \in Injection(P, L) /\ f \in Surjection(P, L)
  BY <1>1, <1>2 DEF Injection, Surjection, IsInjective
<1>5. IsFiniteSet(L) /\ Cardinality(L) = Cardinality(P)
  BY <1>3, <1>4, FS_Surjection
<1> QED
  BY <1>4, <1>5 DEF f, P, L

(* Rounding each figure and the sum of the rounded ones again costs at most half a *)
(* cent a figure: figures e, rounded f (round2, as EstimateManifest uses it).      *)
THEOREM RoundedTotal ==
  ASSUME NEW P, IsFiniteSet(P), NEW e, NEW f,
         \A x \in P : e[x] \in Nat /\ f[x] = Round2(e[x])
  PROVE  LET total == Round2(Cent * Sum(f, P))
         IN /\ total \in Int /\ Sum(e, P) \in Int
            /\ -(Cent * Cardinality(P)) <= 2 * (Cent * total - Sum(e, P))
            /\ 2 * (Cent * total - Sum(e, P)) <= Cent * Cardinality(P)
<1>1. \A x \in P : /\ e[x] \in Int /\ f[x] \in Nat
                   /\ -Cent <= 2 * (Cent * f[x] - e[x])
                   /\ 2 * (Cent * f[x] - e[x]) <= Cent
  <2> SUFFICES ASSUME NEW x \in P
               PROVE  /\ e[x] \in Int /\ f[x] \in Nat
                      /\ -Cent <= 2 * (Cent * f[x] - e[x])
                      /\ 2 * (Cent * f[x] - e[x]) <= Cent
    OBVIOUS
  <2>1. e[x] \in Nat /\ f[x] = Round2(e[x])
    OBVIOUS
  <2> QED
    BY <2>1, RoundNear
<1>2. Sum(f, P) \in Nat /\ Sum(e, P) \in Int
  BY <1>1, SumOfNaturals, SumType
<1>3. Round2(Cent * Sum(f, P)) = Sum(f, P)
  BY <1>2, RoundWhole
<1>4. /\ -(Cent * Cardinality(P)) <= 2 * (Cent * Sum(f, P) - Sum(e, P))
      /\ 2 * (Cent * Sum(f, P) - Sum(e, P)) <= Cent * Cardinality(P)
  <2>1. Cent \in Nat
    BY CentFact
  <2>2. \A x \in P : /\ f[x] \in Int /\ e[x] \in Int
                     /\ -Cent <= 2 * (Cent * f[x] - e[x])
                     /\ 2 * (Cent * f[x] - e[x]) <= Cent
    BY <1>1
  <2> QED
    BY <2>1, <2>2, SumOfRounded
<1> QED
  BY <1>2, <1>3, <1>4

(* The sum of a figure over the lines is its sum over what is priced. *)
LEMMA SumOverLines ==
  ASSUME NEW dir, Readable(dir), NEW cloud \in Clouds, NEW figure, NEW of,
         \A pos \in Priced(dir) :
           of[pos] \in Int /\ figure[LineOf(dir, cloud)[pos]] = of[pos]
  PROVE  Sum(figure, Lines(dir, cloud)) = Sum(of, Priced(dir))
<1> DEFINE h == LineOf(dir, cloud)
           P == Priced(dir)
           L == Lines(dir, cloud)
<1>1. h \in Injection(P, L) /\ IsFiniteSet(P) /\ L = {h[pos] : pos \in P}
  BY LinesAreDistinct, PricedFinite DEF Lines
<1>2. \A pos \in P : of[pos] \in Int /\ figure[h[pos]] = of[pos]
  OBVIOUS
<1> HIDE DEF h, P, L
<1>3. Sum(figure, {h[pos] : pos \in P}) = Sum(of, P)
  BY <1>1, <1>2, SumRenamed
<1> QED
  BY <1>1, <1>3 DEF h, P, L
=============================================================================
