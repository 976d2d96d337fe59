------------------------------ MODULE FoldFacts ------------------------------
(* Induction over finite sets and the existence of functions defined by      *)
(* recursion over them, stated about sets and functions, so that a fold of   *)
(* the community modules can be reasoned about one element at a time.        *)
EXTENDS Integers, Sequences, FiniteSets, FiniteSetTheorems, WellFoundedInduction, TLAPS

\* A set of natural numbers with 0 and with the successor of each of its
\* elements is the set of all of them.
LEMMA NatSetInduction ==
    ASSUME NEW T \in SUBSET Nat, 0 \in T, \A n \in T : n + 1 \in T
    PROVE  T = Nat
<1> DEFINE Rest == Nat \ T
<1>1. SUFFICES ASSUME Rest # {} PROVE FALSE
  OBVIOUS
<1>2. PICK x \in Rest : \A y \in Rest : ~ (<<y, x>> \in OpToRel(<, Nat))
  <2> HIDE DEF Rest
  <2>1. Rest \subseteq Nat
    BY DEF Rest
  <2> QED  BY <1>1, <2>1, NatLessThanWellFounded, WFMin
<1>3. \A y \in Rest : ~(y < x)
  BY <1>2 DEF OpToRel
<1>4. x - 1 \in Nat /\ x - 1 \notin Rest
  BY <1>3
<1> QED  BY <1>4

\* A property that a set has when each set with one element less has it is a
\* property of every subset of a finite set.
LEMMA SetInduction ==
    ASSUME NEW S, IsFiniteSet(S), NEW T \in SUBSET (SUBSET S),
           \A s \in SUBSET S : (\A x \in s : s \ {x} \in T) => s \in T
    PROVE  T = SUBSET S
<1> DEFINE Good == {n \in Nat : \A s \in SUBSET S : Cardinality(s) = n => s \in T}
<1>0. \A s \in SUBSET S : IsFiniteSet(s) /\ Cardinality(s) \in Nat
  BY FS_Subset, FS_CardinalityType
<1>0a. \A s \in SUBSET S : Cardinality(s) = 0 => s = {}
  BY <1>0, FS_EmptySet
<1>1. 0 \in Good
  BY <1>0a
<1>2. ASSUME NEW n \in Good
      PROVE  n + 1 \in Good
  <2>1. SUFFICES ASSUME NEW s \in SUBSET S, Cardinality(s) = n + 1
                 PROVE  s \in T
    OBVIOUS
  <2>2. ASSUME NEW x \in s
        PROVE  s \ {x} \in T
    <3>1. IsFiniteSet(s) /\ n \in Nat
      BY <1>0
    <3>2. Cardinality(s \ {x}) = Cardinality(s) - 1
      BY <3>1, FS_RemoveElement
    <3>3. Cardinality(s \ {x}) = n
      BY <2>1, <3>1, <3>2
    <3> QED  BY <3>3
  <2> QED  BY <2>2
<1>3. Good = Nat
  <2> HIDE DEF Good
  <2>1. Good \in SUBSET Nat
    BY DEF Good
  <2> QED  BY <1>1, <1>2, <2>1, NatSetInduction
<1> QED  BY <1>0, <1>3

\* ch names an element of each subset of S that has one.
Chooses(ch, S) == \A s \in SUBSET S : s # {} => ch[s] \in s

\* g is defined on the subsets of S by taking out what ch names: base for the
\* empty set, and h of the element and of the value for the rest.
IsRecursion(g, S, D, base, ch, h) ==
    /\ g \in [SUBSET S -> D]
    /\ \A s \in SUBSET S : g[s] = IF s = {} THEN base ELSE h[<<ch[s], g[s \ {ch[s]}]>>]

\* Such a function exists.
LEMMA SetRecursion ==
    ASSUME NEW S, IsFiniteSet(S), NEW D, NEW base \in D,
           NEW ch, Chooses(ch, S), NEW h \in [S \X D -> D]
    PROVE  \E g : IsRecursion(g, S, D, base, ch, h)
<1> USE DEF Chooses
<1> DEFINE Below(n) == {s \in SUBSET S : Cardinality(s) <= n}
           Solves(g, n) == \A s \in Below(n) :
                              g[s] = IF s = {} THEN base ELSE h[<<ch[s], g[s \ {ch[s]}]>>]
           Good == {n \in Nat : \E g \in [SUBSET S -> D] : Solves(g, n)}
<1>0. \A s \in SUBSET S : IsFiniteSet(s) /\ Cardinality(s) \in Nat
  BY FS_Subset, FS_CardinalityType
<1>0a. \A s \in SUBSET S : Cardinality(s) = 0 <=> s = {}
  BY <1>0, FS_EmptySet
<1>1. 0 \in Good
  <2>1. Solves([s \in SUBSET S |-> base], 0)
    BY <1>0, <1>0a
  <2>2. [s \in SUBSET S |-> base] \in [SUBSET S -> D]
    OBVIOUS
  <2> QED  BY <2>1, <2>2
<1>2. ASSUME NEW n \in Good
      PROVE  n + 1 \in Good
  <2>1. PICK g \in [SUBSET S -> D] : Solves(g, n)
    OBVIOUS
  <2> DEFINE G == [s \in SUBSET S |->
                      IF s = {} THEN base ELSE h[<<ch[s], g[s \ {ch[s]}]>>]]
  <2>2. G \in [SUBSET S -> D]
    <3>1. ASSUME NEW s \in SUBSET S, s # {}
          PROVE  h[<<ch[s], g[s \ {ch[s]}]>>] \in D
      BY <3>1
    <3> QED  BY <3>1
  <2>3. ASSUME NEW s \in Below(n)
        PROVE  G[s] = g[s]
    BY <2>1
  <2>4. ASSUME NEW s \in Below(n + 1), s # {}
        PROVE  s \ {ch[s]} \in Below(n)
    BY <1>0, <2>4, FS_RemoveElement
  <2>5. Solves(G, n + 1)
    <3>1. SUFFICES ASSUME NEW s \in Below(n + 1)
                   PROVE  G[s] = IF s = {} THEN base ELSE h[<<ch[s], G[s \ {ch[s]}]>>]
      OBVIOUS
    <3>2. s # {} => G[s \ {ch[s]}] = g[s \ {ch[s]}]
      BY <2>3, <2>4
    <3>3. G[s] = IF s = {} THEN base ELSE h[<<ch[s], g[s \ {ch[s]}]>>]
      OBVIOUS
    <3> HIDE DEF G
    <3> QED  BY <3>2, <3>3
  <2> HIDE DEF G, Solves
  <2> QED  BY <2>2, <2>5
<1>3. Good = Nat
  <2> HIDE DEF Good
  <2>1. Good \in SUBSET Nat
    BY DEF Good
  <2> QED  BY <1>1, <1>2, <2>1, NatSetInduction
<1>4. Cardinality(S) \in Good /\ \A s \in SUBSET S : s \in Below(Cardinality(S))
  BY <1>3, FS_CardinalityType, FS_Subset
<1> QED
  <2>1. PICK g \in [SUBSET S -> D] : Solves(g, Cardinality(S))
    BY <1>4
  <2>2. IsRecursion(g, S, D, base, ch, h)
    BY <1>4, <2>1 DEF IsRecursion
  <2> QED  BY <2>2

-----------------------------------------------------------------------------
(* Sums.                                                                     *)

\* g gives the sum of f over each subset of S, whichever element is taken
\* out first.
IsSum(g, S, f) ==
    /\ g \in [SUBSET S -> Int]
    /\ g[{}] = 0
    /\ \A s \in SUBSET S : \A x \in s : g[s] = f[x] + g[s \ {x}]

\* it adds up f over the subsets of S, one chosen element at a time, as long
\* as what it found is a number.
AddsUp(it, S, f, ch) ==
    /\ it = [s \in SUBSET S |-> it[s]]
    /\ it[{}] = 0
    /\ \A s \in SUBSET S : s # {} /\ it[s \ {ch[s]}] \in Int
                              => it[s] = f[ch[s]] + it[s \ {ch[s]}]

\* Then it is a sum of f: the order does not matter.
LEMMA AddsUpIsSum ==
    ASSUME NEW S, IsFiniteSet(S), NEW f \in [S -> Int],
           NEW ch, Chooses(ch, S), NEW g, AddsUp(g, S, f, ch)
    PROVE  IsSum(g, S, f)
<1> DEFINE N == {s \in SUBSET S : g[s] \in Int}
           T == {s \in SUBSET S : \A x \in s : g[s] = f[x] + g[s \ {x}]}
<1>1. g \in [SUBSET S -> Int]
  <2>1. ASSUME NEW s \in SUBSET S, \A x \in s : s \ {x} \in N
        PROVE  s \in N
    <3>1. s # {} => ch[s] \in s /\ g[s \ {ch[s]}] \in Int
      BY <2>1 DEF Chooses
    <3>2. s # {} => f[ch[s]] \in Int /\ g[s] = f[ch[s]] + g[s \ {ch[s]}]
      BY <3>1 DEF AddsUp
    <3>3. s = {} => g[s] \in Int
      BY DEF AddsUp
    <3> QED  BY <3>1, <3>2, <3>3
  <2>2. N = SUBSET S
    <3> HIDE DEF N
    <3>1. N \in SUBSET (SUBSET S)
      BY DEF N
    <3> QED  BY <2>1, <3>1, SetInduction
  <2>3. \A s \in SUBSET S : g[s] \in Int
    BY <2>2
  <2> QED  BY <2>3 DEF AddsUp
<1>2. \A s \in SUBSET S : s # {} => ch[s] \in s /\ g[s] = f[ch[s]] + g[s \ {ch[s]}]
  BY <1>1 DEF AddsUp, Chooses
<1>3. ASSUME NEW s \in SUBSET S, \A x \in s : s \ {x} \in T
      PROVE  s \in T
  <2>1. SUFFICES ASSUME NEW x \in s PROVE g[s] = f[x] + g[s \ {x}]
    OBVIOUS
  <2> DEFINE y == ch[s]
  <2>2. y \in s /\ g[s] = f[y] + g[s \ {y}]
    BY <1>2, <2>1
  <2> HIDE DEF y
  <2>3. CASE x # y
    <3>1. g[s \ {y}] = f[x] + g[(s \ {y}) \ {x}] /\ g[s \ {x}] = f[y] + g[(s \ {x}) \ {y}]
      BY <1>3, <2>2, <2>3
    <3>2. (s \ {y}) \ {x} = (s \ {x}) \ {y}
      OBVIOUS
    <3>3. x \in S /\ y \in S /\ (s \ {x}) \ {y} \in SUBSET S
      BY <2>2
    <3>4. f[x] \in Int /\ f[y] \in Int /\ g[(s \ {x}) \ {y}] \in Int
      BY <1>1, <3>3
    <3>5. g[s \ {y}] = f[x] + g[(s \ {x}) \ {y}]
      BY <3>1, <3>2
    <3> QED  BY <2>2, <3>1, <3>4, <3>5
  <2> QED  BY <2>2, <2>3
<1>4. T = SUBSET S
  <2> HIDE DEF T
  <2>1. T \in SUBSET (SUBSET S)
    BY DEF T
  <2> QED  BY <1>3, <2>1, SetInduction
<1>5. g[{}] = 0
  BY DEF AddsUp
<1> QED  BY <1>1, <1>4, <1>5 DEF IsSum

\* There is such a sum.
LEMMA SumExists ==
    ASSUME NEW S, IsFiniteSet(S), NEW f \in [S -> Int], NEW ch, Chooses(ch, S)
    PROVE  \E g : AddsUp(g, S, f, ch) /\ IsSum(g, S, f)
<1> DEFINE h == [p \in S \X Int |-> f[p[1]] + p[2]]
<1>1. h \in [S \X Int -> Int]
  OBVIOUS
<1>2. PICK g : IsRecursion(g, S, Int, 0, ch, h)
  <2> HIDE DEF h
  <2> QED  BY <1>1, SetRecursion
<1>3. ASSUME NEW s \in SUBSET S, s # {}
      PROVE  g[s] = f[ch[s]] + g[s \ {ch[s]}]
  BY <1>2, <1>3 DEF IsRecursion, Chooses
<1>4. AddsUp(g, S, f, ch)
  <2> HIDE DEF h
  <2> QED  BY <1>2, <1>3 DEF IsRecursion, AddsUp
<1> QED  BY <1>4, AddsUpIsSum

\* One element is taken out.
LEMMA SumStep ==
    ASSUME NEW S, NEW f, NEW g, IsSum(g, S, f),
           NEW s \in SUBSET S, NEW x \in s, NEW rest, rest = s \ {x}
    PROVE  g[s] = f[x] + g[rest]
  BY DEF IsSum

\* The sum of what is less is less.
LEMMA SumsCompare ==
    ASSUME NEW S, NEW f, NEW g, IsSum(g, S, f),
           NEW R, NEW e, NEW d, IsSum(d, R, e),
           NEW t \in SUBSET S, t \subseteq R, IsFiniteSet(t),
           \A x \in t : f[x] \in Int /\ e[x] \in Int /\ f[x] <= e[x]
    PROVE  g[t] <= d[t]
<1> DEFINE T == {s \in SUBSET t : g[s] <= d[s]}
<1>1. ASSUME NEW s \in SUBSET t, \A x \in s : s \ {x} \in T
      PROVE  s \in T
  <2>1. CASE s = {}
    BY <2>1 DEF IsSum
  <2>2. ASSUME NEW x \in s
        PROVE  g[s] <= d[s]
    <3>1. g[s \ {x}] <= d[s \ {x}]
      BY <1>1
    <3>2. g[s] = f[x] + g[s \ {x}] /\ d[s] = e[x] + d[s \ {x}]
      BY DEF IsSum
    <3>3. g[s \ {x}] \in Int /\ d[s \ {x}] \in Int /\ f[x] \in Int /\ e[x] \in Int /\ f[x] <= e[x]
      BY DEF IsSum
    <3> QED  BY <3>1, <3>2, <3>3
  <2> QED  BY <2>1, <2>2
<1>2. T = SUBSET t
  <2> HIDE DEF T
  <2>1. T \in SUBSET (SUBSET t)
    BY DEF T
  <2> QED  BY <1>1, <2>1, SetInduction
<1> QED  BY <1>2

\* Sums of what agrees agree.
LEMMA SumsAgree ==
    ASSUME NEW S, NEW f, NEW g, IsSum(g, S, f),
           NEW R, NEW e, NEW d, IsSum(d, R, e),
           NEW t \in SUBSET S, t \subseteq R, IsFiniteSet(t),
           \A x \in t : f[x] \in Int /\ e[x] = f[x]
    PROVE  g[t] = d[t]
<1>1. g[t] <= d[t]
  <2>1. \A x \in t : f[x] \in Int /\ e[x] \in Int /\ f[x] <= e[x]
    OBVIOUS
  <2> QED  BY <2>1, SumsCompare
<1>2. d[t] <= g[t]
  <2>1. \A x \in t : e[x] \in Int /\ f[x] \in Int /\ e[x] <= f[x]
    OBVIOUS
  <2>2. t \in SUBSET R /\ t \subseteq S
    OBVIOUS
  <2> QED  BY <2>1, <2>2, SumsCompare
<1>3. g[t] \in Int /\ d[t] \in Int
  BY DEF IsSum
<1> QED  BY <1>1, <1>2, <1>3

\* A sum of natural numbers is one, and is no less than that of a part.
LEMMA SumOfPart ==
    ASSUME NEW S, NEW f, NEW g, IsSum(g, S, f),
           NEW t \in SUBSET S, IsFiniteSet(t), \A x \in t : f[x] \in Nat,
           NEW p \in SUBSET t
    PROVE  g[t] \in Nat /\ g[p] <= g[t]
<1> DEFINE T == {s \in SUBSET t : g[s] \in Nat /\ (p \subseteq s => g[p] <= g[s])}
<1>1. ASSUME NEW s \in SUBSET t, \A x \in s : s \ {x} \in T
      PROVE  s \in T
  <2>1. CASE s = {}
    <3>1. g[s] = 0 /\ (p \subseteq s => p = s)
      BY <2>1 DEF IsSum
    <3> QED  BY <3>1
  <2>2. ASSUME NEW x \in s
        PROVE  g[s] \in Nat /\ (p \subseteq s /\ x \notin p => g[p] <= g[s])
    <3>1. g[s \ {x}] \in Nat /\ (p \subseteq s \ {x} => g[p] <= g[s \ {x}])
      BY <1>1
    <3>2. g[s] = f[x] + g[s \ {x}] /\ f[x] \in Nat /\ g[p] \in Int
      BY DEF IsSum
    <3>3. p \subseteq s /\ x \notin p => p \subseteq s \ {x}
      OBVIOUS
    <3> QED  BY <3>1, <3>2, <3>3
  <2>3. ASSUME p \subseteq s, \A x \in s : x \in p
        PROVE  g[p] <= g[s]
    <3>1. p = s
      BY <2>3
    <3> QED  BY <2>1, <2>2, <3>1
  <2> QED  BY <2>1, <2>2, <2>3
<1>2. T = SUBSET t
  <2> HIDE DEF T
  <2>1. T \in SUBSET (SUBSET t)
    BY DEF T
  <2> QED  BY <1>1, <2>1, SetInduction
<1> QED  BY <1>2

\* Of finitely many numbers one is the largest.
LEMMA LargestExists ==
    ASSUME NEW S, IsFiniteSet(S), S # {}, NEW f, \A x \in S : f[x] \in Int
    PROVE  \E x \in S : \A y \in S : f[y] <= f[x]
<1> DEFINE T == {s \in SUBSET S : s = {} \/ \E x \in s : \A y \in s : f[y] <= f[x]}
<1>1. ASSUME NEW s \in SUBSET S, \A x \in s : s \ {x} \in T
      PROVE  s \in T
  <2>1. SUFFICES ASSUME NEW z \in s PROVE \E x \in s : \A y \in s : f[y] <= f[x]
    OBVIOUS
  <2>2. CASE s \ {z} = {}
    <3>1. \A y \in s : y = z
      BY <2>2
    <3> QED  BY <3>1
  <2>3. CASE s \ {z} # {}
    <3>1. PICK x \in s \ {z} : \A y \in s \ {z} : f[y] <= f[x]
      BY <1>1, <2>3
    <3>2. CASE f[z] <= f[x]
      BY <3>1, <3>2
    <3>3. CASE ~(f[z] <= f[x])
      <4>1. f[x] \in Int /\ f[z] \in Int
        BY <3>1
      <4>2. \A y \in s : f[y] \in Int /\ f[y] <= f[z]
        BY <3>1, <3>3, <4>1
      <4> QED  BY <4>2
    <3> QED  BY <3>2, <3>3
  <2> QED  BY <2>2, <2>3
<1>2. T = SUBSET S
  <2> HIDE DEF T
  <2>1. T \in SUBSET (SUBSET S)
    BY DEF T
  <2> QED  BY <1>1, <2>1, SetInduction
<1> QED  BY <1>2

-----------------------------------------------------------------------------
(* Folds along a sequence, from its first place to its last.                 *)

\* Of the places 1..n, the last one in each set of them.
LastOf(n) == [t \in SUBSET (1..n) |-> CHOOSE x \in t : \A y \in t : x >= y]

LEMMA LastIsLast ==
    ASSUME NEW n \in Nat
    PROVE  /\ Chooses(LastOf(n), 1..n)
           /\ \A i \in 1..n : LastOf(n)[1..i] = i /\ (1..i) \ {i} = 1..(i - 1)
<1>1. ASSUME NEW t \in SUBSET (1..n), t # {}
      PROVE  \E x \in t : \A y \in t : x >= y
  <2> DEFINE f == [x \in 1..n |-> x]
  <2>1. IsFiniteSet(t)
    <3>1. IsFiniteSet(1..n)
      BY FS_Interval
    <3> QED  BY <3>1, FS_Subset
  <2>2. \A x \in t : f[x] \in Int
    OBVIOUS
  <2>3. PICK x \in t : \A y \in t : f[y] <= f[x]
    <3> HIDE DEF f
    <3> QED  BY <1>1, <2>1, <2>2, LargestExists
  <2>4. \A y \in t : y <= x
    BY <2>3
  <2> QED  BY <2>4
<1>2. Chooses(LastOf(n), 1..n)
  BY <1>1 DEF Chooses, LastOf
<1>3. ASSUME NEW i \in 1..n
      PROVE  LastOf(n)[1..i] = i /\ (1..i) \ {i} = 1..(i - 1)
  <2> DEFINE t == 1..i
             x == CHOOSE x \in t : \A y \in t : x >= y
  <2>1. t \in SUBSET (1..n) /\ i \in t /\ \A y \in t : i >= y
    OBVIOUS
  <2>2. x \in t /\ x >= i
    <3>1. \E z \in t : \A y \in t : z >= y
      BY <2>1
    <3> HIDE DEF t
    <3> QED  BY <2>1, <3>1
  <2>3. LastOf(n)[t] = x
    BY <2>1 DEF LastOf
  <2>4. x = i
    BY <2>2
  <2> QED  BY <2>3, <2>4
<1> QED  BY <1>2, <1>3

\* it folds h along 1..n, as long as what it found is in D.
Folds(it, n, D, base, h) ==
    /\ it[{}] = base
    /\ \A t \in SUBSET (1..n) :
          t # {} /\ it[t \ {LastOf(n)[t]}] \in D
              => it[t] = h[<<LastOf(n)[t], it[t \ {LastOf(n)[t]}]>>]

\* There is one.
LEMMA FoldExists ==
    ASSUME NEW n \in Nat, NEW D, NEW base \in D, NEW h \in [(1..n) \X D -> D]
    PROVE  \E it \in [SUBSET (1..n) -> D] : Folds(it, n, D, base, h)
<1>1. IsFiniteSet(1..n) /\ Chooses(LastOf(n), 1..n)
  BY FS_Interval, LastIsLast
<1>2. PICK it : IsRecursion(it, 1..n, D, base, LastOf(n), h)
  BY <1>1, SetRecursion
<1> QED  BY <1>2 DEF IsRecursion, Folds

\* What holds before the first place, and after each place of what held before
\* it, holds of the fold.  T[i] is what may be found after place i.
LEMMA FoldReaches ==
    ASSUME NEW n \in Nat, NEW D, NEW base, NEW h, NEW it, Folds(it, n, D, base, h),
           NEW T \in [0..n -> SUBSET D], base \in T[0],
           \A i \in 1..n : \A r \in T[i - 1] : h[<<i, r>>] \in T[i]
    PROVE  it[1..n] \in T[n]
<1> DEFINE Good == {i \in Nat : i <= n => it[1..i] \in T[i]}
<1>1. 0 \in Good
  <2>1. 1..0 = {}
    OBVIOUS
  <2> QED  BY <2>1 DEF Folds
<1>2. ASSUME NEW i \in Good
      PROVE  i + 1 \in Good
  <2>1. SUFFICES ASSUME i + 1 <= n PROVE it[1..(i + 1)] \in T[i + 1]
    OBVIOUS
  <2> DEFINE k == i + 1
  <2>2. k \in 1..n /\ k - 1 = i /\ i \in 0..n
    BY <2>1
  <2>3. it[1..i] \in T[i] /\ T[i] \subseteq D
    BY <2>2
  <2> HIDE DEF k
  <2>4. LastOf(n)[1..k] = k /\ (1..k) \ {k} = 1..i /\ (1..k) \in SUBSET (1..n) /\ 1..k # {}
    BY <2>2, LastIsLast
  <2>5. it[1..k] = h[<<k, it[1..i]>>]
    BY <2>3, <2>4 DEF Folds
  <2>6. it[1..k] \in T[k]
    BY <2>2, <2>3, <2>5
  <2> QED  BY <2>6 DEF k
<1>3. Good = Nat
  <2> HIDE DEF Good
  <2>1. Good \in SUBSET Nat
    BY DEF Good
  <2> QED  BY <1>1, <1>2, <2>1, NatSetInduction
<1> QED  BY <1>3

-----------------------------------------------------------------------------
(* Sequences without repetition.                                             *)

\* A sequence without repetition has as many elements as places.
LEMMA DistinctElements ==
    ASSUME NEW S, NEW s \in Seq(S), \A i, j \in DOMAIN s : s[i] = s[j] => i = j
    PROVE  /\ IsFiniteSet({s[i] : i \in DOMAIN s})
           /\ Cardinality({s[i] : i \in DOMAIN s}) = Len(s)
<1> DEFINE E == {s[i] : i \in DOMAIN s}
<1>1. IsFiniteSet(DOMAIN s) /\ Cardinality(DOMAIN s) = Len(s)
  <2>1. DOMAIN s = 1..Len(s) /\ Len(s) \in Nat
    OBVIOUS
  <2>2. Cardinality(1..Len(s)) = Len(s) /\ IsFiniteSet(1..Len(s))
    BY <2>1, FS_Interval
  <2> QED  BY <2>1, <2>2
<1>2. s \in [DOMAIN s -> E]
  OBVIOUS
<1>3. ExistsBijection(DOMAIN s, E)
  <2>1. s \in Bijection(DOMAIN s, E)
    BY <1>2 DEF Bijection, Injection, Surjection, IsInjective
  <2> QED  BY <2>1 DEF ExistsBijection
<1> QED  BY <1>1, <1>3, FS_Bijection
=============================================================================
