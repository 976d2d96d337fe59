------------------------- MODULE RobotsRulesProofs -------------------------
(* Theorems about RobotsRules, for any lines in any order: the group that    *)
(* group_for picks is the one that carries the block which governs this      *)
(* crawler, and the rule that decides is among the longest of that block.    *)
EXTENDS RobotsRules, FoldFacts


Rules == [allow : BOOLEAN, pattern : Seq(STRING)]
Group == [agents : Seq(STRING), rules : Seq(Rules), delay : Int]
Best == [group : Seq(Group), length : Int, fallback : Seq(Group)]
Unheard == [group |-> <<>>, length |-> -1, fallback |-> <<>>]

\* One rule of the group, weighed if it matches.
Weighed(w, r, path) == IF RuleMatches(r.pattern, path) THEN Winner(w, r) ELSE w

\* The last place is the one a fold takes out.
LEMMA LastIsMax ==
    ASSUME NEW n \in Nat
    PROVE  \A t \in SUBSET (1..n) : t # {} => LastOf(n)[t] = Max(t) /\ Max(t) \in 1..n
<1>1. \A t \in SUBSET (1..n) : LastOf(n)[t] = Max(t)
  BY Zenon DEF LastOf, Max
<1>2. Chooses(LastOf(n), 1..n)
  BY LastIsLast
<1>3. \A t \in SUBSET (1..n) : t # {} => LastOf(n)[t] \in t
  BY <1>2 DEF Chooses
<1> QED  BY <1>1, <1>3

\* The assumption, by its parts.
LEMMA TokensHaveLengths ==
    /\ \A t \in DOMAIN TokenLength : TokenLength[t] \in Nat
    /\ Wildcard \notin DOMAIN TokenLength
  BY RobotsAssumption

LEMMA LineParts ==
    \A l \in Lines : /\ l.field \in STRING /\ l.token \in STRING /\ l.pattern \in Seq(STRING)
                     /\ l.delay \in Int
  BY RobotsAssumption

\* The best so far stays one.
LEMMA HeardIsBest ==
    ASSUME NEW b \in Best, NEW g \in Group, NEW token
    PROVE  Heard(b, g, token) \in Best
<1>1. <<g>> \in Seq(Group)
  OBVIOUS
<1>2. token \in DOMAIN TokenLength => TokenLength[token] \in Int
  BY TokensHaveLengths
<1> HIDE DEF Group
<1> QED  BY <1>1, <1>2 DEF Best, Heard

LEMMA UnheardIsBest == Unheard \in Best
  BY DEF Unheard, Best

LEMMA WeighedIsRule ==
    ASSUME NEW w \in Seq(Rules), NEW r \in Rules, NEW path
    PROVE  Weighed(w, r, path) \in Seq(Rules)
<1>1. <<r>> \in Seq(Rules)
  OBVIOUS
<1> QED  BY <1>1 DEF Weighed, Winner

\* group_for reads the tokens of a group one at a time.
LEMMA BetterReaches ==
    ASSUME NEW b \in Best, NEW g \in Group,
          
           NEW T \in [0..Len(g.agents) -> SUBSET Best], b \in T[0],
           \A i \in 1..Len(g.agents) : \A r \in T[i - 1] : Heard(r, g, g.agents[i]) \in T[i]
    PROVE  Better(b, g) \in T[Len(g.agents)]
<1> DEFINE s == g.agents
           n == Len(s)
           D == Best
           h == [p \in (1..n) \X D |-> Heard(p[2], g, s[p[1]])]
           Iterates(iter) ==
               iter = [t \in SUBSET DOMAIN s |->
                         IF t = {} THEN b ELSE Heard(iter[t \ {Max(t)}], g, s[Max(t)])]
           it == CHOOSE iter : Iterates(iter)
<1>1. Better(b, g) = it[DOMAIN s]
  BY Zenon DEF Better, FoldLeft, MapThenFoldSet
<1>2. DOMAIN s = 1..n /\ n \in Nat /\ \A i \in 1..n : s[i] \in STRING
  BY DEF Group
<1>3. h \in [(1..n) \X D -> D] /\ b \in D
  <2> HIDE DEF s, n
  <2>1. ASSUME NEW i \in 1..n, NEW r \in D PROVE Heard(r, g, s[i]) \in D
    BY <1>2, HeardIsBest
  <2>2. b \in D
    OBVIOUS
  <2> HIDE DEF D
  <2> QED  BY <2>1, <2>2
<1>4. \A i \in 1..n : \A r \in D : h[<<i, r>>] = Heard(r, g, s[i])
  OBVIOUS
<1> HIDE DEF h
<1>5. \A t \in SUBSET (1..n) : t # {} => LastOf(n)[t] = Max(t) /\ Max(t) \in 1..n
  <2> HIDE DEF n
  <2> QED  BY <1>2, LastIsMax
<1>6. \E iter : Iterates(iter)
  <2> HIDE DEF s, n, D
  <2>1. PICK w \in [SUBSET (1..n) -> D] : Folds(w, n, D, b, h)
    BY <1>2, <1>3, FoldExists
  <2>2. ASSUME NEW t \in SUBSET (1..n), t # {}
        PROVE  w[t] = Heard(w[t \ {Max(t)}], g, s[Max(t)])
    <3> DEFINE q == LastOf(n)[t]
               r == w[t \ {q}]
    <3>1. q = Max(t) /\ q \in 1..n
      BY <1>5, <2>2
    <3>2. r \in D
      BY <2>1
    <3>3. w[t] = h[<<q, r>>]
      BY <2>1, <2>2, <3>2 DEF Folds
    <3>4. w[t] = Heard(r, g, s[q])
      <4> HIDE DEF q, r
      <4> QED  BY <1>4, <3>1, <3>2, <3>3
    <3> QED  BY <3>1, <3>4
  <2>3. w[{}] = b
    BY <2>1 DEF Folds
  <2>4. w = [t \in SUBSET DOMAIN s |-> IF t = {} THEN b ELSE Heard(w[t \ {Max(t)}], g, s[Max(t)])]
    <3>1. w = [t \in SUBSET (1..n) |-> w[t]]
      BY <2>1
    <3> QED  BY <1>2, <2>2, <2>3, <3>1
  <2> QED  BY <2>4
<1>7. Iterates(it)
  <2> HIDE DEF Iterates
  <2> QED  BY <1>6
<1>8. Folds(it, n, D, b, h)
  <2>1. \A t \in SUBSET (1..n) :
           it[t] = IF t = {} THEN b ELSE Heard(it[t \ {Max(t)}], g, s[Max(t)])
    <3> HIDE DEF it
    <3>1. Iterates(it)
      BY <1>7
    <3> QED  BY Zenon, <1>2, <3>1
  <2> HIDE DEF it, n, D, s
  <2>2. it[{}] = b
    BY <2>1
  <2>3. ASSUME NEW t \in SUBSET (1..n), t # {}, it[t \ {LastOf(n)[t]}] \in D
        PROVE  it[t] = h[<<LastOf(n)[t], it[t \ {LastOf(n)[t]}]>>]
    <3> DEFINE q == LastOf(n)[t]
               r == it[t \ {q}]
    <3>1. q = Max(t) /\ q \in 1..n
      BY <1>5, <2>3
    <3>2. it[t] = Heard(r, g, s[q])
      BY <2>1, <2>3, <3>1
    <3>3. r \in D
      BY <2>3
    <3> HIDE DEF q, r
    <3>4. it[t] = h[<<q, r>>]
      BY <1>4, <3>1, <3>2, <3>3
    <3> QED  BY <3>4 DEF q, r
  <2> QED  BY <2>2, <2>3 DEF Folds
<1>9. it[1..n] \in T[n]
  <2>1. T \in [0..n -> SUBSET D] /\ b \in T[0]
    OBVIOUS
  <2>2. \A i \in 1..n : \A r \in T[i - 1] : Heard(r, g, s[i]) \in T[i]
    OBVIOUS
  <2> HIDE DEF it, n, D, s
  <2>3. ASSUME NEW i \in 1..n, NEW r \in T[i - 1] PROVE h[<<i, r>>] \in T[i]
    <3>1. r \in D
      <4>1. i - 1 \in 0..n
        BY <1>2
      <4> QED  BY <2>1, <4>1
    <3> QED  BY <1>4, <2>2, <3>1
  <2> QED  BY <1>2, <1>8, <2>1, <2>3, FoldReaches
<1> QED  BY <1>1, <1>2, <1>9

\* What the first i tokens of a group leave of the best so far.
Known(g, i) == {TokenLength[t] : t \in {g.agents[j] : j \in 1..i} \cap DOMAIN TokenLength}
Wild(g, i) == \E j \in 1..i : g.agents[j] = Wildcard

Heeds(b, g, i, r) ==
    /\ r.fallback = IF Wild(g, i) /\ b.fallback = <<>> THEN <<g>> ELSE b.fallback
    /\ \/ /\ r.group = b.group /\ r.length = b.length
          /\ \A m \in Known(g, i) : m <= b.length
       \/ /\ r.group = <<g>> /\ r.length > b.length /\ r.length \in Known(g, i)
          /\ \A m \in Known(g, i) : m <= r.length

\* One token more.
LEMMA HeardHeeds ==
    ASSUME NEW b \in Best, NEW g \in Group, NEW i \in 1..Len(g.agents),
           NEW r \in Best, Heeds(b, g, i - 1, r)
    PROVE  Heeds(b, g, i, Heard(r, g, g.agents[i]))
<1> DEFINE token == g.agents[i]
           next == Heard(r, g, token)
<1> SUFFICES Heeds(b, g, i, next)
  OBVIOUS
<1>0. /\ 1..i = (1..(i - 1)) \cup {i}
      /\ b.length \in Int /\ r.length \in Int
      /\ r.fallback \in Seq(Group) /\ <<g>> # <<>>
      /\ \A t \in DOMAIN TokenLength : TokenLength[t] \in Nat
  BY TokensHaveLengths DEF Best, Group
<1>1. CASE token \in DOMAIN TokenLength
  <2>1. Known(g, i) = Known(g, i - 1) \cup {TokenLength[token]}
    BY <1>0, <1>1, Zenon DEF Known
  <2>2. token # Wildcard
    BY <1>1, TokensHaveLengths
  <2>3. Wild(g, i) = Wild(g, i - 1)
    BY <1>0, <2>2 DEF Wild
  <2>4. \A m \in Known(g, i) : m \in Nat
    BY <1>0 DEF Known
  <2>5. CASE TokenLength[token] > r.length
    <3>1. next.group = <<g>> /\ next.length = TokenLength[token] /\ next.fallback = r.fallback
      BY <1>1, <2>5 DEF Heard, Best
    <3>2. TokenLength[token] \in Nat /\ TokenLength[token] > b.length
      BY <1>0, <1>1, <2>5 DEF Heeds
    <3>3. \A m \in Known(g, i) : m <= TokenLength[token]
      BY <1>0, <2>1, <2>4, <2>5, <3>2 DEF Heeds
    <3> HIDE DEF next, token
    <3> QED  BY <2>1, <2>3, <3>1, <3>2, <3>3 DEF Heeds
  <2>6. CASE ~(TokenLength[token] > r.length)
    <3>1. next = r
      BY <2>2, <2>6 DEF Heard
    <3>2. TokenLength[token] <= r.length
      BY <1>0, <1>1, <2>6
    <3> HIDE DEF next, token
    <3> QED  BY <2>1, <2>3, <3>1, <3>2 DEF Heeds
  <2> QED  BY <2>5, <2>6
<1>2. CASE token \notin DOMAIN TokenLength
  <2>1. Known(g, i) = Known(g, i - 1)
    BY <1>0, <1>2, Zenon DEF Known
  <2>2. CASE token = Wildcard
    <3>1. Wild(g, i)
      BY <1>0, <2>2 DEF Wild
    <3>2. CASE r.fallback = <<>>
      <4>1. next.group = r.group /\ next.length = r.length /\ next.fallback = <<g>>
        BY <1>2, <2>2, <3>2 DEF Heard, Best
      <4>2. b.fallback = <<>>
        BY <1>0, <3>2 DEF Heeds
      <4> HIDE DEF next, token
      <4> QED  BY <2>1, <3>1, <4>1, <4>2 DEF Heeds
    <3>3. CASE r.fallback # <<>>
      <4>1. next = r
        BY <1>2, <3>3 DEF Heard
      <4> HIDE DEF next, token
      <4> QED  BY <2>1, <3>1, <3>3, <4>1 DEF Heeds
    <3> QED  BY <3>2, <3>3
  <2>3. CASE token # Wildcard
    <3>1. next = r
      BY <1>2, <2>3 DEF Heard
    <3>2. Wild(g, i) = Wild(g, i - 1)
      BY <1>0, <2>3 DEF Wild
    <3> HIDE DEF next, token
    <3> QED  BY <2>1, <3>1, <3>2 DEF Heeds
  <2> QED  BY <2>2, <2>3
<1> QED  BY <1>1, <1>2

\* All the tokens of a group.
LEMMA BetterHeeds ==
    ASSUME NEW b \in Best, NEW g \in Group
    PROVE  Better(b, g) \in Best /\ Heeds(b, g, Len(g.agents), Better(b, g))
<1> DEFINE n == Len(g.agents)
           T == [i \in 0..n |-> {r \in Best : Heeds(b, g, i, r)}]
<1>1. n \in Nat
  BY DEF Group
<1>2. T \in [0..n -> SUBSET Best]
  OBVIOUS
<1>3. b \in T[0]
  <2>1. Known(g, 0) = {} /\ ~Wild(g, 0)
    BY DEF Known, Wild
  <2>2. Heeds(b, g, 0, b)
    BY <2>1 DEF Heeds
  <2> QED  BY <1>1, <2>2
<1>4. ASSUME NEW i \in 1..n, NEW r \in T[i - 1]
      PROVE  Heard(r, g, g.agents[i]) \in T[i]
  <2>1. i - 1 \in 0..n /\ i \in 0..n
    BY <1>1
  <2>2. r \in Best /\ Heeds(b, g, i - 1, r)
    BY <2>1
  <2>3. Heard(r, g, g.agents[i]) \in Best /\ Heeds(b, g, i, Heard(r, g, g.agents[i]))
    BY <2>2, HeardIsBest, HeardHeeds
  <2> QED  BY <2>1, <2>3
<1>5. Better(b, g) \in T[n]
  <2> HIDE DEF T
  <2> QED  BY <1>2, <1>3, <1>4, BetterReaches
<1>6. n \in 0..n
  BY <1>1
<1> QED  BY <1>5, <1>6

LEMMA BetterIsBest ==
    ASSUME NEW b \in Best, NEW g \in Group
    PROVE  Better(b, g) \in Best
  BY BetterHeeds

\* group_for reads the groups one at a time.
LEMMA GroupForReaches ==
    ASSUME NEW groups \in Seq(Group),
          
           NEW T \in [0..Len(groups) -> SUBSET Best], Unheard \in T[0],
           \A i \in 1..Len(groups) : \A r \in T[i - 1] : Better(r, groups[i]) \in T[i]
    PROVE  FoldLeft(Better, Unheard, groups) \in T[Len(groups)]
<1> DEFINE s == groups
           n == Len(s)
           D == Best
           h == [p \in (1..n) \X D |-> Better(p[2], s[p[1]])]
           Iterates(iter) ==
               iter = [t \in SUBSET DOMAIN s |->
                         IF t = {} THEN Unheard ELSE Better(iter[t \ {Max(t)}], s[Max(t)])]
           it == CHOOSE iter : Iterates(iter)
<1>1. FoldLeft(Better, Unheard, groups) = it[DOMAIN s]
  BY Zenon DEF FoldLeft, MapThenFoldSet
<1>2. DOMAIN s = 1..n /\ n \in Nat /\ \A i \in 1..n : s[i] \in Group
  OBVIOUS
<1>3. h \in [(1..n) \X D -> D] /\ Unheard \in D
  <2> HIDE DEF s, n
  <2>1. ASSUME NEW i \in 1..n, NEW r \in D PROVE Better(r, s[i]) \in D
    BY <1>2, BetterIsBest, UnheardIsBest
  <2>2. Unheard \in D
    OBVIOUS
  <2> HIDE DEF D
  <2> QED  BY <2>1, <2>2
<1>4. \A i \in 1..n : \A r \in D : h[<<i, r>>] = Better(r, s[i])
  OBVIOUS
<1> HIDE DEF h
<1>5. \A t \in SUBSET (1..n) : t # {} => LastOf(n)[t] = Max(t) /\ Max(t) \in 1..n
  <2> HIDE DEF n
  <2> QED  BY <1>2, LastIsMax
<1>6. \E iter : Iterates(iter)
  <2> HIDE DEF s, n, D
  <2>1. PICK w \in [SUBSET (1..n) -> D] : Folds(w, n, D, Unheard, h)
    BY <1>2, <1>3, FoldExists
  <2>2. ASSUME NEW t \in SUBSET (1..n), t # {}
        PROVE  w[t] = Better(w[t \ {Max(t)}], s[Max(t)])
    <3> DEFINE q == LastOf(n)[t]
               r == w[t \ {q}]
    <3>1. q = Max(t) /\ q \in 1..n
      BY <1>5, <2>2
    <3>2. r \in D
      BY <2>1
    <3>3. w[t] = h[<<q, r>>]
      BY <2>1, <2>2, <3>2 DEF Folds
    <3>4. w[t] = Better(r, s[q])
      <4> HIDE DEF q, r
      <4> QED  BY <1>4, <3>1, <3>2, <3>3
    <3> QED  BY <3>1, <3>4
  <2>3. w[{}] = Unheard
    BY <2>1 DEF Folds
  <2>4. w = [t \in SUBSET DOMAIN s |->
               IF t = {} THEN Unheard ELSE Better(w[t \ {Max(t)}], s[Max(t)])]
    <3>1. w = [t \in SUBSET (1..n) |-> w[t]]
      BY <2>1
    <3> QED  BY <1>2, <2>2, <2>3, <3>1
  <2> QED  BY <2>4
<1>7. Iterates(it)
  <2> HIDE DEF Iterates
  <2> QED  BY <1>6
<1>8. Folds(it, n, D, Unheard, h)
  <2>1. \A t \in SUBSET (1..n) :
           it[t] = IF t = {} THEN Unheard ELSE Better(it[t \ {Max(t)}], s[Max(t)])
    <3> HIDE DEF it
    <3>1. Iterates(it)
      BY <1>7
    <3> QED  BY Zenon, <1>2, <3>1
  <2> HIDE DEF it, n, D, s
  <2>2. it[{}] = Unheard
    BY <2>1
  <2>3. ASSUME NEW t \in SUBSET (1..n), t # {}, it[t \ {LastOf(n)[t]}] \in D
        PROVE  it[t] = h[<<LastOf(n)[t], it[t \ {LastOf(n)[t]}]>>]
    <3> DEFINE q == LastOf(n)[t]
               r == it[t \ {q}]
    <3>1. q = Max(t) /\ q \in 1..n
      BY <1>5, <2>3
    <3>2. it[t] = Better(r, s[q])
      BY <2>1, <2>3, <3>1
    <3>3. r \in D
      BY <2>3
    <3> HIDE DEF q, r
    <3>4. it[t] = h[<<q, r>>]
      BY <1>4, <3>1, <3>2, <3>3
    <3> QED  BY <3>4 DEF q, r
  <2> QED  BY <2>2, <2>3 DEF Folds
<1>9. it[1..n] \in T[n]
  <2>1. T \in [0..n -> SUBSET D] /\ Unheard \in T[0]
    OBVIOUS
  <2>2. \A i \in 1..n : \A r \in T[i - 1] : Better(r, s[i]) \in T[i]
    OBVIOUS
  <2> HIDE DEF it, n, D, s
  <2>3. ASSUME NEW i \in 1..n, NEW r \in T[i - 1] PROVE h[<<i, r>>] \in T[i]
    <3>1. r \in D
      <4>1. i - 1 \in 0..n
        BY <1>2
      <4> QED  BY <2>1, <4>1
    <3> QED  BY <1>4, <2>2, <3>1
  <2> QED  BY <1>2, <1>8, <2>1, <2>3, FoldReaches
<1> QED  BY <1>1, <1>2, <1>9

\* What a group names, and what the first i groups leave.
Names(g) == Known(g, Len(g.agents))
Everyone(g) == Wild(g, Len(g.agents))

FirstWild(groups, i, found) ==
    \/ found = <<>> /\ \A k \in 1..i : ~Everyone(groups[k])
    \/ \E k \in 1..i : /\ found = <<groups[k]>> /\ Everyone(groups[k])
                       /\ \A j \in 1..(k - 1) : ~Everyone(groups[j])

FirstLongest(groups, i, found, length) ==
    \/ found = <<>> /\ length = -1 /\ \A k \in 1..i : Names(groups[k]) = {}
    \/ \E k \in 1..i : /\ found = <<groups[k]>> /\ length \in Names(groups[k])
                       /\ \A j \in 1..i : \A m \in Names(groups[j]) : m <= length
                       /\ \A j \in 1..(k - 1) : \A m \in Names(groups[j]) : m < length

LEMMA NamesAreNat ==
    ASSUME NEW g
    PROVE  Names(g) \subseteq Nat
  BY TokensHaveLengths DEF Names, Known

\* One group more.
LEMMA GroupHeard ==
    ASSUME NEW groups \in Seq(Group), NEW i \in 1..Len(groups), NEW b \in Best,
           FirstWild(groups, i - 1, b.fallback),
           FirstLongest(groups, i - 1, b.group, b.length)
    PROVE  /\ FirstWild(groups, i, Better(b, groups[i]).fallback)
           /\ FirstLongest(groups, i, Better(b, groups[i]).group, Better(b, groups[i]).length)
<1> DEFINE g == groups[i]
           r == Better(b, g)
<1>1. g \in Group
  <2> HIDE DEF Group
  <2> QED  OBVIOUS
<1>2. r \in Best /\ Heeds(b, g, Len(g.agents), r)
  BY <1>1, BetterHeeds
<1>3. /\ i \in Nat /\ i > 0 /\ 1..i = (1..(i - 1)) \cup {i}
      /\ b.length \in Int /\ r.length \in Int
      /\ i \in 1..i /\ \A k \in 1..(i - 1) : k \in 1..i
      /\ \A k \in 1..i : \A m \in Names(groups[k]) : m \in Nat
  <2>1. \A k \in 1..i : \A m \in Names(groups[k]) : m \in Nat
    BY Zenon, NamesAreNat
  <2>2. i \in Nat /\ i > 0
    OBVIOUS
  <2>3. b.length \in Int /\ r.length \in Int
    BY <1>2 DEF Best
  <2> HIDE DEF g, r
  <2> QED  BY <2>1, <2>2, <2>3
<1> HIDE DEF r
<1>4. FirstWild(groups, i, r.fallback)
  <2>1. r.fallback = IF Everyone(g) /\ b.fallback = <<>> THEN <<g>> ELSE b.fallback
    BY <1>2 DEF Heeds, Everyone
  <2>2. CASE b.fallback = <<>>
    <3>1. \A k \in 1..(i - 1) : ~Everyone(groups[k])
      BY <2>2 DEF FirstWild
    <3>2. CASE Everyone(g)
      BY <1>3, <2>1, <2>2, <3>1, <3>2 DEF FirstWild
    <3>3. CASE ~Everyone(g)
      BY <1>3, <2>1, <2>2, <3>1, <3>3 DEF FirstWild
    <3> QED  BY <3>2, <3>3
  <2>3. CASE b.fallback # <<>>
    BY <1>3, <2>1, <2>3 DEF FirstWild
  <2> QED  BY <2>2, <2>3
<1>5. FirstLongest(groups, i, r.group, r.length)
  <2>1. CASE /\ r.group = b.group /\ r.length = b.length
             /\ \A m \in Names(g) : m <= b.length
    <3>1. CASE b.group = <<>> /\ b.length = -1 /\ \A k \in 1..(i - 1) : Names(groups[k]) = {}
      <4>1. Names(g) = {}
        <5>1. \A m \in Names(g) : m \in Nat /\ m <= -1
          BY <1>3, <2>1, <3>1
        <5> QED  BY <5>1
      <4> QED  BY <1>3, <2>1, <3>1, <4>1 DEF FirstLongest
    <3>2. CASE \E k \in 1..(i - 1) :
                  /\ b.group = <<groups[k]>> /\ b.length \in Names(groups[k])
                  /\ \A j \in 1..(i - 1) : \A m \in Names(groups[j]) : m <= b.length
                  /\ \A j \in 1..(k - 1) : \A m \in Names(groups[j]) : m < b.length
      <4>1. \A j \in 1..i : \A m \in Names(groups[j]) : m <= b.length
        BY <1>3, <2>1, <3>2
      <4> QED  BY <1>3, <2>1, <3>2, <4>1 DEF FirstLongest
    <3> QED  BY <3>1, <3>2 DEF FirstLongest
  <2>2. CASE /\ r.group = <<g>> /\ r.length > b.length /\ r.length \in Names(g)
             /\ \A m \in Names(g) : m <= r.length
    <3>1. \A j \in 1..(i - 1) : \A m \in Names(groups[j]) : m < r.length
      <4>1. \A j \in 1..(i - 1) : \A m \in Names(groups[j]) : m <= b.length
        <5>1. \A j \in 1..(i - 1) : \A m \in Names(groups[j]) : m \in Nat
          BY <1>3
        <5> QED  BY <5>1 DEF FirstLongest
      <4>2. SUFFICES ASSUME NEW j \in 1..(i - 1), NEW m \in Names(groups[j])
                     PROVE  m < r.length
        OBVIOUS
      <4>3. m \in Nat /\ m <= b.length
        BY <1>3, <4>1
      <4> HIDE DEF g
      <4> QED  BY <1>3, <2>2, <4>3
    <3>2. \A j \in 1..i : \A m \in Names(groups[j]) : m <= r.length
      <4>1. SUFFICES ASSUME NEW j \in 1..i, NEW m \in Names(groups[j])
                     PROVE  m <= r.length
        OBVIOUS
      <4>2. CASE j = i
        BY <2>2, <4>2
      <4>3. CASE j \in 1..(i - 1)
        <5>1. m < r.length
          BY <3>1, <4>1, <4>3
        <5>2. m \in Nat /\ r.length \in Int
          BY <1>3, <4>1
        <5> QED  BY <5>1, <5>2
      <4> QED  BY <1>3, <4>2, <4>3
    <3>3. i \in 1..i
      BY <1>3
    <3> HIDE DEF g
    <3> QED  BY <2>2, <3>1, <3>2, <3>3 DEF FirstLongest, g
  <2> QED  BY <1>2, <2>1, <2>2 DEF Heeds, Names
<1> QED  BY <1>4, <1>5 DEF r

\* The group that governs: the first with the longest token, or the first wildcard.
LEMMA GroupForIsFirst ==
    ASSUME NEW groups \in Seq(Group)
    PROVE  \E wild \in Seq(Group), length \in Int, found \in Seq(Group) :
              /\ FirstWild(groups, Len(groups), wild)
              /\ FirstLongest(groups, Len(groups), found, length)
              /\ GroupFor(groups) = IF found # <<>> THEN found ELSE wild
<1> DEFINE n == Len(groups)
           Reached(i, b) == /\ FirstWild(groups, i, b.fallback)
                            /\ FirstLongest(groups, i, b.group, b.length)
           T == [i \in 0..n |-> {b \in Best : Reached(i, b)}]
           best == FoldLeft(Better, Unheard, groups)
<1>1. n \in Nat
  OBVIOUS
<1>2. T \in [0..n -> SUBSET Best]
  OBVIOUS
<1>3. Unheard \in T[0]
  <2>1. Reached(0, Unheard)
    BY DEF FirstWild, FirstLongest, Unheard
  <2> HIDE DEF Reached
  <2> QED  BY <1>1, <2>1, UnheardIsBest
<1>4. ASSUME NEW i \in 1..n, NEW b \in T[i - 1]
      PROVE  Better(b, groups[i]) \in T[i]
  <2>1. i - 1 \in 0..n /\ i \in 0..n
    BY <1>1
  <2>2. b \in Best /\ Reached(i - 1, b)
    <3> HIDE DEF Reached
    <3> QED  BY <2>1
  <2>3. Reached(i, Better(b, groups[i]))
    BY <2>2, GroupHeard
  <2>4. Better(b, groups[i]) \in Best
    <3>1. groups[i] \in Group
      <4> HIDE DEF Group
      <4> QED  OBVIOUS
    <3> QED  BY <2>2, <3>1, BetterIsBest
  <2> HIDE DEF Reached
  <2> QED  BY <2>1, <2>3, <2>4
<1>5. best \in T[n]
  <2> HIDE DEF T
  <2> QED  BY <1>2, <1>3, <1>4, GroupForReaches
<1>6. best \in Best /\ Reached(n, best)
  <2> HIDE DEF Reached, best
  <2>1. n \in 0..n
    BY <1>1
  <2> QED  BY <1>5, <2>1
<1>7. GroupFor(groups) = IF best.group # <<>> THEN best.group ELSE best.fallback
  BY DEF GroupFor, Unheard
<1> HIDE DEF best
<1>8. best.fallback \in Seq(Group) /\ best.length \in Int /\ best.group \in Seq(Group)
  BY <1>6 DEF Best
<1> QED  BY <1>6, <1>7, <1>8

\* can_fetch weighs the rules one at a time.
LEMMA DecidingReaches ==
    ASSUME NEW rules \in Seq(Rules), NEW path,
          
           NEW T \in [0..Len(rules) -> SUBSET Seq(Rules)], <<>> \in T[0],
           \A i \in 1..Len(rules) : \A r \in T[i - 1] : Weighed(r, rules[i], path) \in T[i]
    PROVE  Deciding(rules, path) \in T[Len(rules)]
<1> DEFINE s == rules
           n == Len(s)
           D == Seq(Rules)
           h == [p \in (1..n) \X D |-> Weighed(p[2], s[p[1]], path)]
           Iterates(iter) ==
               iter = [t \in SUBSET DOMAIN s |->
                         IF t = {} THEN <<>> ELSE Weighed(iter[t \ {Max(t)}], s[Max(t)], path)]
           it == CHOOSE iter : Iterates(iter)
<1>1. Deciding(rules, path) = it[DOMAIN s]
  BY Zenon DEF Deciding, Weighed, FoldLeft, MapThenFoldSet
<1>2. DOMAIN s = 1..n /\ n \in Nat /\ \A i \in 1..n : s[i] \in Rules
  OBVIOUS
<1>3. h \in [(1..n) \X D -> D] /\ <<>> \in D
  <2> HIDE DEF s, n
  <2>1. ASSUME NEW i \in 1..n, NEW r \in D PROVE Weighed(r, s[i], path) \in D
    BY <1>2, WeighedIsRule
  <2>2. <<>> \in D
    OBVIOUS
  <2> HIDE DEF D
  <2> QED  BY <2>1, <2>2
<1>4. \A i \in 1..n : \A r \in D : h[<<i, r>>] = Weighed(r, s[i], path)
  OBVIOUS
<1> HIDE DEF h
<1>5. \A t \in SUBSET (1..n) : t # {} => LastOf(n)[t] = Max(t) /\ Max(t) \in 1..n
  <2> HIDE DEF n
  <2> QED  BY <1>2, LastIsMax
<1>6. \E iter : Iterates(iter)
  <2> HIDE DEF s, n, D
  <2>1. PICK w \in [SUBSET (1..n) -> D] : Folds(w, n, D, <<>>, h)
    BY <1>2, <1>3, FoldExists
  <2>2. ASSUME NEW t \in SUBSET (1..n), t # {}
        PROVE  w[t] = Weighed(w[t \ {Max(t)}], s[Max(t)], path)
    <3> DEFINE q == LastOf(n)[t]
               r == w[t \ {q}]
    <3>1. q = Max(t) /\ q \in 1..n
      BY <1>5, <2>2
    <3>2. r \in D
      BY <2>1
    <3>3. w[t] = h[<<q, r>>]
      BY <2>1, <2>2, <3>2 DEF Folds
    <3>4. w[t] = Weighed(r, s[q], path)
      <4> HIDE DEF q, r
      <4> QED  BY <1>4, <3>1, <3>2, <3>3
    <3> QED  BY <3>1, <3>4
  <2>3. w[{}] = <<>>
    BY <2>1 DEF Folds
  <2>4. w = [t \in SUBSET DOMAIN s |->
               IF t = {} THEN <<>> ELSE Weighed(w[t \ {Max(t)}], s[Max(t)], path)]
    <3>1. w = [t \in SUBSET (1..n) |-> w[t]]
      BY <2>1
    <3> QED  BY <1>2, <2>2, <2>3, <3>1
  <2> QED  BY <2>4
<1>7. Iterates(it)
  <2> HIDE DEF Iterates
  <2> QED  BY <1>6
<1>8. Folds(it, n, D, <<>>, h)
  <2>1. \A t \in SUBSET (1..n) :
           it[t] = IF t = {} THEN <<>> ELSE Weighed(it[t \ {Max(t)}], s[Max(t)], path)
    <3> HIDE DEF it
    <3>1. Iterates(it)
      BY <1>7
    <3> QED  BY Zenon, <1>2, <3>1
  <2> HIDE DEF it, n, D, s
  <2>2. it[{}] = <<>>
    BY <2>1
  <2>3. ASSUME NEW t \in SUBSET (1..n), t # {}, it[t \ {LastOf(n)[t]}] \in D
        PROVE  it[t] = h[<<LastOf(n)[t], it[t \ {LastOf(n)[t]}]>>]
    <3> DEFINE q == LastOf(n)[t]
               r == it[t \ {q}]
    <3>1. q = Max(t) /\ q \in 1..n
      BY <1>5, <2>3
    <3>2. it[t] = Weighed(r, s[q], path)
      BY <2>1, <2>3, <3>1
    <3>3. r \in D
      BY <2>3
    <3> HIDE DEF q, r
    <3>4. it[t] = h[<<q, r>>]
      BY <1>4, <3>1, <3>2, <3>3
    <3> QED  BY <3>4 DEF q, r
  <2> QED  BY <2>2, <2>3 DEF Folds
<1>9. it[1..n] \in T[n]
  <2>1. T \in [0..n -> SUBSET D] /\ <<>> \in T[0]
    OBVIOUS
  <2>2. \A i \in 1..n : \A r \in T[i - 1] : Weighed(r, s[i], path) \in T[i]
    OBVIOUS
  <2> HIDE DEF it, n, D, s
  <2>3. ASSUME NEW i \in 1..n, NEW r \in T[i - 1] PROVE h[<<i, r>>] \in T[i]
    <3>1. r \in D
      <4>1. i - 1 \in 0..n
        BY <1>2
      <4> QED  BY <2>1, <4>1
    <3> QED  BY <1>4, <2>2, <3>1
  <2> QED  BY <1>2, <1>8, <2>1, <2>3, FoldReaches
<1> QED  BY <1>1, <1>2, <1>9

\* Of the first i rules that match, the deciding one is among the longest, and
\* allows when one of the longest does.
Decides(rules, path, i, w) ==
    \/ w = <<>> /\ \A k \in 1..i : ~RuleMatches(rules[k].pattern, path)
    \/ \E k \in 1..i :
          /\ w = <<rules[k]>> /\ RuleMatches(rules[k].pattern, path)
          /\ \A j \in 1..i : RuleMatches(rules[j].pattern, path)
                => /\ Len(rules[j].pattern) <= Len(rules[k].pattern)
                   /\ Len(rules[j].pattern) = Len(rules[k].pattern) /\ rules[j].allow
                         => rules[k].allow

\* One rule more.
LEMMA RuleWeighed ==
    ASSUME NEW rules \in Seq(Rules), NEW path, NEW i \in 1..Len(rules),
           NEW w \in Seq(Rules), Decides(rules, path, i - 1, w)
    PROVE  Decides(rules, path, i, Weighed(w, rules[i], path))
<1> DEFINE Hit(k) == RuleMatches(rules[k].pattern, path)
           Long(k) == Len(rules[k].pattern)
           Allow(k) == rules[k].allow
           next == Weighed(w, rules[i], path)
<1>1. /\ i \in Nat /\ i > 0 /\ 1..i = (1..(i - 1)) \cup {i}
      /\ \A k \in 1..i : rules[k] \in Rules /\ Long(k) \in Nat
  <2>1. \A k \in 1..i : rules[k] \in Rules
    <3> HIDE DEF Rules
    <3> QED  OBVIOUS
  <2>2. \A k \in 1..i : Long(k) \in Nat
    BY <2>1 DEF Rules
  <2> QED  BY <2>1, <2>2
<1>2. next = IF Hit(i) /\ (w = <<>> \/ Long(i) > Len(w[1].pattern)
                           \/ (Long(i) = Len(w[1].pattern) /\ Allow(i)))
             THEN <<rules[i]>> ELSE w
  BY DEF Weighed, Winner
<1>3. \/ w = <<>> /\ \A k \in 1..(i - 1) : ~Hit(k)
      \/ \E k \in 1..(i - 1) :
            /\ w = <<rules[k]>> /\ Hit(k)
            /\ \A j \in 1..(i - 1) : Hit(j) => /\ Long(j) <= Long(k)
                                               /\ Long(j) = Long(k) /\ Allow(j) => Allow(k)
  BY DEF Decides
<1>4. \/ next = <<>> /\ \A k \in 1..i : ~Hit(k)
      \/ \E k \in 1..i :
            /\ next = <<rules[k]>> /\ Hit(k)
            /\ \A j \in 1..i : Hit(j) => /\ Long(j) <= Long(k)
                                         /\ Long(j) = Long(k) /\ Allow(j) => Allow(k)
  <2>1. CASE w = <<>> /\ \A k \in 1..(i - 1) : ~Hit(k)
    <3> HIDE DEF Hit, Long, Allow, next
    <3>1. CASE Hit(i)
      <4>1. next = <<rules[i]>> /\ i \in 1..i
        BY <1>1, <1>2, <2>1, <3>1
      <4>2. \A j \in 1..i : Hit(j) => j = i
        BY <1>1, <2>1
      <4>3. Long(i) <= Long(i)
        BY <1>1
      <4> QED  BY <3>1, <4>1, <4>2, <4>3
    <3>2. CASE ~Hit(i)
      BY <1>1, <1>2, <2>1, <3>2
    <3> QED  BY <3>1, <3>2
  <2>2. ASSUME NEW k \in 1..(i - 1), w = <<rules[k]>>, Hit(k),
               \A j \in 1..(i - 1) : Hit(j) => /\ Long(j) <= Long(k)
                                               /\ Long(j) = Long(k) /\ Allow(j) => Allow(k)
        PROVE  \/ next = <<>> /\ \A m \in 1..i : ~Hit(m)
               \/ \E m \in 1..i :
                     /\ next = <<rules[m]>> /\ Hit(m)
                     /\ \A j \in 1..i : Hit(j) => /\ Long(j) <= Long(m)
                                                  /\ Long(j) = Long(m) /\ Allow(j) => Allow(m)
    <3>1. Len(w[1].pattern) = Long(k) /\ w # <<>>
      BY <2>2
    <3> HIDE DEF Hit, Long, Allow, next
    <3>2. k \in 1..i /\ i \in 1..i
      BY <1>1
    <3>3. CASE ~Hit(i)
      <4>1. next = w
        BY <1>2, <3>3
      <4> QED  BY <1>1, <2>2, <3>2, <3>3, <4>1
    <3>4. CASE Hit(i) /\ (Long(i) > Long(k) \/ (Long(i) = Long(k) /\ Allow(i)))
      <4>1. next = <<rules[i]>>
        BY <1>2, <3>1, <3>4
      <4>2. \A j \in 1..i : Hit(j) => /\ Long(j) <= Long(i)
                                      /\ Long(j) = Long(i) /\ Allow(j) => Allow(i)
        BY <1>1, <2>2, <3>2, <3>4
      <4> QED  BY <3>2, <3>4, <4>1, <4>2
    <3>5. CASE Hit(i) /\ ~(Long(i) > Long(k) \/ (Long(i) = Long(k) /\ Allow(i)))
      <4>1. next = <<rules[k]>>
        BY <1>2, <2>2, <3>1, <3>5
      <4>2. \A j \in 1..i : Hit(j) => /\ Long(j) <= Long(k)
                                      /\ Long(j) = Long(k) /\ Allow(j) => Allow(k)
        BY <1>1, <2>2, <3>2, <3>5
      <4> QED  BY <2>2, <3>2, <4>1, <4>2
    <3> QED  BY <3>3, <3>4, <3>5
  <2> HIDE DEF Hit, Long, Allow, next
  <2> QED  BY <1>3, <2>1, <2>2
<1> QED  BY <1>4 DEF Decides

\* All the rules of a group.
LEMMA DecidingDecides ==
    ASSUME NEW rules \in Seq(Rules), NEW path
    PROVE  Decides(rules, path, Len(rules), Deciding(rules, path))
<1> DEFINE n == Len(rules)
           T == [i \in 0..n |-> {w \in Seq(Rules) : Decides(rules, path, i, w)}]
<1>1. n \in Nat
  OBVIOUS
<1>2. T \in [0..n -> SUBSET Seq(Rules)]
  OBVIOUS
<1>3. <<>> \in T[0]
  <2>1. Decides(rules, path, 0, <<>>)
    BY DEF Decides
  <2> QED  BY <1>1, <2>1
<1>4. ASSUME NEW i \in 1..n, NEW w \in T[i - 1]
      PROVE  Weighed(w, rules[i], path) \in T[i]
  <2>1. i - 1 \in 0..n /\ i \in 0..n
    BY <1>1
  <2>2. w \in Seq(Rules) /\ Decides(rules, path, i - 1, w)
    BY <2>1
  <2>3. Decides(rules, path, i, Weighed(w, rules[i], path))
    BY <2>2, RuleWeighed
  <2>4. Weighed(w, rules[i], path) \in Seq(Rules)
    <3>1. rules[i] \in Rules
      <4> HIDE DEF Rules
      <4> QED  OBVIOUS
    <3> QED  BY <2>2, <3>1, WeighedIsRule
  <2> QED  BY <2>1, <2>3, <2>4
<1>5. Deciding(rules, path) \in T[n]
  <2> HIDE DEF T
  <2> QED  BY <1>2, <1>3, <1>4, DecidingReaches
<1>6. n \in 0..n
  BY <1>1
<1> QED  BY <1>5, <1>6

-----------------------------------------------------------------------------
(* The blocks of a file f, and what a group keeps of one.                    *)

AgentAt(f, i) == f[i].field = "user-agent"
Breaks(f, i) == f[i].field \notin {"user-agent", "sitemap"}
Joins(f, n) == \E k \in 1 .. n - 1 : AgentAt(f, k) /\ \A j \in k + 1 .. n - 1 : ~Breaks(f, j)
Opens(f) == {i \in 1..Len(f) : AgentAt(f, i) /\ ~Joins(f, i)}
BlockAt(f, i) == {j \in i .. Len(f) : ~\E k \in i + 1 .. j : k \in Opens(f)}
Closed(f) == {i \in Opens(f) : \E k \in Opens(f) : i < k}

TokensIn(f, block) == {f[i].token : i \in {k \in block : AgentAt(f, k)}} \ {""}
RuleAt(f, i) == f[i].field \in {"allow", "disallow"} /\ f[i].pattern # <<>>
RulesIn(f, block) ==
    {[allow |-> f[i].field = "allow", pattern |-> f[i].pattern] :
        i \in {k \in block : RuleAt(f, k)}}
DelaysIn(f, block) == {i \in block : f[i].field = "crawl-delay" /\ f[i].delay >= 0}

Carries(f, g, block) ==
    /\ ToSet(g.agents) = TokensIn(f, block)
    /\ ToSet(g.rules) = RulesIn(f, block)
    /\ \/ g.delay = NoDelay /\ DelaysIn(f, block) = {}
       \/ \E i \in DelaysIn(f, block) : /\ g.delay = f[i].delay
                                        /\ \A k \in DelaysIn(f, block) : k <= i

\* The groups, in their order, carry the blocks that open at some of these
\* places; those they leave out name nobody.
Stand(f, groups, at, places) ==
    /\ \A m, n \in DOMAIN groups : m < n => at[m] < at[n]
    /\ \A n \in DOMAIN groups : Carries(f, groups[n], BlockAt(f, at[n]))
    /\ \A i \in places : TokensIn(f, BlockAt(f, i)) # {} => \E n \in DOMAIN groups : at[n] = i

State == [groups : Seq(Group), pending : Group, accepting : BOOLEAN, sitemaps : Nat]

\* Every block before the last is in the groups, and the last one is pending.
ReadTo(f, s) ==
    /\ s.accepting = Joins(f, Len(f) + 1)
    /\ s.accepting => Opens(f) # {}
    /\ Opens(f) = {} => s.pending.agents = <<>>
    /\ \A i \in Opens(f) \ Closed(f) : Carries(f, s.pending, BlockAt(f, i))
    /\ \E at \in [DOMAIN s.groups -> Closed(f)] : Stand(f, s.groups, at, Closed(f))

RobotsInv == file \in Seq(Lines) /\ parser \in State /\ ReadTo(file, parser)

\* A line more: the places before it keep what they say.
LEMMA LineMore ==
    ASSUME NEW f \in Seq(Lines), NEW l \in Lines
    PROVE  /\ Len(f) \in Nat /\ Len(Append(f, l)) = Len(f) + 1
           /\ \A i \in 1..Len(f) : Append(f, l)[i] = f[i]
           /\ Append(f, l)[Len(f) + 1] = l
           /\ Append(f, l) \in Seq(Lines)
  OBVIOUS

\* Whether an agent line joins the one before it is settled by what is before it.
LEMMA JoinsStay ==
    ASSUME NEW f \in Seq(Lines), NEW l \in Lines
    PROVE  \A i \in 1..(Len(f) + 1) : Joins(Append(f, l), i) = Joins(f, i)
<1> DEFINE g == Append(f, l)
           n == Len(f)
<1>1. n \in Nat /\ \A i \in 1..n : g[i] = f[i]
  BY LineMore
<1> HIDE DEF g, n
<1>2. SUFFICES ASSUME NEW i \in 1..(n + 1) PROVE Joins(g, i) = Joins(f, i)
  BY DEF g, n
<1>3. \A k \in 1 .. i - 1 : k \in 1..n /\ \A j \in k + 1 .. i - 1 : j \in 1..n
  BY <1>1
<1>4. \A k \in 1 .. i - 1 : AgentAt(g, k) = AgentAt(f, k)
  BY <1>1, <1>3 DEF AgentAt
<1>5. \A k \in 1 .. i - 1 : \A j \in k + 1 .. i - 1 : Breaks(g, j) = Breaks(f, j)
  BY <1>1, <1>3 DEF Breaks
<1> QED  BY <1>4, <1>5 DEF Joins

\* Whether the new line is an agent that joins no block decides if one opens.
LEMMA OpensGrow ==
    ASSUME NEW f \in Seq(Lines), NEW l \in Lines
    PROVE  Opens(Append(f, l)) =
             IF l.field = "user-agent" /\ ~Joins(f, Len(f) + 1)
             THEN Opens(f) \cup {Len(f) + 1} ELSE Opens(f)
<1> DEFINE g == Append(f, l)
           n == Len(f)
<1>1. /\ n \in Nat /\ Len(g) = n + 1 /\ \A i \in 1..n : g[i] = f[i]
      /\ g[n + 1] = l
  BY LineMore
<1>2. \A i \in 1..(n + 1) : Joins(g, i) = Joins(f, i)
  BY JoinsStay
<1> HIDE DEF g, n
<1>3. 1..(n + 1) = (1..n) \cup {n + 1} /\ n + 1 \notin 1..n
  BY <1>1
<1>4. \A i \in 1..n : AgentAt(g, i) = AgentAt(f, i)
  BY <1>1 DEF AgentAt
<1>5. AgentAt(g, n + 1) = (l.field = "user-agent")
  BY <1>1 DEF AgentAt
<1>6. Opens(g) = {i \in 1..(n + 1) : AgentAt(g, i) /\ ~Joins(g, i)}
  BY <1>1 DEF Opens
<1>7. Opens(f) = {i \in 1..n : AgentAt(f, i) /\ ~Joins(f, i)}
  BY DEF Opens, n
<1>8. Opens(g) = IF l.field = "user-agent" /\ ~Joins(f, n + 1)
                 THEN Opens(f) \cup {n + 1} ELSE Opens(f)
  BY <1>2, <1>3, <1>4, <1>5, <1>6, <1>7
<1> QED  BY <1>8 DEF g, n

\* The new line belongs to the block it opens, or else to the last one.
LEMMA BlocksGrow ==
    ASSUME NEW f \in Seq(Lines), NEW l \in Lines, NEW i \in Opens(f)
    PROVE  /\ i \in BlockAt(f, i) /\ BlockAt(f, i) \subseteq 1..Len(f)
           /\ BlockAt(Append(f, l), i) =
                IF i \in Closed(f) \/ (l.field = "user-agent" /\ ~Joins(f, Len(f) + 1))
                THEN BlockAt(f, i) ELSE BlockAt(f, i) \cup {Len(f) + 1}
<1> DEFINE g == Append(f, l)
           n == Len(f)
           More == l.field = "user-agent" /\ ~Joins(f, n + 1)
<1>1. n \in Nat /\ Len(g) = n + 1
  BY LineMore
<1>2. Opens(g) = IF More THEN Opens(f) \cup {n + 1} ELSE Opens(f)
  BY OpensGrow
<1>3. Opens(f) \subseteq 1..n
  BY DEF Opens
<1>4. /\ BlockAt(f, i) = {j \in i .. n : ~\E k \in i + 1 .. j : k \in Opens(f)}
      /\ BlockAt(g, i) = {j \in i .. n + 1 : ~\E k \in i + 1 .. j : k \in Opens(g)}
  BY <1>1 DEF BlockAt
<1>5. i \in Closed(f) <=> \E k \in Opens(f) : i < k
  BY DEF Closed
<1> HIDE DEF g, n, More
<1>6. i \in 1..n /\ i \in i..n
  BY <1>1, <1>3
<1>7. i \in BlockAt(f, i) /\ BlockAt(f, i) \subseteq 1..n
  BY <1>1, <1>3, <1>4, <1>6
<1>8. \A j \in i .. n : j \in BlockAt(g, i) <=> j \in BlockAt(f, i)
  BY <1>1, <1>2, <1>3, <1>4, <1>6
<1>9. n + 1 \in BlockAt(g, i) <=> ~(i \in Closed(f) \/ More)
  <2>1. n + 1 \in BlockAt(g, i) <=> ~\E k \in i + 1 .. n + 1 : k \in Opens(g)
    BY <1>1, <1>4, <1>6
  <2>2. CASE More
    <3>1. n + 1 \in i + 1 .. n + 1 /\ n + 1 \in Opens(g)
      BY <1>1, <1>2, <1>6, <2>2
    <3> QED  BY <2>1, <2>2, <3>1
  <2>3. CASE ~More
    <3>1. \A k \in Opens(f) : (k \in i + 1 .. n + 1) <=> i < k
      BY <1>1, <1>3, <1>6
    <3> QED  BY <1>2, <1>5, <2>1, <2>3, <3>1
  <2> QED  BY <2>2, <2>3
<1>10. /\ BlockAt(g, i) \subseteq (i .. n) \cup {n + 1}
       /\ BlockAt(f, i) \subseteq i .. n /\ n + 1 \notin i .. n
  BY <1>1, <1>4, <1>6
<1>11. BlockAt(g, i) = IF i \in Closed(f) \/ More THEN BlockAt(f, i)
                       ELSE BlockAt(f, i) \cup {n + 1}
  <2>1. CASE i \in Closed(f) \/ More
    <3>1. n + 1 \notin BlockAt(g, i)
      BY <1>9, <2>1
    <3>2. BlockAt(g, i) = BlockAt(f, i)
      BY <1>8, <1>10, <3>1
    <3> QED  BY <2>1, <3>2
  <2>2. CASE ~(i \in Closed(f) \/ More)
    <3>1. n + 1 \in BlockAt(g, i)
      BY <1>9, <2>2
    <3>2. BlockAt(g, i) = BlockAt(f, i) \cup {n + 1}
      BY <1>8, <1>10, <3>1
    <3> QED  BY <2>2, <3>2
  <2> QED  BY <2>1, <2>2
<1> QED  BY <1>7, <1>11 DEF g, n, More

\* A block that opens at the new line is that line.
LEMMA BlockOpens ==
    ASSUME NEW f \in Seq(Lines), NEW l \in Lines
    PROVE  BlockAt(Append(f, l), Len(f) + 1) = {Len(f) + 1}
<1> DEFINE n == Len(f)
<1>1. n \in Nat /\ Len(Append(f, l)) = n + 1
  BY LineMore
<1>2. BlockAt(Append(f, l), n + 1) =
        {j \in n + 1 .. n + 1 : ~\E k \in n + 1 + 1 .. j : k \in Opens(Append(f, l))}
  BY <1>1 DEF BlockAt
<1> HIDE DEF n
<1>3. n + 1 .. n + 1 = {n + 1} /\ \A j \in n + 1 .. n + 1 : n + 1 + 1 .. j = {}
  BY <1>1
<1>4. BlockAt(Append(f, l), n + 1) = {n + 1}
  BY <1>2, <1>3
<1> QED  BY <1>4 DEF n

\* What a block says, and so the group that carries it, is of its own lines.
LEMMA CarriesStays ==
    ASSUME NEW f \in Seq(Lines), NEW l \in Lines, NEW block \in SUBSET (1..Len(f))
    PROVE  /\ TokensIn(Append(f, l), block) = TokensIn(f, block)
           /\ RulesIn(Append(f, l), block) = RulesIn(f, block)
           /\ DelaysIn(Append(f, l), block) = DelaysIn(f, block)
           /\ \A g : Carries(Append(f, l), g, block) = Carries(f, g, block)
<1> DEFINE h == Append(f, l)
<1>1. \A i \in block : h[i] = f[i]
  BY LineMore
<1> HIDE DEF h
<1>2. TokensIn(h, block) = TokensIn(f, block)
  BY <1>1 DEF TokensIn, AgentAt
<1>3. RulesIn(h, block) = RulesIn(f, block)
  <2>1. {k \in block : RuleAt(h, k)} = {k \in block : RuleAt(f, k)}
    BY <1>1 DEF RuleAt
  <2> DEFINE K == {k \in block : RuleAt(f, k)}
  <2>2. \A k \in K : h[k] = f[k]
    BY <1>1
  <2> HIDE DEF K
  <2>3. {[allow |-> h[i].field = "allow", pattern |-> h[i].pattern] : i \in K}
          = {[allow |-> f[i].field = "allow", pattern |-> f[i].pattern] : i \in K}
    BY <2>2
  <2> QED  BY <2>1, <2>3 DEF RulesIn, K
<1>4. DelaysIn(h, block) = DelaysIn(f, block)
  BY <1>1 DEF DelaysIn
<1>5. ASSUME NEW g PROVE Carries(h, g, block) = Carries(f, g, block)
  <2>1. \A i \in DelaysIn(f, block) : h[i] = f[i]
    BY <1>1 DEF DelaysIn
  <2> QED  BY <1>2, <1>3, <1>4, <2>1 DEF Carries
<1> QED  BY <1>2, <1>3, <1>4, <1>5 DEF h

LEMMA JoinsAt ==
    ASSUME NEW f, NEW n, NEW p, p = n - 1
    PROVE  Joins(f, n) <=> \E k \in 1 .. p : AgentAt(f, k) /\ \A j \in k + 1 .. p : ~Breaks(f, j)
<1>1. Joins(f, n) <=> \E k \in 1 .. n - 1 : AgentAt(f, k) /\ \A j \in k + 1 .. n - 1 : ~Breaks(f, j)
  BY DEF Joins
<1> HIDE DEF Joins
<1> QED  BY <1>1, Zenon

\* Agent lines separated by no rule join the one before.
LEMMA JoinsNext ==
    ASSUME NEW f \in Seq(Lines), NEW l \in Lines
    PROVE  Joins(Append(f, l), Len(f) + 2) =
             (\/ l.field = "user-agent"
              \/ l.field = "sitemap" /\ Joins(f, Len(f) + 1))
<1> DEFINE g == Append(f, l)
           n == Len(f)
<1>1. n \in Nat /\ \A i \in 1..n : g[i] = f[i]
  BY LineMore
<1>2. g[n + 1] = l
  BY LineMore
<1> HIDE DEF g, n
<1>3. Joins(g, n + 2) <=>
        \E k \in 1 .. n + 1 : AgentAt(g, k) /\ \A j \in k + 1 .. n + 1 : ~Breaks(g, j)
  <2> DEFINE m == n + 2
             p == n + 1
  <2>1. p = m - 1
    BY <1>1
  <2> HIDE DEF m, p
  <2>2. Joins(g, m) <=> \E k \in 1 .. p : AgentAt(g, k) /\ \A j \in k + 1 .. p : ~Breaks(g, j)
    BY Zenon, <2>1, JoinsAt
  <2> QED  BY <2>2 DEF m, p
<1>4. Joins(f, n + 1) <=> \E k \in 1 .. n : AgentAt(f, k) /\ \A j \in k + 1 .. n : ~Breaks(f, j)
  <2> DEFINE m == n + 1
  <2>1. n = m - 1
    BY <1>1
  <2> HIDE DEF m
  <2>2. Joins(f, m) <=> \E k \in 1 .. n : AgentAt(f, k) /\ \A j \in k + 1 .. n : ~Breaks(f, j)
    BY Zenon, <2>1, JoinsAt
  <2> QED  BY <2>2 DEF m
<1>5. /\ \A k \in 1..n : AgentAt(g, k) = AgentAt(f, k) /\ Breaks(g, k) = Breaks(f, k)
      /\ AgentAt(g, n + 1) = (l.field = "user-agent")
      /\ Breaks(g, n + 1) = (l.field \notin {"user-agent", "sitemap"})
  BY <1>1, <1>2 DEF AgentAt, Breaks
<1>6. /\ n + 1 \in 1 .. n + 1 /\ n + 1 + 1 .. n + 1 = {}
      /\ \A k \in 1..n : /\ k \in 1 .. n + 1 /\ n + 1 \in k + 1 .. n + 1
                         /\ \A j \in k + 1 .. n + 1 : j \in k + 1 .. n \/ j = n + 1
                         /\ \A j \in k + 1 .. n : j \in 1..n /\ j \in k + 1 .. n + 1
      /\ \A k \in 1 .. n + 1 : k \in 1..n \/ k = n + 1
  BY <1>1
<1>7. CASE l.field = "user-agent"
  BY <1>3, <1>5, <1>6, <1>7 DEF g, n
<1>8. CASE l.field # "user-agent"
  <2>1. ASSUME Joins(g, n + 2) PROVE l.field = "sitemap" /\ Joins(f, n + 1)
    <3>1. PICK k \in 1 .. n + 1 : AgentAt(g, k) /\ \A j \in k + 1 .. n + 1 : ~Breaks(g, j)
      BY <1>3, <2>1
    <3>2. k \in 1..n
      BY <1>5, <1>6, <1>8, <3>1
    <3>3. ~Breaks(g, n + 1)
      BY <1>6, <3>1, <3>2
    <3>4. l.field = "sitemap"
      BY <1>5, <1>8, <3>3
    <3>5. AgentAt(f, k) /\ \A j \in k + 1 .. n : ~Breaks(f, j)
      BY <1>5, <1>6, <3>1, <3>2
    <3> QED  BY <1>4, <3>2, <3>4, <3>5
  <2>2. ASSUME l.field = "sitemap", Joins(f, n + 1) PROVE Joins(g, n + 2)
    <3>1. PICK k \in 1..n : AgentAt(f, k) /\ \A j \in k + 1 .. n : ~Breaks(f, j)
      BY <1>4, <2>2
    <3>2. AgentAt(g, k) /\ k \in 1 .. n + 1
      BY <1>5, <1>6, <3>1
    <3>3. \A j \in k + 1 .. n + 1 : ~Breaks(g, j)
      BY <1>5, <1>6, <2>2, <3>1
    <3> QED  BY <1>3, <3>2, <3>3
  <2>3. Joins(g, n + 2) \in BOOLEAN /\ Joins(f, n + 1) \in BOOLEAN
    BY DEF Joins
  <2> QED  BY <1>8, <2>1, <2>2, <2>3 DEF g, n
<1> QED  BY <1>7, <1>8

-----------------------------------------------------------------------------
(* What a line adds to the pending group.                                    *)

Added(g, l) ==
    [agents |-> IF l.field = "user-agent" /\ l.token # "" THEN Append(g.agents, l.token)
                ELSE g.agents,
     rules |-> IF l.field \in {"allow", "disallow"} /\ l.pattern # <<>>
               THEN Append(g.rules, [allow |-> l.field = "allow", pattern |-> l.pattern])
               ELSE g.rules,
     delay |-> IF l.field = "crawl-delay" /\ l.delay >= 0 THEN l.delay ELSE g.delay]

LEMMA ToSetAppended ==
    ASSUME NEW S, NEW s \in Seq(S), NEW x \in S
    PROVE  ToSet(Append(s, x)) = ToSet(s) \cup {x}
<1> DEFINE t == Append(s, x)
           n == Len(s)
<1>1. /\ DOMAIN s = 1..n /\ DOMAIN t = 1..(n + 1) /\ n \in Nat
      /\ t[n + 1] = x /\ \A i \in 1..n : t[i] = s[i]
  OBVIOUS
<1> HIDE DEF t, n
<1>2. 1..(n + 1) = (1..n) \cup {n + 1}
  BY <1>1
<1>3. ToSet(t) = ToSet(s) \cup {x}
  BY <1>1, <1>2 DEF ToSet
<1> QED  BY <1>3 DEF t

LEMMA AddedIsGroup ==
    ASSUME NEW g \in Group, NEW l \in Lines
    PROVE  Added(g, l) \in Group
<1>1. /\ l.field \in STRING /\ l.token \in STRING /\ l.pattern \in Seq(STRING)
      /\ l.delay \in Int
  BY LineParts
<1>2. g.agents \in Seq(STRING) /\ g.rules \in Seq(Rules) /\ g.delay \in Int
  BY DEF Group
<1>3. [allow |-> l.field = "allow", pattern |-> l.pattern] \in Rules
  BY <1>1 DEF Rules
<1> DEFINE r == [allow |-> l.field = "allow", pattern |-> l.pattern]
<1> HIDE DEF r, Rules
<1>4. Append(g.rules, r) \in Seq(Rules) /\ Append(g.agents, l.token) \in Seq(STRING)
  BY <1>1, <1>2, <1>3 DEF r
<1> QED  BY <1>1, <1>2, <1>4 DEF Added, Group, r

\* A group that carries a block carries the block with the line once the line
\* is added to it.
LEMMA LineJoinsBlock ==
    ASSUME NEW f \in Seq(Lines), NEW l \in Lines, NEW block \in SUBSET (1..Len(f)),
           NEW g \in Group, Carries(f, g, block)
    PROVE  Carries(Append(f, l), Added(g, l), block \cup {Len(f) + 1})
<1> DEFINE h == Append(f, l)
           n == Len(f)
           r == [allow |-> l.field = "allow", pattern |-> l.pattern]
           a == Added(g, l)
<1>1. n \in Nat /\ h[n + 1] = l
  BY LineMore
<1>2. /\ TokensIn(h, block) = ToSet(g.agents)
      /\ RulesIn(h, block) = ToSet(g.rules)
      /\ Carries(h, g, block)
  BY CarriesStays DEF Carries
<1>3. /\ l.field \in STRING /\ l.token \in STRING /\ l.pattern \in Seq(STRING)
      /\ l.delay \in Int
  BY LineParts
<1>4. g.agents \in Seq(STRING) /\ g.rules \in Seq(Rules) /\ g.delay \in Int
  BY DEF Group
<1>5. r \in Rules
  BY <1>3 DEF Rules
<1> HIDE DEF h, n, Rules
<1>6. ToSet(a.agents) = TokensIn(h, block \cup {n + 1})
  <2> DEFINE At(b) == {k \in b : AgentAt(h, k)}
             Found(b) == {h[i].token : i \in At(b)}
  <2>1. /\ TokensIn(h, block) = Found(block) \ {""}
        /\ TokensIn(h, block \cup {n + 1}) = Found(block \cup {n + 1}) \ {""}
    BY DEF TokensIn
  <2>2. CASE l.field = "user-agent"
    <3>1. At(block \cup {n + 1}) = At(block) \cup {n + 1}
      BY <1>1, <2>2 DEF AgentAt
    <3> HIDE DEF At
    <3>2. Found(block \cup {n + 1}) = Found(block) \cup {l.token}
      BY <1>1, <3>1
    <3> HIDE DEF Found
    <3>3. CASE l.token = ""
      <4>1. a.agents = g.agents
        BY <3>3 DEF Added
      <4> QED  BY <1>2, <2>1, <3>2, <3>3, <4>1
    <3>4. CASE l.token # ""
      <4>1. a.agents = Append(g.agents, l.token)
        BY <2>2, <3>4 DEF Added
      <4>2. ToSet(a.agents) = ToSet(g.agents) \cup {l.token}
        BY <1>3, <1>4, <4>1, ToSetAppended
      <4> HIDE DEF a
      <4>3. TokensIn(h, block \cup {n + 1}) = (Found(block) \ {""}) \cup {l.token}
        BY <2>1, <3>2, <3>4
      <4>4. ToSet(g.agents) = Found(block) \ {""}
        BY <1>2, <2>1
      <4> QED  BY <4>2, <4>3, <4>4
    <3> QED  BY <3>3, <3>4
  <2>3. CASE l.field # "user-agent"
    <3>1. At(block \cup {n + 1}) = At(block)
      BY <1>1, <2>3 DEF AgentAt
    <3>2. a.agents = g.agents
      BY <2>3 DEF Added
    <3> HIDE DEF At
    <3> QED  BY <1>2, <2>1, <3>1, <3>2
  <2> QED  BY <2>2, <2>3
<1>7. ToSet(a.rules) = RulesIn(h, block \cup {n + 1})
  <2> DEFINE At(b) == {k \in b : RuleAt(h, k)}
  <2>1. \A b : RulesIn(h, b) =
                 {[allow |-> h[i].field = "allow", pattern |-> h[i].pattern] : i \in At(b)}
    BY DEF RulesIn
  <2>2. CASE l.field \in {"allow", "disallow"} /\ l.pattern # <<>>
    <3>1. At(block \cup {n + 1}) = At(block) \cup {n + 1}
      BY <1>1, <2>2 DEF RuleAt
    <3> HIDE DEF At
    <3>2. RulesIn(h, block \cup {n + 1}) = RulesIn(h, block) \cup {r}
      <4> DEFINE Of(K) == {[allow |-> h[i].field = "allow", pattern |-> h[i].pattern] : i \in K}
      <4>1. /\ RulesIn(h, block) = Of(At(block))
            /\ RulesIn(h, block \cup {n + 1}) = Of(At(block) \cup {n + 1})
        BY <2>1, <3>1
      <4>2. \A K : Of(K \cup {n + 1}) = Of(K) \cup {r}
        BY <1>1
      <4> HIDE DEF Of, r
      <4> QED  BY <4>1, <4>2
    <3>3. a.rules = Append(g.rules, r)
      BY <2>2 DEF Added
    <3> HIDE DEF r
    <3>4. ToSet(a.rules) = ToSet(g.rules) \cup {r}
      BY <1>4, <1>5, <3>3, ToSetAppended
    <3> QED  BY <1>2, <3>2, <3>4
  <2>3. CASE ~(l.field \in {"allow", "disallow"} /\ l.pattern # <<>>)
    <3>1. At(block \cup {n + 1}) = At(block)
      BY <1>1, <2>3 DEF RuleAt
    <3>2. a.rules = g.rules
      BY <2>3 DEF Added
    <3> HIDE DEF At
    <3> QED  BY <1>2, <2>1, <3>1, <3>2
  <2> QED  BY <2>2, <2>3
<1>8. \/ a.delay = NoDelay /\ DelaysIn(h, block \cup {n + 1}) = {}
      \/ \E i \in DelaysIn(h, block \cup {n + 1}) :
            /\ a.delay = h[i].delay
            /\ \A k \in DelaysIn(h, block \cup {n + 1}) : k <= i
  <2>1. CASE l.field = "crawl-delay" /\ l.delay >= 0
    <3>1. n + 1 \in DelaysIn(h, block \cup {n + 1})
      BY <1>1, <2>1 DEF DelaysIn
    <3>2. \A k \in DelaysIn(h, block \cup {n + 1}) : k <= n + 1
      BY <1>1 DEF DelaysIn, n
    <3>3. a.delay = h[n + 1].delay
      BY <1>1, <2>1 DEF Added
    <3> QED  BY <3>1, <3>2, <3>3
  <2>2. CASE ~(l.field = "crawl-delay" /\ l.delay >= 0)
    <3>1. DelaysIn(h, block \cup {n + 1}) = DelaysIn(h, block)
      BY <1>1, <2>2 DEF DelaysIn
    <3>2. a.delay = g.delay
      BY <2>2 DEF Added
    <3> HIDE DEF a
    <3> QED  BY <1>2, <3>1, <3>2 DEF Carries
  <2> QED  BY <2>1, <2>2
<1> HIDE DEF a
<1>9. Carries(h, a, block \cup {n + 1})
  BY <1>6, <1>7, <1>8 DEF Carries
<1> QED  BY <1>9 DEF h, n, a

LEMMA FreshCarriesNothing ==
    ASSUME NEW f
    PROVE  Fresh \in Group /\ Carries(f, Fresh, {})
  BY DEF Fresh, Group, Carries, TokensIn, RulesIn, DelaysIn, ToSet, NoDelay

LEMMA GroupParts ==
    ASSUME NEW g \in Group
    PROVE  \A x : /\ [g EXCEPT !.agents = x] = [agents |-> x, rules |-> g.rules, delay |-> g.delay]
                  /\ [g EXCEPT !.rules = x] = [agents |-> g.agents, rules |-> x, delay |-> g.delay]
                  /\ [g EXCEPT !.delay = x] = [agents |-> g.agents, rules |-> g.rules, delay |-> x]
  BY DEF Group

\* A new block starts with a fresh group.
Opening(s, l) == l.field = "user-agent" /\ ~s.accepting
Continued(s, l) == IF Opening(s, l) THEN Fresh ELSE s.pending

\* What flush leaves.
LEMMA FlushedIsState ==
    ASSUME NEW s \in State
    PROVE  /\ Flushed(s) \in State /\ Flushed(s).pending = Fresh
           /\ Flushed(s).groups = IF s.pending.agents = <<>> THEN s.groups
                                  ELSE Append(s.groups, s.pending)
           /\ Flushed(s).accepting = s.accepting /\ Flushed(s).sitemaps = s.sitemaps
<1>1. Fresh \in Group
  BY FreshCarriesNothing
<1>2. /\ s.groups \in Seq(Group) /\ s.pending \in Group /\ s.accepting \in BOOLEAN
      /\ s.sitemaps \in Nat
  BY DEF State
<1> DEFINE flushed == IF s.pending.agents = <<>> THEN s.groups ELSE Append(s.groups, s.pending)
<1> HIDE DEF Group
<1>3. flushed \in Seq(Group)
  BY <1>2
<1>4. Flushed(s) = [s EXCEPT !.groups = flushed, !.pending = Fresh]
  BY DEF Flushed
<1> HIDE DEF flushed
<1>5. /\ Flushed(s) \in State /\ Flushed(s).pending = Fresh /\ Flushed(s).groups = flushed
      /\ Flushed(s).accepting = s.accepting /\ Flushed(s).sitemaps = s.sitemaps
  BY <1>1, <1>2, <1>3, <1>4 DEF State
<1> QED  BY <1>5 DEF flushed

\* What each kind of line leaves of the parser's variables, in one form.
LEMMA AfterAdds ==
    ASSUME NEW s \in State, NEW l \in Lines
    PROVE  /\ After(s, l) \in State
           /\ After(s, l).pending = Added(Continued(s, l), l)
           /\ After(s, l).groups = IF Opening(s, l) THEN Flushed(s).groups ELSE s.groups
           /\ After(s, l).accepting = (l.field = "user-agent"
                                       \/ (l.field = "sitemap" /\ s.accepting))
<1> DEFINE a == After(s, l)
           c == Continued(s, l)
           p == Added(c, l)
           g == IF Opening(s, l) THEN Flushed(s).groups ELSE s.groups
           on == l.field = "user-agent" \/ (l.field = "sitemap" /\ s.accepting)
<1>1. /\ s.groups \in Seq(Group) /\ s.pending \in Group /\ s.accepting \in BOOLEAN
      /\ s.sitemaps \in Nat
  BY DEF State
<1>2. g \in Seq(Group) /\ c \in Group
  BY <1>1, FlushedIsState, FreshCarriesNothing DEF State, Continued
<1>3. p \in Group /\ on \in BOOLEAN
  BY <1>1, <1>2, AddedIsGroup
<1>4. c.agents \in Seq(STRING) /\ c.rules \in Seq(Rules) /\ c.delay \in Int
  BY <1>2 DEF Group
<1>5. c = [agents |-> c.agents, rules |-> c.rules, delay |-> c.delay]
  BY <1>2 DEF Group
<1>6. a.pending = p /\ a.groups = g /\ a.accepting = on /\ a.sitemaps \in Nat
      /\ a = [groups |-> a.groups, pending |-> a.pending, accepting |-> a.accepting,
              sitemaps |-> a.sitemaps]
  <2>1. CASE l.field = "user-agent"
    <3> DEFINE t == IF s.accepting THEN s ELSE Flushed(s)
    <3>1. t \in State /\ t.pending = c /\ t.groups = g
      BY <2>1, FlushedIsState DEF Opening, Continued
    <3>2. a = [t EXCEPT !.accepting = TRUE,
                        !.pending = [t.pending EXCEPT
                                       !.agents = IF l.token = "" THEN t.pending.agents
                                                  ELSE Append(t.pending.agents, l.token)]]
      BY <2>1 DEF After, AgentLine
    <3> HIDE DEF t, c, g
    <3>3. /\ t.sitemaps \in Nat
          /\ a = [groups |-> t.groups, accepting |-> TRUE, sitemaps |-> t.sitemaps,
                  pending |-> [c EXCEPT !.agents = IF l.token = "" THEN c.agents
                                                   ELSE Append(c.agents, l.token)]]
      BY <3>1, <3>2 DEF State
    <3>4. p = [c EXCEPT !.agents = IF l.token = "" THEN c.agents ELSE Append(c.agents, l.token)]
      <4> DEFINE x == IF l.token = "" THEN c.agents ELSE Append(c.agents, l.token)
      <4>1. p = [agents |-> x, rules |-> c.rules, delay |-> c.delay]
        BY <2>1 DEF Added
      <4> HIDE DEF x, p
      <4>2. p = [c EXCEPT !.agents = x]
        BY <1>2, <4>1, GroupParts
      <4> QED  BY <4>2 DEF x
    <3> HIDE DEF p, a
    <3>5. a = [groups |-> g, pending |-> p, accepting |-> TRUE, sitemaps |-> t.sitemaps]
      BY <3>1, <3>3, <3>4
    <3>6. a.accepting = TRUE /\ on = TRUE
      BY <2>1, <3>5
    <3> HIDE DEF on
    <3>7. t.sitemaps \in Nat
      BY <3>1 DEF State
    <3> QED  BY <3>5, <3>6, <3>7
  <2>2. CASE l.field = "sitemap"
    <3>1. a = [s EXCEPT !.sitemaps = @ + 1]
      BY <2>2 DEF After
    <3>2. c = s.pending /\ g = s.groups
      BY <2>2 DEF Continued, Opening
    <3>3. p = c
      BY <1>5, <2>2 DEF Added
    <3> HIDE DEF p, c, g
    <3> QED  BY <1>1, <2>2, <3>1, <3>2, <3>3 DEF State
  <2>3. CASE l.field \in {"allow", "disallow"}
    <3> DEFINE rs == IF l.pattern = <<>> THEN s.pending.rules
                     ELSE Append(s.pending.rules, [allow |-> l.field = "allow",
                                                   pattern |-> l.pattern])
    <3>1. a = [s EXCEPT !.accepting = FALSE, !.pending = [s.pending EXCEPT !.rules = rs]]
      BY <2>3 DEF After, RuleLine
    <3>2. c = s.pending /\ g = s.groups
      BY <2>3 DEF Continued, Opening
    <3>3. p = [agents |-> c.agents, rules |-> rs, delay |-> c.delay]
      BY <2>3, <3>2 DEF Added
    <3> HIDE DEF rs, p, c, g
    <3>4. p = [s.pending EXCEPT !.rules = rs]
      BY <1>1, <3>2, <3>3, GroupParts
    <3> QED  BY <1>1, <2>3, <3>1, <3>2, <3>4 DEF State
  <2>4. CASE l.field = "crawl-delay"
    <3> DEFINE d == IF l.delay >= 0 THEN l.delay ELSE s.pending.delay
    <3>1. a = [s EXCEPT !.accepting = FALSE, !.pending = [s.pending EXCEPT !.delay = d]]
      BY <2>4 DEF After, DelayLine
    <3>2. c = s.pending /\ g = s.groups
      BY <2>4 DEF Continued, Opening
    <3>3. p = [agents |-> c.agents, rules |-> c.rules, delay |-> d]
      BY <2>4, <3>2 DEF Added
    <3> HIDE DEF d, p, c, g
    <3>4. p = [s.pending EXCEPT !.delay = d]
      BY <1>1, <3>2, <3>3, GroupParts
    <3> QED  BY <1>1, <2>4, <3>1, <3>2, <3>4 DEF State
  <2>5. CASE l.field \notin {"user-agent", "sitemap", "allow", "disallow", "crawl-delay"}
    <3>1. a = [s EXCEPT !.accepting = FALSE]
      BY <2>5 DEF After
    <3>2. c = s.pending /\ g = s.groups
      BY <2>5 DEF Continued, Opening
    <3>3. p = c
      BY <1>5, <2>5 DEF Added
    <3> HIDE DEF p, c, g
    <3> QED  BY <1>1, <2>5, <3>1, <3>2, <3>3 DEF State
  <2> QED  BY <2>1, <2>2, <2>3, <2>4, <2>5
<1> HIDE DEF a, p, g, on
<1>7. a \in State
  BY <1>2, <1>3, <1>6 DEF State
<1> QED  BY <1>6, <1>7 DEF a, p, g, on

LEMMA UpToIsFinite ==
    ASSUME NEW n \in Nat
    PROVE  IsFiniteSet(1..n)
  BY FS_Interval

\* Unless no block opened, one opened last.
LEMMA LastOpen ==
    ASSUME NEW f \in Seq(Lines), Opens(f) # {}
    PROVE  \E i \in Opens(f) : /\ i \notin Closed(f)
                               /\ \A j \in Opens(f) : j = i \/ (j \in Closed(f) /\ j < i)
<1> DEFINE S == Opens(f)
           v == [x \in S |-> x]
<1>1. S \subseteq 1..Len(f) /\ Len(f) \in Nat
  BY DEF Opens
<1>2. IsFiniteSet(S)
  <2> HIDE DEF S
  <2> DEFINE n == Len(f)
  <2>1. n \in Nat /\ S \subseteq 1..n
    BY <1>1
  <2> HIDE DEF n
  <2>2. IsFiniteSet(1..n)
    BY <2>1, UpToIsFinite
  <2> QED  BY <2>1, <2>2, FS_Subset
<1> HIDE DEF S
<1>3. \A x \in S : v[x] \in Int /\ x \in Int /\ v[x] = x
  BY <1>1
<1>4. PICK i \in S : \A y \in S : v[y] <= v[i]
  <2> HIDE DEF v
  <2>1. S # {}
    BY DEF S
  <2> QED  BY <1>2, <1>3, <2>1, LargestExists
<1>5. \A y \in S : y \in Int /\ i \in Int /\ y <= i
  BY <1>3, <1>4
<1> HIDE DEF v
<1>6. \A y \in S : y = i \/ y < i
  BY <1>5
<1>7. ~ \E k \in S : i < k
  BY <1>5
<1>8. \A k \in S : k \in Closed(f) <=> \E j \in S : k < j
  BY DEF Closed, S
<1> QED  BY <1>4, <1>6, <1>7, <1>8 DEF S

\* At the end of a file, and when a block opens, every block so far is in the groups.
LEMMA FlushStands ==
    ASSUME NEW f \in Seq(Lines), NEW s \in State, ReadTo(f, s)
    PROVE  \E at \in [DOMAIN Flushed(s).groups -> Opens(f)] :
              Stand(f, Flushed(s).groups, at, Opens(f))
<1> DEFINE groups == Flushed(s).groups
           m == Len(s.groups)
<1>1. PICK at \in [DOMAIN s.groups -> Closed(f)] : Stand(f, s.groups, at, Closed(f))
  BY DEF ReadTo
<1>2. /\ Closed(f) \subseteq Opens(f) /\ m \in Nat
      /\ s.groups \in Seq(Group) /\ s.pending \in Group /\ DOMAIN s.groups = 1..m
  <2>1. s.groups \in Seq(Group) /\ s.pending \in Group
    BY DEF State
  <2> HIDE DEF Group
  <2>2. Len(s.groups) \in Nat /\ DOMAIN s.groups = 1..Len(s.groups)
    BY <2>1
  <2> QED  BY <2>1, <2>2 DEF Closed
<1>3. CASE s.pending.agents = <<>>
  <2>1. groups = s.groups
    BY <1>3, FlushedIsState
  <2>2. ASSUME NEW i \in Opens(f), TokensIn(f, BlockAt(f, i)) # {}
        PROVE  i \in Closed(f)
    <3>1. SUFFICES ASSUME i \notin Closed(f) PROVE FALSE
      OBVIOUS
    <3>2. ToSet(s.pending.agents) = TokensIn(f, BlockAt(f, i))
      BY <3>1 DEF ReadTo, Carries
    <3>3. ToSet(s.pending.agents) = {}
      BY <1>3 DEF ToSet
    <3> QED  BY <2>2, <3>2, <3>3
  <2>3. Stand(f, s.groups, at, Opens(f))
    BY <1>1, <2>2 DEF Stand
  <2>4. at \in [DOMAIN s.groups -> Opens(f)]
    BY <1>2
  <2> HIDE DEF groups
  <2> QED  BY <2>1, <2>3, <2>4 DEF groups
<1>4. CASE s.pending.agents # <<>>
  <2>1. groups = Append(s.groups, s.pending)
    BY <1>4, FlushedIsState
  <2>2. Opens(f) # {}
    BY <1>4 DEF ReadTo
  <2>3. PICK i \in Opens(f) : /\ i \notin Closed(f)
                              /\ \A j \in Opens(f) : j = i \/ (j \in Closed(f) /\ j < i)
    BY <2>2, LastOpen
  <2>4. Carries(f, s.pending, BlockAt(f, i))
    BY <2>3 DEF ReadTo
  <2>5. /\ DOMAIN groups = 1..(m + 1) /\ groups[m + 1] = s.pending
        /\ \A k \in 1..m : groups[k] = s.groups[k]
    <3> HIDE DEF Group
    <3> QED  BY <1>2, <2>1
  <2> DEFINE to == [k \in 1..(m + 1) |-> IF k = m + 1 THEN i ELSE at[k]]
  <2>6. /\ 1..(m + 1) = (1..m) \cup {m + 1} /\ m + 1 \notin 1..m /\ m + 1 \in 1..(m + 1)
        /\ \A k \in 1..m : k \in 1..(m + 1) /\ k < m + 1
        /\ \A k, n \in 1..(m + 1) : k < n => k \in 1..m
    BY <1>2
  <2>7. to[m + 1] = i /\ \A k \in 1..m : to[k] = at[k] /\ at[k] \in Closed(f)
    BY <1>1, <1>2, <2>6
  <2>8. to \in [1..(m + 1) -> Opens(f)]
    BY <1>1, <1>2, <2>3, <2>6
  <2> HIDE DEF to, groups, m
  <2>9. \A k, n \in 1..(m + 1) : k < n => to[k] < to[n]
    <3>1. SUFFICES ASSUME NEW k \in 1..(m + 1), NEW n \in 1..(m + 1), k < n
                   PROVE  to[k] < to[n]
      OBVIOUS
    <3>2. k \in 1..m /\ to[k] = at[k] /\ at[k] \in Closed(f)
      BY <2>6, <2>7, <3>1
    <3>3. CASE n = m + 1
      <4>1. at[k] < i
        BY <1>2, <2>3, <3>2
      <4> QED  BY <2>7, <3>2, <3>3, <4>1
    <3>4. CASE n \in 1..m
      <4>1. at[k] < at[n]
        BY <1>1, <1>2, <3>1, <3>2, <3>4 DEF Stand
      <4> QED  BY <2>7, <3>2, <3>4, <4>1
    <3> QED  BY <2>6, <3>3, <3>4
  <2>10. \A n \in 1..(m + 1) : Carries(f, groups[n], BlockAt(f, to[n]))
    <3>1. \A n \in 1..m : Carries(f, s.groups[n], BlockAt(f, at[n]))
      BY <1>1, <1>2 DEF Stand
    <3> QED  BY <2>4, <2>5, <2>6, <2>7, <3>1
  <2>11. \A j \in Opens(f) : TokensIn(f, BlockAt(f, j)) # {} => \E n \in 1..(m + 1) : to[n] = j
    <3>1. \A j \in Closed(f) : TokensIn(f, BlockAt(f, j)) # {} => \E n \in 1..m : at[n] = j
      BY <1>1, <1>2 DEF Stand
    <3> QED  BY <2>3, <2>6, <2>7, <3>1
  <2>12. Stand(f, groups, to, Opens(f))
    BY <2>5, <2>9, <2>10, <2>11 DEF Stand
  <2> QED  BY <2>5, <2>8, <2>12 DEF groups
<1> QED  BY <1>3, <1>4

\* What stands stays when a line more is read.
LEMMA StandsStays ==
    ASSUME NEW f \in Seq(Lines), NEW l \in Lines, NEW groups \in Seq(Group),
           NEW places, places \subseteq Opens(f), NEW at \in [DOMAIN groups -> places],
           \A i \in places : i \in Closed(f)
                             \/ (l.field = "user-agent" /\ ~Joins(f, Len(f) + 1)),
           Stand(f, groups, at, places)
    PROVE  Stand(Append(f, l), groups, at, places)
<1> DEFINE g == Append(f, l)
<1>1. \A i \in places : BlockAt(g, i) = BlockAt(f, i) /\ BlockAt(f, i) \in SUBSET (1..Len(f))
  BY BlocksGrow
<1>2. \A i \in places : /\ TokensIn(g, BlockAt(g, i)) = TokensIn(f, BlockAt(f, i))
                        /\ \A x : Carries(g, x, BlockAt(g, i)) = Carries(f, x, BlockAt(f, i))
  BY <1>1, CarriesStays
<1> HIDE DEF g, Group
<1>3. \A n \in DOMAIN groups : at[n] \in places
  OBVIOUS
<1>4. Stand(g, groups, at, places)
  BY <1>2, <1>3 DEF Stand
<1> QED  BY <1>4 DEF g

\* Reading a line keeps the invariant.
LEMMA LineRead ==
    ASSUME NEW f \in Seq(Lines), NEW l \in Lines, NEW s \in State, ReadTo(f, s)
    PROVE  ReadTo(Append(f, l), After(s, l))
<1> DEFINE g == Append(f, l)
           n == Len(f)
           a == After(s, l)
<1>1. /\ a.pending = Added(Continued(s, l), l)
      /\ a.groups = IF Opening(s, l) THEN Flushed(s).groups ELSE s.groups
      /\ a.accepting = (l.field = "user-agent" \/ (l.field = "sitemap" /\ s.accepting))
  BY AfterAdds
<1>2. n \in Nat /\ Len(g) = n + 1
  BY LineMore
<1>3. s.accepting = Joins(f, n + 1) /\ (s.accepting => Opens(f) # {})
  BY DEF ReadTo
<1>4. Opens(g) = IF Opening(s, l) THEN Opens(f) \cup {n + 1} ELSE Opens(f)
  BY <1>3, OpensGrow DEF Opening
<1>5. Opens(f) \subseteq 1..n /\ Closed(f) \subseteq Opens(f)
  BY DEF Opens, Closed
<1>6. Closed(g) = {i \in Opens(g) : \E k \in Opens(g) : i < k}
  BY DEF Closed
<1>7. a.accepting = Joins(g, Len(g) + 1)
  <2>1. Joins(g, n + 2) = (l.field = "user-agent" \/ (l.field = "sitemap" /\ Joins(f, n + 1)))
    BY JoinsNext
  <2>2. Len(g) + 1 = n + 2
    BY <1>2
  <2> HIDE DEF g, n, a
  <2> QED  BY <1>1, <1>3, <2>1, <2>2
<1> HIDE DEF a
<1>8. a.accepting => Opens(g) # {}
  BY <1>1, <1>3, <1>4 DEF Opening
<1>9. CASE Opening(s, l)
  <2>1. Closed(g) = Opens(f)
    <3> HIDE DEF n, g
    <3>1. \A i \in Opens(f) : i < n + 1 /\ ~(n + 1 < i)
      BY <1>2, <1>5
    <3>2. ~(n + 1 < n + 1)
      BY <1>2
    <3> QED  BY <1>4, <1>6, <1>9, <3>1, <3>2
  <2>2. PICK at \in [DOMAIN a.groups -> Opens(f)] : Stand(f, a.groups, at, Opens(f))
    BY <1>1, <1>9, FlushStands
  <2>3. Stand(g, a.groups, at, Opens(f))
    <3>1. a.groups \in Seq(Group)
      BY AfterAdds DEF State, a
    <3>2. l.field = "user-agent" /\ ~Joins(f, n + 1)
      BY <1>3, <1>9 DEF Opening
    <3> QED  BY <2>2, <3>1, <3>2, StandsStays
  <2>4. Carries(g, a.pending, BlockAt(g, n + 1))
    <3>1. Fresh \in Group /\ Carries(f, Fresh, {}) /\ {} \in SUBSET (1..n)
      BY FreshCarriesNothing
    <3>2. Carries(g, Added(Fresh, l), {} \cup {n + 1})
      BY <3>1, LineJoinsBlock
    <3>3. BlockAt(g, n + 1) = {n + 1}
      BY BlockOpens
    <3>4. a.pending = Added(Fresh, l)
      BY <1>1, <1>9 DEF Continued
    <3>5. {} \cup {n + 1} = {n + 1}
      OBVIOUS
    <3> HIDE DEF g, n
    <3> QED  BY <3>2, <3>3, <3>4, <3>5
  <2> HIDE DEF g, n
  <2>5. \A i \in Opens(g) \ Closed(g) : i = n + 1
    BY <1>4, <2>1
  <2>6. Opens(g) # {}
    BY <1>4, <1>9
  <2>7. \A i \in Opens(g) \ Closed(g) : Carries(g, a.pending, BlockAt(g, i))
    BY <2>4, <2>5
  <2>8. \E to \in [DOMAIN a.groups -> Closed(g)] : Stand(g, a.groups, to, Closed(g))
    BY <2>1, <2>2, <2>3
  <2>9. ReadTo(g, a)
    BY <1>7, <1>8, <2>6, <2>7, <2>8 DEF ReadTo
  <2> QED  BY <2>9 DEF g, a
<1>10. CASE ~Opening(s, l)
  <2>1. Opens(g) = Opens(f) /\ Closed(g) = Closed(f)
    BY <1>4, <1>10 DEF Closed
  <2>2. PICK at \in [DOMAIN s.groups -> Closed(f)] : Stand(f, s.groups, at, Closed(f))
    BY DEF ReadTo
  <2>3. s.groups \in Seq(Group) /\ s.pending \in Group
    BY DEF State
  <2>4. Stand(g, s.groups, at, Closed(f))
    BY <1>5, <2>2, <2>3, StandsStays
  <2>5. a.groups = s.groups /\ a.pending = Added(s.pending, l)
    BY <1>1, <1>10 DEF Continued
  <2>6. ASSUME NEW i \in Opens(f) \ Closed(f)
        PROVE  Carries(g, a.pending, BlockAt(g, i))
    <3>1. BlockAt(f, i) \in SUBSET (1..n)
      BY BlocksGrow
    <3>2. BlockAt(g, i) = BlockAt(f, i) \cup {n + 1}
      BY <1>3, <1>10, BlocksGrow DEF Opening
    <3>3. Carries(f, s.pending, BlockAt(f, i))
      BY DEF ReadTo
    <3>4. Carries(g, Added(s.pending, l), BlockAt(f, i) \cup {n + 1})
      BY <2>3, <3>1, <3>3, LineJoinsBlock
    <3> HIDE DEF g, n
    <3> QED  BY <2>5, <3>2, <3>4
  <2>7. Opens(g) = {} => a.pending.agents = <<>>
    <3>1. SUFFICES ASSUME Opens(g) = {} PROVE a.pending.agents = <<>>
      OBVIOUS
    <3>2. s.pending.agents = <<>> /\ ~s.accepting
      BY <1>3, <2>1, <3>1 DEF ReadTo
    <3>3. l.field # "user-agent"
      BY <1>10, <3>2 DEF Opening
    <3> QED  BY <2>5, <3>2, <3>3 DEF Added
  <2> HIDE DEF g, n
  <2>8. \A i \in Opens(g) \ Closed(g) : Carries(g, a.pending, BlockAt(g, i))
    BY <2>1, <2>6
  <2>9. \E to \in [DOMAIN a.groups -> Closed(g)] : Stand(g, a.groups, to, Closed(g))
    BY <2>1, <2>2, <2>4, <2>5
  <2>10. ReadTo(g, a)
    BY <1>7, <1>8, <2>7, <2>8, <2>9 DEF ReadTo
  <2> QED  BY <2>10 DEF g, a
<1> QED  BY <1>9, <1>10

-----------------------------------------------------------------------------
(* What stands answers for the file.                                         *)

\* The definitions of the model, said of the file.
LEMMA FileRead ==
    ASSUME file \in Seq(Lines)
    PROVE  /\ Opens(file) = {i \in DOMAIN file : OpensBlock(i)}
           /\ \A i \in Opens(file) : Block(i) = BlockAt(file, i)
           /\ Blocks = {BlockAt(file, i) : i \in Opens(file)}
           /\ \A block : Tokens(block) = TokensIn(file, block)
<1> DEFINE n == Len(file)
<1>1. n \in Nat /\ DOMAIN file = 1..n
  OBVIOUS
<1>2. \A i : OpensBlock(i) <=> AgentAt(file, i) /\ ~Joins(file, i)
  BY DEF OpensBlock, IsAgent, Ends, AgentAt, Joins, Breaks
<1>3. Opens(file) = {i \in 1..n : AgentAt(file, i) /\ ~Joins(file, i)}
  BY DEF Opens
<1> HIDE DEF n
<1>4. Opens(file) = {i \in 1..n : OpensBlock(i)}
  BY <1>2, <1>3
<1>5. ASSUME NEW i \in Opens(file) PROVE Block(i) = BlockAt(file, i)
  <2>1. i \in 1..n
    BY <1>3
  <2>2. /\ Block(i) = {j \in i .. n : ~\E k \in i + 1 .. j : OpensBlock(k)}
        /\ BlockAt(file, i) = {j \in i .. n : ~\E k \in i + 1 .. j : k \in Opens(file)}
    BY DEF Block, BlockAt, n
  <2>3. \A j \in i .. n : \A k \in i + 1 .. j : OpensBlock(k) <=> k \in Opens(file)
    <3>1. ASSUME NEW j \in i .. n, NEW k \in i + 1 .. j PROVE k \in 1..n
      <4>1. i \in Int /\ n \in Int /\ 1 <= i
        BY <1>1, <2>1
      <4>2. j \in Int /\ k \in Int /\ i + 1 <= k /\ k <= j /\ j <= n
        BY <4>1
      <4> QED  BY <4>1, <4>2
    <3> QED  BY <1>4, <3>1
  <2> QED  BY <2>2, <2>3
<1>6. Blocks = {BlockAt(file, i) : i \in Opens(file)}
  <2>1. Blocks = {Block(i) : i \in Opens(file)}
    BY <1>1, <1>4 DEF Blocks
  <2> QED  BY <1>5, <2>1
<1>7. \A block : Tokens(block) = TokensIn(file, block)
  BY DEF Tokens, IsAgent, TokensIn, AgentAt
<1> QED  BY <1>1, <1>4, <1>5, <1>6, <1>7

\* The block that opens first is the earliest.
LEMMA EarliestOpens ==
    ASSUME NEW f \in Seq(Lines), NEW S \in SUBSET Opens(f), NEW i \in S, \A j \in S : i <= j
    PROVE  Earliest({BlockAt(f, j) : j \in S}) = BlockAt(f, i)
<1> DEFINE B == {BlockAt(f, j) : j \in S}
           Q(b) == \A c \in B : \E x \in b : \A k \in c : x <= k
<1>1. \A j \in S : /\ j \in Int /\ j \in BlockAt(f, j)
                   /\ \A x \in BlockAt(f, j) : x \in Int /\ j <= x
  <2>1. SUFFICES ASSUME NEW j \in S
                 PROVE  /\ j \in Int /\ j \in BlockAt(f, j)
                        /\ \A x \in BlockAt(f, j) : x \in Int /\ j <= x
    OBVIOUS
  <2>2. j \in 1..Len(f) /\ Len(f) \in Nat
    BY DEF Opens
  <2> QED  BY <2>2 DEF BlockAt
<1>2. BlockAt(f, i) \in B /\ Q(BlockAt(f, i))
  <2>1. \A j \in S : \A k \in BlockAt(f, j) : i <= k
    <3>1. SUFFICES ASSUME NEW j \in S, NEW k \in BlockAt(f, j) PROVE i <= k
      OBVIOUS
    <3>2. i <= j /\ j <= k /\ i \in Int /\ j \in Int /\ k \in Int
      BY <1>1
    <3> QED  BY <3>2
  <2> QED  BY <1>1, <2>1
<1>3. ASSUME NEW b \in B, Q(b) PROVE b = BlockAt(f, i)
  <2>1. PICK j \in S : b = BlockAt(f, j)
    OBVIOUS
  <2>2. PICK x \in b : \A k \in BlockAt(f, i) : x <= k
    BY <1>2, <1>3
  <2>3. j <= x /\ x <= i /\ i <= j /\ x \in Int /\ j \in Int /\ i \in Int
    BY <1>1, <2>1, <2>2
  <2>4. j = i
    BY <2>3
  <2> QED  BY <2>1, <2>4
<1>4. Earliest(B) = CHOOSE b \in B : Q(b)
  BY DEF Earliest
<1> HIDE DEF B, Q
<1>5. Earliest(B) = BlockAt(f, i)
  BY <1>2, <1>3, <1>4
<1> QED  BY <1>5 DEF B

\* A group names what its block names.
LEMMA CarriedNames ==
    ASSUME NEW g \in Group, NEW f, NEW block, Carries(f, g, block)
    PROVE  /\ Names(g) = {TokenLength[t] : t \in TokensIn(f, block) \cap DOMAIN TokenLength}
           /\ Everyone(g) <=> Wildcard \in TokensIn(f, block)
<1>1. DOMAIN g.agents = 1..Len(g.agents)
  BY DEF Group
<1>2. ToSet(g.agents) = {g.agents[j] : j \in 1..Len(g.agents)}
  BY <1>1 DEF ToSet
<1>3. TokensIn(f, block) = {g.agents[j] : j \in 1..Len(g.agents)}
  BY <1>2 DEF Carries
<1>4. Everyone(g) <=> \E j \in 1..Len(g.agents) : g.agents[j] = Wildcard
  BY DEF Everyone, Wild
<1>5. Names(g) =
        {TokenLength[t] : t \in {g.agents[j] : j \in 1..Len(g.agents)} \cap DOMAIN TokenLength}
  BY DEF Names, Known
<1> QED  BY <1>3, <1>4, <1>5

\* group_for finds the group that carries the governing block, if one governs.
LEMMA GovernedBy ==
    ASSUME RobotsInv
    PROVE  \/ GroupFor(Groups) = <<>> /\ Governing = {}
           \/ \E g \in Group, block \in SUBSET (1..Len(file)) :
                 /\ GroupFor(Groups) = <<g>> /\ Governing = {block}
                 /\ Carries(file, g, block)
<1> DEFINE groups == Flushed(parser).groups
           N == Len(groups)
           In(i) == BlockAt(file, i)
           Lengths(i) == {TokenLength[t] : t \in TokensIn(file, In(i)) \cap DOMAIN TokenLength}
           wilds == {b \in Blocks : Wildcard \in Tokens(b)}
<1>1. file \in Seq(Lines) /\ parser \in State /\ ReadTo(file, parser)
  BY DEF RobotsInv
<1>2. PICK at \in [DOMAIN groups -> Opens(file)] : Stand(file, groups, at, Opens(file))
  BY <1>1, FlushStands
<1>3. groups \in Seq(Group)
  BY <1>1, FlushedIsState DEF State
<1>4. GroupFor(Groups) = GroupFor(groups)
  BY DEF Groups
<1>5. PICK wild \in Seq(Group), length \in Int, found \in Seq(Group) :
         /\ FirstWild(groups, N, wild)
         /\ FirstLongest(groups, N, found, length)
         /\ GroupFor(groups) = IF found # <<>> THEN found ELSE wild
  BY <1>3, GroupForIsFirst
<1>6. DOMAIN groups = 1..N /\ N \in Nat /\ \A n \in 1..N : groups[n] \in Group
  <2> HIDE DEF groups, Group
  <2> QED  BY <1>3
<1>7. /\ Blocks = {In(i) : i \in Opens(file)}
      /\ \A b : Tokens(b) = TokensIn(file, b)
      /\ \A i \in Opens(file) : Reach(In(i)) = Lengths(i)
  BY <1>1, FileRead DEF Reach
<1>8. \A n \in 1..N : /\ Carries(file, groups[n], In(at[n])) /\ at[n] \in Opens(file)
                      /\ Names(groups[n]) = Lengths(at[n])
                      /\ Everyone(groups[n]) <=> Wildcard \in TokensIn(file, In(at[n]))
  BY <1>2, <1>6, CarriedNames DEF Stand
<1>9. /\ \A m, n \in 1..N : m < n => at[m] < at[n]
      /\ \A i \in Opens(file) : TokensIn(file, In(i)) # {} => \E n \in 1..N : at[n] = i
  BY <1>2, <1>6 DEF Stand
<1>10. \A i \in Opens(file) : In(i) \in SUBSET (1..Len(file)) /\ i \in Int
  BY <1>1 DEF BlockAt, Opens
<1>11. \A i \in Opens(file) : /\ Lengths(i) # {} => \E n \in 1..N : at[n] = i
                              /\ Wildcard \in TokensIn(file, In(i)) => \E n \in 1..N : at[n] = i
                              /\ \A m \in Lengths(i) : m \in Nat
  <2>1. \A i \in Opens(file) : \A m \in Lengths(i) : m \in Nat
    BY TokensHaveLengths
  <2>2. \A i \in Opens(file) : Lengths(i) # {} => TokensIn(file, In(i)) # {}
    OBVIOUS
  <2> HIDE DEF Lengths, In
  <2> QED  BY <1>9, <2>1, <2>2
<1> HIDE DEF groups, In, Lengths, N
<1>12. Named = {In(i) : i \in {j \in Opens(file) : Lengths(j) # {}}}
  BY <1>7 DEF Named
<1>13. wilds = {In(i) : i \in {j \in Opens(file) : Wildcard \in TokensIn(file, In(j))}}
  BY <1>7
<1>14. Governing = IF Named # {} THEN {Earliest(MostSpecific)}
                   ELSE IF wilds # {} THEN {Earliest(wilds)} ELSE {}
  BY DEF Governing
<1> HIDE DEF wilds
<1>15. CASE found # <<>>
  <2>1. PICK k \in 1..N : /\ found = <<groups[k]>> /\ length \in Names(groups[k])
                          /\ \A j \in 1..N : \A m \in Names(groups[j]) : m <= length
                          /\ \A j \in 1..(k - 1) : \A m \in Names(groups[j]) : m < length
    BY <1>5, <1>15 DEF FirstLongest
  <2> DEFINE S == {j \in Opens(file) : length \in Lengths(j)}
  <2>2. at[k] \in S /\ Named # {}
    BY <1>8, <1>12, <2>1
  <2>3. \A i \in Opens(file) : \A m \in Lengths(i) : m <= length
    BY <1>8, <1>11, <2>1
  <2>4. MostSpecific = {In(j) : j \in S}
    <3>1. ASSUME NEW b \in MostSpecific PROVE b \in {In(j) : j \in S}
      <4>1. b \in Named
        BY DEF MostSpecific
      <4>2. PICK n \in Reach(b) : \A c \in Named : \A m \in Reach(c) : m <= n
        BY DEF MostSpecific
      <4>3. PICK i \in Opens(file) : b = In(i) /\ Reach(b) = Lengths(i)
        BY <1>7, <1>12, <4>1
      <4>4. In(at[k]) \in Named /\ length \in Reach(In(at[k]))
        BY <1>7, <1>12, <2>2
      <4>5. length <= n /\ n <= length /\ n \in Nat /\ length \in Nat
        BY <1>11, <2>2, <2>3, <4>2, <4>3, <4>4
      <4>6. n = length
        BY <4>5
      <4> QED  BY <4>2, <4>3, <4>6
    <3>2. ASSUME NEW j \in S PROVE In(j) \in MostSpecific
      <4>1. In(j) \in Named /\ length \in Reach(In(j))
        BY <1>7, <1>12
      <4>2. \A c \in Named : \A m \in Reach(c) : m <= length
        BY <1>7, <1>12, <2>3
      <4> QED  BY <4>1, <4>2 DEF MostSpecific
    <3> QED  BY <3>1, <3>2
  <2>5. \A j \in S : at[k] <= j
    <3>1. SUFFICES ASSUME NEW j \in S PROVE at[k] <= j
      OBVIOUS
    <3>2. PICK n \in 1..N : at[n] = j
      BY <1>11
    <3>3. length \in Names(groups[n])
      BY <1>8, <3>2
    <3>4. ~(n < k)
      <4>1. SUFFICES ASSUME n < k PROVE FALSE
        OBVIOUS
      <4>2. n \in 1..(k - 1)
        BY <1>6, <4>1
      <4>3. length < length
        BY <2>1, <3>3, <4>2
      <4> QED  BY <4>3
    <3>5. at[k] \in Int /\ j \in Int
      BY <1>8, <1>10
    <3>6. n = k \/ k < n
      BY <1>6, <3>4
    <3>7. CASE n = k
      BY <3>2, <3>5, <3>7
    <3>8. CASE k < n
      <4>1. at[k] < at[n]
        BY <1>9, <3>8
      <4> QED  BY <3>2, <3>5, <4>1
    <3> QED  BY <3>6, <3>7, <3>8
  <2>6. Earliest({BlockAt(file, j) : j \in S}) = BlockAt(file, at[k])
    <3>1. S \in SUBSET Opens(file)
      OBVIOUS
    <3> HIDE DEF S
    <3> QED  BY <1>1, <2>2, <2>5, <3>1, EarliestOpens
  <2>7. Governing = {In(at[k])}
    BY <1>14, <2>2, <2>4, <2>6 DEF In
  <2>8. GroupFor(Groups) = <<groups[k]>>
    BY <1>4, <1>5, <1>15, <2>1
  <2> QED  BY <1>6, <1>8, <1>10, <2>7, <2>8
<1>16. CASE found = <<>>
  <2>1. \A n \in 1..N : Names(groups[n]) = {}
    BY <1>5, <1>16 DEF FirstLongest
  <2>2. Named = {}
    BY <1>8, <1>11, <1>12, <2>1
  <2>3. GroupFor(Groups) = wild
    BY <1>4, <1>5, <1>16
  <2>4. CASE wild = <<>>
    <3>1. \A n \in 1..N : ~Everyone(groups[n])
      BY <1>5, <2>4 DEF FirstWild
    <3>2. wilds = {}
      BY <1>8, <1>11, <1>13, <3>1
    <3> QED  BY <1>14, <2>2, <2>3, <2>4, <3>2
  <2>5. CASE wild # <<>>
    <3>1. PICK k \in 1..N : /\ wild = <<groups[k]>> /\ Everyone(groups[k])
                            /\ \A j \in 1..(k - 1) : ~Everyone(groups[j])
      BY <1>5, <2>5 DEF FirstWild
    <3> DEFINE S == {j \in Opens(file) : Wildcard \in TokensIn(file, In(j))}
    <3>2. at[k] \in S /\ wilds # {}
      BY <1>8, <1>13, <3>1
    <3>3. \A j \in S : at[k] <= j
      <4>1. SUFFICES ASSUME NEW j \in S PROVE at[k] <= j
        OBVIOUS
      <4>2. PICK n \in 1..N : at[n] = j
        BY <1>11
      <4>3. Everyone(groups[n])
        BY <1>8, <4>2
      <4>4. ~(n < k)
        <5>1. SUFFICES ASSUME n < k PROVE FALSE
          OBVIOUS
        <5>2. n \in 1..(k - 1)
          BY <1>6, <5>1
        <5> QED  BY <3>1, <4>3, <5>2
      <4>5. at[k] \in Int /\ j \in Int
        BY <1>8, <1>10
      <4>6. n = k \/ k < n
        BY <1>6, <4>4
      <4>7. CASE n = k
        BY <4>2, <4>5, <4>7
      <4>8. CASE k < n
        <5>1. at[k] < at[n]
          BY <1>9, <4>8
        <5> QED  BY <4>2, <4>5, <5>1
      <4> QED  BY <4>6, <4>7, <4>8
    <3>4. Earliest({BlockAt(file, j) : j \in S}) = BlockAt(file, at[k])
      <4>1. S \in SUBSET Opens(file)
        OBVIOUS
      <4> HIDE DEF S
      <4> QED  BY <1>1, <3>2, <3>3, <4>1, EarliestOpens
    <3>5. wilds = {BlockAt(file, j) : j \in S}
      BY <1>13 DEF In
    <3>6. Governing = {In(at[k])}
      BY <1>14, <2>2, <3>2, <3>4, <3>5 DEF In
    <3> QED  BY <1>6, <1>8, <1>10, <2>3, <3>1, <3>6
  <2> QED  BY <2>4, <2>5
<1> QED  BY <1>15, <1>16

\* The rules of a group, weighed, permit what the rules of its block permit.
LEMMA DecidingPermits ==
    ASSUME NEW f \in Seq(Lines), NEW block \in SUBSET (1..Len(f)), NEW g \in Group,
           Carries(f, g, block), NEW path
    PROVE  LET w == Deciding(g.rules, path)
               hits == {i \in block : RuleAt(f, i) /\ RuleMatches(f[i].pattern, path)}
           IN (w = <<>> \/ w[1].allow)
                <=> \/ hits = {}
                    \/ \E i \in hits : /\ f[i].field = "allow"
                                       /\ \A k \in hits : Len(f[k].pattern) <= Len(f[i].pattern)
<1> DEFINE w == Deciding(g.rules, path)
           hits == {i \in block : RuleAt(f, i) /\ RuleMatches(f[i].pattern, path)}
           N == Len(g.rules)
           Hit(k) == RuleMatches(g.rules[k].pattern, path)
           Long(k) == Len(g.rules[k].pattern)
           Allow(k) == g.rules[k].allow
           Size(i) == Len(f[i].pattern)
           Allows(i) == f[i].field = "allow"
<1>1. g.rules \in Seq(Rules)
  BY DEF Group
<1>2. DOMAIN g.rules = 1..N /\ N \in Nat /\ \A k \in 1..N : g.rules[k] \in Rules
  <2> HIDE DEF Rules
  <2> QED  BY <1>1
<1>3. \A k \in 1..N : Long(k) \in Nat /\ Allow(k) \in BOOLEAN
  <2>1. \A r \in Rules : r.allow \in BOOLEAN /\ Len(r.pattern) \in Nat
    BY DEF Rules
  <2> QED  BY <1>2, <2>1
<1>4. {g.rules[k] : k \in 1..N} = RulesIn(f, block)
  BY <1>2 DEF Carries, ToSet
<1>5. Decides(g.rules, path, N, w)
  BY <1>1, DecidingDecides
<1>6. /\ \A i \in hits : \E k \in 1..N : Hit(k) /\ Long(k) = Size(i) /\ Allow(k) = Allows(i)
      /\ \A k \in 1..N : Hit(k) => \E i \in hits : Long(k) = Size(i) /\ Allow(k) = Allows(i)
  <2>1. ASSUME NEW i \in hits
        PROVE  \E k \in 1..N : Hit(k) /\ Long(k) = Size(i) /\ Allow(k) = Allows(i)
    <3>1. [allow |-> f[i].field = "allow", pattern |-> f[i].pattern] \in RulesIn(f, block)
      BY DEF RulesIn
    <3>2. PICK k \in 1..N : g.rules[k] = [allow |-> f[i].field = "allow", pattern |-> f[i].pattern]
      BY <1>4, <3>1
    <3>3. g.rules[k].pattern = f[i].pattern /\ g.rules[k].allow = (f[i].field = "allow")
      BY <3>2
    <3> QED  BY <3>3
  <2>2. ASSUME NEW k \in 1..N, Hit(k)
        PROVE  \E i \in hits : Long(k) = Size(i) /\ Allow(k) = Allows(i)
    <3>1. g.rules[k] \in RulesIn(f, block)
      BY <1>4
    <3>2. PICK i \in block : /\ RuleAt(f, i)
                             /\ g.rules[k] = [allow |-> f[i].field = "allow",
                                              pattern |-> f[i].pattern]
      BY <3>1 DEF RulesIn
    <3>3. g.rules[k].pattern = f[i].pattern /\ g.rules[k].allow = (f[i].field = "allow")
      BY <3>2
    <3>4. i \in hits
      BY <2>2, <3>2, <3>3
    <3> QED  BY <3>3, <3>4
  <2> QED  BY <2>1, <2>2
<1>7. \/ w = <<>> /\ \A k \in 1..N : ~Hit(k)
      \/ \E k \in 1..N : /\ w = <<g.rules[k]>> /\ Hit(k)
                         /\ \A j \in 1..N : Hit(j) => /\ Long(j) <= Long(k)
                                                      /\ Long(j) = Long(k) /\ Allow(j) => Allow(k)
  BY <1>5 DEF Decides
<1>8. \A k : w = <<g.rules[k]>> => w # <<>> /\ w[1].allow = Allow(k)
  <2> HIDE DEF w
  <2> QED  OBVIOUS
<1> HIDE DEF w, hits, N, Hit, Long, Allow, Size, Allows
<1>9. (w = <<>> \/ w[1].allow)
        <=> (hits = {} \/ \E i \in hits : Allows(i) /\ \A k \in hits : Size(k) <= Size(i))
  <2>1. CASE w = <<>> /\ \A k \in 1..N : ~Hit(k)
    BY <1>6, <2>1
  <2>2. ASSUME NEW k \in 1..N, w = <<g.rules[k]>>, Hit(k),
               \A j \in 1..N : Hit(j) => /\ Long(j) <= Long(k)
                                         /\ Long(j) = Long(k) /\ Allow(j) => Allow(k)
        PROVE  (w = <<>> \/ w[1].allow)
                 <=> (hits = {} \/ \E i \in hits : Allows(i) /\ \A m \in hits : Size(m) <= Size(i))
    <3>1. w # <<>> /\ w[1].allow = Allow(k)
      BY <1>8, <2>2
    <3>2. PICK i \in hits : Long(k) = Size(i) /\ Allow(k) = Allows(i)
      BY <1>6, <2>2
    <3>3. \A m \in hits : Size(m) <= Size(i)
      BY <1>6, <2>2, <3>2
    <3>4. ASSUME NEW n \in hits, Allows(n), \A m \in hits : Size(m) <= Size(n)
          PROVE  Allow(k)
      <4>1. PICK j \in 1..N : Hit(j) /\ Long(j) = Size(n) /\ Allow(j) = Allows(n)
        BY <1>6
      <4>2. Long(k) <= Long(j) /\ Long(j) <= Long(k) /\ Long(j) \in Nat /\ Long(k) \in Nat
        BY <1>3, <2>2, <3>2, <3>4, <4>1
      <4>3. Long(j) = Long(k)
        BY <4>2
      <4> QED  BY <2>2, <3>4, <4>1, <4>3
    <3> QED  BY <1>3, <3>1, <3>2, <3>3, <3>4
  <2> QED  BY <1>7, <2>1, <2>2
<1> QED  BY <1>9 DEF w, hits, Size, Allows

\* The invariant answers for the file.
LEMMA InvAnswers == RobotsInv => RobotsAnswersTheFile
<1> SUFFICES ASSUME RobotsInv PROVE RobotsAnswersTheFile
  OBVIOUS
<1> DEFINE delays == {i \in UNION Governing : file[i].field = "crawl-delay" /\ file[i].delay >= 0}
           Said == IF delays = {} THEN NoDelay
                   ELSE file[CHOOSE i \in delays : \A k \in delays : k <= i].delay
<1>1. file \in Seq(Lines)
  BY DEF RobotsInv
<1>2. CASE GroupFor(Groups) = <<>> /\ Governing = {}
  <2>1. UNION Governing = {}
    BY <1>2
  <2>2. \A path \in Paths : CanFetch(Groups, path) = TRUE
    BY <1>2 DEF CanFetch
  <2>3. \A path \in Paths : Permitted(path) = TRUE
    BY <2>1 DEF Permitted
  <2>4. CrawlDelay(Groups) = Said
    BY <1>2, <2>1 DEF CrawlDelay
  <2> QED  BY <2>2, <2>3, <2>4 DEF RobotsAnswersTheFile
<1>3. ASSUME NEW g \in Group, NEW block \in SUBSET (1..Len(file)),
             GroupFor(Groups) = <<g>>, Governing = {block}, Carries(file, g, block)
      PROVE  RobotsAnswersTheFile
  <2>1. UNION Governing = block
    BY <1>3
  <2>2. ASSUME NEW path PROVE CanFetch(Groups, path) = Permitted(path)
    <3> DEFINE w == Deciding(g.rules, path)
               hits == {i \in block : RuleAt(file, i) /\ RuleMatches(file[i].pattern, path)}
    <3>1. (w = <<>> \/ w[1].allow)
             <=> \/ hits = {}
                 \/ \E i \in hits : /\ file[i].field = "allow"
                                    /\ \A k \in hits : Len(file[k].pattern) <= Len(file[i].pattern)
      BY <1>1, <1>3, DecidingPermits
    <3>2. CanFetch(Groups, path) <=> (w = <<>> \/ w[1].allow)
      <4>1. <<g>>[1].rules = g.rules /\ <<g>> # <<>>
        OBVIOUS
      <4> QED  BY <1>3, <4>1 DEF CanFetch
    <3>3. hits = {i \in UNION Governing : IsRule(i) /\ RuleMatches(file[i].pattern, path)}
      BY <2>1 DEF IsRule, RuleAt
    <3>4. Permitted(path) <=> \/ hits = {}
                              \/ \E i \in hits : /\ file[i].field = "allow"
                                                 /\ \A k \in hits :
                                                       Len(file[k].pattern) <= Len(file[i].pattern)
      <4> HIDE DEF hits
      <4> QED  BY <3>3 DEF Permitted
    <3>5. CanFetch(Groups, path) \in BOOLEAN /\ Permitted(path) \in BOOLEAN
      BY DEF CanFetch, Permitted
    <3> QED  BY <3>1, <3>2, <3>4, <3>5
  <2>3. CrawlDelay(Groups) = Said
    <3>1. CrawlDelay(Groups) = g.delay
      BY <1>3 DEF CrawlDelay
    <3>2. delays = DelaysIn(file, block)
      BY <2>1 DEF DelaysIn
    <3>3. \A i \in delays : i \in Int
      <4> HIDE DEF delays
      <4>1. Len(file) \in Nat /\ block \subseteq 1..Len(file)
        BY <1>1
      <4>2. delays \subseteq block
        BY <3>2 DEF DelaysIn
      <4> QED  BY <4>1, <4>2
    <3> HIDE DEF delays
    <3>4. CASE g.delay = NoDelay /\ delays = {}
      BY <3>1, <3>4
    <3>5. ASSUME NEW i \in delays, g.delay = file[i].delay, \A k \in delays : k <= i
          PROVE  g.delay = Said
      <4>1. \A j \in delays : (\A k \in delays : k <= j) => j = i
        <5>1. ASSUME NEW j \in delays, \A k \in delays : k <= j PROVE j = i
          <6>1. i <= j /\ j <= i /\ i \in Int /\ j \in Int
            BY <3>3, <3>5, <5>1
          <6> QED  BY <6>1
        <5> QED  BY <5>1
      <4>2. (CHOOSE j \in delays : \A k \in delays : k <= j) = i
        BY <3>5, <4>1
      <4> QED  BY <3>5, <4>2
    <3> QED  BY <1>3, <3>1, <3>2, <3>4, <3>5 DEF Carries
  <2> QED  BY <2>2, <2>3 DEF RobotsAnswersTheFile
<1> QED  BY <1>2, <1>3, GovernedBy

\* parse_robots_txt reads the file a line at a time, and the matcher runs beside it.
RobotsSpec == RobotsInit /\ GlobInit /\ [][ReadLine \/ GlobStep]_robotsVars

\* What has been read stands in the parser's groups: every block but the last
\* in a group that carries its tokens, its rules and its last crawl delay, in
\* the order of the file, and the last one in what is pending.
THEOREM RobotsInvariant == RobotsSpec => []RobotsInv
<1>1. RobotsInit => RobotsInv
  <2> SUFFICES ASSUME RobotsInit PROVE RobotsInv
    OBVIOUS
  <2>1. /\ file = <<>> /\ parser.groups = <<>> /\ parser.pending = Fresh
        /\ parser.accepting = FALSE
    BY DEF RobotsInit
  <2>2. file \in Seq(Lines) /\ Len(file) = 0
    BY <2>1
  <2>3. Fresh \in Group /\ Fresh.agents = <<>>
    BY FreshCarriesNothing DEF Fresh
  <2>4. <<>> \in Seq(Group)
    OBVIOUS
  <2>5. parser \in State
    BY <2>3, <2>4 DEF RobotsInit, State
  <2>6. Opens(file) = {} /\ Closed(file) = {}
    BY <2>2 DEF Opens, Closed
  <2>7. Joins(file, Len(file) + 1) = FALSE
    BY <2>2 DEF Joins
  <2>8. \E at \in [DOMAIN parser.groups -> Closed(file)] :
           Stand(file, parser.groups, at, Closed(file))
    <3> DEFINE at == [n \in {} |-> n]
    <3>1. at \in [DOMAIN parser.groups -> Closed(file)]
      BY <2>1
    <3>2. Stand(file, parser.groups, at, Closed(file))
      BY <2>1, <2>6 DEF Stand
    <3> HIDE DEF at
    <3> QED  BY <3>1, <3>2
  <2>9. ReadTo(file, parser)
    BY <2>1, <2>3, <2>6, <2>7, <2>8 DEF ReadTo
  <2> QED  BY <2>2, <2>5, <2>9 DEF RobotsInv
<1>2. RobotsInv /\ [ReadLine \/ GlobStep]_robotsVars => RobotsInv'
  <2> SUFFICES ASSUME RobotsInv, [ReadLine \/ GlobStep]_robotsVars PROVE RobotsInv'
    OBVIOUS
  <2>1. file \in Seq(Lines) /\ parser \in State /\ ReadTo(file, parser)
    BY DEF RobotsInv
  <2>2. CASE ReadLine
    <3>1. PICK l \in Lines : file' = Append(file, l) /\ parser' = After(parser, l)
      BY <2>2 DEF ReadLine
    <3>2. Append(file, l) \in Seq(Lines)
      BY <2>1, LineMore
    <3>3. After(parser, l) \in State
      BY <2>1, AfterAdds
    <3>4. ReadTo(Append(file, l), After(parser, l))
      BY <2>1, LineRead
    <3> QED  BY <3>1, <3>2, <3>3, <3>4 DEF RobotsInv
  <2>3. CASE UNCHANGED <<file, parser>>
    BY <2>1, <2>3 DEF RobotsInv
  <2> QED  BY <2>2, <2>3 DEF GlobStep, robotsVars
<1> QED  BY <1>1, <1>2, PTL DEF RobotsSpec

\* Whatever lines a robots.txt has, in whatever order, can_fetch answers for
\* every path, and crawl_delay, what the file says of this crawler.
THEOREM RobotsAnswersStand == RobotsSpec => []RobotsAnswersTheFile
<1>1. RobotsInv => RobotsAnswersTheFile
  BY InvAnswers
<1> QED  BY <1>1, RobotsInvariant, PTL

=============================================================================
