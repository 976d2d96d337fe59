------------------------ MODULE SiteDiscoveryProofs ------------------------
(* Theorems about SiteDiscovery, for any site: any addresses, any of them    *)
(* refusable, faceted or looping, any budgets and any listings and links.    *)
EXTENDS SiteDiscovery, FoldFacts

Sources == {"sitemap", "cms", "dom"}

Graph ==
    [nodes : Seq(Urls), source : [Urls -> SUBSET Sources], depth : [Urls -> Nat],
     members : SUBSET Urls, copies : Nat, confirmed : BOOLEAN,
     fetched : SUBSET Urls, refused : BOOLEAN,
     pages_fetched : Nat, pages_not_retrieved : Nat, faceted_skipped : Nat,
     resume_excluded : Nat, depth_capped : Nat]

Read == [graph : Graph, recorded : Seq(Urls)]

Distinct(s) == \A x, y \in DOMAIN s : s[x] = s[y] => x = y

\* What is left of the first i places of a sequence, when it is cut.
Left(s, cut, i) ==
    {k \in Seq(Urls) : /\ Distinct(s) => Distinct(k)
                       /\ \A u \in Urls : u \in ToSet(k)
                             <=> u \notin cut /\ \E j \in 1..i : s[j] = u}

LEMMA ElementsAppended ==
    ASSUME NEW S, NEW s \in Seq(S), NEW x \in S
    PROVE  /\ ToSet(Append(s, x)) = ToSet(s) \cup {x}
           /\ Distinct(s) /\ x \notin ToSet(s) => Distinct(Append(s, x))
<1> DEFINE t == Append(s, x)
           n == Len(s)
<1>1. /\ DOMAIN s = 1..n /\ DOMAIN t = 1..(n + 1) /\ n \in Nat
      /\ t[n + 1] = x /\ \A i \in 1..n : t[i] = s[i]
  OBVIOUS
<1> HIDE DEF t, n
<1>2. ToSet(t) = ToSet(s) \cup {x}
  <2>1. ASSUME NEW y \in ToSet(t) PROVE y \in ToSet(s) \cup {x}
    <3>1. PICK i \in 1..(n + 1) : t[i] = y
      BY <1>1, <2>1 DEF ToSet
    <3>2. i \in 1..n \/ i = n + 1
      BY <1>1
    <3> QED  BY <1>1, <3>1, <3>2 DEF ToSet
  <2>2. ASSUME NEW y \in ToSet(s) PROVE y \in ToSet(t)
    <3>1. PICK i \in 1..n : s[i] = y
      BY <1>1, <2>2 DEF ToSet
    <3>2. i \in 1..(n + 1)
      BY <1>1
    <3> QED  BY <1>1, <3>1, <3>2 DEF ToSet
  <2>3. x \in ToSet(t)
    <3>1. n + 1 \in 1..(n + 1)
      BY <1>1
    <3> QED  BY <1>1, <3>1 DEF ToSet
  <2> QED  BY <2>1, <2>2, <2>3
<1>3. ASSUME Distinct(s), x \notin ToSet(s), NEW i \in 1..(n + 1), NEW j \in 1..(n + 1), t[i] = t[j]
      PROVE  i = j
  <2>1. (i \in 1..n \/ i = n + 1) /\ (j \in 1..n \/ j = n + 1)
    BY <1>1
  <2>2. \A m \in 1..n : s[m] # x
    BY <1>1, <1>3 DEF ToSet
  <2> QED  BY <1>1, <1>3, <2>1, <2>2 DEF Distinct
<1> QED  BY <1>1, <1>2, <1>3 DEF t, Distinct

-----------------------------------------------------------------------------
(* The folds.                                                                *)

\* The last place is the one a fold takes out.
LEMMA LastIsMax ==
    ASSUME NEW n \in Nat
    PROVE  \A t \in SUBSET (1..n) : t # {} => LastOf(n)[t] = Max(t) /\ Max(t) \in 1..n
<1>1. \A t \in SUBSET (1..n) : LastOf(n)[t] = Max(t)
  BY Zenon DEF LastOf, Max
<1>2. Chooses(LastOf(n), 1..n)
  BY LastIsLast
<1>3. \A t \in SUBSET (1..n) : t # {} => LastOf(n)[t] \in t
  BY <1>2 DEF Chooses
<1> QED  BY <1>1, <1>3

\* What is left of a sequence outside of a set is found one place at a time.
LEMMA WithoutReaches ==
    ASSUME NEW s \in Seq(Urls), NEW cut,
           NEW T \in [0..Len(s) -> SUBSET Seq(Urls)], <<>> \in T[0],
           \A i \in 1..Len(s) : \A k \in T[i - 1] :
              (IF s[i] \in cut THEN k ELSE Append(k, s[i])) \in T[i]
    PROVE  Without(s, cut) \in T[Len(s)]
<1> DEFINE n == Len(s)
           D == Seq(Urls)
           h == [p \in (1..n) \X D |-> IF s[p[1]] \in cut THEN p[2] ELSE Append(p[2], s[p[1]])]
           Iterates(iter) ==
               iter = [t \in SUBSET DOMAIN s |->
                         IF t = {} THEN <<>>
                         ELSE IF s[Max(t)] \in cut THEN iter[t \ {Max(t)}]
                              ELSE Append(iter[t \ {Max(t)}], s[Max(t)])]
           it == CHOOSE iter : Iterates(iter)
<1>1. Without(s, cut) = it[DOMAIN s]
  BY Zenon DEF Without, FoldLeft, MapThenFoldSet
<1>2. DOMAIN s = 1..n /\ n \in Nat /\ \A i \in 1..n : s[i] \in Urls
  OBVIOUS
<1>3. h \in [(1..n) \X D -> D] /\ <<>> \in D
  BY <1>2
<1>4. \A i \in 1..n : \A k \in D :
         h[<<i, k>>] = IF s[i] \in cut THEN k ELSE Append(k, s[i])
  OBVIOUS
<1> HIDE DEF h
<1>5. \A t \in SUBSET (1..n) : t # {} => LastOf(n)[t] = Max(t) /\ Max(t) \in 1..n
  <2> HIDE DEF n
  <2>1. n \in Nat
    BY <1>2
  <2> QED  BY <2>1, LastIsMax
<1>6. \E iter : Iterates(iter)
  <2>1. PICK w \in [SUBSET (1..n) -> D] : Folds(w, n, D, <<>>, h)
    BY <1>2, <1>3, FoldExists
  <2>2. ASSUME NEW t \in SUBSET (1..n), t # {}
        PROVE  w[t] = IF s[Max(t)] \in cut THEN w[t \ {Max(t)}]
                      ELSE Append(w[t \ {Max(t)}], s[Max(t)])
    <3> DEFINE q == LastOf(n)[t]
               k == w[t \ {q}]
    <3>1. q = Max(t) /\ q \in 1..n
      BY <1>5, <2>2
    <3>2. k \in D
      BY <2>1
    <3>3. w[t] = h[<<q, k>>]
      BY <2>1, <2>2, <3>2 DEF Folds
    <3>4. w[t] = IF s[q] \in cut THEN k ELSE Append(k, s[q])
      <4> HIDE DEF q, k
      <4> QED  BY <1>4, <3>1, <3>2, <3>3
    <3> QED  BY <3>1, <3>4
  <2>3. w[{}] = <<>>
    BY <2>1 DEF Folds
  <2>4. w = [t \in SUBSET DOMAIN s |->
                IF t = {} THEN <<>>
                ELSE IF s[Max(t)] \in cut THEN w[t \ {Max(t)}]
                     ELSE Append(w[t \ {Max(t)}], s[Max(t)])]
    BY <1>2, <2>1, <2>2, <2>3
  <2> QED  BY <2>4
<1>7. Iterates(it)
  <2> HIDE DEF Iterates
  <2> QED  BY <1>6
<1>8. Folds(it, n, D, <<>>, h)
  <2>1. \A t \in SUBSET (1..n) :
           it[t] = IF t = {} THEN <<>>
                   ELSE IF s[Max(t)] \in cut THEN it[t \ {Max(t)}]
                        ELSE Append(it[t \ {Max(t)}], s[Max(t)])
    <3> HIDE DEF it
    <3>1. Iterates(it)
      BY <1>7
    <3> QED  BY Zenon, <1>2, <3>1
  <2> HIDE DEF it, n, D
  <2>2. it[{}] = <<>>
    BY <2>1
  <2>3. ASSUME NEW t \in SUBSET (1..n), t # {}, it[t \ {LastOf(n)[t]}] \in D
        PROVE  it[t] = h[<<LastOf(n)[t], it[t \ {LastOf(n)[t]}]>>]
    <3> DEFINE q == LastOf(n)[t]
               k == it[t \ {q}]
    <3>1. q = Max(t) /\ q \in 1..n
      BY <1>5, <2>3
    <3>2. it[t] = IF s[q] \in cut THEN k ELSE Append(k, s[q])
      BY <2>1, <2>3, <3>1
    <3>3. k \in D
      BY <2>3
    <3> HIDE DEF q, k
    <3>4. h[<<q, k>>] = IF s[q] \in cut THEN k ELSE Append(k, s[q])
      BY <1>4, <3>1, <3>3
    <3>5. it[t] = h[<<q, k>>]
      BY <3>2, <3>4
    <3> QED  BY <3>5 DEF q, k
  <2> QED  BY <2>2, <2>3 DEF Folds
<1>9. it[1..n] \in T[n]
  <2> HIDE DEF it, n, D
  <2>1. \A i \in 1..n : \A k \in T[i - 1] : h[<<i, k>>] \in T[i]
    <3>1. \A i \in 1..n : T[i - 1] \in SUBSET D
      BY <1>2 DEF n, D
    <3> QED  BY <1>4, <3>1 DEF n
  <2>2. T \in [0..n -> SUBSET D] /\ <<>> \in T[0]
    BY DEF n, D
  <2> QED  BY <1>2, <1>8, <2>1, <2>2, FoldReaches
<1> QED  BY <1>1, <1>2, <1>9

LEMMA WithoutIsLeft ==
    ASSUME NEW s \in Seq(Urls), NEW cut
    PROVE  /\ Without(s, cut) \in Seq(Urls)
           /\ ToSet(Without(s, cut)) = ToSet(s) \ cut
           /\ Distinct(s) => Distinct(Without(s, cut))
<1> DEFINE n == Len(s)
           T == [i \in 0..n |-> Left(s, cut, i)]
<1>1. n \in Nat /\ DOMAIN s = 1..n /\ \A i \in 1..n : s[i] \in Urls
  OBVIOUS
<1> HIDE DEF n
<1>2. \A i \in 0..n : T[i] = Left(s, cut, i) /\ Left(s, cut, i) \subseteq Seq(Urls)
  BY DEF Left
<1>3. T \in [0..n -> SUBSET Seq(Urls)]
  BY <1>2
<1>4. <<>> \in Left(s, cut, 0)
  BY DEF Left, ToSet, Distinct
<1>5. ASSUME NEW i \in 1..n, NEW k \in Left(s, cut, i - 1)
      PROVE  (IF s[i] \in cut THEN k ELSE Append(k, s[i])) \in Left(s, cut, i)
  <2>1. /\ k \in Seq(Urls) /\ (Distinct(s) => Distinct(k))
        /\ \A u \in Urls : u \in ToSet(k) <=> u \notin cut /\ \E j \in 1..(i - 1) : s[j] = u
    BY DEF Left
  <2>2. \A u : (\E j \in 1..i : s[j] = u) <=> u = s[i] \/ \E j \in 1..(i - 1) : s[j] = u
    <3>1. \A j : j \in 1..i <=> j = i \/ j \in 1..(i - 1)
      BY <1>1
    <3> QED  BY <3>1
  <2>3. CASE s[i] \in cut
    <3>1. \A u \in Urls : u \in ToSet(k) <=> u \notin cut /\ \E j \in 1..i : s[j] = u
      BY <2>1, <2>2, <2>3
    <3> QED  BY <2>1, <2>3, <3>1 DEF Left
  <2>4. CASE s[i] \notin cut
    <3> DEFINE m == Append(k, s[i])
    <3>1. m \in Seq(Urls) /\ ToSet(m) = ToSet(k) \cup {s[i]}
      BY <1>1, <2>1, ElementsAppended
    <3>2. Distinct(s) => Distinct(m)
      <4>1. SUFFICES ASSUME Distinct(s) PROVE Distinct(m)
        OBVIOUS
      <4>2. \A j \in 1..(i - 1) : s[j] # s[i]
        <5>1. \A j \in 1..(i - 1) : j \in 1..n /\ j # i
          BY <1>1
        <5> QED  BY <1>1, <4>1, <5>1 DEF Distinct
      <4>3. s[i] \notin ToSet(k)
        BY <1>1, <2>1, <4>2
      <4> QED  BY <1>1, <2>1, <4>1, <4>3, ElementsAppended
    <3> HIDE DEF m
    <3>3. \A u \in Urls : u \in ToSet(m) <=> u \notin cut /\ \E j \in 1..i : s[j] = u
      BY <2>1, <2>2, <2>4, <3>1
    <3>4. m \in Left(s, cut, i)
      BY <3>1, <3>2, <3>3 DEF Left
    <3> QED  BY <2>4, <3>4 DEF m
  <2> QED  BY <2>3, <2>4
<1>6. Without(s, cut) \in Left(s, cut, n)
  <2>1. \A i \in 1..n : \A k \in T[i - 1] :
           (IF s[i] \in cut THEN k ELSE Append(k, s[i])) \in T[i]
    <3>1. \A i \in 1..n : i \in 0..n /\ i - 1 \in 0..n
      BY <1>1
    <3> HIDE DEF T
    <3> QED  BY <1>2, <1>5, <3>1
  <2>2. <<>> \in T[0] /\ T[n] = Left(s, cut, n)
    <3>1. 0 \in 0..n /\ n \in 0..n
      BY <1>1
    <3> HIDE DEF T
    <3> QED  BY <1>2, <1>4, <3>1
  <2> HIDE DEF T
  <2> QED  BY <1>3, <2>1, <2>2, WithoutReaches DEF n
<1>7. \A u \in Urls : u \in ToSet(s) <=> \E j \in 1..n : s[j] = u
  BY <1>1 DEF ToSet
<1>8. \A k \in Seq(Urls) : ToSet(k) \subseteq Urls
  BY DEF ToSet
<1> QED  BY <1>6, <1>7, <1>8 DEF Left

-----------------------------------------------------------------------------
(* One call of add.                                                          *)

SameCounters(g, h) ==
    /\ h.pages_fetched = g.pages_fetched /\ h.pages_not_retrieved = g.pages_not_retrieved
    /\ h.faceted_skipped = g.faceted_skipped /\ h.resume_excluded = g.resume_excluded
    /\ h.depth_capped = g.depth_capped

\* The address is refused, or there is no room for it.
Rejects(g, u, source) ==
    u \in Refusable \/ (~Holds(g, u) /\ Full(g, source))

\* h is g, without the address.
Rejected(g, h, u, source) ==
    /\ h.nodes = g.nodes /\ h.source = g.source /\ Rejects(g, u, source)
    /\ u \in Refusable \/ h.refused

\* h is g, with the address.
Taken(g, h, u, source) ==
    /\ u \notin Refusable /\ (Holds(g, u) \/ ~Full(g, source))
    /\ h.nodes = (IF Holds(g, u) THEN g.nodes ELSE Append(g.nodes, u))
    /\ h.source = [g.source EXCEPT ![u] = @ \cup {source}]

\* What no call takes back.
Grows(g, h) ==
    /\ g.refused => h.refused
    /\ g.confirmed => h.confirmed
    /\ SameCounters(g, h)

LEMMA GraphFields ==
    ASSUME NEW g \in Graph
    PROVE  /\ g.nodes \in Seq(Urls) /\ g.source \in [Urls -> SUBSET Sources]
           /\ g.depth \in [Urls -> Nat] /\ g.members \in SUBSET Urls /\ g.copies \in Nat
           /\ g.confirmed \in BOOLEAN /\ g.fetched \in SUBSET Urls /\ g.refused \in BOOLEAN
           /\ g.pages_fetched \in Nat /\ g.pages_not_retrieved \in Nat
           /\ g.faceted_skipped \in Nat /\ g.resume_excluded \in Nat /\ g.depth_capped \in Nat
  BY DEF Graph

LEMMA WatchedEffect ==
    ASSUME NEW g \in Graph, NEW u \in Urls, NEW w, w = Watched(g, u)
    PROVE  /\ w \in Graph /\ Grows(g, w) /\ w.source = g.source /\ w.refused = g.refused
           /\ ToSet(w.nodes) \subseteq ToSet(g.nodes)
           /\ ~w.confirmed => ~g.confirmed /\ w.nodes = g.nodes
<1> DEFINE o == Observed(g, u)
           e == Evict(o)
<1>1. /\ o \in Graph /\ SameCounters(g, o) /\ o.nodes = g.nodes /\ o.source = g.source
      /\ o.refused = g.refused /\ o.confirmed = g.confirmed
  <2> DEFINE m == g.members \cup {u}
             c == IF g.copies < MinLoopUrls THEN g.copies + 1 ELSE g.copies
  <2>1. o = [g EXCEPT !.members = m, !.copies = c]
    BY DEF Observed
  <2>2. m \in SUBSET Urls /\ c \in Nat
    BY GraphFields
  <2> HIDE DEF m, c, o
  <2> QED  BY <2>1, <2>2 DEF Graph, SameCounters
<1> HIDE DEF o
<1>2. Without(o.nodes, o.members) \in Seq(Urls)
      /\ ToSet(Without(o.nodes, o.members)) \subseteq ToSet(o.nodes)
  BY <1>1, GraphFields, WithoutIsLeft
<1>3. /\ e \in Graph /\ SameCounters(o, e) /\ e.source = o.source /\ e.refused = o.refused
      /\ e.confirmed = TRUE /\ e.nodes = Without(o.nodes, o.members)
  BY <1>1, <1>2 DEF Evict, Graph, SameCounters
<1> HIDE DEF e
<1>4. w = g \/ w = o \/ w = e
  BY DEF Watched, o, e
<1> QED  BY <1>1, <1>2, <1>3, <1>4 DEF Grows, SameCounters

LEMMA AddEffect ==
    ASSUME NEW g \in Graph, NEW u \in Urls, NEW source \in Sources, NEW depth \in Nat,
           NEW h, h = Add(g, u, source, depth)
    PROVE  /\ h \in Graph /\ Grows(g, h)
           /\ ToSet(h.nodes) \subseteq ToSet(g.nodes) \cup ({u} \ Refusable)
           /\ ~h.confirmed => ~g.confirmed /\ (Rejected(g, h, u, source) \/ Taken(g, h, u, source))
<1> DEFINE w == IF u \in Refusable THEN g ELSE Watched(g, u)
<1>1. /\ w \in Graph /\ Grows(g, w) /\ w.source = g.source /\ w.refused = g.refused
      /\ ToSet(w.nodes) \subseteq ToSet(g.nodes)
      /\ ~w.confirmed => ~g.confirmed /\ w.nodes = g.nodes
  BY WatchedEffect DEF Grows, SameCounters
<1>2. h = IF Refuses(w, u) THEN w
          ELSE IF ~Holds(w, u) /\ Full(w, source) THEN [w EXCEPT !.refused = TRUE]
          ELSE [w EXCEPT !.nodes = IF Holds(w, u) THEN @ ELSE Append(@, u),
                         !.source[u] = @ \cup {source},
                         !.depth[u] = IF depth < @ THEN depth ELSE @]
  BY DEF Add
<1>3. u \in Refusable => Refuses(w, u)
  BY DEF Refuses
<1> HIDE DEF w
<1>4. CASE Refuses(w, u)
  <2>1. h = w
    BY <1>2, <1>4
  <2>2. ~w.confirmed => u \in Refusable
    BY <1>4 DEF Refuses
  <2> QED  BY <1>1, <2>1, <2>2 DEF Rejected, Rejects
<1>5. CASE ~Refuses(w, u) /\ ~Holds(w, u) /\ Full(w, source)
  <2>1. h = [w EXCEPT !.refused = TRUE]
    BY <1>2, <1>5
  <2>2. /\ h \in Graph /\ h.nodes = w.nodes /\ h.source = w.source /\ h.refused = TRUE
        /\ h.confirmed = w.confirmed /\ SameCounters(w, h)
    BY <1>1, <2>1 DEF Graph, SameCounters
  <2>3. ~w.confirmed => ~Holds(g, u) /\ Full(g, source)
    BY <1>1, <1>5 DEF Holds, Full
  <2> QED  BY <1>1, <2>2, <2>3 DEF Rejected, Rejects, Grows, SameCounters
<1>6. CASE ~Refuses(w, u) /\ ~(~Holds(w, u) /\ Full(w, source))
  <2> DEFINE nodes == IF Holds(w, u) THEN w.nodes ELSE Append(w.nodes, u)
             sources == [w.source EXCEPT ![u] = @ \cup {source}]
             depths == [w.depth EXCEPT ![u] = IF depth < @ THEN depth ELSE @]
  <2>1. h = [w EXCEPT !.nodes = nodes, !.source = sources, !.depth = depths]
    BY <1>2, <1>6
  <2>2. nodes \in Seq(Urls) /\ ToSet(nodes) \subseteq ToSet(w.nodes) \cup {u}
    BY <1>1, GraphFields, ElementsAppended DEF Holds
  <2>3. sources \in [Urls -> SUBSET Sources] /\ depths \in [Urls -> Nat]
    BY <1>1, GraphFields
  <2>4. nodes = IF Holds(w, u) THEN w.nodes ELSE Append(w.nodes, u)
    OBVIOUS
  <2>5. sources = [w.source EXCEPT ![u] = @ \cup {source}]
    OBVIOUS
  <2> HIDE DEF nodes, sources, depths
  <2>6. /\ h \in Graph /\ h.nodes = nodes /\ h.source = sources /\ h.refused = w.refused
        /\ h.confirmed = w.confirmed /\ SameCounters(w, h)
    BY <1>1, <2>1, <2>2, <2>3 DEF Graph, SameCounters
  <2>7. u \notin Refusable
    BY <1>3, <1>6
  <2>8. ASSUME ~h.confirmed
        PROVE  ~g.confirmed /\ Taken(g, h, u, source)
    <3>1. w.nodes = g.nodes /\ w.source = g.source /\ ~g.confirmed
      BY <1>1, <2>6, <2>8
    <3>2. Holds(g, u) \/ ~Full(g, source)
      BY <1>6, <3>1 DEF Holds, Full
    <3> QED  BY <2>4, <2>5, <2>6, <2>7, <3>1, <3>2 DEF Taken, Holds
  <2>9. Grows(g, h)
    BY <1>1, <2>6 DEF Grows, SameCounters
  <2> QED  BY <1>1, <2>2, <2>6, <2>7, <2>8, <2>9
<1> QED  BY <1>4, <1>5, <1>6

-----------------------------------------------------------------------------
(* The folds of the listings and of a page's links.                          *)

\* A listing is added one address at a time.
LEMMA AddAllReaches ==
    ASSUME NEW g \in Graph, NEW s \in Seq(Urls), NEW source \in Sources,
           NEW T \in [0..Len(s) -> SUBSET Graph], g \in T[0],
           \A i \in 1..Len(s) : \A k \in T[i - 1] :
              Add(k, s[i], source, MaxDepth + 2) \in T[i]
    PROVE  AddAll(g, s, source) \in T[Len(s)]
<1> DEFINE n == Len(s)
           step(k, i) == Add(k, s[i], source, MaxDepth + 2)
           h == [p \in (1..n) \X Graph |-> step(p[2], p[1])]
           Iterates(iter) ==
               iter = [t \in SUBSET DOMAIN s |->
                         IF t = {} THEN g
                         ELSE Add(iter[t \ {Max(t)}], s[Max(t)], source, MaxDepth + 2)]
           it == CHOOSE iter : Iterates(iter)
<1>1. AddAll(g, s, source) = it[DOMAIN s]
  BY Zenon DEF AddAll, FoldLeft, MapThenFoldSet
<1>1a. \A iter : Iterates(iter)
          <=> iter = [t \in SUBSET DOMAIN s |-> IF t = {} THEN g ELSE step(iter[t \ {Max(t)}], Max(t))]
  BY Zenon
<1>2. DOMAIN s = 1..n /\ n \in Nat /\ \A i \in 1..n : s[i] \in Urls
  OBVIOUS
<1>2a. \A i \in 1..n : \A k \in Graph : step(k, i) \in Graph
  BY <1>2, SiteAssumption, AddEffect
<1>2b. \A i \in 1..n : \A k \in T[i - 1] : step(k, i) \in T[i]
  OBVIOUS
<1> HIDE DEF step, Iterates
<1>3. h \in [(1..n) \X Graph -> Graph]
  BY <1>2a
<1>4. \A i \in 1..n : \A k \in Graph : h[<<i, k>>] = step(k, i)
  OBVIOUS
<1> HIDE DEF h
<1>5. \A t \in SUBSET (1..n) : t # {} => LastOf(n)[t] = Max(t) /\ Max(t) \in 1..n
  <2> HIDE DEF n
  <2>1. n \in Nat
    BY <1>2
  <2> QED  BY <2>1, LastIsMax
<1>6. \E iter : Iterates(iter)
  <2>1. PICK w \in [SUBSET (1..n) -> Graph] : Folds(w, n, Graph, g, h)
    BY <1>2, <1>3, FoldExists
  <2>2. ASSUME NEW t \in SUBSET (1..n), t # {}
        PROVE  w[t] = step(w[t \ {Max(t)}], Max(t))
    <3> DEFINE q == LastOf(n)[t]
               k == w[t \ {q}]
    <3>1. q = Max(t) /\ q \in 1..n
      BY <1>5, <2>2
    <3>2. k \in Graph
      BY <2>1
    <3>3. w[t] = h[<<q, k>>]
      BY <2>1, <2>2, <3>2 DEF Folds
    <3>4. w[t] = step(k, q)
      <4> HIDE DEF q, k
      <4> QED  BY <1>4, <3>1, <3>2, <3>3
    <3> QED  BY <3>1, <3>4
  <2>3. w[{}] = g
    BY <2>1 DEF Folds
  <2>4. w = [t \in SUBSET DOMAIN s |-> IF t = {} THEN g ELSE step(w[t \ {Max(t)}], Max(t))]
    BY <1>2, <2>1, <2>2, <2>3
  <2> QED  BY <1>1a, <2>4
<1>7. Iterates(it)
  BY <1>6
<1>8. Folds(it, n, Graph, g, h)
  <2>1. \A t \in SUBSET (1..n) :
           it[t] = IF t = {} THEN g ELSE step(it[t \ {Max(t)}], Max(t))
    <3> HIDE DEF it
    <3>1. it = [t \in SUBSET (1..n) |-> IF t = {} THEN g ELSE step(it[t \ {Max(t)}], Max(t))]
      BY <1>1a, <1>2, <1>7
    <3> QED  BY Zenon, <3>1
  <2> HIDE DEF it, n
  <2>2. it[{}] = g
    BY <2>1
  <2>3. ASSUME NEW t \in SUBSET (1..n), t # {}, it[t \ {LastOf(n)[t]}] \in Graph
        PROVE  it[t] = h[<<LastOf(n)[t], it[t \ {LastOf(n)[t]}]>>]
    <3> DEFINE q == LastOf(n)[t]
               k == it[t \ {q}]
    <3>1. q = Max(t) /\ q \in 1..n
      BY <1>5, <2>3
    <3>2. it[t] = step(k, q)
      BY <2>1, <2>3, <3>1
    <3>3. k \in Graph
      BY <2>3
    <3> HIDE DEF q, k
    <3>4. h[<<q, k>>] = step(k, q)
      BY <1>4, <3>1, <3>3
    <3>5. it[t] = h[<<q, k>>]
      BY <3>2, <3>4
    <3> QED  BY <3>5 DEF q, k
  <2> QED  BY <2>2, <2>3 DEF Folds
<1>9. it[1..n] \in T[n]
  <2> HIDE DEF it
  <2>1. \A i \in 1..n : \A k \in T[i - 1] : h[<<i, k>>] \in T[i]
    <3>1. \A i \in 1..n : T[i - 1] \in SUBSET Graph
      BY <1>2
    <3> QED  BY <1>2b, <1>4, <3>1
  <2> HIDE DEF n
  <2>2. T \in [0..n -> SUBSET Graph] /\ g \in T[0]
    BY DEF n
  <2> QED  BY <1>2, <1>8, <2>1, <2>2, FoldReaches
<1> QED  BY <1>1, <1>2, <1>9

\* One link of a page, recorded.
Recorded(r, u, depth) ==
    [graph |-> Add(r.graph, u, "dom", depth + 1),
     recorded |-> IF Accepts(r.graph, u, "dom", depth + 1)
                  THEN Append(r.recorded, u) ELSE r.recorded]

LEMMA RecordedEffect ==
    ASSUME NEW r \in Read, NEW u \in Urls, NEW depth \in Nat,
           NEW k, k = Recorded(r, u, depth)
    PROVE  /\ k \in Read
           /\ k.graph = Add(r.graph, u, "dom", depth + 1)
           /\ r.graph \in Graph /\ r.recorded \in Seq(Urls)
<1>1. r.graph \in Graph /\ r.recorded \in Seq(Urls)
  BY DEF Read
<1> DEFINE h == Add(r.graph, u, "dom", depth + 1)
           q == IF Holds(h, u) THEN Append(r.recorded, u) ELSE r.recorded
<1>2. h \in Graph
  BY <1>1, AddEffect DEF Sources
<1>3. Append(r.recorded, u) \in Seq(Urls)
  BY <1>1
<1>4. k = [graph |-> h, recorded |-> q]
  BY DEF Recorded, Accepts
<1>5. q \in Seq(Urls)
  BY <1>1, <1>3
<1>6. h = Add(r.graph, u, "dom", depth + 1)
  OBVIOUS
<1> HIDE DEF h, q
<1> QED  BY <1>1, <1>2, <1>4, <1>5, <1>6 DEF Read

LEMMA LinkAccepted ==
    ASSUME NEW r, NEW u, NEW depth, NEW k, k = Recorded(r, u, depth), Holds(k.graph, u)
    PROVE  k.recorded = Append(r.recorded, u)
  BY DEF Recorded, Accepts

LEMMA LinkRefused ==
    ASSUME NEW r, NEW u, NEW depth, NEW k, k = Recorded(r, u, depth), ~Holds(k.graph, u)
    PROVE  k.recorded = r.recorded
  BY DEF Recorded, Accepts

\* A page's links are recorded one at a time.
LEMMA RecordLinksReaches ==
    ASSUME NEW g \in Graph, NEW s \in Seq(Urls), NEW depth \in Nat,
           NEW T \in [0..Len(s) -> SUBSET Read], [graph |-> g, recorded |-> <<>>] \in T[0],
           \A i \in 1..Len(s) : \A r \in T[i - 1] : Recorded(r, s[i], depth) \in T[i]
    PROVE  RecordLinks(g, s, depth) \in T[Len(s)]
<1> DEFINE n == Len(s)
           base == [graph |-> g, recorded |-> <<>>]
           step(k, i) == Recorded(k, s[i], depth)
           h == [p \in (1..n) \X Read |-> step(p[2], p[1])]
           Iterates(iter) ==
               iter = [t \in SUBSET DOMAIN s |->
                         IF t = {} THEN base
                         ELSE Recorded(iter[t \ {Max(t)}], s[Max(t)], depth)]
           it == CHOOSE iter : Iterates(iter)
<1>1. RecordLinks(g, s, depth) = it[DOMAIN s]
  BY Zenon DEF RecordLinks, Recorded, FoldLeft, MapThenFoldSet
<1>1a. \A iter : Iterates(iter)
          <=> iter = [t \in SUBSET DOMAIN s |-> IF t = {} THEN base ELSE step(iter[t \ {Max(t)}], Max(t))]
  BY Zenon
<1>2. DOMAIN s = 1..n /\ n \in Nat /\ \A i \in 1..n : s[i] \in Urls
  OBVIOUS
<1>2a. \A i \in 1..n : \A k \in Read : step(k, i) \in Read
  BY <1>2, RecordedEffect
<1>2b. \A i \in 1..n : \A k \in T[i - 1] : step(k, i) \in T[i]
  OBVIOUS
<1>2c. base \in Read
  BY DEF Read
<1> HIDE DEF step, Iterates, base
<1>3. h \in [(1..n) \X Read -> Read]
  BY <1>2a
<1>4. \A i \in 1..n : \A k \in Read : h[<<i, k>>] = step(k, i)
  OBVIOUS
<1> HIDE DEF h
<1>5. \A t \in SUBSET (1..n) : t # {} => LastOf(n)[t] = Max(t) /\ Max(t) \in 1..n
  <2> HIDE DEF n
  <2>1. n \in Nat
    BY <1>2
  <2> QED  BY <2>1, LastIsMax
<1>6. \E iter : Iterates(iter)
  <2>1. PICK w \in [SUBSET (1..n) -> Read] : Folds(w, n, Read, base, h)
    BY <1>2, <1>2c, <1>3, FoldExists
  <2>2. ASSUME NEW t \in SUBSET (1..n), t # {}
        PROVE  w[t] = step(w[t \ {Max(t)}], Max(t))
    <3> DEFINE q == LastOf(n)[t]
               k == w[t \ {q}]
    <3>1. q = Max(t) /\ q \in 1..n
      BY <1>5, <2>2
    <3>2. k \in Read
      BY <2>1
    <3>3. w[t] = h[<<q, k>>]
      BY <2>1, <2>2, <3>2 DEF Folds
    <3>4. w[t] = step(k, q)
      <4> HIDE DEF q, k
      <4> QED  BY <1>4, <3>1, <3>2, <3>3
    <3> QED  BY <3>1, <3>4
  <2>3. w[{}] = base
    BY <2>1 DEF Folds
  <2>4. w = [t \in SUBSET DOMAIN s |-> IF t = {} THEN base ELSE step(w[t \ {Max(t)}], Max(t))]
    BY <1>2, <2>1, <2>2, <2>3
  <2> QED  BY <1>1a, <2>4
<1>7. Iterates(it)
  BY <1>6
<1>8. Folds(it, n, Read, base, h)
  <2>1. \A t \in SUBSET (1..n) :
           it[t] = IF t = {} THEN base ELSE step(it[t \ {Max(t)}], Max(t))
    <3> HIDE DEF it
    <3>1. it = [t \in SUBSET (1..n) |-> IF t = {} THEN base ELSE step(it[t \ {Max(t)}], Max(t))]
      BY Zenon, <1>1a, <1>2, <1>7
    <3> QED  BY Zenon, <3>1
  <2> HIDE DEF it, n
  <2>2. it[{}] = base
    BY <2>1
  <2>3. ASSUME NEW t \in SUBSET (1..n), t # {}, it[t \ {LastOf(n)[t]}] \in Read
        PROVE  it[t] = h[<<LastOf(n)[t], it[t \ {LastOf(n)[t]}]>>]
    <3> DEFINE q == LastOf(n)[t]
               k == it[t \ {q}]
    <3>1. q = Max(t) /\ q \in 1..n
      BY <1>5, <2>3
    <3>2. it[t] = step(k, q)
      BY <2>1, <2>3, <3>1
    <3>3. k \in Read
      BY <2>3
    <3> HIDE DEF q, k
    <3>4. h[<<q, k>>] = step(k, q)
      BY <1>4, <3>1, <3>3
    <3>5. it[t] = h[<<q, k>>]
      BY <3>2, <3>4
    <3> QED  BY <3>5 DEF q, k
  <2> QED  BY <2>2, <2>3 DEF Folds
<1>9. it[1..n] \in T[n]
  <2> HIDE DEF it
  <2>1. \A i \in 1..n : \A k \in T[i - 1] : h[<<i, k>>] \in T[i]
    <3>1. \A i \in 1..n : T[i - 1] \in SUBSET Read
      BY <1>2
    <3> QED  BY <1>2b, <1>4, <3>1
  <2> HIDE DEF n
  <2>2. T \in [0..n -> SUBSET Read] /\ base \in T[0]
    BY DEF n, base
  <2> QED  BY <1>2, <1>8, <2>1, <2>2, FoldReaches
<1> QED  BY <1>1, <1>2, <1>9

-----------------------------------------------------------------------------
(* What the graph tells of an address, and what adding one does to it.       *)

\* No refusable address is in the graph.
Clean(g) == ToSet(g.nodes) \cap Refusable = {}

\* While no loop is confirmed: no address is twice in the graph, each has a source, it was
\* linked when it was visited, and what was visited and is not there had no room.
Explained(g, seen) ==
    ~g.confirmed =>
        /\ Distinct(g.nodes)
        /\ \A u \in ToSet(g.nodes) : g.source[u] # {} /\ ("dom" \in g.source[u] <=> u \in seen)
        /\ \A u \in Urls \ ToSet(g.nodes) : g.source[u] = {}
        /\ \A u \in seen : u \notin ToSet(g.nodes) => u \in Refusable \/ Len(g.nodes) >= MaxPages

\* The visited addresses that are in the graph.
Seen(g, seen) == ToSet(g.nodes) \cap seen

LEMMA AddKeepsClean ==
    ASSUME NEW g \in Graph, NEW u \in Urls, NEW source \in Sources, NEW depth \in Nat,
           NEW h, h = Add(g, u, source, depth), Clean(g)
    PROVE  Clean(h)
<1>1. ToSet(h.nodes) \subseteq ToSet(g.nodes) \cup ({u} \ Refusable)
  BY AddEffect
<1> QED  BY <1>1 DEF Clean

LEMMA TakenNodes ==
    ASSUME NEW g \in Graph, NEW u \in Urls, NEW source \in Sources, NEW h \in Graph,
           Taken(g, h, u, source), Distinct(g.nodes)
    PROVE  /\ Distinct(h.nodes) /\ ToSet(h.nodes) = ToSet(g.nodes) \cup {u}
           /\ Len(h.nodes) >= Len(g.nodes)
           /\ h.source[u] = g.source[u] \cup {source}
           /\ \A x \in Urls : x # u => h.source[x] = g.source[x]
<1>1. g.nodes \in Seq(Urls) /\ g.source \in [Urls -> SUBSET Sources] /\ Len(g.nodes) \in Nat
  BY GraphFields
<1>2. CASE Holds(g, u)
  BY <1>1, <1>2 DEF Taken, Holds
<1>3. CASE ~Holds(g, u)
  <2>1. h.nodes = Append(g.nodes, u) /\ h.source = [g.source EXCEPT ![u] = @ \cup {source}]
    BY <1>3 DEF Taken
  <2>2. u \notin ToSet(g.nodes)
    BY <1>3 DEF Holds
  <2>3. Distinct(h.nodes) /\ ToSet(h.nodes) = ToSet(g.nodes) \cup {u}
    BY <1>1, <2>1, <2>2, ElementsAppended
  <2>4. Len(h.nodes) = Len(g.nodes) + 1
    BY <1>1, <2>1
  <2> QED  BY <1>1, <2>1, <2>3, <2>4
<1> QED  BY <1>2, <1>3

LEMMA ElementsOfNodes ==
    ASSUME NEW g \in Graph
    PROVE  /\ ToSet(g.nodes) \subseteq Urls /\ IsFiniteSet(ToSet(g.nodes)) /\ Len(g.nodes) \in Nat
           /\ Distinct(g.nodes) => Cardinality(ToSet(g.nodes)) = Len(g.nodes)
<1>1. g.nodes \in Seq(Urls)
  BY GraphFields
<1> DEFINE s == g.nodes
<1>2. s \in Seq(Urls)
  BY <1>1
<1> HIDE DEF s
<1>3. ToSet(s) \subseteq Urls /\ Len(s) \in Nat /\ DOMAIN s = 1..Len(s)
  BY <1>2 DEF ToSet
<1>4. IsFiniteSet(ToSet(s))
  <2>1. s \in Surjection(DOMAIN s, ToSet(s))
    BY <1>2, <1>3 DEF ToSet, Surjection
  <2>2. IsFiniteSet(DOMAIN s)
    BY <1>3, FS_Interval
  <2> QED  BY <2>1, <2>2, FS_Surjection
<1>5. Distinct(s) => Cardinality(ToSet(s)) = Len(s)
  BY <1>2, DistinctElements DEF Distinct, ToSet
<1> QED  BY <1>3, <1>4, <1>5 DEF s

LEMMA ListedStaysExplained ==
    ASSUME NEW g \in Graph, NEW u \in Urls, NEW source \in Sources, source # "dom",
           NEW depth \in Nat, NEW h, h = Add(g, u, source, depth), Explained(g, {})
    PROVE  Explained(h, {})
<1>1. SUFFICES ASSUME ~h.confirmed
               PROVE  /\ Distinct(h.nodes)
                      /\ \A x \in ToSet(h.nodes) : h.source[x] # {} /\ "dom" \notin h.source[x]
                      /\ \A x \in Urls \ ToSet(h.nodes) : h.source[x] = {}
  BY DEF Explained
<1>3. ~g.confirmed /\ h \in Graph /\ (Rejected(g, h, u, source) \/ Taken(g, h, u, source))
  BY <1>1, AddEffect
<1>4. /\ Distinct(g.nodes)
      /\ \A x \in ToSet(g.nodes) : g.source[x] # {} /\ "dom" \notin g.source[x]
      /\ \A x \in Urls \ ToSet(g.nodes) : g.source[x] = {}
  BY <1>3 DEF Explained
<1>5. CASE Rejected(g, h, u, source)
  BY <1>4, <1>5 DEF Rejected
<1>6. CASE Taken(g, h, u, source)
  <2>1. /\ Distinct(h.nodes) /\ ToSet(h.nodes) = ToSet(g.nodes) \cup {u}
        /\ h.source[u] = g.source[u] \cup {source}
        /\ \A x \in Urls : x # u => h.source[x] = g.source[x]
    BY <1>3, <1>4, <1>6, TakenNodes
  <2>2. ToSet(g.nodes) \subseteq Urls
    BY ElementsOfNodes
  <2>3. ASSUME NEW x \in ToSet(h.nodes)
        PROVE  h.source[x] # {} /\ "dom" \notin h.source[x]
    <3>1. CASE x \in ToSet(g.nodes) /\ x # u
      BY <1>4, <2>1, <2>2, <3>1
    <3>2. CASE x = u
      <4>1. "dom" \notin g.source[u]
        BY <1>4
      <4> QED  BY <2>1, <3>2, <4>1
    <3> QED  BY <2>1, <3>1, <3>2
  <2>4. \A x \in Urls \ ToSet(h.nodes) : h.source[x] = {}
    BY <1>4, <2>1
  <2> QED  BY <2>1, <2>3, <2>4
<1> QED  BY <1>3, <1>5, <1>6

LEMMA LinkedStaysExplained ==
    ASSUME NEW g \in Graph, NEW u \in Urls, NEW depth \in Nat,
           NEW h, h = Add(g, u, "dom", depth), Clean(g),
           NEW seen, Explained(g, seen)
    PROVE  /\ Explained(h, seen \cup {u})
           /\ ~Holds(h, u) => Explained(h, seen)
           /\ ~h.confirmed => /\ Seen(h, seen) = Seen(g, seen)
                              /\ ToSet(g.nodes) \subseteq ToSet(h.nodes)
<1>1. SUFFICES ASSUME ~h.confirmed
               PROVE  /\ Explained(h, seen \cup {u})
                      /\ ~Holds(h, u) => Explained(h, seen)
                      /\ Seen(h, seen) = Seen(g, seen)
                      /\ ToSet(g.nodes) \subseteq ToSet(h.nodes)
  BY DEF Explained
<1>2. /\ ~g.confirmed /\ h \in Graph
      /\ Rejected(g, h, u, "dom") \/ Taken(g, h, u, "dom")
  BY <1>1, AddEffect DEF Sources
<1>3. /\ Distinct(g.nodes)
      /\ \A x \in ToSet(g.nodes) : g.source[x] # {} /\ ("dom" \in g.source[x] <=> x \in seen)
      /\ \A x \in Urls \ ToSet(g.nodes) : g.source[x] = {}
      /\ \A x \in seen : x \notin ToSet(g.nodes) => x \in Refusable \/ Len(g.nodes) >= MaxPages
  BY <1>2 DEF Explained
<1>4. CASE Rejected(g, h, u, "dom")
  <2>1. h.nodes = g.nodes /\ h.source = g.source /\ u \notin ToSet(g.nodes)
    BY <1>4 DEF Rejected, Rejects, Holds, Clean
  <2>2. u \in Refusable \/ Len(g.nodes) >= MaxPages
    BY <1>4 DEF Rejected, Rejects, Full
  <2>3. Explained(h, seen \cup {u})
    BY <1>3, <2>1, <2>2 DEF Explained
  <2>4. Explained(h, seen)
    BY <1>3, <2>1 DEF Explained
  <2> QED  BY <2>1, <2>3, <2>4 DEF Seen
<1>5. CASE Taken(g, h, u, "dom")
  <2>1. /\ Distinct(h.nodes) /\ ToSet(h.nodes) = ToSet(g.nodes) \cup {u}
        /\ Len(h.nodes) >= Len(g.nodes)
        /\ h.source[u] = g.source[u] \cup {"dom"}
        /\ \A x \in Urls : x # u => h.source[x] = g.source[x]
    BY <1>2, <1>3, <1>5, TakenNodes DEF Sources
  <2>2. u \notin Refusable /\ (u \in ToSet(g.nodes) \/ ~(Len(g.nodes) >= MaxPages))
    BY <1>5 DEF Taken, Holds, Full
  <2>3. ToSet(g.nodes) \subseteq Urls /\ Len(g.nodes) \in Nat /\ Len(h.nodes) \in Nat /\ MaxPages \in Nat
    BY <1>2, ElementsOfNodes, SiteAssumption
  <2>4. Explained(h, seen \cup {u})
    <3>1. \A x \in ToSet(h.nodes) :
             h.source[x] # {} /\ ("dom" \in h.source[x] <=> x \in seen \cup {u})
      BY <1>3, <2>1, <2>3
    <3>2. \A x \in seen \cup {u} :
             x \notin ToSet(h.nodes) => x \in Refusable \/ Len(h.nodes) >= MaxPages
      BY <1>3, <2>1, <2>3
    <3>3. \A x \in Urls \ ToSet(h.nodes) : h.source[x] = {}
      BY <1>3, <2>1
    <3> QED  BY <2>1, <3>1, <3>2, <3>3 DEF Explained
  <2>5. Holds(h, u)
    BY <2>1 DEF Holds
  <2>6. u \in seen => u \in ToSet(g.nodes)
    BY <1>3, <2>2
  <2> QED  BY <2>1, <2>4, <2>5, <2>6 DEF Seen
<1> QED  BY <1>2, <1>4, <1>5

-----------------------------------------------------------------------------
(* What a listing and a page's links do.                                     *)

LEMMA ListingSequences ==
    ASSUME NEW s \in Listings
    PROVE  s \in Seq(Urls) /\ Distinct(s)
<1>1. s \in SeqOf(Urls, MaxLinks) /\ IsInjective(s)
  BY DEF Listings
<1>2. PICK m \in 0..MaxLinks : s \in [1..m -> Urls]
  BY <1>1 DEF SeqOf
<1>3. s \in Seq(Urls)
  BY <1>2, SiteAssumption
<1> QED  BY <1>1, <1>3 DEF IsInjective, Distinct

LEMMA GrowsThrough ==
    ASSUME NEW f, NEW g, NEW h, Grows(f, g), Grows(g, h)
    PROVE  Grows(f, h)
  BY DEF Grows, SameCounters

LEMMA ListingFacts ==
    ASSUME NEW g \in Graph, NEW s \in Listings, NEW source \in Sources, source # "dom",
           Clean(g), Explained(g, {}), NEW h, h = AddAll(g, s, source)
    PROVE  h \in Graph /\ Grows(g, h) /\ Clean(h) /\ Explained(h, {})
<1> DEFINE After == {k \in Graph : Grows(g, k) /\ Clean(k) /\ Explained(k, {})}
           T == [i \in 0..Len(s) |-> After]
<1>1. s \in Seq(Urls) /\ Len(s) \in Nat /\ \A i \in 1..Len(s) : s[i] \in Urls
  BY ListingSequences
<1>2. MaxDepth + 2 \in Nat
  BY SiteAssumption
<1>3. g \in After
  BY DEF Grows, SameCounters
<1>4. ASSUME NEW k \in After, NEW u \in Urls, NEW l, l = Add(k, u, source, MaxDepth + 2)
      PROVE  l \in After
  <2>1. k \in Graph /\ Grows(g, k) /\ Clean(k) /\ Explained(k, {})
    OBVIOUS
  <2> HIDE DEF After
  <2>2. l \in Graph /\ Grows(k, l)
    BY <1>2, <1>4, <2>1, AddEffect
  <2>3. Clean(l)
    BY <1>2, <1>4, <2>1, AddKeepsClean
  <2>4. Explained(l, {})
    BY <1>2, <1>4, <2>1, ListedStaysExplained
  <2>5. Grows(g, l)
    BY <2>1, <2>2, GrowsThrough
  <2> QED  BY <2>2, <2>3, <2>4, <2>5 DEF After
<1>5. After \subseteq Graph
  OBVIOUS
<1> HIDE DEF After
<1>6. T \in [0..Len(s) -> SUBSET Graph] /\ g \in T[0]
  BY <1>1, <1>3, <1>5
<1>7. \A i \in 1..Len(s) : \A k \in T[i - 1] : Add(k, s[i], source, MaxDepth + 2) \in T[i]
  BY <1>1, <1>4
<1>8. T[Len(s)] = After
  BY <1>1
<1> HIDE DEF T
<1>9. h \in After
  BY <1>1, <1>6, <1>7, <1>8, AddAllReaches
<1> QED  BY <1>9 DEF After

\* What is recorded of the first i links.
Recordings(g, s, seen, i) ==
    {r \in Read :
        /\ Grows(g, r.graph) /\ (Clean(g) => Clean(r.graph))
        /\ Distinct(r.recorded) /\ \A u \in ToSet(r.recorded) : \E j \in 1..i : s[j] = u
        /\ Clean(g) /\ Explained(g, seen) =>
              /\ Explained(r.graph, seen \cup ToSet(r.recorded))
              /\ ~r.graph.confirmed => /\ Seen(r.graph, seen) = Seen(g, seen)
                                       /\ ToSet(r.recorded) \subseteq ToSet(r.graph.nodes)}

LEMMA RecordingStep ==
    ASSUME NEW g \in Graph, NEW s \in Listings, NEW depth \in Nat, NEW seen \in SUBSET Urls,
           NEW i \in 1..Len(s), NEW r \in Recordings(g, s, seen, i - 1), NEW u, u = s[i],
           NEW k, k = Recorded(r, u, depth), NEW h, h = k.graph
    PROVE  k \in Recordings(g, s, seen, i)
<1>1. s \in Seq(Urls) /\ Distinct(s) /\ Len(s) \in Nat /\ DOMAIN s = 1..Len(s) /\ u \in Urls
  BY ListingSequences
<1>2. /\ r \in Read
      /\ Grows(g, r.graph) /\ (Clean(g) => Clean(r.graph))
      /\ Distinct(r.recorded) /\ \A x \in ToSet(r.recorded) : \E j \in 1..(i - 1) : s[j] = x
      /\ Clean(g) /\ Explained(g, seen) =>
            /\ Explained(r.graph, seen \cup ToSet(r.recorded))
            /\ ~r.graph.confirmed => /\ Seen(r.graph, seen) = Seen(g, seen)
                                     /\ ToSet(r.recorded) \subseteq ToSet(r.graph.nodes)
  BY DEF Recordings
<1>3. /\ k \in Read /\ h = Add(r.graph, u, "dom", depth + 1)
      /\ r.graph \in Graph /\ r.recorded \in Seq(Urls)
  BY <1>1, <1>2, RecordedEffect
<1>4. "dom" \in Sources /\ depth + 1 \in Nat
  BY DEF Sources
<1>5. Grows(r.graph, h) /\ h \in Graph /\ (Clean(r.graph) => Clean(h))
  BY <1>1, <1>3, <1>4, AddEffect, AddKeepsClean
<1>6. Grows(g, h)
  BY <1>2, <1>5, GrowsThrough
<1>7. u \notin ToSet(r.recorded)
  <2>1. ASSUME NEW j \in 1..(i - 1) PROVE s[j] # s[i]
    <3>1. j \in 1..Len(s) /\ j # i
      BY <1>1
    <3> QED  BY <1>1, <3>1 DEF Distinct
  <2> QED  BY <1>2, <2>1
<1>8. \A j \in 1..(i - 1) : j \in 1..i
  BY <1>1
<1>9. i \in 1..i
  BY <1>1
<1>10. ASSUME Clean(g), Explained(g, seen)
       PROVE  /\ Explained(h, (seen \cup ToSet(r.recorded)) \cup {u})
              /\ ~Holds(h, u) => Explained(h, seen \cup ToSet(r.recorded))
              /\ ~h.confirmed => /\ Seen(h, seen) = Seen(g, seen)
                                 /\ ToSet(r.recorded) \subseteq ToSet(h.nodes)
  <2> DEFINE before == seen \cup ToSet(r.recorded)
  <2>1. Explained(r.graph, before) /\ Clean(r.graph)
    BY <1>2, <1>10
  <2>2. ~h.confirmed => ~r.graph.confirmed
    BY <1>5 DEF Grows
  <2> HIDE DEF before
  <2>3. /\ Explained(h, before \cup {u})
        /\ ~Holds(h, u) => Explained(h, before)
        /\ ~h.confirmed => /\ Seen(h, before) = Seen(r.graph, before)
                           /\ ToSet(r.graph.nodes) \subseteq ToSet(h.nodes)
    BY <1>1, <1>3, <1>4, <2>1, LinkedStaysExplained
  <2>4. ~h.confirmed => Seen(h, seen) = Seen(r.graph, seen)
    BY <2>3 DEF Seen, before
  <2> QED  BY <1>2, <1>10, <2>2, <2>3, <2>4 DEF before
<1>11. CASE Holds(h, u)
  <2>1. k.recorded = Append(r.recorded, u)
    BY <1>11, LinkAccepted
  <2>2. ToSet(k.recorded) = ToSet(r.recorded) \cup {u} /\ Distinct(k.recorded)
    BY <1>1, <1>2, <1>3, <1>7, <2>1, ElementsAppended
  <2>3. (seen \cup ToSet(r.recorded)) \cup {u} = seen \cup ToSet(k.recorded)
    BY <2>2
  <2>4. \A x \in ToSet(k.recorded) : \E j \in 1..i : s[j] = x
    BY <1>2, <1>8, <1>9, <2>2
  <2>5. Clean(g) /\ Explained(g, seen) =>
            /\ Explained(h, seen \cup ToSet(k.recorded))
            /\ ~h.confirmed => /\ Seen(h, seen) = Seen(g, seen)
                               /\ ToSet(k.recorded) \subseteq ToSet(h.nodes)
    BY <1>10, <1>11, <2>2, <2>3 DEF Holds
  <2> QED  BY <1>2, <1>3, <1>5, <1>6, <2>2, <2>4, <2>5 DEF Recordings
<1>12. CASE ~Holds(h, u)
  <2>1. k.recorded = r.recorded
    BY <1>12, LinkRefused
  <2>2. \A x \in ToSet(k.recorded) : \E j \in 1..i : s[j] = x
    BY <1>2, <1>8, <2>1
  <2>3. Clean(g) /\ Explained(g, seen) =>
            /\ Explained(h, seen \cup ToSet(k.recorded))
            /\ ~h.confirmed => /\ Seen(h, seen) = Seen(g, seen)
                               /\ ToSet(k.recorded) \subseteq ToSet(h.nodes)
    BY <1>10, <1>12, <2>1
  <2> QED  BY <1>2, <1>3, <1>5, <1>6, <2>1, <2>2, <2>3 DEF Recordings
<1> QED  BY <1>11, <1>12

\* What recording a page's links does to the graph, and what it tells of them.
Follows(g, seen, r) ==
    /\ r \in Read /\ r.graph \in Graph /\ r.recorded \in Seq(Urls)
    /\ Grows(g, r.graph) /\ (Clean(g) => Clean(r.graph)) /\ Distinct(r.recorded)
    /\ Clean(g) /\ Explained(g, seen) =>
          /\ Explained(r.graph, seen \cup ToSet(r.recorded))
          /\ ~r.graph.confirmed => /\ Seen(r.graph, seen) = Seen(g, seen)
                                   /\ ToSet(r.recorded) \subseteq ToSet(r.graph.nodes)

LEMMA LinksFacts ==
    ASSUME NEW g \in Graph, NEW s \in Listings, NEW depth \in Nat, NEW seen \in SUBSET Urls,
           NEW r, r = RecordLinks(g, s, depth)
    PROVE  Follows(g, seen, r)
<1> DEFINE T == [i \in 0..Len(s) |-> Recordings(g, s, seen, i)]
           base == [graph |-> g, recorded |-> <<>>]
<1>1. s \in Seq(Urls) /\ Len(s) \in Nat
  BY ListingSequences
<1>2. base \in Recordings(g, s, seen, 0)
  <2>1. base \in Read /\ base.graph = g /\ base.recorded = <<>>
    BY DEF Read
  <2>2. Grows(g, g) /\ ToSet(<<>>) = {} /\ Distinct(<<>>) /\ seen \cup {} = seen
    BY DEF Grows, SameCounters, ToSet, Distinct
  <2> HIDE DEF base
  <2> QED  BY <2>1, <2>2 DEF Recordings
<1>3. \A i \in 0..Len(s) : T[i] = Recordings(g, s, seen, i) /\ Recordings(g, s, seen, i) \subseteq Read
  BY DEF Recordings
<1>4. T \in [0..Len(s) -> SUBSET Read]
  BY <1>3
<1> HIDE DEF T
<1>5. base \in T[0] /\ T[Len(s)] = Recordings(g, s, seen, Len(s))
  BY <1>1, <1>2, <1>3
<1>6. ASSUME NEW i \in 1..Len(s), NEW k \in T[i - 1]
      PROVE  Recorded(k, s[i], depth) \in T[i]
  <2>1. i \in 0..Len(s) /\ i - 1 \in 0..Len(s)
    BY <1>1
  <2> QED  BY <1>3, <2>1, RecordingStep
<1>7. r \in Recordings(g, s, seen, Len(s))
  BY <1>1, <1>4, <1>5, <1>6, RecordLinksReaches
<1> QED  BY <1>7 DEF Recordings, Read, Follows

-----------------------------------------------------------------------------
(* The inductive invariant.                                                  *)

Entry == [url : Urls, depth : Nat]

Checkpoint == [held : SUBSET Urls, unfetched : Seq(Urls)]

Early == {"sitemap", "cms", "listed"}

SiteTypeOK ==
    /\ graph \in Graph /\ frontier \in Seq(Entry) /\ visited \in SUBSET Urls
    /\ phase \in Early \cup {"seeds", "crawl", "done", "aborted"}
    /\ requests \in [Urls -> Nat] /\ seeds \in Seq(Urls)
    /\ resumed \in Checkpoint /\ checkpoint \in Checkpoint

\* The frontier has one place for an address, and those that wait in it.
OnePlaceEach(queue) == \A x, y \in DOMAIN queue : queue[x].url = queue[y].url => x = y
Waits(queue, u) == \E x \in DOMAIN queue : queue[x].url = u
WaitsAtRoot(queue, u) == \E x \in DOMAIN queue : queue[x].url = u /\ queue[x].depth = 0

\* What waits was visited and was not requested by the crawl, and what the crawl requested was
\* visited and was not excluded; the probe for the sitemaps comes on top, once.
RequestsInv ==
    /\ OnePlaceEach(frontier)
    /\ \A u \in Urls : Waits(frontier, u) => u \in visited /\ requests[u] = Probes(u)
    /\ phase = "sitemap" => \A u \in Urls : requests[u] = 0
    /\ phase # "sitemap" =>
          \A u \in Urls :
             requests[u] = Probes(u)
                \/ (requests[u] = 1 + Probes(u) /\ u \in visited /\ u \notin Excluded)
    /\ phase \in Early => frontier = <<>> /\ visited = {}

\* The graph took all that it was offered and that is not refusable.
Unhindered == ~graph.refused /\ ~graph.confirmed

\* What was left is a seed, then waits at the root's depth, then is requested.
ResumeInv ==
    /\ Clean(graph)
    /\ ToSet(resumed.unfetched) \cap Refusable = {}
    /\ ToSet(checkpoint.unfetched) \cap Refusable = {}
    /\ phase \in Early => seeds = resumed.unfetched
    /\ phase = "seeds" => \A u \in ToSet(resumed.unfetched) : u \in ToSet(seeds) \cup visited
    /\ phase = "seeds" /\ Unhindered
          => \A u \in visited : u \in Refusable \/ WaitsAtRoot(frontier, u)
    /\ phase \in {"crawl", "done"} /\ Unhindered
          => \A u \in ToSet(resumed.unfetched) :
                u \in Faceted \/ requests[u] = 1 + Probes(u) \/ WaitsAtRoot(frontier, u)
    /\ phase = "done" => frontier = <<>>

\* The pages that the crawl is done with.
Counted(g) ==
    g.pages_fetched + g.pages_not_retrieved + g.faceted_skipped + g.resume_excluded + g.depth_capped

\* Each visited address of the graph waits or is counted, once.
ReportInv ==
    /\ phase \in Early => Counted(graph) = 0 /\ Explained(graph, {})
    /\ phase \in {"seeds", "crawl", "done"} =>
          /\ Root \in visited /\ Explained(graph, visited)
          /\ ~graph.confirmed /\ Holds(graph, Root)
                => Counted(graph) + Len(frontier) = Cardinality(Seen(graph, visited))

SiteInv == SiteTypeOK /\ RequestsInv /\ ResumeInv /\ ReportInv

-----------------------------------------------------------------------------
(* The frontier.                                                             *)

LEMMA Popping ==
    ASSUME NEW q \in Seq(Entry), q # <<>>, OnePlaceEach(q),
           NEW head, head = Head(q), NEW rest, rest = Tail(q)
    PROVE  /\ head \in Entry /\ rest \in Seq(Entry)
           /\ Len(q) \in Nat /\ Len(rest) = Len(q) - 1
           /\ OnePlaceEach(rest) /\ Waits(q, head.url) /\ ~Waits(rest, head.url)
           /\ \A u : Waits(rest, u) => Waits(q, u)
           /\ \A u : WaitsAtRoot(q, u) => (u = head.url /\ head.depth = 0) \/ WaitsAtRoot(rest, u)
<1> DEFINE n == Len(q)
<1>1. /\ n \in Nat /\ n > 0 /\ DOMAIN q = 1..n /\ head = q[1] /\ head \in Entry
      /\ rest \in Seq(Entry) /\ Len(rest) = n - 1 /\ DOMAIN rest = 1..(n - 1)
      /\ \A x \in 1..(n - 1) : rest[x] = q[x + 1]
  OBVIOUS
<1> HIDE DEF n
<1>2. \A x \in 1..(n - 1) : x + 1 \in 1..n /\ x + 1 # 1
  BY <1>1
<1>3. 1 \in 1..n /\ \A x \in 1..n : x = 1 \/ (x - 1 \in 1..(n - 1) /\ (x - 1) + 1 = x)
  BY <1>1
<1>4. OnePlaceEach(rest)
  <2>1. ASSUME NEW x \in 1..(n - 1), NEW y \in 1..(n - 1), rest[x].url = rest[y].url
        PROVE  x = y
    <3>1. q[x + 1].url = q[y + 1].url
      BY <1>1, <2>1
    <3>2. x + 1 = y + 1
      BY <1>1, <1>2, <3>1 DEF OnePlaceEach
    <3> QED  BY <3>2
  <2> QED  BY <1>1, <2>1 DEF OnePlaceEach
<1>5. Waits(q, head.url)
  BY <1>1, <1>3 DEF Waits
<1>6. ~Waits(rest, head.url)
  <2>1. ASSUME NEW x \in 1..(n - 1), rest[x].url = head.url PROVE FALSE
    <3>1. q[x + 1].url = q[1].url
      BY <1>1, <2>1
    <3> QED  BY <1>1, <1>2, <1>3, <3>1 DEF OnePlaceEach
  <2> QED  BY <1>1, <2>1 DEF Waits
<1>7. ASSUME NEW u, Waits(rest, u) PROVE Waits(q, u)
  <2>1. PICK x \in 1..(n - 1) : rest[x].url = u
    BY <1>1, <1>7 DEF Waits
  <2>2. q[x + 1].url = u /\ x + 1 \in 1..n
    BY <1>1, <1>2, <2>1
  <2> QED  BY <1>1, <2>2 DEF Waits
<1>8. ASSUME NEW u, WaitsAtRoot(q, u)
      PROVE  (u = head.url /\ head.depth = 0) \/ WaitsAtRoot(rest, u)
  <2>1. PICK x \in 1..n : q[x].url = u /\ q[x].depth = 0
    BY <1>1, <1>8 DEF WaitsAtRoot
  <2>2. CASE x = 1
    BY <1>1, <2>1, <2>2
  <2>3. CASE x # 1
    <3> DEFINE y == x - 1
    <3>1. y \in 1..(n - 1) /\ y + 1 = x
      BY <1>3, <2>3
    <3> HIDE DEF y
    <3>2. rest[y] = q[x]
      BY <1>1, <3>1
    <3> QED  BY <1>1, <2>1, <3>1, <3>2 DEF WaitsAtRoot
  <2> QED  BY <2>2, <2>3
<1> QED  BY <1>1, <1>4, <1>5, <1>6, <1>7, <1>8 DEF n

\* One address more, or several.
LEMMA Pushing ==
    ASSUME NEW q \in Seq(Entry), OnePlaceEach(q), NEW s \in Seq(Urls), Distinct(s),
           \A u \in ToSet(s) : ~Waits(q, u), NEW depth \in Nat,
           NEW all, all = Enqueue(q, s, depth)
    PROVE  /\ all \in Seq(Entry) /\ Len(all) = Len(q) + Len(s) /\ OnePlaceEach(all)
           /\ \A u : Waits(all, u) <=> Waits(q, u) \/ u \in ToSet(s)
           /\ \A u : WaitsAtRoot(q, u) => WaitsAtRoot(all, u)
           /\ depth = 0 => \A u \in ToSet(s) : WaitsAtRoot(all, u)
<1> DEFINE n == Len(q)
           m == Len(s)
           f == [i \in DOMAIN s |-> [url |-> s[i], depth |-> depth]]
<1>1. n \in Nat /\ DOMAIN q = 1..n /\ m \in Nat /\ DOMAIN s = 1..m
  OBVIOUS
<1>2. f \in Seq(Entry) /\ Len(f) = m /\ \A i \in 1..m : f[i].url = s[i] /\ f[i].depth = depth
  <2>1. f \in [1..m -> Entry]
    BY <1>1 DEF Entry
  <2> QED  BY <1>1, <2>1
<1>3. all = q \o f
  BY DEF Enqueue
<1> HIDE DEF n, m, f
<1>4. /\ all \in Seq(Entry) /\ Len(all) = n + m /\ DOMAIN all = 1..(n + m)
      /\ \A x \in 1..n : all[x] = q[x]
      /\ \A x \in 1..m : all[n + x] = f[x]
  <2>1. n = Len(q) /\ m = Len(f)
    BY <1>2 DEF n
  <2>2. all \in Seq(Entry) /\ Len(all) = n + m /\ DOMAIN all = 1..(n + m)
    <3>1. all \in Seq(Entry)
      BY <1>2, <1>3
    <3>2. Len(all) = n + m
      <4>1. f \in Seq(Entry)
        BY <1>2
      <4>2. Len(q \o f) = Len(q) + Len(f)
        BY <4>1
      <4> QED  BY <1>3, <2>1, <4>2
    <3> QED  BY <3>1, <3>2
  <2>3. \A x \in 1..n : all[x] = q[x]
    BY <1>1, <1>2, <1>3, <2>1
  <2>4. ASSUME NEW x \in 1..m PROVE all[n + x] = f[x]
    <3> DEFINE y == n + x
    <3>1. y \in 1..(n + m) /\ ~(y <= n) /\ y - n = x
      BY <1>1
    <3> HIDE DEF y
    <3>2. all[y] = f[y - n]
      BY <1>1, <1>2, <1>3, <2>1, <3>1
    <3> QED  BY <3>1, <3>2 DEF y
  <2> QED  BY <2>2, <2>3, <2>4
<1>5. \A x \in 1..(n + m) : x \in 1..n \/ (x - n \in 1..m /\ n + (x - n) = x)
  BY <1>1
<1>6. \A x \in 1..n : x \in 1..(n + m)
  BY <1>1
<1>7. \A x \in 1..m : n + x \in 1..(n + m)
  BY <1>1
<1>8. \A x \in 1..(n + m) : (x \in 1..n /\ all[x] = q[x])
                            \/ (x - n \in 1..m /\ all[x].url = s[x - n])
  <2>1. SUFFICES ASSUME NEW x \in 1..(n + m), x \notin 1..n
                 PROVE  x - n \in 1..m /\ all[x].url = s[x - n]
    BY <1>4
  <2> DEFINE y == x - n
  <2>2. y \in 1..m /\ n + y = x
    BY <1>5, <2>1
  <2> HIDE DEF y
  <2>3. all[x] = f[y]
    BY <1>4, <2>2
  <2>4. all[x].url = s[y]
    BY <1>2, <2>2, <2>3
  <2> QED  BY <2>2, <2>4 DEF y
<1>9. OnePlaceEach(all)
  <2>1. SUFFICES ASSUME NEW x \in 1..(n + m), NEW y \in 1..(n + m), all[x].url = all[y].url
                 PROVE  x = y
    BY <1>4 DEF OnePlaceEach
  <2>2. CASE x \in 1..n /\ y \in 1..n
    <3>1. q[x].url = q[y].url
      BY <1>4, <2>1, <2>2
    <3> QED  BY <1>1, <2>2, <3>1 DEF OnePlaceEach
  <2>3. \A i \in 1..n : \A j \in 1..m : q[i].url # s[j]
    BY <1>1 DEF Waits, ToSet
  <2>4. CASE x \in 1..n /\ y \notin 1..n
    BY <1>4, <1>8, <2>1, <2>3, <2>4
  <2>5. CASE x \notin 1..n /\ y \in 1..n
    BY <1>4, <1>8, <2>1, <2>3, <2>5
  <2>6. CASE x \notin 1..n /\ y \notin 1..n
    <3>1. x - n \in 1..m /\ y - n \in 1..m /\ s[x - n] = s[y - n]
      BY <1>8, <2>1, <2>6
    <3>2. x - n = y - n
      BY <1>1, <3>1 DEF Distinct
    <3> QED  BY <1>1, <3>2
  <2> QED  BY <2>2, <2>4, <2>5, <2>6
<1>10. ASSUME NEW u
       PROVE  /\ Waits(all, u) => Waits(q, u) \/ u \in ToSet(s)
              /\ Waits(q, u) => Waits(all, u)
              /\ WaitsAtRoot(q, u) => WaitsAtRoot(all, u)
              /\ u \in ToSet(s) => Waits(all, u) /\ (depth = 0 => WaitsAtRoot(all, u))
  <2>1. ASSUME Waits(all, u) PROVE Waits(q, u) \/ u \in ToSet(s)
    <3>1. PICK x \in 1..(n + m) : all[x].url = u
      BY <1>4, <2>1 DEF Waits
    <3> QED  BY <1>1, <1>8, <3>1 DEF Waits, ToSet
  <2>2. Waits(q, u) => Waits(all, u)
    BY <1>1, <1>4, <1>6 DEF Waits
  <2>3. WaitsAtRoot(q, u) => WaitsAtRoot(all, u)
    BY <1>1, <1>4, <1>6 DEF WaitsAtRoot
  <2>4. ASSUME u \in ToSet(s)
        PROVE  Waits(all, u) /\ (depth = 0 => WaitsAtRoot(all, u))
    <3>1. PICK j \in 1..m : s[j] = u
      BY <1>1, <2>4 DEF ToSet
    <3> DEFINE x == n + j
    <3>2. x \in 1..(n + m) /\ all[x] = f[j]
      BY <1>4, <1>7
    <3> HIDE DEF x
    <3>3. all[x].url = u /\ all[x].depth = depth
      BY <1>2, <3>1, <3>2
    <3> QED  BY <1>4, <3>2, <3>3 DEF Waits, WaitsAtRoot
  <2> QED  BY <2>1, <2>2, <2>3, <2>4
<1> QED  BY <1>4, <1>9, <1>10 DEF n, m

LEMMA PushingOne ==
    ASSUME NEW q \in Seq(Entry), OnePlaceEach(q), NEW e \in Entry, ~Waits(q, e.url), e.depth = 0
    PROVE  /\ Append(q, e) \in Seq(Entry) /\ Len(Append(q, e)) = Len(q) + 1
           /\ OnePlaceEach(Append(q, e))
           /\ \A u : Waits(Append(q, e), u) <=> Waits(q, u) \/ u = e.url
           /\ \A u : WaitsAtRoot(q, u) \/ u = e.url => WaitsAtRoot(Append(q, e), u)
<1> DEFINE n == Len(q)
           all == Append(q, e)
<1>2. /\ n \in Nat /\ DOMAIN q = 1..n /\ DOMAIN all = 1..(n + 1) /\ Len(all) = n + 1
      /\ all \in Seq(Entry) /\ all[n + 1] = e /\ \A x \in 1..n : all[x] = q[x]
  OBVIOUS
<1> HIDE DEF n, all
<1>3. /\ \A x \in 1..(n + 1) : x \in 1..n \/ x = n + 1
      /\ \A x \in 1..n : x \in 1..(n + 1)
      /\ n + 1 \in 1..(n + 1)
  BY <1>2
<1>4. OnePlaceEach(all)
  BY <1>2, <1>3 DEF OnePlaceEach, Waits
<1>5. \A u : Waits(all, u) <=> Waits(q, u) \/ u = e.url
  BY <1>2, <1>3 DEF Waits
<1>6. \A u : WaitsAtRoot(q, u) \/ u = e.url => WaitsAtRoot(all, u)
  BY <1>2, <1>3 DEF WaitsAtRoot
<1> QED  BY <1>2, <1>4, <1>5, <1>6 DEF n, all

-----------------------------------------------------------------------------
(* The actions.                                                              *)

LEMMA SavedFacts ==
    ASSUME NEW g \in Graph, Clean(g), NEW c, c = Saved(g)
    PROVE  c \in Checkpoint /\ ToSet(c.unfetched) \cap Refusable = {}
<1>1. g.nodes \in Seq(Urls) /\ ToSet(g.nodes) \subseteq Urls
  BY GraphFields, ElementsOfNodes
<1>2. /\ Without(g.nodes, g.fetched) \in Seq(Urls)
      /\ ToSet(Without(g.nodes, g.fetched)) = ToSet(g.nodes) \ g.fetched
  BY <1>1, WithoutIsLeft
<1>3. c.held = ToSet(g.nodes) /\ c.unfetched = Without(g.nodes, g.fetched)
      /\ c = [held |-> c.held, unfetched |-> c.unfetched]
  BY DEF Saved, Unfetched
<1>4. c \in Checkpoint
  BY <1>1, <1>2, <1>3 DEF Checkpoint
<1> QED  BY <1>2, <1>3, <1>4 DEF Clean

LEMMA CountedIsNat ==
    ASSUME NEW g \in Graph
    PROVE  /\ Counted(g) \in Nat
           /\ \A h : Grows(g, h) => Counted(h) = Counted(g)
  BY GraphFields DEF Counted, Grows, SameCounters

LEMMA NothingSeenTwice ==
    ASSUME NEW g \in Graph, NEW seen
    PROVE  IsFiniteSet(Seen(g, seen)) /\ Cardinality(Seen(g, seen)) \in Nat
<1>1. IsFiniteSet(ToSet(g.nodes))
  BY ElementsOfNodes
<1>2. IsFiniteSet(Seen(g, seen))
  BY <1>1, FS_Subset DEF Seen
<1> QED  BY <1>2, FS_CardinalityType

LEMMA InitStep == SiteInit => SiteInv
<1> SUFFICES ASSUME SiteInit PROVE SiteInv
  OBVIOUS
<1>1. EmptyGraph \in Graph
  BY SiteAssumption DEF EmptyGraph, Graph
<1>2. /\ EmptyGraph.nodes = <<>> /\ Counted(EmptyGraph) = 0
      /\ \A u \in Urls : EmptyGraph.source[u] = {}
  BY DEF EmptyGraph, Counted
<1>3. NoCheckpoint \in Checkpoint /\ NoCheckpoint.unfetched = <<>>
  BY DEF NoCheckpoint, Checkpoint
<1>4. ToSet(<<>>) = {} /\ Distinct(<<>>)
  BY DEF ToSet, Distinct
<1>5. SiteTypeOK
  BY <1>1, <1>3 DEF SiteInit, SiteTypeOK, Early
<1>6. RequestsInv
  BY DEF SiteInit, RequestsInv, OnePlaceEach, Waits
<1>7. ResumeInv
  BY <1>2, <1>3, <1>4 DEF SiteInit, ResumeInv, Clean, NoCheckpoint
<1>8. ReportInv
  <2>1. Explained(EmptyGraph, {})
    BY <1>2, <1>4 DEF Explained
  <2> QED  BY <1>2, <2>1 DEF SiteInit, ReportInv
<1> QED  BY <1>5, <1>6, <1>7, <1>8 DEF SiteInv

LEMMA ResumeStep ==
    ASSUME SiteInv, Resume
    PROVE  SiteInv'
<1>1. EmptyGraph \in Graph
  BY SiteAssumption DEF EmptyGraph, Graph
<1>2. /\ EmptyGraph.nodes = <<>> /\ Counted(EmptyGraph) = 0
      /\ \A u \in Urls : EmptyGraph.source[u] = {}
  BY DEF EmptyGraph, Counted
<1>4. ToSet(<<>>) = {} /\ Distinct(<<>>)
  BY DEF ToSet, Distinct
<1>5. SiteTypeOK'
  BY <1>1 DEF SiteInv, SiteTypeOK, Resume, Checkpoint, Early
<1>6. RequestsInv'
  BY DEF Resume, RequestsInv, OnePlaceEach, Waits
<1>7. ResumeInv'
  BY <1>2, <1>4 DEF SiteInv, Resume, ResumeInv, Clean
<1>8. ReportInv'
  <2>1. Explained(EmptyGraph, {})
    BY <1>2, <1>4 DEF Explained
  <2> QED  BY <1>2, <2>1 DEF Resume, ReportInv
<1> QED  BY <1>5, <1>6, <1>7, <1>8 DEF SiteInv

\* ReadSitemaps and ReadCms.
LEMMA ListedStep ==
    ASSUME SiteInv, phase \in {"sitemap", "cms"}, phase' \in Early,
           NEW source \in Sources, source # "dom", NEW urls \in Listings,
           graph' = AddAll(graph, urls, source), phase' # "sitemap",
           requests' \in [Urls -> Nat], \A u \in Urls : requests'[u] = Probes(u),
           UNCHANGED <<frontier, visited, seeds, resumed, checkpoint, resumes>>
    PROVE  SiteInv'
<1>0. phase \in Early
  BY DEF Early
<1>1. graph \in Graph /\ Clean(graph) /\ Explained(graph, {})
  BY <1>0 DEF SiteInv, SiteTypeOK, ResumeInv, ReportInv
<1>2. graph' \in Graph /\ Grows(graph, graph') /\ Clean(graph') /\ Explained(graph', {})
  BY <1>1, ListingFacts
<1>3. phase' \notin {"seeds", "crawl", "done"}
  BY DEF Early
<1>4. SiteTypeOK'
  BY <1>2 DEF SiteInv, SiteTypeOK
<1>5. RequestsInv'
  BY <1>0 DEF SiteInv, RequestsInv, Excluded
<1>6. ResumeInv'
  BY <1>0, <1>2, <1>3 DEF SiteInv, ResumeInv, Clean
<1>7. ReportInv'
  <2>1. Counted(graph) = 0
    BY <1>0 DEF SiteInv, ReportInv
  <2>2. Counted(graph') = 0
    BY <1>1, <1>2, <2>1, CountedIsNat
  <2> QED  BY <1>2, <1>3, <2>2 DEF ReportInv
<1> QED  BY <1>4, <1>5, <1>6, <1>7 DEF SiteInv

\* What the crawl's own path does with an address that it sees for the first time.
LEMMA FirstSight ==
    ASSUME NEW g \in Graph, Clean(g), NEW seen \in SUBSET Urls, Explained(g, seen),
           NEW u \in Urls, u \notin seen, NEW h, h = Add(g, u, "dom", 0)
    PROVE  /\ h \in Graph /\ Clean(h) /\ Grows(g, h) /\ Explained(h, seen \cup {u})
           /\ ~Holds(h, u) => u \in Refusable \/ h.refused \/ h.confirmed
           /\ ~h.confirmed => Seen(h, seen) = Seen(g, seen)
           /\ ~h.confirmed =>
                 Cardinality(Seen(h, seen \cup {u}))
                     = Cardinality(Seen(g, seen)) + IF Holds(h, u) THEN 1 ELSE 0
<1>1. "dom" \in Sources /\ 0 \in Nat
  BY DEF Sources
<1>2. /\ h \in Graph /\ Grows(g, h) /\ Clean(h)
      /\ ~h.confirmed => ~g.confirmed /\ (Rejected(g, h, u, "dom") \/ Taken(g, h, u, "dom"))
  BY <1>1, AddEffect, AddKeepsClean
<1>3. /\ Explained(h, seen \cup {u})
      /\ ~h.confirmed => Seen(h, seen) = Seen(g, seen)
  BY LinkedStaysExplained
<1>4. ASSUME ~Holds(h, u), ~h.confirmed
      PROVE  u \in Refusable \/ h.refused
  <2>1. CASE Rejected(g, h, u, "dom")
    BY <2>1 DEF Rejected
  <2>2. CASE Taken(g, h, u, "dom")
    <3>1. Distinct(g.nodes)
      BY <1>2, <1>4 DEF Explained
    <3>2. u \in ToSet(h.nodes)
      BY <1>1, <1>2, <2>2, <3>1, TakenNodes
    <3> QED  BY <1>4, <3>2 DEF Holds
  <2> QED  BY <1>2, <1>4, <2>1, <2>2
<1>5. ASSUME ~h.confirmed
      PROVE  Cardinality(Seen(h, seen \cup {u}))
                 = Cardinality(Seen(g, seen)) + IF Holds(h, u) THEN 1 ELSE 0
  <2>1. IsFiniteSet(Seen(g, seen)) /\ Cardinality(Seen(g, seen)) \in Nat
    BY NothingSeenTwice
  <2>2. u \notin Seen(g, seen)
    BY DEF Seen
  <2>3. CASE Holds(h, u)
    <3>1. Seen(h, seen \cup {u}) = Seen(g, seen) \cup {u}
      BY <1>3, <1>5, <2>3 DEF Seen, Holds
    <3>2. Cardinality(Seen(g, seen) \cup {u}) = Cardinality(Seen(g, seen)) + 1
      BY <2>1, <2>2, FS_AddElement
    <3> QED  BY <2>3, <3>1, <3>2
  <2>4. CASE ~Holds(h, u)
    <3>1. Seen(h, seen \cup {u}) = Seen(g, seen)
      BY <1>3, <1>5, <2>4 DEF Seen, Holds
    <3> QED  BY <2>1, <2>4, <3>1
  <2> QED  BY <2>3, <2>4
<1> QED  BY <1>2, <1>3, <1>4, <1>5

LEMMA StartCrawlStep ==
    ASSUME SiteInv, StartCrawl
    PROVE  SiteInv'
<1> DEFINE first == [url |-> Root, depth |-> 0]
<1>1. /\ phase = "listed" /\ phase' = "seeds" /\ graph' = Add(graph, Root, "dom", 0)
      /\ frontier' = <<first>> /\ visited' = {Root}
      /\ checkpoint' \in {checkpoint, Saved(graph)}
      /\ requests' = requests /\ seeds' = seeds /\ resumed' = resumed
  BY DEF StartCrawl
<1>2. phase \in Early /\ Root \in Urls \ Refusable
  BY <1>1, SiteAssumption DEF Early
<1>3. /\ graph \in Graph /\ Clean(graph) /\ Explained(graph, {}) /\ Counted(graph) = 0
      /\ frontier = <<>> /\ visited = {} /\ seeds = resumed.unfetched
  BY <1>2 DEF SiteInv, SiteTypeOK, RequestsInv, ResumeInv, ReportInv
<1>4. /\ graph' \in Graph /\ Clean(graph') /\ Grows(graph, graph') /\ Explained(graph', {Root})
      /\ ~graph'.confirmed => Cardinality(Seen(graph', {Root}))
             = Cardinality(Seen(graph, {})) + IF Holds(graph', Root) THEN 1 ELSE 0
  <2>1. {} \in SUBSET Urls /\ Root \notin {} /\ {} \cup {Root} = {Root}
    OBVIOUS
  <2>2. graph' = Add(graph, Root, "dom", 0)
    BY <1>1
  <2> DEFINE h == graph'
  <2>3. /\ h \in Graph /\ Clean(h) /\ Grows(graph, h) /\ Explained(h, {} \cup {Root})
        /\ ~h.confirmed => Cardinality(Seen(h, {} \cup {Root}))
               = Cardinality(Seen(graph, {})) + IF Holds(h, Root) THEN 1 ELSE 0
    <3>1. h = Add(graph, Root, "dom", 0)
      BY <2>2
    <3> HIDE DEF h
    <3> QED  BY <1>2, <1>3, <2>1, <3>1, FirstSight
  <2> QED  BY <2>1, <2>3
<1>5. /\ first \in Entry /\ first.url = Root /\ first.depth = 0
      /\ \A x \in DOMAIN frontier' : frontier'[x] = first
      /\ DOMAIN frontier' = {1} /\ Len(frontier') = 1 /\ frontier' \in Seq(Entry)
  BY <1>1, <1>2 DEF Entry
<1> HIDE DEF first
<1>6. checkpoint' \in Checkpoint /\ ToSet(checkpoint'.unfetched) \cap Refusable = {}
  <2>1. Saved(graph) \in Checkpoint /\ ToSet(Saved(graph).unfetched) \cap Refusable = {}
    BY <1>3, SavedFacts
  <2>2. checkpoint \in Checkpoint /\ ToSet(checkpoint.unfetched) \cap Refusable = {}
    BY DEF SiteInv, SiteTypeOK, ResumeInv
  <2> QED  BY <1>1, <2>1, <2>2
<1>7. SiteTypeOK'
  BY <1>1, <1>2, <1>4, <1>5, <1>6 DEF SiteInv, SiteTypeOK
<1>8. RequestsInv'
  <2>1. OnePlaceEach(frontier)'
    BY <1>5 DEF OnePlaceEach
  <2>2. \A u \in Urls : requests[u] = Probes(u)
    BY <1>1, <1>3 DEF SiteInv, RequestsInv
  <2>3. \A u \in Urls : Waits(frontier, u)' => u = Root
    BY <1>5 DEF Waits
  <2>4. phase' \notin Early
    BY <1>1 DEF Early
  <2> QED  BY <1>1, <2>1, <2>2, <2>3, <2>4 DEF RequestsInv
<1>9. ResumeInv'
  <2>1. WaitsAtRoot(frontier, Root)'
    BY <1>5 DEF WaitsAtRoot
  <2>2. ToSet(resumed.unfetched) \cap Refusable = {}
    BY DEF SiteInv, ResumeInv
  <2>3. phase' = "seeds" /\ phase' \notin Early
    BY <1>1 DEF Early
  <2> QED  BY <1>1, <1>3, <1>4, <1>6, <2>1, <2>2, <2>3 DEF ResumeInv
<1>10. ReportInv'
  <2>1. Counted(graph') = 0
    BY <1>3, <1>4, CountedIsNat
  <2>2. Seen(graph, {}) = {} /\ Cardinality({}) = 0
    BY FS_EmptySet DEF Seen
  <2>3. phase' \notin Early
    BY <1>1 DEF Early
  <2>4. ~graph'.confirmed /\ Holds(graph', Root)
           => Counted(graph') + Len(frontier') = Cardinality(Seen(graph', visited'))
    BY <1>1, <1>4, <1>5, <2>1, <2>2
  <2> QED  BY <1>1, <1>4, <2>3, <2>4 DEF ReportInv
<1> QED  BY <1>7, <1>8, <1>9, <1>10 DEF SiteInv

LEMMA SeedsTaken ==
    ASSUME NEW s \in Seq(Urls), s # <<>>, NEW u, u = Head(s), NEW rest, rest = Tail(s)
    PROVE  u \in Urls /\ rest \in Seq(Urls) /\ ToSet(s) = ToSet(rest) \cup {u}
<1>1. /\ Len(s) \in Nat /\ Len(s) > 0 /\ DOMAIN s = 1..Len(s) /\ u = s[1] /\ u \in Urls
      /\ rest \in Seq(Urls) /\ DOMAIN rest = 1..(Len(s) - 1)
      /\ \A x \in 1..(Len(s) - 1) : rest[x] = s[x + 1]
  OBVIOUS
<1>2. ASSUME NEW y \in ToSet(s), y # u PROVE y \in ToSet(rest)
  <2>1. PICK x \in 1..Len(s) : s[x] = y
    BY <1>1 DEF ToSet
  <2> DEFINE z == x - 1
  <2>2. z \in 1..(Len(s) - 1) /\ z + 1 = x
    BY <1>1, <1>2, <2>1
  <2> HIDE DEF z
  <2>3. rest[z] = y
    BY <1>1, <2>1, <2>2
  <2> QED  BY <1>1, <2>2, <2>3 DEF ToSet
<1>3. ASSUME NEW y \in ToSet(rest) PROVE y \in ToSet(s)
  <2>1. PICK x \in 1..(Len(s) - 1) : rest[x] = y
    BY <1>1 DEF ToSet
  <2>2. x + 1 \in 1..Len(s) /\ s[x + 1] = y
    BY <1>1, <2>1
  <2> QED  BY <1>1, <2>2 DEF ToSet
<1>4. u \in ToSet(s)
  <2>1. 1 \in 1..Len(s)
    BY <1>1
  <2> QED  BY <1>1, <2>1 DEF ToSet
<1> QED  BY <1>1, <1>2, <1>3, <1>4

LEMMA QueueSeedStep ==
    ASSUME SiteInv, QueueSeed
    PROVE  SiteInv'
<1> DEFINE u == Head(seeds)
<1>1. /\ phase = "seeds" /\ phase' = "seeds" /\ seeds # <<>> /\ seeds' = Tail(seeds)
      /\ requests' = requests /\ resumed' = resumed /\ checkpoint' = checkpoint
  BY DEF QueueSeed
<1>2. /\ graph \in Graph /\ frontier \in Seq(Entry) /\ visited \in SUBSET Urls
      /\ seeds \in Seq(Urls) /\ Clean(graph) /\ Root \in visited /\ Explained(graph, visited)
      /\ ~graph.confirmed /\ Holds(graph, Root)
            => Counted(graph) + Len(frontier) = Cardinality(Seen(graph, visited))
  BY <1>1 DEF SiteInv, SiteTypeOK, ResumeInv, ReportInv
<1>3. u \in Urls /\ seeds' \in Seq(Urls) /\ ToSet(seeds) = ToSet(seeds') \cup {u}
  BY <1>1, <1>2, SeedsTaken
<1>4. phase \notin Early
  BY <1>1 DEF Early
<1> HIDE DEF u
<1>5. CASE u \in visited
  <2>1. graph' = graph /\ visited' = visited /\ frontier' = frontier
    BY <1>5 DEF QueueSeed, u
  <2>2. SiteTypeOK'
    BY <1>1, <1>3, <2>1 DEF SiteInv, SiteTypeOK
  <2>3. RequestsInv'
    BY <1>1, <2>1 DEF SiteInv, RequestsInv, Excluded
  <2>4. ResumeInv'
    <3>1. \A x \in ToSet(resumed.unfetched) : x \in ToSet(seeds') \cup visited
      BY <1>1, <1>3, <1>5 DEF SiteInv, ResumeInv
    <3> QED  BY <1>1, <1>4, <2>1, <3>1 DEF SiteInv, ResumeInv, Unhindered
  <2>5. ReportInv'
    BY <1>1, <2>1 DEF SiteInv, ReportInv
  <2> QED  BY <2>2, <2>3, <2>4, <2>5 DEF SiteInv
<1>6. CASE u \notin visited
  <2>1. /\ graph' = Add(graph, u, "dom", 0) /\ visited' = visited \cup {u}
        /\ frontier' = IF Holds(graph', u) THEN Append(frontier, [url |-> u, depth |-> 0])
                       ELSE frontier
    BY <1>6 DEF QueueSeed, u
  <2>2. /\ graph' \in Graph /\ Clean(graph') /\ Grows(graph, graph')
        /\ Explained(graph', visited')
        /\ ~Holds(graph', u) => u \in Refusable \/ graph'.refused \/ graph'.confirmed
        /\ ~graph'.confirmed => Seen(graph', visited) = Seen(graph, visited)
        /\ ~graph'.confirmed => Cardinality(Seen(graph', visited'))
               = Cardinality(Seen(graph, visited)) + IF Holds(graph', u) THEN 1 ELSE 0
    <3> DEFINE h == graph'
               seen == visited
    <3>1. h = Add(graph, u, "dom", 0) /\ visited' = seen \cup {u}
      BY <2>1
    <3>2. seen \in SUBSET Urls /\ u \notin seen /\ Explained(graph, seen)
      BY <1>2, <1>6
    <3> HIDE DEF h, seen
    <3> USE <1>2, <1>3, <3>1, <3>2
    <3>3. h \in Graph /\ Clean(h) /\ Grows(graph, h) /\ Explained(h, seen \cup {u})
      BY FirstSight
    <3>4. ~Holds(h, u) => u \in Refusable \/ h.refused \/ h.confirmed
      BY FirstSight
    <3>5. ~h.confirmed => Seen(h, seen) = Seen(graph, seen)
      BY FirstSight
    <3>6. ~h.confirmed => Cardinality(Seen(h, seen \cup {u}))
                 = Cardinality(Seen(graph, seen)) + IF Holds(h, u) THEN 1 ELSE 0
      BY FirstSight
    <3> QED  BY <3>3, <3>4, <3>5, <3>6 DEF h, seen
  <2>3. ~Waits(frontier, u) /\ OnePlaceEach(frontier) /\ requests[u] = Probes(u)
    BY <1>1, <1>3, <1>6 DEF SiteInv, RequestsInv
  <2>4. /\ frontier' \in Seq(Entry) /\ OnePlaceEach(frontier')
        /\ Len(frontier') = Len(frontier) + IF Holds(graph', u) THEN 1 ELSE 0
        /\ \A x : Waits(frontier', x) => Waits(frontier, x) \/ x = u
        /\ \A x : WaitsAtRoot(frontier, x) => WaitsAtRoot(frontier', x)
        /\ Holds(graph', u) => WaitsAtRoot(frontier', u)
    <3>1. CASE Holds(graph', u)
      <4> DEFINE e == [url |-> u, depth |-> 0]
      <4>1. e \in Entry /\ e.url = u /\ e.depth = 0
        BY <1>3 DEF Entry
      <4>2. frontier' = Append(frontier, e)
        BY <2>1, <3>1
      <4> HIDE DEF e
      <4>3. /\ Append(frontier, e) \in Seq(Entry) /\ Len(Append(frontier, e)) = Len(frontier) + 1
            /\ OnePlaceEach(Append(frontier, e))
            /\ \A x : Waits(Append(frontier, e), x) <=> Waits(frontier, x) \/ x = e.url
            /\ \A x : WaitsAtRoot(frontier, x) \/ x = e.url => WaitsAtRoot(Append(frontier, e), x)
        BY <1>2, <2>3, <4>1, PushingOne
      <4> QED  BY <3>1, <4>1, <4>2, <4>3
    <3>2. CASE ~Holds(graph', u)
      <4>1. frontier' = frontier /\ Len(frontier) \in Nat
        BY <1>2, <2>1, <3>2
      <4> QED  BY <1>2, <2>3, <3>2, <4>1
    <3> QED  BY <3>1, <3>2
  <2>5. SiteTypeOK'
    BY <1>1, <1>2, <1>3, <2>1, <2>2, <2>4 DEF SiteInv, SiteTypeOK
  <2>6. RequestsInv'
    <3>1. \A x \in Urls : Waits(frontier', x) => x \in visited' /\ requests[x] = Probes(x)
      BY <2>1, <2>3, <2>4 DEF SiteInv, RequestsInv
    <3>2. \A x \in Urls :
             requests[x] = Probes(x)
                \/ (requests[x] = 1 + Probes(x) /\ x \in visited' /\ x \notin Excluded)
      BY <1>1, <2>1 DEF SiteInv, RequestsInv
    <3> QED  BY <1>1, <1>4, <2>4, <3>1, <3>2 DEF RequestsInv, Excluded
  <2>7. ResumeInv'
    <3>1. \A x \in ToSet(resumed.unfetched) : x \in ToSet(seeds') \cup visited'
      BY <1>1, <1>3, <2>1 DEF SiteInv, ResumeInv
    <3>2. Unhindered' => Unhindered
      BY <2>2 DEF Unhindered, Grows
    <3>3. Unhindered' => \A x \in visited' : x \in Refusable \/ WaitsAtRoot(frontier', x)
      <4>1. Unhindered => \A x \in visited : x \in Refusable \/ WaitsAtRoot(frontier, x)
        BY <1>1 DEF SiteInv, ResumeInv
      <4>2. Unhindered' => u \in Refusable \/ WaitsAtRoot(frontier', u)
        BY <2>2, <2>4 DEF Unhindered
      <4> QED  BY <2>1, <2>4, <3>2, <4>1, <4>2
    <3>4. ToSet(resumed.unfetched) \cap Refusable = {} /\ ToSet(checkpoint.unfetched) \cap Refusable = {}
      BY DEF SiteInv, ResumeInv
    <3>5. phase' \notin Early
      BY <1>1 DEF Early
    <3> QED  BY <1>1, <2>2, <3>1, <3>3, <3>4, <3>5 DEF ResumeInv
  <2>8. ReportInv'
    <3>1. Counted(graph') = Counted(graph) /\ Counted(graph) \in Nat /\ Len(frontier) \in Nat
      BY <1>2, <2>2, CountedIsNat
    <3>2. Cardinality(Seen(graph, visited)) \in Nat
      BY <1>2, NothingSeenTwice
    <3>3. ASSUME ~graph'.confirmed, Holds(graph', Root)
          PROVE  ~graph.confirmed /\ Holds(graph, Root)
      <4>1. ~graph.confirmed
        BY <2>2, <3>3 DEF Grows
      <4>2. Seen(graph', visited) = Seen(graph, visited)
        BY <2>2, <3>3
      <4> QED  BY <1>2, <3>3, <4>1, <4>2 DEF Seen, Holds
    <3>4. ~graph'.confirmed /\ Holds(graph', Root)
             => Counted(graph') + Len(frontier') = Cardinality(Seen(graph', visited'))
      BY <1>2, <2>2, <2>4, <3>1, <3>2, <3>3
    <3>5. phase' \notin Early /\ Root \in visited'
      BY <1>1, <1>2, <2>1 DEF Early
    <3> QED  BY <2>2, <3>4, <3>5 DEF ReportInv
  <2> QED  BY <2>5, <2>6, <2>7, <2>8 DEF SiteInv
<1> QED  BY <1>5, <1>6

LEMMA SeedsQueuedStep ==
    ASSUME SiteInv, SeedsQueued
    PROVE  SiteInv'
<1>1. /\ phase = "seeds" /\ seeds = <<>> /\ phase' = "crawl"
      /\ UNCHANGED <<graph, frontier, visited, requests, seeds, resumed, checkpoint>>
  BY DEF SeedsQueued
<1>2. phase \notin Early /\ phase' \notin Early
  BY <1>1 DEF Early
<1>3. SiteTypeOK'
  BY <1>1 DEF SiteInv, SiteTypeOK
<1>4. RequestsInv'
  BY <1>1, <1>2 DEF SiteInv, RequestsInv, Excluded
<1>5. ResumeInv'
  <2>1. ASSUME Unhindered, NEW u \in ToSet(resumed.unfetched)
        PROVE  WaitsAtRoot(frontier, u)
    <3>1. u \in visited
      BY <1>1 DEF SiteInv, ResumeInv, ToSet
    <3>2. u \notin Refusable
      BY DEF SiteInv, ResumeInv
    <3> QED  BY <1>1, <2>1, <3>1, <3>2 DEF SiteInv, ResumeInv
  <2> QED  BY <1>1, <1>2, <2>1 DEF SiteInv, ResumeInv, Unhindered
<1>6. ReportInv'
  BY <1>1, <1>2 DEF SiteInv, ReportInv
<1> QED  BY <1>3, <1>4, <1>5, <1>6 DEF SiteInv

LEMMA CrawlEndsStep ==
    ASSUME SiteInv, CrawlEnds
    PROVE  SiteInv'
<1>1. /\ phase = "crawl" /\ frontier = <<>> /\ phase' = "done"
      /\ UNCHANGED <<graph, frontier, visited, requests, seeds, resumed, checkpoint>>
  BY DEF CrawlEnds
<1>2. phase \notin Early /\ phase' \notin Early
  BY <1>1 DEF Early
<1>3. SiteTypeOK'
  BY <1>1 DEF SiteInv, SiteTypeOK
<1>4. RequestsInv'
  BY <1>1, <1>2 DEF SiteInv, RequestsInv, Excluded
<1>5. ResumeInv'
  BY <1>1, <1>2 DEF SiteInv, ResumeInv, Unhindered
<1>6. ReportInv'
  BY <1>1, <1>2 DEF SiteInv, ReportInv
<1> QED  BY <1>3, <1>4, <1>5, <1>6 DEF SiteInv

LEMMA CrawlAbortsStep ==
    ASSUME SiteInv, CrawlAborts
    PROVE  SiteInv'
<1>1. /\ phase = "crawl" /\ phase' = "aborted" /\ graph' = [graph EXCEPT !.pages_fetched = 0]
      /\ UNCHANGED <<frontier, visited, requests, seeds, resumed, checkpoint>>
  BY DEF CrawlAborts
<1>2. phase \notin Early /\ phase' \notin Early \cup {"seeds", "crawl", "done"}
  BY <1>1 DEF Early
<1>3. graph' \in Graph /\ graph'.nodes = graph.nodes
  BY <1>1 DEF SiteInv, SiteTypeOK, Graph
<1>4. SiteTypeOK'
  BY <1>1, <1>3 DEF SiteInv, SiteTypeOK
<1>5. RequestsInv'
  BY <1>1, <1>2 DEF SiteInv, RequestsInv, Excluded
<1>6. ResumeInv'
  BY <1>1, <1>2, <1>3 DEF SiteInv, ResumeInv, Clean
<1>7. ReportInv'
  BY <1>2 DEF ReportInv
<1> QED  BY <1>4, <1>5, <1>6, <1>7 DEF SiteInv

\* What the frontier is when a page leaves it.
LEMMA PopFacts ==
    ASSUME SiteInv, phase = "crawl", frontier # <<>>
    PROVE  /\ Popped \in Entry /\ Popped.url \in Urls /\ Popped.depth \in Nat
           /\ Tail(frontier) \in Seq(Entry) /\ Len(frontier) \in Nat
           /\ Len(Tail(frontier)) = Len(frontier) - 1 /\ OnePlaceEach(Tail(frontier))
           /\ Popped.url \in visited /\ requests[Popped.url] = Probes(Popped.url)
           /\ ~Waits(Tail(frontier), Popped.url)
           /\ \A u \in Urls : Waits(Tail(frontier), u) => u \in visited /\ requests[u] = Probes(u)
           /\ \A u : WaitsAtRoot(frontier, u)
                        => (u = Popped.url /\ Popped.depth = 0) \/ WaitsAtRoot(Tail(frontier), u)
<1>1. frontier \in Seq(Entry) /\ OnePlaceEach(frontier)
      /\ \A u \in Urls : Waits(frontier, u) => u \in visited /\ requests[u] = Probes(u)
  BY DEF SiteInv, SiteTypeOK, RequestsInv
<1> DEFINE head == Head(frontier)
           rest == Tail(frontier)
<1>2. head = Head(frontier) /\ rest = Tail(frontier)
  OBVIOUS
<1> HIDE DEF head, rest
<1>3. /\ head \in Entry /\ rest \in Seq(Entry)
      /\ Len(frontier) \in Nat /\ Len(rest) = Len(frontier) - 1
      /\ OnePlaceEach(rest) /\ Waits(frontier, head.url) /\ ~Waits(rest, head.url)
      /\ \A u : Waits(rest, u) => Waits(frontier, u)
      /\ \A u : WaitsAtRoot(frontier, u)
                   => (u = head.url /\ head.depth = 0) \/ WaitsAtRoot(rest, u)
  BY <1>1, <1>2, Popping
<1>4. head.url \in Urls /\ head.depth \in Nat
  BY <1>3 DEF Entry
<1>5. head.url \in visited /\ requests[head.url] = Probes(head.url)
  BY <1>1, <1>3, <1>4
<1>6. \A u \in Urls : Waits(rest, u) => u \in visited /\ requests[u] = Probes(u)
  BY <1>1, <1>3
<1>7. Popped = head
  BY <1>2 DEF Popped
<1> QED  BY <1>2, <1>3, <1>4, <1>5, <1>6, <1>7

\* h is g with one more page that the crawl is done with.
OneMore(g, h) ==
    /\ h \in Graph /\ h.nodes = g.nodes /\ h.source = g.source
    /\ h.confirmed = g.confirmed /\ h.refused = g.refused
    /\ Counted(h) = Counted(g) + 1

\* One counter of the report is raised.
Raises(g, h) ==
    \/ h = [g EXCEPT !.depth_capped = @ + 1]
    \/ h = [g EXCEPT !.faceted_skipped = @ + 1]
    \/ h = [g EXCEPT !.resume_excluded = @ + 1]
    \/ h = [g EXCEPT !.pages_not_retrieved = @ + 1]
    \/ \E u \in Urls : h = [g EXCEPT !.fetched = @ \cup {u}, !.pages_fetched = @ + 1]

LEMMA Counting ==
    ASSUME NEW g \in Graph, NEW h, Raises(g, h)
    PROVE  OneMore(g, h)
<1>0. /\ g.pages_fetched \in Nat /\ g.pages_not_retrieved \in Nat /\ g.faceted_skipped \in Nat
      /\ g.resume_excluded \in Nat /\ g.depth_capped \in Nat /\ g.fetched \in SUBSET Urls
  BY GraphFields
<1>1. CASE h = [g EXCEPT !.depth_capped = @ + 1]
  <2> DEFINE n == g.depth_capped + 1
  <2>1. n \in Nat /\ n = g.depth_capped + 1
    BY <1>0
  <2>2. h = [g EXCEPT !.depth_capped = n]
    BY <1>1
  <2> HIDE DEF n
  <2>3. /\ h \in Graph /\ h.nodes = g.nodes /\ h.source = g.source
        /\ h.confirmed = g.confirmed /\ h.refused = g.refused
        /\ h.depth_capped = n
        /\ h.pages_fetched = g.pages_fetched /\ h.pages_not_retrieved = g.pages_not_retrieved
        /\ h.faceted_skipped = g.faceted_skipped /\ h.resume_excluded = g.resume_excluded
    BY <2>1, <2>2 DEF Graph
  <2>4. Counted(h) = Counted(g) + 1
    BY <1>0, <2>1, <2>3 DEF Counted
  <2> QED  BY <2>3, <2>4 DEF OneMore
<1>2. CASE h = [g EXCEPT !.faceted_skipped = @ + 1]
  <2> DEFINE n == g.faceted_skipped + 1
  <2>1. n \in Nat /\ n = g.faceted_skipped + 1
    BY <1>0
  <2>2. h = [g EXCEPT !.faceted_skipped = n]
    BY <1>2
  <2> HIDE DEF n
  <2>3. /\ h \in Graph /\ h.nodes = g.nodes /\ h.source = g.source
        /\ h.confirmed = g.confirmed /\ h.refused = g.refused
        /\ h.faceted_skipped = n
        /\ h.pages_fetched = g.pages_fetched /\ h.pages_not_retrieved = g.pages_not_retrieved
        /\ h.resume_excluded = g.resume_excluded /\ h.depth_capped = g.depth_capped
    BY <2>1, <2>2 DEF Graph
  <2>4. Counted(h) = Counted(g) + 1
    BY <1>0, <2>1, <2>3 DEF Counted
  <2> QED  BY <2>3, <2>4 DEF OneMore
<1>3. CASE h = [g EXCEPT !.resume_excluded = @ + 1]
  <2> DEFINE n == g.resume_excluded + 1
  <2>1. n \in Nat /\ n = g.resume_excluded + 1
    BY <1>0
  <2>2. h = [g EXCEPT !.resume_excluded = n]
    BY <1>3
  <2> HIDE DEF n
  <2>3. /\ h \in Graph /\ h.nodes = g.nodes /\ h.source = g.source
        /\ h.confirmed = g.confirmed /\ h.refused = g.refused
        /\ h.resume_excluded = n
        /\ h.pages_fetched = g.pages_fetched /\ h.pages_not_retrieved = g.pages_not_retrieved
        /\ h.faceted_skipped = g.faceted_skipped /\ h.depth_capped = g.depth_capped
    BY <2>1, <2>2 DEF Graph
  <2>4. Counted(h) = Counted(g) + 1
    BY <1>0, <2>1, <2>3 DEF Counted
  <2> QED  BY <2>3, <2>4 DEF OneMore
<1>4. CASE h = [g EXCEPT !.pages_not_retrieved = @ + 1]
  <2> DEFINE n == g.pages_not_retrieved + 1
  <2>1. n \in Nat /\ n = g.pages_not_retrieved + 1
    BY <1>0
  <2>2. h = [g EXCEPT !.pages_not_retrieved = n]
    BY <1>4
  <2> HIDE DEF n
  <2>3. /\ h \in Graph /\ h.nodes = g.nodes /\ h.source = g.source
        /\ h.confirmed = g.confirmed /\ h.refused = g.refused
        /\ h.pages_not_retrieved = n
        /\ h.pages_fetched = g.pages_fetched /\ h.faceted_skipped = g.faceted_skipped
        /\ h.resume_excluded = g.resume_excluded /\ h.depth_capped = g.depth_capped
    BY <2>1, <2>2 DEF Graph
  <2>4. Counted(h) = Counted(g) + 1
    BY <1>0, <2>1, <2>3 DEF Counted
  <2> QED  BY <2>3, <2>4 DEF OneMore
<1>5. CASE \E u \in Urls : h = [g EXCEPT !.fetched = @ \cup {u}, !.pages_fetched = @ + 1]
  <2>0. PICK u \in Urls : h = [g EXCEPT !.fetched = @ \cup {u}, !.pages_fetched = @ + 1]
    BY <1>5
  <2> DEFINE n == g.pages_fetched + 1
             f == g.fetched \cup {u}
  <2>1. n \in Nat /\ f \in SUBSET Urls /\ n = g.pages_fetched + 1
    BY <1>0
  <2>2. h = [g EXCEPT !.fetched = f, !.pages_fetched = n]
    BY <2>0
  <2> HIDE DEF n, f
  <2>3. /\ h \in Graph /\ h.nodes = g.nodes /\ h.source = g.source
        /\ h.confirmed = g.confirmed /\ h.refused = g.refused
        /\ h.pages_fetched = n
        /\ h.pages_not_retrieved = g.pages_not_retrieved /\ h.faceted_skipped = g.faceted_skipped
        /\ h.resume_excluded = g.resume_excluded /\ h.depth_capped = g.depth_capped
    BY <2>1, <2>2 DEF Graph
  <2>4. Counted(h) = Counted(g) + 1
    BY <1>0, <2>1, <2>3 DEF Counted
  <2> QED  BY <2>3, <2>4 DEF OneMore
<1> QED  BY <1>1, <1>2, <1>3, <1>4, <1>5 DEF Raises

\* A page that is not requested is too deep, faceted or excluded, and is counted.
LEMMA SkipStep ==
    ASSUME SiteInv, Skip
    PROVE  SiteInv'
<1>1. /\ phase = "crawl" /\ phase' = "crawl" /\ frontier # <<>> /\ frontier' = Tail(frontier)
      /\ SkipReason # "none" /\ graph' = [graph EXCEPT ![SkipReason] = @ + 1]
      /\ UNCHANGED <<visited, requests, seeds, resumed, checkpoint>>
  BY DEF Skip
<1>2. phase \notin Early /\ phase' \notin Early
  BY <1>1 DEF Early
<1>3. graph \in Graph
  BY DEF SiteInv, SiteTypeOK
<1>4. /\ SkipReason \in {"depth_capped", "faceted_skipped", "resume_excluded"}
      /\ SkipReason = "depth_capped" => Popped.depth > MaxDepth
      /\ SkipReason = "faceted_skipped" => Popped.url \in Faceted
      /\ SkipReason = "resume_excluded" => Popped.url \in Excluded
  BY <1>1 DEF SkipReason
<1>5. /\ graph' \in Graph /\ graph'.nodes = graph.nodes /\ graph'.source = graph.source
      /\ graph'.confirmed = graph.confirmed /\ graph'.refused = graph.refused
      /\ Counted(graph') = Counted(graph) + 1
  <2>1. \/ graph' = [graph EXCEPT !.depth_capped = @ + 1]
        \/ graph' = [graph EXCEPT !.faceted_skipped = @ + 1]
        \/ graph' = [graph EXCEPT !.resume_excluded = @ + 1]
    BY <1>1, <1>4
  <2>2. OneMore(graph, graph')
    BY <1>3, <2>1, Counting DEF Raises
  <2> QED  BY <2>2 DEF OneMore
<1>6. SiteTypeOK'
  BY <1>1, <1>5, PopFacts DEF SiteInv, SiteTypeOK
<1>7. RequestsInv'
  <2>1. \A u \in Urls :
           requests[u] = Probes(u)
              \/ (requests[u] = 1 + Probes(u) /\ u \in visited /\ u \notin Excluded)
    BY <1>1 DEF SiteInv, RequestsInv
  <2> QED  BY <1>1, <1>2, <2>1, PopFacts DEF RequestsInv, Excluded
<1>8. ResumeInv'
  <2>1. ASSUME Unhindered, NEW u \in ToSet(resumed.unfetched)
        PROVE  u \in Faceted \/ requests[u] = 1 + Probes(u) \/ WaitsAtRoot(Tail(frontier), u)
    <3>1. u \in Faceted \/ requests[u] = 1 + Probes(u) \/ WaitsAtRoot(frontier, u)
      BY <1>1, <2>1 DEF SiteInv, ResumeInv
    <3>2. CASE u = Popped.url /\ Popped.depth = 0
      <4>1. u \notin Excluded
        BY <2>1 DEF Excluded
      <4>2. ~(Popped.depth > MaxDepth)
        BY <3>2, SiteAssumption
      <4> QED  BY <1>4, <3>2, <4>1, <4>2
    <3> QED  BY <1>1, <3>1, <3>2, PopFacts
  <2>2. /\ Clean(graph') /\ (Unhindered' => Unhindered)
    BY <1>5 DEF SiteInv, ResumeInv, Clean, Unhindered
  <2> QED  BY <1>1, <1>2, <2>1, <2>2 DEF SiteInv, ResumeInv
<1>9. ReportInv'
  <2>1. Explained(graph', visited) /\ Seen(graph', visited) = Seen(graph, visited)
    BY <1>1, <1>5 DEF SiteInv, ReportInv, Explained, Seen
  <2>2. Holds(graph', Root) => Holds(graph, Root)
    BY <1>5 DEF Holds
  <2>3. Counted(graph) \in Nat /\ Len(frontier) \in Nat /\ Len(Tail(frontier)) = Len(frontier) - 1
    BY <1>1, <1>3, CountedIsNat, PopFacts
  <2>4. ~graph.confirmed /\ Holds(graph, Root)
           => Counted(graph) + Len(frontier) = Cardinality(Seen(graph, visited))
    BY <1>1 DEF SiteInv, ReportInv
  <2>5. ~graph'.confirmed /\ Holds(graph', Root)
           => Counted(graph') + Len(frontier') = Cardinality(Seen(graph', visited'))
    BY <1>1, <1>5, <2>1, <2>2, <2>3, <2>4
  <2>6. Root \in visited
    BY <1>1 DEF SiteInv, ReportInv
  <2> QED  BY <1>1, <1>2, <2>1, <2>5, <2>6 DEF ReportInv
<1> QED  BY <1>6, <1>7, <1>8, <1>9 DEF SiteInv

\* What a request does to the queue and to what was requested, whatever its answer is.
LEMMA Requesting ==
    ASSUME SiteInv, Request
    PROVE  /\ phase = "crawl" /\ frontier # <<>> /\ phase \notin Early
           /\ Popped.url \in Urls /\ Popped.url \in visited /\ Popped.url \notin Excluded
           /\ requests' \in [Urls -> Nat]
           /\ requests'[Popped.url] = 1 + Probes(Popped.url)
           /\ \A u \in Urls : u # Popped.url => requests'[u] = requests[u]
           /\ \A u \in Urls : Waits(Tail(frontier), u) => u \in visited /\ requests'[u] = Probes(u)
           /\ \A u \in Urls :
                 requests'[u] = Probes(u)
               \/ (requests'[u] = 1 + Probes(u) /\ u \in visited /\ u \notin Excluded)
           /\ \A u \in Urls : requests[u] = 1 + Probes(u) \/ WaitsAtRoot(frontier, u)
                                => requests'[u] = 1 + Probes(u) \/ WaitsAtRoot(Tail(frontier), u)
<1>1. /\ phase = "crawl" /\ frontier # <<>> /\ SkipReason = "none"
      /\ requests' = [requests EXCEPT ![Popped.url] = @ + 1]
  BY DEF Request
<1>2. phase \notin Early /\ Popped.url \notin Excluded
  BY <1>1 DEF Early, SkipReason
<1> DEFINE p == Popped.url
           rest == Tail(frontier)
<1>3. /\ p \in Urls /\ p \in visited /\ requests[p] = Probes(p) /\ ~Waits(rest, p)
      /\ \A u \in Urls : Waits(rest, u) => u \in visited /\ requests[u] = Probes(u)
      /\ \A u : WaitsAtRoot(frontier, u) => u = p \/ WaitsAtRoot(rest, u)
  BY <1>1, PopFacts
<1>4. requests \in [Urls -> Nat] /\ requests' = [requests EXCEPT ![p] = @ + 1] /\ p \notin Excluded
  BY <1>1, <1>2 DEF SiteInv, SiteTypeOK
<1>5. \A u \in Urls :
         requests[u] = Probes(u)
            \/ (requests[u] = 1 + Probes(u) /\ u \in visited /\ u \notin Excluded)
  BY <1>1 DEF SiteInv, RequestsInv
<1> HIDE DEF p, rest
<1>6. /\ requests' \in [Urls -> Nat] /\ requests'[p] = 1 + Probes(p)
      /\ \A u \in Urls : u # p => requests'[u] = requests[u]
  BY <1>3, <1>4
<1>7. \A u \in Urls : Waits(rest, u) => u \in visited /\ requests'[u] = Probes(u)
  BY <1>3, <1>6
<1>8. \A u \in Urls :
         requests'[u] = Probes(u)
            \/ (requests'[u] = 1 + Probes(u) /\ u \in visited /\ u \notin Excluded)
  BY <1>3, <1>4, <1>5, <1>6
<1>9. \A u \in Urls : requests[u] = 1 + Probes(u) \/ WaitsAtRoot(frontier, u)
                         => requests'[u] = 1 + Probes(u) \/ WaitsAtRoot(rest, u)
  BY <1>3, <1>6
<1> QED  BY <1>1, <1>2, <1>3, <1>4, <1>6, <1>7, <1>8, <1>9 DEF p, rest

LEMMA PageFailsStep ==
    ASSUME SiteInv, PageFails
    PROVE  SiteInv'
<1>1. /\ Request /\ phase' = phase /\ visited' = visited /\ frontier' = Tail(frontier)
      /\ graph' = [graph EXCEPT !.pages_not_retrieved = @ + 1]
      /\ seeds' = seeds /\ resumed' = resumed /\ checkpoint' = checkpoint
  BY DEF PageFails
<1>2. /\ phase = "crawl" /\ frontier # <<>> /\ phase \notin Early /\ phase' \notin Early
      /\ requests' \in [Urls -> Nat]
      /\ \A u \in Urls : Waits(Tail(frontier), u) => u \in visited /\ requests'[u] = Probes(u)
      /\ \A u \in Urls :
            requests'[u] = Probes(u)
               \/ (requests'[u] = 1 + Probes(u) /\ u \in visited /\ u \notin Excluded)
      /\ \A u \in Urls : requests[u] = 1 + Probes(u) \/ WaitsAtRoot(frontier, u)
                           => requests'[u] = 1 + Probes(u) \/ WaitsAtRoot(Tail(frontier), u)
  BY <1>1, Requesting
<1>3. /\ graph' \in Graph /\ graph'.nodes = graph.nodes /\ graph'.source = graph.source
      /\ graph'.confirmed = graph.confirmed /\ graph'.refused = graph.refused
      /\ Counted(graph') = Counted(graph) + 1
  <2>1. Raises(graph, graph')
    BY <1>1 DEF Raises
  <2>2. graph \in Graph
    BY DEF SiteInv, SiteTypeOK
  <2>3. OneMore(graph, graph')
    BY <2>1, <2>2, Counting
  <2> QED  BY <2>3 DEF OneMore
<1>4. SiteTypeOK'
  BY <1>1, <1>2, <1>3, PopFacts DEF SiteInv, SiteTypeOK
<1>5. RequestsInv'
  BY <1>1, <1>2, PopFacts DEF RequestsInv, Excluded
<1>6. ResumeInv'
  <2>1. ASSUME Unhindered, NEW u \in ToSet(resumed.unfetched)
        PROVE  u \in Faceted \/ requests'[u] = 1 + Probes(u) \/ WaitsAtRoot(Tail(frontier), u)
    <3>1. u \in Faceted \/ requests[u] = 1 + Probes(u) \/ WaitsAtRoot(frontier, u)
      BY <1>2, <2>1 DEF SiteInv, ResumeInv
    <3>2. u \in Urls
      BY DEF SiteInv, SiteTypeOK, Checkpoint, ToSet
    <3> QED  BY <1>2, <3>1, <3>2
  <2>2. Clean(graph') /\ (Unhindered' => Unhindered)
    BY <1>3 DEF SiteInv, ResumeInv, Clean, Unhindered
  <2> QED  BY <1>1, <1>2, <2>1, <2>2 DEF SiteInv, ResumeInv
<1>7. ReportInv'
  <2>1. Explained(graph', visited) /\ Seen(graph', visited) = Seen(graph, visited)
    BY <1>2, <1>3 DEF SiteInv, ReportInv, Explained, Seen
  <2>2. Holds(graph', Root) => Holds(graph, Root)
    BY <1>3 DEF Holds
  <2>3. Counted(graph) \in Nat /\ Len(frontier) \in Nat /\ Len(Tail(frontier)) = Len(frontier) - 1
    BY <1>2, CountedIsNat, PopFacts DEF SiteInv, SiteTypeOK
  <2>4. ~graph.confirmed /\ Holds(graph, Root)
           => Counted(graph) + Len(frontier) = Cardinality(Seen(graph, visited))
    BY <1>2 DEF SiteInv, ReportInv
  <2>5. ~graph'.confirmed /\ Holds(graph', Root)
           => Counted(graph') + Len(frontier') = Cardinality(Seen(graph', visited'))
    <3>1. Len(frontier') = Len(frontier) - 1 /\ visited' = visited
      BY <1>1, <2>3
    <3>2. Counted(graph') + Len(frontier') = Counted(graph) + Len(frontier)
      BY <1>3, <2>3, <3>1
    <3>3. Seen(graph', visited') = Seen(graph, visited)
      BY <2>1, <3>1
    <3> QED  BY <1>3, <2>2, <2>4, <3>2, <3>3
  <2>6. Root \in visited
    BY <1>2 DEF SiteInv, ReportInv
  <2> QED  BY <1>1, <1>2, <2>1, <2>5, <2>6 DEF ReportInv
<1> QED  BY <1>4, <1>5, <1>6, <1>7 DEF SiteInv

LEMMA DisjointUnion ==
    ASSUME NEW A, NEW B, IsFiniteSet(A), IsFiniteSet(B), A \cap B = {}
    PROVE  IsFiniteSet(A \cup B) /\ Cardinality(A \cup B) = Cardinality(A) + Cardinality(B)
<1>1. /\ IsFiniteSet(A \cup B)
      /\ Cardinality(A \cup B) = Cardinality(A) + Cardinality(B) - Cardinality(A \cap B)
  BY FS_Union
<1>2. Cardinality(A \cap B) = 0
  BY FS_EmptySet
<1>3. Cardinality(A) \in Nat /\ Cardinality(B) \in Nat
  BY FS_CardinalityType
<1> QED  BY <1>1, <1>2, <1>3

LEMMA CountOfDistinct ==
    ASSUME NEW s \in Seq(Urls), Distinct(s)
    PROVE  Cardinality(ToSet(s)) = Len(s) /\ Len(s) \in Nat
<1>1. Cardinality(ToSet(s)) = Len(s)
  BY DistinctElements DEF Distinct, ToSet
<1>2. Len(s) \in Nat
  OBVIOUS
<1> QED  BY <1>1, <1>2

\* What following a page's links does to the graph and the visited addresses, and what is new
\* to the frontier.
Followed(g, seen, h, fresh) ==
    /\ h \in Graph /\ Grows(g, h) /\ Clean(h)
    /\ fresh \in Seq(Urls) /\ Distinct(fresh) /\ ToSet(fresh) \subseteq Urls \ seen
    /\ Explained(h, seen \cup ToSet(fresh))
    /\ ~h.confirmed => /\ Seen(h, seen) = Seen(g, seen)
                       /\ Cardinality(Seen(h, seen \cup ToSet(fresh)))
                              = Cardinality(Seen(g, seen)) + Len(fresh)

LEMMA LinksFollowed ==
    ASSUME NEW stored \in Graph, Clean(stored), NEW seen \in SUBSET Urls, Explained(stored, seen),
           NEW links \in Listings, NEW depth \in Nat,
           NEW read, read = RecordLinks(stored, links, depth),
           NEW fresh, fresh = Without(read.recorded, seen)
    PROVE  Followed(stored, seen, read.graph, fresh)
<1> DEFINE h == read.graph
           all == read.recorded
<1>1. /\ h \in Graph /\ all \in Seq(Urls) /\ Grows(stored, h) /\ Clean(h) /\ Distinct(all)
      /\ Explained(h, seen \cup ToSet(all))
      /\ ~h.confirmed => Seen(h, seen) = Seen(stored, seen) /\ ToSet(all) \subseteq ToSet(h.nodes)
  <2>1. Follows(stored, seen, read)
    BY LinksFacts
  <2> QED  BY <2>1 DEF Follows
<1>2. fresh = Without(all, seen)
  OBVIOUS
<1> HIDE DEF h, all
<1>3. fresh \in Seq(Urls) /\ ToSet(fresh) = ToSet(all) \ seen /\ Distinct(fresh)
  BY <1>1, <1>2, WithoutIsLeft
<1>4. ToSet(fresh) \subseteq Urls
  BY <1>3 DEF ToSet
<1>5. seen \cup ToSet(all) = seen \cup ToSet(fresh)
  BY <1>3
<1>6. ASSUME ~h.confirmed
      PROVE  Cardinality(Seen(h, seen \cup ToSet(fresh))) = Cardinality(Seen(stored, seen)) + Len(fresh)
  <2> DEFINE A == Seen(h, seen)
             B == ToSet(fresh)
  <2>1. Seen(h, seen \cup B) = A \cup B /\ A \cap B = {}
    BY <1>1, <1>3, <1>6 DEF Seen
  <2>2. IsFiniteSet(A) /\ Cardinality(A) \in Nat
    BY <1>1, NothingSeenTwice
  <2>3. Cardinality(B) = Len(fresh) /\ Len(fresh) \in Nat
    BY <1>3, CountOfDistinct
  <2>4. IsFiniteSet(B)
    <3>1. B \subseteq ToSet(h.nodes)
      BY <1>1, <1>3, <1>6
    <3>2. IsFiniteSet(ToSet(h.nodes))
      BY <1>1, ElementsOfNodes
    <3> QED  BY <3>1, <3>2, FS_Subset
  <2>5. A = Seen(stored, seen)
    BY <1>1, <1>6
  <2> HIDE DEF A, B
  <2>6. Cardinality(A \cup B) = Cardinality(A) + Cardinality(B)
    BY <2>1, <2>2, <2>4, DisjointUnion
  <2>7. Cardinality(Seen(h, seen \cup B)) = Cardinality(Seen(stored, seen)) + Len(fresh)
    BY <2>1, <2>3, <2>5, <2>6
  <2> QED  BY <2>7 DEF B
<1>7. \A u \in ToSet(fresh) : u \notin seen
  BY <1>3
<1>8. Followed(stored, seen, h, fresh)
  BY <1>1, <1>3, <1>4, <1>5, <1>6, <1>7 DEF Followed
<1> QED  BY <1>8 DEF h

LEMMA PageLandsStep ==
    ASSUME SiteInv, PageLands
    PROVE  SiteInv'
<1> DEFINE stored == [graph EXCEPT !.fetched = @ \cup {Popped.url}, !.pages_fetched = @ + 1]
<1>1. PICK links \in Listings :
         LET read == RecordLinks(stored, links, Popped.depth)
             fresh == Without(read.recorded, visited)
         IN /\ graph' = read.graph
            /\ frontier' = Enqueue(Tail(frontier), fresh, Popped.depth + 1)
            /\ visited' = visited \cup ToSet(fresh)
            /\ checkpoint' \in {checkpoint, Saved(stored)}
  BY DEF PageLands
<1>2. Request /\ phase' = phase /\ seeds' = seeds /\ resumed' = resumed
  BY DEF PageLands
<1> DEFINE read == RecordLinks(stored, links, Popped.depth)
           fresh == Without(read.recorded, visited)
           rest == Tail(frontier)
<1>3. /\ graph' = read.graph /\ frontier' = Enqueue(rest, fresh, Popped.depth + 1)
      /\ visited' = visited \cup ToSet(fresh) /\ checkpoint' \in {checkpoint, Saved(stored)}
  BY <1>1
<1>4. /\ phase = "crawl" /\ frontier # <<>> /\ phase \notin Early /\ phase' \notin Early
      /\ Popped.url \in Urls /\ requests' \in [Urls -> Nat]
      /\ \A u \in Urls : Waits(rest, u) => u \in visited /\ requests'[u] = Probes(u)
      /\ \A u \in Urls :
            requests'[u] = Probes(u)
               \/ (requests'[u] = 1 + Probes(u) /\ u \in visited /\ u \notin Excluded)
      /\ \A u \in Urls : requests[u] = 1 + Probes(u) \/ WaitsAtRoot(frontier, u)
                           => requests'[u] = 1 + Probes(u) \/ WaitsAtRoot(rest, u)
  BY <1>2, Requesting
<1>5. /\ graph \in Graph /\ visited \in SUBSET Urls /\ Clean(graph) /\ Explained(graph, visited)
      /\ Root \in visited
  BY <1>4 DEF SiteInv, SiteTypeOK, ResumeInv, ReportInv
<1>6. OneMore(graph, stored)
  <2>1. Raises(graph, stored)
    BY <1>4 DEF Raises
  <2> HIDE DEF stored
  <2> QED  BY <1>5, <2>1, Counting
<1> HIDE DEF stored
<1>7. /\ stored \in Graph /\ Clean(stored) /\ Explained(stored, visited)
      /\ Seen(stored, visited) = Seen(graph, visited) /\ Counted(stored) = Counted(graph) + 1
      /\ stored.nodes = graph.nodes
      /\ stored.confirmed = graph.confirmed /\ stored.refused = graph.refused
  BY <1>5, <1>6 DEF OneMore, Clean, Explained, Seen
<1>8. /\ rest \in Seq(Entry) /\ OnePlaceEach(rest) /\ Popped.depth \in Nat
      /\ Len(frontier) \in Nat /\ Len(rest) = Len(frontier) - 1
  BY <1>4, PopFacts
<1>9. read = RecordLinks(stored, links, Popped.depth) /\ fresh = Without(read.recorded, visited)
  OBVIOUS
<1> HIDE DEF read, fresh, rest
<1>10. /\ read.graph \in Graph /\ Grows(stored, read.graph) /\ Clean(read.graph)
       /\ fresh \in Seq(Urls) /\ Distinct(fresh) /\ ToSet(fresh) \subseteq Urls \ visited
       /\ Explained(read.graph, visited \cup ToSet(fresh))
       /\ ~read.graph.confirmed =>
             /\ Seen(read.graph, visited) = Seen(stored, visited)
             /\ Cardinality(Seen(read.graph, visited \cup ToSet(fresh)))
                    = Cardinality(Seen(stored, visited)) + Len(fresh)
  <2> DEFINE seen == visited
             depth == Popped.depth
  <2>1. /\ seen \in SUBSET Urls /\ Explained(stored, seen) /\ depth \in Nat
        /\ read = RecordLinks(stored, links, depth) /\ fresh = Without(read.recorded, seen)
    BY <1>5, <1>7, <1>8, <1>9
  <2> HIDE DEF seen, depth
  <2>2. Followed(stored, seen, read.graph, fresh)
    BY <1>7, <2>1, LinksFollowed
  <2> QED  BY <2>2 DEF Followed, seen
<1>11. /\ frontier' \in Seq(Entry) /\ Len(frontier') = Len(rest) + Len(fresh)
       /\ OnePlaceEach(frontier')
       /\ \A u : Waits(frontier', u) <=> Waits(rest, u) \/ u \in ToSet(fresh)
       /\ \A u : WaitsAtRoot(rest, u) => WaitsAtRoot(frontier', u)
  <2> DEFINE all == frontier'
             depth == Popped.depth + 1
  <2>1. all = Enqueue(rest, fresh, depth) /\ depth \in Nat
    BY <1>3, <1>8
  <2>2. \A u \in ToSet(fresh) : ~Waits(rest, u)
    BY <1>4, <1>10
  <2>3. /\ all \in Seq(Entry) /\ Len(all) = Len(rest) + Len(fresh) /\ OnePlaceEach(all)
        /\ \A u : Waits(all, u) <=> Waits(rest, u) \/ u \in ToSet(fresh)
        /\ \A u : WaitsAtRoot(rest, u) => WaitsAtRoot(all, u)
    <3> HIDE DEF all, depth
    <3> QED  BY <1>8, <1>10, <2>1, <2>2, Pushing
  <2> QED  BY <2>3
<1>12. checkpoint' \in Checkpoint /\ ToSet(checkpoint'.unfetched) \cap Refusable = {}
  <2>1. Saved(stored) \in Checkpoint /\ ToSet(Saved(stored).unfetched) \cap Refusable = {}
    BY <1>7, SavedFacts
  <2>2. checkpoint \in Checkpoint /\ ToSet(checkpoint.unfetched) \cap Refusable = {}
    BY DEF SiteInv, SiteTypeOK, ResumeInv
  <2> QED  BY <1>3, <2>1, <2>2
<1>13. SiteTypeOK'
  <2>1. visited' \in SUBSET Urls
    BY <1>3, <1>5, <1>10
  <2> QED  BY <1>2, <1>3, <1>4, <1>10, <1>11, <1>12, <2>1 DEF SiteInv, SiteTypeOK
<1>14. RequestsInv'
  <2>1. \A u \in Urls : Waits(frontier', u) => u \in visited' /\ requests'[u] = Probes(u)
    <3>1. \A u \in ToSet(fresh) : u \in Urls /\ u \notin visited
      BY <1>10
    <3> QED  BY <1>3, <1>4, <1>11, <3>1
  <2>2. \A u \in Urls :
           requests'[u] = Probes(u) \/ (requests'[u] = 1 + Probes(u) /\ u \in visited' /\ u \notin Excluded)
    BY <1>3, <1>4
  <2> QED  BY <1>2, <1>4, <1>11, <2>1, <2>2 DEF RequestsInv, Excluded
<1>15. ResumeInv'
  <2>1. Unhindered' => Unhindered
    BY <1>3, <1>7, <1>10 DEF Unhindered, Grows
  <2>2. ASSUME Unhindered, NEW u \in ToSet(resumed.unfetched)
        PROVE  u \in Faceted \/ requests'[u] = 1 + Probes(u) \/ WaitsAtRoot(frontier', u)
    <3>1. u \in Faceted \/ requests[u] = 1 + Probes(u) \/ WaitsAtRoot(frontier, u)
      BY <1>4, <2>2 DEF SiteInv, ResumeInv
    <3>2. u \in Urls
      BY DEF SiteInv, SiteTypeOK, Checkpoint, ToSet
    <3> QED  BY <1>4, <1>11, <3>1, <3>2
  <2>3. ToSet(resumed.unfetched) \cap Refusable = {}
    BY DEF SiteInv, ResumeInv
  <2> QED  BY <1>2, <1>3, <1>4, <1>10, <1>12, <2>1, <2>2, <2>3 DEF ResumeInv
<1>16. ReportInv'
  <2>1. /\ Counted(graph') = Counted(graph) + 1 /\ Counted(graph) \in Nat
    BY <1>3, <1>5, <1>7, <1>10, CountedIsNat
  <2>2. Len(fresh) \in Nat /\ Cardinality(Seen(graph, visited)) \in Nat
    BY <1>5, <1>10, NothingSeenTwice
  <2>3. ASSUME ~graph'.confirmed, Holds(graph', Root)
        PROVE  Counted(graph') + Len(frontier') = Cardinality(Seen(graph', visited'))
    <3>1. Seen(graph', visited) = Seen(graph, visited)
      BY <1>3, <1>7, <1>10, <2>3
    <3>2. ~graph.confirmed /\ Holds(graph, Root)
      <4>1. ~graph.confirmed
        BY <1>3, <1>7, <1>10, <2>3 DEF Grows
      <4> QED  BY <1>5, <2>3, <3>1, <4>1 DEF Seen, Holds
    <3>3. Counted(graph) + Len(frontier) = Cardinality(Seen(graph, visited))
      BY <1>4, <3>2 DEF SiteInv, ReportInv
    <3>4. Cardinality(Seen(graph', visited')) = Cardinality(Seen(graph, visited)) + Len(fresh)
      BY <1>3, <1>7, <1>10, <2>3
    <3>5. Len(frontier') = (Len(frontier) - 1) + Len(fresh)
      BY <1>8, <1>11
    <3> QED  BY <1>8, <2>1, <2>2, <3>3, <3>4, <3>5
  <2>4. Explained(graph', visited') /\ Root \in visited'
    BY <1>3, <1>5, <1>10
  <2> QED  BY <1>4, <2>3, <2>4 DEF ReportInv
<1> QED  BY <1>13, <1>14, <1>15, <1>16 DEF SiteInv

-----------------------------------------------------------------------------
(* The theorems.                                                             *)

LEMMA NextStep == SiteInv /\ [SiteNext]_siteVars => SiteInv'
<1> SUFFICES ASSUME SiteInv, [SiteNext]_siteVars PROVE SiteInv'
  OBVIOUS
<1>1. CASE ReadSitemaps
  <2>1. PICK urls \in Listings : graph' = AddAll(graph, urls, "sitemap")
    BY <1>1 DEF ReadSitemaps
  <2>2. /\ phase \in {"sitemap", "cms"} /\ phase' \in Early
        /\ "sitemap" \in Sources /\ "sitemap" # "dom" /\ phase' # "sitemap"
        /\ UNCHANGED <<frontier, visited, seeds, resumed, checkpoint, resumes>>
    BY <1>1 DEF ReadSitemaps, Early, Sources
  <2>3. /\ requests \in [Urls -> Nat] /\ \A u \in Urls : requests[u] = 0
        /\ requests' = [requests EXCEPT ![Root] = @ + 1]
    BY <1>1 DEF ReadSitemaps, SiteInv, SiteTypeOK, RequestsInv
  <2>4. /\ requests' \in [Urls -> Nat] /\ \A u \in Urls : u # Root => requests'[u] = 0
        /\ Root \in Urls /\ requests'[Root] = 1
    BY <2>3, SiteAssumption
  <2>5. requests' \in [Urls -> Nat] /\ \A u \in Urls : requests'[u] = Probes(u)
    BY <2>4 DEF Probes
  <2> QED  BY <2>1, <2>2, <2>5, ListedStep
<1>2. CASE ReadCms
  <2>1. PICK urls \in Listings : graph' = AddAll(graph, urls, "cms")
    BY <1>2 DEF ReadCms
  <2>2. /\ phase \in {"sitemap", "cms"} /\ phase' \in Early
        /\ "cms" \in Sources /\ "cms" # "dom" /\ phase' # "sitemap"
        /\ UNCHANGED <<frontier, visited, requests, seeds, resumed, checkpoint, resumes>>
    BY <1>2 DEF ReadCms, Early, Sources
  <2>3. requests' \in [Urls -> Nat] /\ \A u \in Urls : requests'[u] = Probes(u)
    BY <1>2 DEF ReadCms, Early, SiteInv, SiteTypeOK, RequestsInv
  <2> QED  BY <2>1, <2>2, <2>3, ListedStep
<1>3. CASE StartCrawl
  BY <1>3, StartCrawlStep
<1>4. CASE QueueSeed
  BY <1>4, QueueSeedStep
<1>5. CASE SeedsQueued
  BY <1>5, SeedsQueuedStep
<1>6. CASE Skip
  BY <1>6, SkipStep
<1>7. CASE PageFails
  BY <1>7, PageFailsStep
<1>8. CASE PageLands
  BY <1>8, PageLandsStep
<1>9. CASE CrawlEnds
  BY <1>9, CrawlEndsStep
<1>10. CASE CrawlAborts
  BY <1>10, CrawlAbortsStep
<1>11. CASE Resume
  BY <1>11, ResumeStep
<1>12. CASE UNCHANGED siteVars
  <2>1. UNCHANGED <<graph, phase, frontier, visited, requests, seeds, resumed, checkpoint>>
    BY <1>12 DEF siteVars
  <2>2. SiteTypeOK'
    BY <2>1 DEF SiteInv, SiteTypeOK
  <2>3. RequestsInv'
    BY <2>1 DEF SiteInv, RequestsInv, Excluded
  <2>4. ResumeInv'
    BY <2>1 DEF SiteInv, ResumeInv, Unhindered
  <2>5. ReportInv'
    BY <2>1 DEF SiteInv, ReportInv
  <2> QED  BY <2>2, <2>3, <2>4, <2>5 DEF SiteInv
<1> QED
  BY <1>1, <1>2, <1>3, <1>4, <1>5, <1>6, <1>7, <1>8, <1>9, <1>10, <1>11, <1>12 DEF SiteNext

\* discover_site and resume_job keep one graph, one frontier and one set of visited addresses
\* that agree: what waits, what was requested, what is counted and what the graph explains.
THEOREM SiteInvariant == SiteSpec => []SiteInv
<1> QED  BY InitStep, NextStep, PTL DEF SiteSpec

\* _crawl_dom requests no page twice, whether the root, a seed or a link brought it, and a
\* resumed crawl requests none that the checkpoint had saved as fetched (exclude_urls); what
\* else is requested is the root, once a crawl, by _homepage_sitemap_links.
THEOREM PagesAreRequestedOnce == SiteSpec => []NoPageIsRequestedAgain
<1>1. SiteInv => NoPageIsRequestedAgain
  <2> SUFFICES ASSUME SiteInv, NEW u \in Urls
               PROVE  /\ requests[u] <= 1 + Probes(u)
                      /\ u \in resumed.held \ ToSet(resumed.unfetched) => requests[u] <= Probes(u)
    BY DEF NoPageIsRequestedAgain
  <2>1. \/ requests[u] = 0 \/ requests[u] = Probes(u)
        \/ requests[u] = 1 + Probes(u) /\ u \notin Excluded
    BY DEF SiteInv, RequestsInv
  <2>2. Probes(u) \in {0, 1}
    BY DEF Probes
  <2> QED  BY <2>1, <2>2 DEF Excluded
<1> QED  BY <1>1, SiteInvariant, PTL

\* resume_job's crawl requests all that the interrupted crawl had left, but for the filter
\* permutations, when add refused nothing for want of room and no loop was confirmed.
THEOREM ResumesReachWhatWasLeft == SiteSpec => []ResumeReachesWhatWasLeft
<1>1. SiteInv => ResumeReachesWhatWasLeft
  <2> SUFFICES ASSUME SiteInv, phase = "done", ~graph.refused, ~graph.confirmed,
                      NEW u \in ToSet(resumed.unfetched)
               PROVE  u \in Faceted \/ requests[u] = 1 + Probes(u)
    BY DEF ResumeReachesWhatWasLeft
  <2>1. u \in Faceted \/ requests[u] = 1 + Probes(u) \/ WaitsAtRoot(frontier, u)
    BY DEF SiteInv, ResumeInv, Unhindered
  <2>2. frontier = <<>>
    BY DEF SiteInv, ResumeInv
  <2>3. ~WaitsAtRoot(frontier, u)
    BY <2>2 DEF WaitsAtRoot
  <2> QED  BY <2>1, <2>3
<1> QED  BY <1>1, SiteInvariant, PTL

\* What the graph holds was linked, or listed by a sitemap, or by the CMS alone.
LEMMA SourcesPartition ==
    ASSUME NEW g \in Graph, NEW seen, Explained(g, seen), ~g.confirmed
    PROVE  TotalUrls(g) = Cardinality(Seen(g, seen)) + SitemapOnly(g) + CmsOnlyUnlinked(g)
<1> DEFINE N == ToSet(g.nodes)
           D == Seen(g, seen)
           M == {u \in N : "sitemap" \in g.source[u] /\ "dom" \notin g.source[u]}
           C == {u \in N : g.source[u] = {"cms"}}
<1>1. N \subseteq Urls /\ IsFiniteSet(N) /\ Cardinality(N) = Len(g.nodes)
  BY ElementsOfNodes DEF Explained
<1>2. IsFiniteSet(D) /\ IsFiniteSet(M) /\ IsFiniteSet(C)
  <2>1. D \subseteq N /\ M \subseteq N /\ C \subseteq N
    BY DEF Seen
  <2> HIDE DEF N, D, M, C
  <2> QED  BY <1>1, <2>1, FS_Subset
<1>3. \A u \in N : g.source[u] # {} /\ ("dom" \in g.source[u] <=> u \in seen)
  BY DEF Explained
<1>4. \A u \in N : g.source[u] \subseteq Sources
  BY <1>1, GraphFields
<1>5. D = {u \in N : "dom" \in g.source[u]}
  BY <1>3 DEF Seen
<1>6. D \cap M = {} /\ (D \cup M) \cap C = {}
  BY <1>5
<1>7. N = (D \cup M) \cup C
  <2>1. ASSUME NEW u \in N, "dom" \notin g.source[u], "sitemap" \notin g.source[u]
        PROVE  g.source[u] = {"cms"}
    <3>1. g.source[u] \subseteq {"cms"}
      BY <1>4, <2>1 DEF Sources
    <3> QED  BY <1>3, <3>1
  <2> QED  BY <1>5, <2>1
<1>8. TotalUrls(g) = Cardinality(N) /\ SitemapOnly(g) = Cardinality(M) /\ CmsOnlyUnlinked(g) = Cardinality(C)
  BY <1>1 DEF TotalUrls, SitemapOnly, CmsOnlyUnlinked
<1> HIDE DEF N, D, M, C
<1>9. Cardinality(D) \in Nat /\ Cardinality(M) \in Nat /\ Cardinality(C) \in Nat
  BY <1>2, FS_CardinalityType
<1>10. IsFiniteSet(D \cup M) /\ Cardinality(D \cup M) = Cardinality(D) + Cardinality(M)
  BY <1>2, <1>6, DisjointUnion
<1>11. Cardinality((D \cup M) \cup C) = Cardinality(D \cup M) + Cardinality(C)
  BY <1>2, <1>6, <1>10, DisjointUnion
<1>12. Cardinality(N) = Cardinality(D) + Cardinality(M) + Cardinality(C)
  BY <1>7, <1>10, <1>11
<1> QED  BY <1>8, <1>12 DEF D

\* SiteGraph's report explains each address that a finished crawl has discovered, once: it was
\* fetched, failed, skipped for one of three reasons, or only a sitemap or the CMS listed it.
THEOREM ReportsExplainEveryUrl == SiteSpec => []EveryUrlIsExplained
<1>1. SiteInv => EveryUrlIsExplained
  <2> SUFFICES ASSUME SiteInv, phase = "done", ~graph.confirmed, Holds(graph, Root)
               PROVE  Unaccounted(graph) = 0
    BY DEF EveryUrlIsExplained
  <2>1. graph \in Graph /\ frontier = <<>> /\ Explained(graph, visited)
    BY DEF SiteInv, SiteTypeOK, ResumeInv, ReportInv
  <2>2. Counted(graph) + Len(frontier) = Cardinality(Seen(graph, visited))
    BY DEF SiteInv, ReportInv
  <2>3. Len(frontier) = 0 /\ Counted(graph) \in Nat
    BY <2>1, CountedIsNat
  <2>4. TotalUrls(graph) = Counted(graph) + SitemapOnly(graph) + CmsOnlyUnlinked(graph)
    BY <2>1, <2>2, <2>3, SourcesPartition
  <2>5. /\ graph.pages_fetched \in Nat /\ graph.pages_not_retrieved \in Nat
        /\ graph.faceted_skipped \in Nat /\ graph.resume_excluded \in Nat
        /\ graph.depth_capped \in Nat
    BY <2>1, GraphFields
  <2>6. SitemapOnly(graph) \in Nat /\ CmsOnlyUnlinked(graph) \in Nat
    <3> DEFINE N == ToSet(graph.nodes)
               M == {u \in N : "sitemap" \in graph.source[u] /\ "dom" \notin graph.source[u]}
               C == {u \in N : graph.source[u] = {"cms"}}
    <3>1. IsFiniteSet(N) /\ M \subseteq N /\ C \subseteq N
      BY <2>1, ElementsOfNodes
    <3>2. SitemapOnly(graph) = Cardinality(M) /\ CmsOnlyUnlinked(graph) = Cardinality(C)
      BY DEF SitemapOnly, CmsOnlyUnlinked
    <3> HIDE DEF N, M, C
    <3> QED  BY <3>1, <3>2, FS_Subset, FS_CardinalityType
  <2> QED  BY <2>4, <2>5, <2>6 DEF Unaccounted, Counted
<1> QED  BY <1>1, SiteInvariant, PTL
=============================================================================
