--------------------------- MODULE Analysis_proofs ---------------------------
(***************************************************************************)
(* Theorems of Analysis for every window, parent window, model and mock,   *)
(* every calibration set and every setting: what the graph says of its     *)
(* window, what the report says of the claims, and what a verdict of the   *)
(* draft model is worth.                                                   *)
(***************************************************************************)
EXTENDS Analysis, FiniteSetTheorems, WellFoundedInduction, TLAPS

-----------------------------------------------------------------------------
(* The graph.                                                               *)

GraphType ==
  /\ win \in Seq(Kinds) /\ pos \in 0 .. Len(win)
  /\ nodes \in Seq(Vertex) /\ edges \in Seq(Edge)

GraphInv == GraphType /\ GraphFaithful

LEMMA KindType ==
  ASSUME NEW e \in Kinds
  PROVE  e.sc \in Calls /\ e.gap \in Int /\ e.res \in Resources /\ Node(e) \in Vertex
<1>1. Rtype(e.sc) \in {"EXEC", "FILE", "NET", "MEM", "SYS", "UNK"}
  BY DEF Rtype
<1>2. QED
  BY <1>1, GraphAssumption, AnalysisAssumption DEF Node, Vertex

LEMMA LinkType ==
  ASSUME GraphType, NEW k \in 2 .. Len(win)
  PROVE  /\ win[k] \in Kinds /\ Link(k) \in [src : Vertex, dst : Vertex, label : Calls]
         /\ Link(k).label = win[k].sc
         /\ NewEdge(k) \in Edge
<1>1. k \in 1 .. Len(win) /\ k - 1 \in 1 .. Len(win) /\ k \in Nat \ {0, 1}
  BY DEF GraphType
<1>2. win[k] \in Kinds /\ win[k - 1] \in Kinds
  BY <1>1 DEF GraphType
<1>3. Link(k) \in [src : Vertex, dst : Vertex, label : Calls]
  BY <1>2, KindType DEF Link
<1>4. NewEdge(k) \in Edge
  BY <1>1, <1>2, <1>3, KindType DEF NewEdge, Edge
<1>5. QED
  BY <1>2, <1>3, <1>4 DEF Link

LEMMA MergedType ==
  ASSUME NEW x \in Edge, NEW k, win[k].gap \in Int
  PROVE  LET m == Merged(x, k) IN
         /\ m \in Edge
         /\ m.link = x.link /\ m.count = x.count + 1 /\ m.first = x.first
         /\ m.res = x.res
         /\ m.min = Least(x.min, win[k].gap) /\ m.max = Greatest(x.max, win[k].gap)
<1> DEFINE a == Least(x.min, win[k].gap)
           b == Greatest(x.max, win[k].gap)
           c == x.count + 1
<1>1. a \in Int /\ b \in Int /\ c \in Nat \ {0}
  BY DEF Edge, Least, Greatest
<1>2. Merged(x, k) = [x EXCEPT !.min = a, !.max = b, !.count = c]
  BY DEF Merged, Edge
<1> HIDE DEF a, b, c
<1>3. Merged(x, k) \in Edge
  BY <1>1, <1>2 DEF Edge
<1>4. QED
  BY <1>2, <1>3 DEF Edge, a, b, c

\* What an edge says of the instances S of its transition.
Sums(w, x, S) ==
  /\ x.count = Cardinality(S)
  /\ \A k \in S : x.first <= k /\ x.min <= w[k].gap /\ w[k].gap <= x.max
  /\ x.first \in S /\ x.res = w[x.first].res
  /\ \E k \in S : w[k].gap = x.min
  /\ \E k \in S : w[k].gap = x.max

LEMMA FaithfulSums ==
  GraphFaithful <=>
    /\ \A k \in 2 .. pos : \E i \in DOMAIN edges : edges[i].link = Link(k)
    /\ \A i, j \in DOMAIN edges : edges[i].link = edges[j].link => i = j
    /\ \A i \in DOMAIN edges : Sums(win, edges[i], Instances(edges[i].link))
  BY DEF GraphFaithful, Sums

LEMMA InstancesFinite ==
  ASSUME GraphType, NEW l
  PROVE  /\ IsFiniteSet(Instances(l)) /\ Instances(l) \in SUBSET (2 .. pos)
<1>1. pos \in Int /\ IsFiniteSet(2 .. pos)
  BY FS_Interval DEF GraphType
<1>2. Instances(l) \in SUBSET (2 .. pos)
  BY DEF Instances
<1>3. QED
  BY <1>1, <1>2, FS_Subset

\* One more instance of a transition that has an edge.
LEMMA MergedSums ==
  ASSUME GraphType, NEW x \in Edge, NEW S \in SUBSET (2 .. pos), IsFiniteSet(S),
         Sums(win, x, S), NEW k \in 2 .. Len(win), k = pos + 1
  PROVE  Sums(win, Merged(x, k), S \cup {k})
<1>1. win[k].gap \in Int /\ pos \in Nat /\ k \in Nat
  BY LinkType, KindType DEF GraphType
<1> DEFINE m == Merged(x, k)
<1>2. /\ m.count = x.count + 1 /\ m.first = x.first /\ m.res = x.res
      /\ m.min = Least(x.min, win[k].gap) /\ m.max = Greatest(x.max, win[k].gap)
  BY <1>1, MergedType
<1> HIDE DEF m
<1>3. k \notin S /\ \A j \in S : j \in 2 .. Len(win) /\ j < k /\ j \in Nat
  BY <1>1 DEF GraphType
<1>4. \A j \in S : win[j].gap \in Int
  BY <1>3, LinkType, KindType
<1>5. m.count = Cardinality(S \cup {k})
  <2>1. Cardinality(S \cup {k}) = Cardinality(S) + 1
    BY <1>3, FS_AddElement
  <2>2. QED
    BY <1>2, <2>1 DEF Sums
<1>6. x.min \in Int /\ x.max \in Int /\ x.first \in S
  BY DEF Edge, Sums
<1>7. \A j \in S \cup {k} : m.first <= j /\ m.min <= win[j].gap /\ win[j].gap <= m.max
  <2>1. ASSUME NEW j \in S
        PROVE  m.first <= j /\ m.min <= win[j].gap /\ win[j].gap <= m.max
    <3>1. x.first <= j /\ x.min <= win[j].gap /\ win[j].gap <= x.max
      BY DEF Sums
    <3>2. win[j].gap \in Int
      BY <1>4
    <3>3. m.min <= x.min /\ x.max <= m.max /\ m.min \in Int /\ m.max \in Int
      BY <1>1, <1>2, <1>6 DEF Least, Greatest
    <3>4. QED
      BY <1>2, <1>6, <3>1, <3>2, <3>3
  <2>2. m.first <= k /\ m.min <= win[k].gap /\ win[k].gap <= m.max
    <3>1. x.first \in Nat /\ x.first < k
      BY <1>3, <1>6
    <3>2. m.first <= k
      BY <1>1, <1>2, <3>1
    <3>3. QED
      BY <1>1, <1>2, <1>6, <3>2 DEF Least, Greatest
  <2>3. QED
    BY <2>1, <2>2
<1>8. m.first \in S \cup {k} /\ m.res = win[m.first].res
  BY <1>2 DEF Sums
<1>9. \E j \in S \cup {k} : win[j].gap = m.min
  BY <1>1, <1>2, <1>6 DEF Sums, Least
<1>10. \E j \in S \cup {k} : win[j].gap = m.max
  BY <1>1, <1>2, <1>6 DEF Sums, Greatest
<1>11. QED
  BY <1>5, <1>7, <1>8, <1>9, <1>10 DEF Sums, m

LEMMA NewSums ==
  ASSUME GraphType, NEW k \in 2 .. Len(win)
  PROVE  Sums(win, NewEdge(k), {k})
<1>1. win[k].gap \in Int /\ k \in Nat
  BY LinkType, KindType DEF GraphType
<1>2. Cardinality({k}) = 1
  BY FS_Singleton
<1>3. QED
  BY <1>1, <1>2 DEF Sums, NewEdge

LEMMA JoinedFaithful ==
  ASSUME GraphInv, pos > 0, NEW k, k = pos + 1, k \in 2 .. Len(win),
         edges' = Joined(k), win' = win, pos' = k
  PROVE  edges' \in Seq(Edge) /\ GraphFaithful'
<1> USE DEF GraphInv
<1>1. /\ pos \in Nat /\ k \in Nat /\ edges \in Seq(Edge) /\ Len(edges) \in Nat
      /\ 2 .. k = (2 .. pos) \cup {k} /\ k \notin 2 .. pos
      /\ DOMAIN edges = 1 .. Len(edges)
  BY DEF GraphType
<1>5. \A i \in DOMAIN edges : edges[i] \in Edge
  BY <1>1
<1>6. /\ \A j \in 2 .. pos : \E i \in DOMAIN edges : edges[i].link = Link(j)
      /\ \A i, j \in DOMAIN edges : edges[i].link = edges[j].link => i = j
      /\ \A i \in DOMAIN edges : Sums(win, edges[i], Instances(edges[i].link))
  BY FaithfulSums
<1>7. GraphFaithful' <=>
        /\ \A j \in 2 .. k : \E i \in DOMAIN edges' : edges'[i].link = Link(j)
        /\ \A i, j \in DOMAIN edges' : edges'[i].link = edges'[j].link => i = j
        /\ \A i \in DOMAIN edges' :
             Sums(win, edges'[i], {j \in 2 .. k : Link(j) = edges'[i].link})
  BY DEF GraphFaithful, Sums, Instances, Link, Node
<1> DEFINE Now(l) == {j \in 2 .. k : Link(j) = l}
<1>8. \A l : Now(l) = IF Link(k) = l THEN Instances(l) \cup {k} ELSE Instances(l)
  BY <1>1 DEF Instances
<1> HIDE DEF Now
<1>9. CASE \E i \in DOMAIN edges : edges[i].link = Link(k)
  <2>1. /\ DOMAIN edges' = DOMAIN edges
        /\ \A i \in DOMAIN edges :
             edges'[i] = IF edges[i].link = Link(k) THEN Merged(edges[i], k) ELSE edges[i]
    BY <1>9 DEF Joined
  <2>2. ASSUME NEW i \in DOMAIN edges
        PROVE  /\ edges'[i] \in Edge /\ edges'[i].link = edges[i].link
               /\ Sums(win, edges'[i], Now(edges'[i].link))
    <3>1. win[k].gap \in Int
      BY LinkType, KindType
    <3>2. /\ Merged(edges[i], k) \in Edge
          /\ Merged(edges[i], k).link = edges[i].link
      BY <1>5, <3>1, MergedType
    <3>3. CASE edges[i].link = Link(k)
      <4>1. Sums(win, Merged(edges[i], k), Instances(Link(k)) \cup {k})
        BY <1>5, <1>6, <3>3, InstancesFinite, MergedSums
      <4>2. Now(edges[i].link) = Instances(Link(k)) \cup {k}
        BY <1>8, <3>3
      <4>3. edges'[i] = Merged(edges[i], k)
        BY <2>1, <3>3
      <4>4. QED
        BY <3>2, <4>1, <4>2, <4>3
    <3>4. CASE edges[i].link # Link(k)
      BY <1>5, <1>6, <1>8, <2>1, <3>4
    <3>5. QED
      BY <3>3, <3>4
  <2>3. edges' \in Seq(Edge)
    <3>1. edges' = [i \in 1 .. Len(edges) |-> IF edges[i].link = Link(k)
                                             THEN Merged(edges[i], k) ELSE edges[i]]
      BY <1>1, <1>9 DEF Joined
    <3>2. \A i \in 1 .. Len(edges) : edges'[i] \in Edge
      BY <1>1, <2>2
    <3>3. QED
      BY <1>1, <3>1, <3>2
  <2>4. \A j \in 2 .. k : \E i \in DOMAIN edges : edges[i].link = Link(j)
    BY <1>1, <1>6, <1>9
  <2>5. \A j \in 2 .. k : \E i \in DOMAIN edges' : edges'[i].link = Link(j)
    BY <2>1, <2>2, <2>4
  <2>6. \A i, j \in DOMAIN edges' : edges'[i].link = edges'[j].link => i = j
    BY <1>6, <2>1, <2>2
  <2>7. \A i \in DOMAIN edges' : Sums(win, edges'[i], Now(edges'[i].link))
    BY <2>1, <2>2
  <2>8. QED
    BY <1>7, <2>3, <2>5, <2>6, <2>7 DEF Now
<1>10. CASE ~ \E i \in DOMAIN edges : edges[i].link = Link(k)
  <2> DEFINE e == NewEdge(k)
             m == Len(edges) + 1
  <2>1. e \in Edge /\ e.link = Link(k) /\ Sums(win, e, {k})
    BY LinkType, NewSums DEF NewEdge
  <2> HIDE DEF e
  <2>2. /\ edges' = Append(edges, e) /\ edges' \in Seq(Edge)
        /\ DOMAIN edges' = (DOMAIN edges) \cup {m} /\ m \notin DOMAIN edges
        /\ edges'[m] = e /\ \A i \in DOMAIN edges : edges'[i] = edges[i]
    BY <1>1, <1>10, <2>1 DEF Joined, e
  <2>3. Instances(Link(k)) = {}
    BY <1>6, <1>10 DEF Instances
  <2>4. Sums(win, edges'[m], Now(edges'[m].link))
    BY <1>8, <2>1, <2>2, <2>3
  <2>5. \A i \in DOMAIN edges : Sums(win, edges'[i], Now(edges'[i].link))
    BY <1>6, <1>8, <1>10, <2>2
  <2>6. \A j \in 2 .. k : \E i \in DOMAIN edges' : edges'[i].link = Link(j)
    BY <1>1, <1>6, <2>1, <2>2
  <2>7. \A i, j \in DOMAIN edges' : edges'[i].link = edges'[j].link => i = j
    BY <1>6, <1>10, <2>1, <2>2
  <2>8. QED
    BY <1>7, <2>2, <2>4, <2>5, <2>6, <2>7 DEF Now
<1>11. QED
  BY <1>9, <1>10

LEMMA InsertGraph ==
  ASSUME GraphInv, Insert
  PROVE  GraphInv'
<1> DEFINE k == pos + 1
           n == Node(win[k])
<1>1. /\ win \in Seq(Kinds) /\ pos \in Nat /\ pos < Len(win) /\ Len(win) \in Nat
      /\ win' = win /\ pos' = k /\ k \in 1 .. Len(win) /\ nodes \in Seq(Vertex)
  BY DEF GraphInv, GraphType, Insert
<1>2. win[k] \in Kinds
  BY <1>1
<1>3. n \in Vertex
  BY <1>2, KindType
<1> HIDE DEF n
<1>4. nodes' = nodes \/ nodes' = Append(nodes, n)
  BY DEF Insert, n
<1>5. nodes' \in Seq(Vertex)
  BY <1>1, <1>3, <1>4
<1>6. CASE pos = 0
  <2>1. DOMAIN edges = {}
    <3>1. 2 .. pos = {}
      BY <1>6
    <3>2. \A l : Instances(l) = {}
      BY <3>1 DEF Instances
    <3>3. QED
      BY <3>2 DEF GraphInv, GraphFaithful
  <2>2. edges' = edges /\ k = 1 /\ 2 .. k = {}
    BY <1>6 DEF Insert
  <2>3. GraphFaithful'
    BY <1>1, <2>1, <2>2 DEF GraphFaithful
  <2>4. QED
    BY <1>1, <1>5, <2>2, <2>3 DEF GraphInv, GraphType
<1>7. CASE pos # 0
  <2>1. edges' = Joined(k) /\ k \in 2 .. Len(win) /\ pos > 0
    BY <1>1, <1>7 DEF Insert
  <2>2. edges' \in Seq(Edge) /\ GraphFaithful'
    BY <1>1, <2>1, JoinedFaithful
  <2>3. QED
    BY <1>1, <1>5, <2>2 DEF GraphInv, GraphType
<1>8. QED
  BY <1>6, <1>7

-----------------------------------------------------------------------------
(* Calibration.                                                             *)

Calibrator == [fitted : BOOLEAN, qhat : 0 .. 100, scores : Seq(0 .. 100)]

\* A fitted calibrator holds the order statistic of its last set.
CalInv ==
  /\ cal \in Calibrator
  /\ cal.fitted => /\ Len(cal.scores) >= MinSamples
                   /\ cal.qhat = cal.scores[Rank(Len(cal.scores))]
                   /\ Sorted(cal.scores)

LEMMA RankBound ==
  ASSUME NEW n \in Nat \ {0}
  PROVE  /\ Rank(n) \in 1 .. n
         /\ Rank(n) = n \/ 100 * (n + 1 - Rank(n)) <= Alpha * (n + 1)
<1> DEFINE x == (n + 1) * (100 - Alpha)
           k == -((-x) \div 100)
<1>1. Alpha \in 1 .. 99 /\ 100 - Alpha \in Nat \ {0}
  BY CalibrationAssumption
<1>2. x \in Nat \ {0} /\ Alpha * (n + 1) = 100 * (n + 1) - x
  BY <1>1
<1> HIDE DEF x
<1>3. k \in Nat \ {0} /\ 100 * k >= x
  BY <1>2
<1>4. Rank(n) = IF k < n THEN k ELSE n
  BY DEF Rank, x
<1> HIDE DEF k
<1>5. Alpha * (n + 1) \in Int /\ n + 1 \in Nat
  BY <1>1
<1>6. 100 * (n + 1 - k) <= Alpha * (n + 1)
  BY <1>2, <1>3, <1>5
<1>7. QED
  BY <1>3, <1>4, <1>6

LEMMA Entries ==
  ASSUME NEW S, NEW q \in Seq(S)
  PROVE  /\ Len(q) \in Nat /\ DOMAIN q = 1 .. Len(q)
         /\ q \in [1 .. Len(q) -> S]
         /\ \A i \in 1 .. Len(q) : q[i] \in S
  OBVIOUS

LEMMA Wider ==
  ASSUME NEW S, NEW T, S \subseteq T, NEW q \in Seq(S)
  PROVE  q \in Seq(T)
<1>1. Len(q) \in Nat /\ q \in [1 .. Len(q) -> S]
  BY Entries
<1>2. q \in [1 .. Len(q) -> T]
  BY <1>1
<1>3. QED
  BY <1>1, <1>2

LEMMA FitInv ==
  ASSUME CalInv, NEW s \in Samples, cal' = Fit(cal, s)
  PROVE  CalInv'
<1>1. s \in Seq(0 .. 100) /\ Sorted(s) /\ MinSamples \in Nat \ {0}
  BY AnalysisAssumption, CalibrationAssumption
<1>2. CASE Len(s) < MinSamples
  BY <1>1, <1>2 DEF CalInv, Calibrator, Fit
<1>3. CASE ~(Len(s) < MinSamples)
  <2>1. Len(s) \in Nat \ {0}
    BY <1>1, <1>3
  <2>2. s[Rank(Len(s))] \in 0 .. 100
    <3>1. Rank(Len(s)) \in 1 .. Len(s)
      BY <2>1, RankBound
    <3>2. QED
      BY <1>1, <3>1, Entries
  <2>3. cal' = [fitted |-> TRUE, qhat |-> s[Rank(Len(s))], scores |-> s]
    BY <1>3 DEF Fit
  <2>4. QED
    BY <1>1, <1>3, <2>1, <2>2, <2>3 DEF CalInv, Calibrator
<1>4. QED
  BY <1>2, <1>3

LEMMA OrderStatistic ==
  ASSUME NEW n \in Nat, NEW q \in [1 .. n -> Int], NEW k \in 1 .. n, NEW c \in Int,
         c > q[k], \A i, j \in 1 .. n : i < j => q[i] <= q[j]
  PROVE  Cardinality({i \in 1 .. n : q[i] >= c}) \in 0 .. n - k
<1> DEFINE S == {i \in 1 .. n : q[i] >= c}
           T == (k + 1) .. n
<1>1. ASSUME NEW i \in S PROVE i \in T
  <2>1. i \in 1 .. n /\ q[i] >= c /\ q[i] \in Int /\ q[k] \in Int
    OBVIOUS
  <2>2. ~(i < k) /\ i # k
    BY <2>1
  <2>3. QED
    BY <2>1, <2>2
<1>2. k + 1 \in Int /\ n \in Int
  OBVIOUS
<1>3. IsFiniteSet(T) /\ Cardinality(T) = IF k + 1 > n THEN 0 ELSE n - (k + 1) + 1
  BY <1>2, FS_Interval
<1>4. S \in SUBSET T
  BY <1>1
<1>5. IsFiniteSet(S) /\ Cardinality(S) <= Cardinality(T)
  BY <1>3, <1>4, FS_Subset
<1>6. Cardinality(S) \in Nat
  BY <1>5, FS_CardinalityType
<1> HIDE DEF S, T
<1>7. Cardinality(S) \in 0 .. n - k
  BY <1>2, <1>3, <1>5, <1>6
<1>8. QED
  BY <1>7 DEF S

\* How many of the last set's attacks reach a confidence above the quantile.
LEMMA AboveBound ==
  ASSUME CalInv, NEW c \in 0 .. 100, Above(cal, c)
  PROVE  LET n == Len(cal.scores)
             m == Cardinality({i \in 1 .. n : cal.scores[i] >= c}) IN
         /\ n >= MinSamples
         /\ m = 0 \/ 100 * (m + 1) <= Alpha * (n + 1)
<1> DEFINE n == Len(cal.scores)
           m == Cardinality({i \in 1 .. n : cal.scores[i] >= c})
           k == Rank(n)
           q == cal.scores
<1>1. /\ cal.fitted /\ c > cal.qhat /\ q \in Seq(0 .. 100) /\ Sorted(q)
      /\ n >= MinSamples /\ cal.qhat = q[k]
  BY DEF CalInv, Calibrator, Above
<1>2. n \in Nat \ {0}
  BY <1>1, CalibrationAssumption
<1>3. k \in 1 .. n /\ (k = n \/ 100 * (n + 1 - k) <= Alpha * (n + 1))
  BY <1>2, RankBound
<1> HIDE DEF k, q
<1>4. q \in [1 .. n -> Int] /\ \A i, j \in 1 .. n : i < j => q[i] <= q[j]
  <2>1. q \in [1 .. n -> 0 .. 100] /\ DOMAIN q = 1 .. n
    BY <1>1, Entries DEF q
  <2> DEFINE R == 0 .. 100
  <2>2. q \in [1 .. n -> R]
    BY <2>1 DEF R
  <2>3. R \subseteq Int
    OBVIOUS
  <2> HIDE DEF R, n
  <2>4. q \in [1 .. n -> Int]
    BY <2>2, <2>3
  <2>5. QED
    BY <1>1, <2>1, <2>4 DEF Sorted, n
<1>5. m \in 0 .. n - k
  <2> HIDE DEF n
  <2>1. c \in Int /\ n \in Nat /\ c > q[k]
    BY <1>1, <1>2
  <2>2. Cardinality({i \in 1 .. n : q[i] >= c}) \in 0 .. n - k
    BY <1>3, <1>4, <2>1, OrderStatistic
  <2>3. QED
    BY <2>2 DEF q
<1> HIDE DEF m, n
<1>6. m = 0 \/ 100 * (m + 1) <= Alpha * (n + 1)
  <2>1. Alpha * (n + 1) \in Int
    BY <1>2, CalibrationAssumption
  <2>2. m <= n - k /\ m \in Nat /\ n \in Nat /\ k \in Nat
    BY <1>2, <1>3, <1>5
  <2>3. QED
    BY <1>3, <2>1, <2>2
<1>7. QED
  BY <1>1, <1>6 DEF m, n, q

-----------------------------------------------------------------------------
(* Evidence.                                                                *)

LEMMA FirstExists ==
  ASSUME NEW S, S \subseteq Nat, S # {}
  PROVE  FirstOf(S) \in S
<1> DEFINE R == OpToRel(<, Nat)
<1>1. \E x \in S : \A y \in S : ~ (<<y, x>> \in R)
  BY NatLessThanWellFounded, WFMin
<1>2. \A x, y \in Nat : <<y, x>> \in R <=> y < x
  BY DEF OpToRel
<1> HIDE DEF R
<1>3. \E x \in S : \A y \in S : x <= y
  <2>1. PICK x \in S : \A y \in S : ~ (<<y, x>> \in R)
    BY <1>1
  <2>2. ASSUME NEW y \in S PROVE x <= y
    <3>1. x \in Nat /\ y \in Nat /\ ~ (<<y, x>> \in R)
      BY <2>1
    <3>2. ~(y < x)
      BY <1>2, <3>1
    <3>3. QED
      BY <3>1, <3>2
  <2>3. QED
    BY <2>2
<1>4. QED
  BY <1>3 DEF FirstOf

LEMMA MatchSound ==
  ASSUME NEW c \in Claim, NEW evs \in Seq(Kinds)
  PROVE  LET m == MatchOf(c, evs) IN
         /\ m \in 0 .. Len(evs)
         /\ m # 0 => Exact(c, evs[m]) \/ Loose(c, evs[m])
         /\ m = 0 <=> \A i \in DOMAIN evs : ~Exact(c, evs[i]) /\ ~Loose(c, evs[i])
<1> DEFINE A == {i \in DOMAIN evs : Exact(c, evs[i])}
           B == {i \in DOMAIN evs : Loose(c, evs[i])}
<1>1. DOMAIN evs = 1 .. Len(evs) /\ Len(evs) \in Nat
  OBVIOUS
<1>2. A \subseteq Nat /\ B \subseteq Nat
  BY <1>1
<1>3. MatchOf(c, evs) = IF A # {} THEN FirstOf(A) ELSE IF B # {} THEN FirstOf(B) ELSE 0
  BY DEF MatchOf
<1>4. (A # {} => FirstOf(A) \in A) /\ (B # {} => FirstOf(B) \in B)
  BY <1>2, FirstExists
<1>5. QED
  BY <1>1, <1>3, <1>4

LEMMA MatchesType ==
  ASSUME NEW claims \in Seq(Claim), NEW evs \in Seq(Kinds)
  PROVE  /\ Matches(claims, evs) \in Seq(0 .. Len(evs))
         /\ Len(Matches(claims, evs)) = Len(claims)
         /\ \A i \in 1 .. Len(claims) : Matches(claims, evs)[i] = MatchOf(claims[i], evs)
<1>1. \A i \in 1 .. Len(claims) : MatchOf(claims[i], evs) \in 0 .. Len(evs)
  BY MatchSound
<1> DEFINE R == 0 .. Len(evs)
<1>2. Len(claims) \in Nat /\ DOMAIN claims = 1 .. Len(claims)
  OBVIOUS
<1>3. Matches(claims, evs) = [i \in 1 .. Len(claims) |-> MatchOf(claims[i], evs)]
  BY <1>2 DEF Matches
<1>4. \A i \in 1 .. Len(claims) : MatchOf(claims[i], evs) \in R
  BY <1>1
<1> HIDE DEF R
<1>5. Matches(claims, evs) \in Seq(R)
  BY <1>2, <1>3, <1>4
<1>6. Len(Matches(claims, evs)) = Len(claims)
  BY <1>2, <1>3
<1>7. QED
  BY <1>3, <1>5, <1>6 DEF R

\* The loop that grounds claims again finds nothing new: the second pass of the
\* verification has looked for the same.
LEMMA NothingRegrounded ==
  ASSUME NEW claims \in Seq(Claim), NEW evs \in Seq(Kinds)
  PROVE  /\ Regrounded(claims, Matches(claims, evs), evs) = {}
         /\ Remarked(claims, Matches(claims, evs), evs) = Matches(claims, evs)
<1> DEFINE m == Matches(claims, evs)
<1>1. DOMAIN claims = 1 .. Len(claims) /\ \A i \in 1 .. Len(claims) : claims[i] \in Claim
  OBVIOUS
<1>2. \A i \in DOMAIN claims : m[i] = MatchOf(claims[i], evs)
  BY DEF Matches
<1>3. ASSUME NEW i \in DOMAIN claims, m[i] = 0, NEW k \in DOMAIN evs, Loose(claims[i], evs[k])
      PROVE  FALSE
  BY <1>1, <1>2, <1>3, MatchSound
<1>4. Regrounded(claims, m, evs) = {}
  BY <1>3 DEF Regrounded
<1>5. Remarked(claims, m, evs) = m
  <2>1. m = [i \in DOMAIN claims |-> m[i]]
    BY DEF Matches
  <2>2. Remarked(claims, m, evs) = [i \in DOMAIN claims |-> m[i]]
    BY <1>4 DEF Remarked
  <2>3. QED
    BY <2>1, <2>2
<1>6. QED
  BY <1>4, <1>5

LEMMA BackedBound ==
  ASSUME NEW m \in Seq(Nat)
  PROVE  Cardinality(Backed(m)) \in 0 .. Len(m)
<1> DEFINE k == Len(m)
<1>1. k \in Nat /\ Backed(m) \in SUBSET (1 .. k)
  BY DEF Backed
<1> HIDE DEF k
<1>2. IsFiniteSet(1 .. k) /\ Cardinality(1 .. k) = k
  <2>1. 1 \in Int /\ k \in Int
    BY <1>1
  <2>2. IsFiniteSet(1 .. k) /\ Cardinality(1 .. k) = IF 1 > k THEN 0 ELSE k - 1 + 1
    BY <2>1, FS_Interval
  <2>3. QED
    BY <1>1, <2>2
<1>3. Cardinality(Backed(m)) <= k /\ IsFiniteSet(Backed(m))
  BY <1>1, <1>2, FS_Subset
<1>4. Cardinality(Backed(m)) \in Nat
  BY <1>3, FS_CardinalityType
<1>5. QED
  BY <1>1, <1>3, <1>4 DEF k

-----------------------------------------------------------------------------
(* The signal on its way.                                                   *)

Decisions == [by : {"none", "graph", "draft", "full"}, mock : BOOLEAN,
              label : Labels, conf : 0 .. 100, claims : Seq(Claim), readable : BOOLEAN]

Early == {"idle", "build", "draft", "full"}
Late  == {"ground", "synthesize", "done"}

FlowType ==
  /\ conformal \in BOOLEAN /\ allowMock \in BOOLEAN /\ calm \in BOOLEAN
  /\ stage \in Stages /\ own \in Seq(Kinds)
  /\ tries \in 0 .. Retries - 1 /\ rounds \in 0 .. MaxIter
  /\ decision \in Decisions

\* nothing has been built before a signal comes
Untouched == stage = "idle" => pos = 0 /\ nodes = <<>> /\ edges = <<>>

\* the report is that of the claims, and the grounding loop leaves it so
Reported ==
  IF stage \in Late
  THEN marks = Matches(decision.claims, own) /\ counted = Cardinality(Backed(marks))
  ELSE marks = <<>> /\ counted = 0

\* a draft's verdict was accepted by the calibrator that is still there
Drafted ==
  /\ stage \in Early => decision.by = "none"
  /\ decision.by = "draft" =>
       /\ decision.label = "BENIGN"
       /\ ~conformal /\ DraftThreshold > 8 => ~decision.mock
       /\ conformal => Above(cal, decision.conf)

AnalysisInv ==
  GraphInv /\ CalInv /\ FlowType /\ Untouched /\ Reported /\ Drafted

LEMMA VerdictType ==
  ASSUME NEW by \in {"none", "graph", "draft", "full"}, NEW mock \in BOOLEAN,
         NEW d \in Answer
  PROVE  Verdict(by, mock, d) \in Decisions
  BY DEF Verdict, Decisions, Answer

LEMMA AnalysisInit == Init => AnalysisInv
<1> SUFFICES ASSUME Init PROVE AnalysisInv
  OBVIOUS
<1>1. GraphInv
  <2>1. /\ <<>> \in Seq(Kinds) /\ <<>> \in Seq(Vertex) /\ <<>> \in Seq(Edge)
        /\ 0 \in 0 .. Len(<<>>) /\ 2 .. 0 = {} /\ DOMAIN <<>> = {}
    OBVIOUS
  <2>2. QED
    BY <2>1 DEF Init, GraphInv, GraphType, GraphFaithful
<1>2. CalInv
  <2>1. <<>> \in Seq(0 .. 100)
    OBVIOUS
  <2>2. QED
    BY <2>1 DEF Init, CalInv, Calibrator, Unfitted
<1>3. FlowType
  <2>1. <<>> \in Seq(Claim) /\ <<>> \in Seq(Kinds)
    OBVIOUS
  <2>2. Unclaimed("BENIGN", 0) \in Answer
    BY <2>1 DEF Answer, Labels, Unclaimed
  <2>3. NoDecision \in Decisions
    BY <2>2, VerdictType DEF NoDecision
  <2>4. 0 \in 0 .. Retries - 1 /\ 0 \in 0 .. MaxIter
    BY AnalysisAssumption
  <2>5. QED
    BY <2>1, <2>3, <2>4 DEF Init, FlowType, Stages
<1>4. Untouched /\ Reported /\ Drafted
  BY DEF Init, Untouched, Reported, Drafted, Late, Early, NoDecision, Verdict
<1>5. QED
  BY <1>1, <1>2, <1>3, <1>4 DEF AnalysisInv

LEMMA GraphKept ==
  ASSUME GraphInv, UNCHANGED graphVars
  PROVE  GraphInv'
<1>1. win' = win /\ pos' = pos /\ nodes' = nodes /\ edges' = edges
  BY DEF graphVars
<1>2. GraphType'
  BY <1>1 DEF GraphInv, GraphType
<1>3. GraphFaithful' <=>
        /\ \A j \in 2 .. pos : \E i \in DOMAIN edges' : edges'[i].link = Link(j)
        /\ \A i, j \in DOMAIN edges' : edges'[i].link = edges'[j].link => i = j
        /\ \A i \in DOMAIN edges' :
             Sums(win, edges'[i], {j \in 2 .. pos : Link(j) = edges'[i].link})
  BY <1>1 DEF GraphFaithful, Sums, Instances, Link, Node
<1>4. GraphFaithful'
  <2>1. \A l : Instances(l) = {j \in 2 .. pos : Link(j) = l}
    BY DEF Instances
  <2>2. GraphFaithful
    BY DEF GraphInv
  <2>3. QED
    BY <1>1, <1>3, <2>1, <2>2, FaithfulSums
<1>5. QED
  BY <1>2, <1>4 DEF GraphInv

LEMMA CalibrateInv ==
  ASSUME AnalysisInv, NEW s \in Samples, Calibrate(s)
  PROVE  AnalysisInv'
<1>1. CalInv'
  BY FitInv DEF AnalysisInv, Calibrate
<1>2. decision.by # "draft"
  BY DEF AnalysisInv, Drafted, Calibrate, Early
<1>3. UNCHANGED <<graphVars, configVars, own, calm, stage, verdictVars, claimVars>>
  BY DEF Calibrate
<1>4. GraphInv' /\ (FlowType /\ Untouched /\ Reported)'
  <2>1. GraphInv'
    BY <1>3, GraphKept DEF AnalysisInv
  <2>2. FlowType' /\ Untouched'
    BY <1>3 DEF AnalysisInv, FlowType, Untouched, graphVars, configVars, verdictVars,
                claimVars
  <2>3. Reported'
    BY <1>3 DEF AnalysisInv, Reported, verdictVars, claimVars
  <2>4. QED
    BY <2>1, <2>2, <2>3
<1>5. Drafted'
  BY <1>2, <1>3 DEF AnalysisInv, Drafted, verdictVars
<1>6. QED
  BY <1>1, <1>4, <1>5 DEF AnalysisInv

LEMMA ReceiveInv ==
  ASSUME AnalysisInv, NEW w \in Windows, NEW p \in ParentWindows, NEW low \in BOOLEAN,
         Receive(w, p, low)
  PROVE  AnalysisInv'
<1>1. w \in Seq(Kinds) /\ p \in Seq(Kinds) /\ MaxParent \in Nat
  BY AnalysisAssumption
<1>2. LastOf(p, MaxParent) \in Seq(Kinds)
  BY <1>1 DEF LastOf
<1>3. /\ win' = LastOf(p, MaxParent) \o w /\ own' = w /\ stage = "idle" /\ stage' = "build"
      /\ calm' = low
      /\ UNCHANGED <<pos, nodes, edges, configVars, cal, verdictVars, claimVars>>
  BY DEF Receive
<1>4. win' \in Seq(Kinds) /\ Len(win') \in Nat
  BY <1>1, <1>2, <1>3
<1>5. pos = 0 /\ edges = <<>> /\ nodes = <<>>
  BY <1>3 DEF AnalysisInv, Untouched
<1>6. GraphInv'
  <2>1. 0 \in 0 .. Len(win') /\ 2 .. 0 = {} /\ DOMAIN <<>> = {}
    BY <1>4
  <2>2. QED
    BY <1>3, <1>4, <1>5, <2>1 DEF AnalysisInv, GraphInv, GraphType, GraphFaithful
<1>7. CalInv' /\ FlowType' /\ Untouched'
  BY <1>1, <1>3 DEF AnalysisInv, CalInv, FlowType, Untouched, Stages, configVars,
                    verdictVars, claimVars
<1>8. Reported' /\ Drafted'
  BY <1>3 DEF AnalysisInv, Reported, Drafted, Late, Early, configVars, verdictVars,
              claimVars
<1>9. QED
  BY <1>6, <1>7, <1>8 DEF AnalysisInv

LEMMA BuildInv ==
  ASSUME AnalysisInv, Build
  PROVE  AnalysisInv'
<1>1. GraphInv'
  BY InsertGraph DEF AnalysisInv, Build
<1>2. stage = "build" /\ UNCHANGED <<configVars, cal, own, calm, stage, verdictVars, claimVars>>
  BY DEF Build
<1>3. CalInv' /\ FlowType' /\ Untouched'
  BY <1>2 DEF AnalysisInv, CalInv, FlowType, Untouched, configVars, verdictVars, claimVars
<1>4. Reported' /\ Drafted'
  BY <1>2 DEF AnalysisInv, Reported, Drafted, Late, Early, configVars, verdictVars,
              claimVars
<1>5. QED
  BY <1>1, <1>3, <1>4 DEF AnalysisInv

LEMMA ScoreRange ==
  ASSUME GraphInv
  PROVE  Score(Meta) \in 0 .. 100
<1> DEFINE m == Meta
           S == {i \in Labelled("openat(R)") : edges[i].res \in Sensitive}
           n == Len(edges)
<1>1. n \in Nat /\ S \in SUBSET (1 .. n)
  BY DEF GraphInv, GraphType, Labelled
<1> HIDE DEF n
<1>2. IsFiniteSet(1 .. n)
  <2>1. 1 \in Int /\ n \in Int
    BY <1>1
  <2>2. QED
    BY <2>1, FS_Interval
<1>3. Cardinality(S) \in Nat
  BY <1>1, <1>2, FS_Subset, FS_CardinalityType
<1>4. m.reads = Cardinality(S)
  BY DEF Meta
<1> HIDE DEF m, S
<1>5. m.reads \in Nat
  BY <1>3, <1>4
<1>6. \A shown, k : k \in Nat => Points(shown, k) \in Nat
  BY DEF Points
<1>7. Least(20 * m.reads, 45) \in Nat
  BY <1>5 DEF Least
<1> DEFINE sum == Points(m.tmpExec, 75) + Points(m.outbound, 80) + Least(20 * m.reads, 45)
                  + Points(m.execAfterNet, 30) + Points(m.unusual, 15)
<1>8. sum \in Nat
  BY <1>6, <1>7
<1>9. Score(m) = Least(100, sum)
  BY DEF Score
<1> HIDE DEF sum
<1>10. QED
  BY <1>8, <1>9 DEF Least, m

\* What a step keeps that looks at the classifier's answers only.
LEMMA VerdictStep ==
  ASSUME AnalysisInv, stage \in {"build", "draft", "full"}, stage' \in Stages,
         stage' \in {"draft", "full", "verify", "failed"},
         UNCHANGED <<graphVars, configVars, cal, own, calm, claimVars>>,
         tries' \in 0 .. Retries - 1,
         \/ decision' = decision
         \/ decision' \in Decisions /\ decision'.by # "none" /\ stage' = "verify",
         decision'.by = "draft" =>
           /\ decision'.label = "BENIGN"
           /\ ~conformal /\ DraftThreshold > 8 => ~decision'.mock
           /\ conformal => Above(cal, decision'.conf)
  PROVE  AnalysisInv'
<1>1. GraphInv'
  BY GraphKept DEF AnalysisInv
<1>2. CalInv'
  BY DEF AnalysisInv, CalInv
<1>3. decision' \in Decisions
  BY DEF AnalysisInv, FlowType
<1>4. FlowType' /\ Untouched'
  BY <1>3 DEF AnalysisInv, FlowType, Untouched, configVars, claimVars
<1>5. Reported'
  BY DEF AnalysisInv, Reported, Late, claimVars
<1>6. Drafted'
  BY DEF AnalysisInv, Drafted, Early, configVars
<1>7. QED
  BY <1>1, <1>2, <1>4, <1>5, <1>6 DEF AnalysisInv

LEMMA JudgeInv ==
  ASSUME AnalysisInv, Judge
  PROVE  AnalysisInv'
<1> DEFINE score == Score(Meta)
<1>1. score \in 0 .. 100
  BY ScoreRange DEF AnalysisInv
<1>2. /\ stage = "build" /\ tries' = tries
      /\ UNCHANGED <<graphVars, configVars, cal, own, calm, claimVars>>
      /\ \/ score >= 55 /\ Judged("MALICIOUS", score)
         \/ score <= 15 /\ Judged("BENIGN", 100 - score)
         \/ stage' = (IF calm THEN "draft" ELSE "full") /\ decision' = decision
  BY DEF Judge
<1> HIDE DEF score
<1>3. tries' \in 0 .. Retries - 1 /\ decision.by = "none"
  BY <1>2 DEF AnalysisInv, FlowType, Drafted, Early
<1>4. ASSUME NEW l \in Labels, NEW c \in 0 .. 100, Judged(l, c)
      PROVE  decision' \in Decisions /\ decision'.by = "graph" /\ stage' = "verify"
  <2>1. Unclaimed(l, c) \in Answer
    BY DEF Answer, Unclaimed
  <2>2. QED
    BY <1>4, <2>1, VerdictType DEF Judged, Verdict
<1>5. CASE \/ score >= 55 /\ Judged("MALICIOUS", score)
           \/ score <= 15 /\ Judged("BENIGN", 100 - score)
  <2>1. 100 - score \in 0 .. 100 /\ "MALICIOUS" \in Labels /\ "BENIGN" \in Labels
    BY <1>1 DEF Labels
  <2>2. decision' \in Decisions /\ decision'.by = "graph" /\ stage' = "verify"
    BY <1>1, <1>4, <1>5, <2>1
  <2>3. QED
    BY <1>2, <1>3, <2>2, VerdictStep DEF Stages
<1>6. CASE stage' = (IF calm THEN "draft" ELSE "full") /\ decision' = decision
  <2>1. stage' \in {"draft", "full"}
    BY <1>6
  <2>2. QED
    BY <1>2, <1>3, <1>6, <2>1, VerdictStep DEF Stages
<1>7. QED
  BY <1>2, <1>5, <1>6

\* An answer that stands meets FastPathOk, which the mock cannot without a
\* calibrator.
LEMMA AnsweredInv ==
  ASSUME AnalysisInv, stage \in {"draft", "full"}, NEW mock \in BOOLEAN,
         NEW d \in Answer, mock /\ d.label = "BENIGN" => d.conf <= 8,
         Answered(mock, d), UNCHANGED <<graphVars, configVars, cal, own, calm, claimVars>>
  PROVE  AnalysisInv'
<1>1. tries' = 0 /\ 0 \in 0 .. Retries - 1 /\ decision.by = "none"
  BY AnalysisAssumption DEF AnalysisInv, Drafted, Early, Answered
<1>2. CASE stage = "draft" /\ ~FastPathOk(d)
  <2>1. stage' = "full" /\ decision' = decision
    BY <1>2 DEF Answered
  <2>2. QED
    BY <1>1, <2>1, VerdictStep DEF Stages
<1>3. CASE ~(stage = "draft" /\ ~FastPathOk(d))
  <2>1. stage' = "verify" /\ decision' = Verdict(stage, mock, d)
    BY <1>3 DEF Answered
  <2>2. decision' \in Decisions
    BY <2>1, VerdictType
  <2>3. /\ decision'.by = stage /\ decision'.label = d.label /\ decision'.mock = mock
        /\ decision'.conf = d.conf
    BY <2>1 DEF Verdict
  <2>4. ASSUME stage = "draft"
        PROVE  /\ d.label = "BENIGN"
               /\ ~conformal /\ DraftThreshold > 8 => ~mock
               /\ conformal => Above(cal, d.conf)
    <3>1. FastPathOk(d)
      BY <1>3, <2>4
    <3>2. d.conf \in 0 .. 100 /\ DraftThreshold \in 0 .. 100
      BY AnalysisAssumption DEF Answer
    <3>3. QED
      BY <3>1, <3>2 DEF FastPathOk
  <2>5. QED
    BY <1>1, <2>1, <2>2, <2>3, <2>4, VerdictStep DEF Stages
<1>4. QED
  BY <1>2, <1>3

LEMMA ModelAnswersInv ==
  ASSUME AnalysisInv, NEW d \in ModelDecisions, ModelAnswers(d)
  PROVE  AnalysisInv'
<1>1. d \in Answer
  BY AnalysisAssumption
<1>2. QED
  BY <1>1, AnsweredInv DEF ModelAnswers

LEMMA MockAnswersInv ==
  ASSUME AnalysisInv, NEW d \in MockDecisions, MockAnswers(d)
  PROVE  AnalysisInv'
<1>1. d \in Answer /\ (d.label = "BENIGN" => d.conf <= 8)
  BY AnalysisAssumption
<1>2. QED
  BY <1>1, AnsweredInv DEF MockAnswers

LEMMA AttemptFailsInv ==
  ASSUME AnalysisInv, AttemptFails
  PROVE  AnalysisInv'
<1>1. /\ stage \in {"draft", "full"} /\ stage' = stage /\ decision' = decision
      /\ tries < Retries - 1 /\ tries' = tries + 1
      /\ UNCHANGED <<graphVars, configVars, cal, own, calm, claimVars>>
  BY DEF AttemptFails
<1>2. tries \in 0 .. Retries - 1 /\ Retries \in Nat \ {0}
  BY AnalysisAssumption DEF AnalysisInv, FlowType
<1>3. tries' \in 0 .. Retries - 1
  BY <1>1, <1>2
<1>4. decision.by = "none"
  BY <1>1 DEF AnalysisInv, Drafted, Early
<1>5. QED
  BY <1>1, <1>3, <1>4, VerdictStep DEF Stages

LEMMA ModelFailsInv ==
  ASSUME AnalysisInv, ModelFails
  PROVE  AnalysisInv'
<1>1. /\ stage \in {"draft", "full"} /\ stage' = "failed" /\ decision' = decision
      /\ tries' = tries
      /\ UNCHANGED <<graphVars, configVars, cal, own, calm, claimVars>>
  BY DEF ModelFails, verdictVars
<1>2. tries' \in 0 .. Retries - 1 /\ decision.by = "none"
  BY <1>1 DEF AnalysisInv, FlowType, Drafted, Early
<1>3. QED
  BY <1>1, <1>2, VerdictStep DEF Stages

\* What a step keeps that leaves the report to be that of the claims.
LEMMA ClaimStep ==
  ASSUME AnalysisInv, stage \in Late \cup {"verify"}, stage' \in Late,
         UNCHANGED <<graphVars, configVars, cal, own, calm, verdictVars>>,
         rounds' \in 0 .. MaxIter,
         marks' = Matches(decision.claims, own),
         counted' = Cardinality(Backed(marks'))
  PROVE  AnalysisInv'
<1>1. GraphInv'
  BY GraphKept DEF AnalysisInv
<1>2. CalInv'
  BY DEF AnalysisInv, CalInv
<1>3. stage' \in Stages /\ stage' # "idle" /\ stage' \notin Early
  BY DEF Late, Stages, Early
<1>4. FlowType' /\ Untouched'
  BY <1>3 DEF AnalysisInv, FlowType, Untouched, configVars, verdictVars
<1>5. Reported'
  <2>1. decision' = decision /\ own' = own
    BY DEF verdictVars
  <2>2. QED
    BY <2>1 DEF Reported
<1>6. Drafted'
  BY <1>3 DEF AnalysisInv, Drafted, configVars, verdictVars
<1>7. QED
  BY <1>1, <1>2, <1>4, <1>5, <1>6 DEF AnalysisInv

\* An auditor that crashes leaves no report.
LEMMA VerifyRaisesInv ==
  ASSUME AnalysisInv, VerifyRaises
  PROVE  AnalysisInv'
<1>1. /\ stage = "verify" /\ stage' = "crashed"
      /\ UNCHANGED <<graphVars, configVars, cal, own, calm, verdictVars, claimVars>>
  BY DEF VerifyRaises
<1>2. GraphInv'
  BY <1>1, GraphKept DEF AnalysisInv
<1>3. CalInv' /\ FlowType' /\ Untouched'
  BY <1>1 DEF AnalysisInv, CalInv, FlowType, Untouched, Stages, configVars,
              verdictVars, claimVars
<1>4. Reported' /\ Drafted'
  BY <1>1 DEF AnalysisInv, Reported, Drafted, Late, Early, configVars,
              verdictVars, claimVars
<1>5. QED
  BY <1>2, <1>3, <1>4 DEF AnalysisInv

LEMMA VerifyInv ==
  ASSUME AnalysisInv, Verify
  PROVE  AnalysisInv'
<1>1. /\ stage = "verify" /\ stage' = "ground" /\ rounds' = rounds
      /\ marks' = Matches(decision.claims, own) /\ counted' = Cardinality(Backed(marks'))
      /\ UNCHANGED <<graphVars, configVars, cal, own, calm, verdictVars>>
  BY DEF Verify, Report
<1>2. rounds' \in 0 .. MaxIter
  BY <1>1 DEF AnalysisInv, FlowType
<1>3. QED
  BY <1>1, <1>2, ClaimStep DEF Late

\* Whether the loop ends or goes on, the claims stay as they were.
LEMMA GroundInv ==
  ASSUME AnalysisInv, Ground
  PROVE  AnalysisInv'
<1>1. /\ stage = "ground" /\ rounds < MaxIter /\ rounds' = rounds + 1
      /\ UNCHANGED <<graphVars, configVars, cal, own, calm, verdictVars>>
      /\ \/ /\ marks' = Remarked(decision.claims, marks, own)
            /\ stage' = "synthesize" /\ counted' = counted
         \/ /\ Report(Matches(decision.claims, own))
            /\ stage' = stage
  BY DEF Ground
<1>2. /\ marks = Matches(decision.claims, own) /\ counted = Cardinality(Backed(marks))
      /\ decision.claims \in Seq(Claim) /\ own \in Seq(Kinds)
      /\ rounds \in 0 .. MaxIter /\ MaxIter \in Nat
  BY <1>1, AnalysisAssumption DEF AnalysisInv, FlowType, Reported, Late, Decisions
<1>3. rounds' \in 0 .. MaxIter
  BY <1>1, <1>2
<1>4. Remarked(decision.claims, marks, own) = Matches(decision.claims, own)
  BY <1>2, NothingRegrounded
<1>5. marks' = Matches(decision.claims, own) /\ counted' = Cardinality(Backed(marks'))
  BY <1>1, <1>2, <1>4 DEF Report
<1>6. stage' \in Late
  BY <1>1 DEF Late
<1>7. QED
  BY <1>1, <1>3, <1>5, <1>6, ClaimStep DEF Late

LEMMA SynthesizeInv ==
  ASSUME AnalysisInv, Synthesize
  PROVE  AnalysisInv'
<1>1. /\ stage \in Late /\ stage' = "done"
      /\ UNCHANGED <<graphVars, configVars, cal, own, calm, verdictVars>>
      /\ marks' = marks /\ counted' = counted /\ rounds' = rounds
  BY DEF Synthesize, Late, claimVars
<1>2. marks = Matches(decision.claims, own) /\ counted = Cardinality(Backed(marks))
  BY <1>1 DEF AnalysisInv, Reported
<1>3. rounds' \in 0 .. MaxIter
  BY <1>1 DEF AnalysisInv, FlowType
<1>4. QED
  BY <1>1, <1>2, <1>3, ClaimStep DEF Late

LEMMA AnalysisStep == AnalysisInv /\ [Next]_vars => AnalysisInv'
<1> SUFFICES ASSUME AnalysisInv, [Next]_vars PROVE AnalysisInv'
  OBVIOUS
<1>1. ASSUME NEW s \in Samples, Calibrate(s) PROVE AnalysisInv'
  BY <1>1, CalibrateInv
<1>2. ASSUME NEW w \in Windows, NEW p \in ParentWindows, NEW low \in BOOLEAN,
             Receive(w, p, low)
      PROVE  AnalysisInv'
  BY <1>2, ReceiveInv
<1>3. CASE Build
  BY <1>3, BuildInv
<1>4. CASE Judge
  BY <1>4, JudgeInv
<1>5. ASSUME NEW d \in ModelDecisions, ModelAnswers(d) PROVE AnalysisInv'
  BY <1>5, ModelAnswersInv
<1>6. ASSUME NEW d \in MockDecisions, MockAnswers(d) PROVE AnalysisInv'
  BY <1>6, MockAnswersInv
<1>7. CASE AttemptFails
  BY <1>7, AttemptFailsInv
<1>8. CASE ModelFails
  BY <1>8, ModelFailsInv
<1>9. CASE Verify
  BY <1>9, VerifyInv
<1>9a. CASE VerifyRaises
  BY <1>9a, VerifyRaisesInv
<1>10. CASE Ground
  BY <1>10, GroundInv
<1>11. CASE Synthesize
  BY <1>11, SynthesizeInv
<1>12. CASE UNCHANGED vars
  <2>1. /\ UNCHANGED graphVars /\ UNCHANGED configVars /\ UNCHANGED <<cal, own, calm, stage>>
        /\ UNCHANGED verdictVars /\ UNCHANGED claimVars
    BY <1>12 DEF vars
  <2>2. GraphInv'
    BY <2>1, GraphKept DEF AnalysisInv
  <2>3. CalInv' /\ FlowType' /\ Untouched'
    BY <2>1 DEF AnalysisInv, CalInv, FlowType, Untouched, graphVars, configVars,
                verdictVars, claimVars
  <2>4. Reported' /\ Drafted'
    BY <2>1 DEF AnalysisInv, Reported, Drafted, configVars, verdictVars, claimVars
  <2>5. QED
    BY <2>2, <2>3, <2>4 DEF AnalysisInv
<1>13. QED
  BY <1>1, <1>2, <1>3, <1>4, <1>5, <1>6, <1>7, <1>8, <1>9, <1>9a, <1>10,
     <1>11, <1>12
  DEF Next, Progress

LEMMA AnalysisInvariant == Spec => []AnalysisInv
  BY AnalysisInit, AnalysisStep, PTL DEF Spec

-----------------------------------------------------------------------------
(* The theorems.                                                            *)

\* Every variable keeps its type whatever the models answer and however often
\* they fail; in particular the report never counts more verified claims than
\* there are (llm/base.py, cove.py, evidence.py).
THEOREM TypeCorrect == Spec => []TypeOK
<1>1. AnalysisInv => TypeOK
  <2> SUFFICES ASSUME AnalysisInv PROVE TypeOK
    OBVIOUS
  <2>1. marks \in Seq(0 .. Len(own)) /\ counted \in 0 .. Len(marks)
    <3>1. CASE stage \in Late
      <4>1. /\ marks = Matches(decision.claims, own)
            /\ counted = Cardinality(Backed(marks))
            /\ decision.claims \in Seq(Claim) /\ own \in Seq(Kinds)
        BY <3>1 DEF AnalysisInv, Reported, FlowType, Decisions
      <4>2. marks \in Seq(0 .. Len(own))
        BY <4>1, MatchesType
      <4> DEFINE R == 0 .. Len(own)
      <4>3. marks \in Seq(R) /\ R \subseteq Nat
        BY <4>1, <4>2
      <4> HIDE DEF R
      <4>4. marks \in Seq(Nat)
        BY <4>3, Wider
      <4>5. QED
        BY <4>1, <4>2, <4>4, BackedBound
    <3>2. CASE stage \notin Late
      <4>1. marks = <<>> /\ counted = 0
        BY <3>2 DEF AnalysisInv, Reported
      <4>2. QED
        BY <4>1
    <3>3. QED
      BY <3>1, <3>2
  <2>2. cal.fitted \in BOOLEAN /\ cal.qhat \in 0 .. 100 /\ cal.scores \in Seq(0 .. 100)
    BY DEF AnalysisInv, CalInv, Calibrator
  <2>3. QED
    BY <2>1, <2>2 DEF TypeOK, AnalysisInv, GraphInv, GraphType, FlowType, Decisions
<1>2. QED
  BY <1>1, AnalysisInvariant, PTL

\* For every window, with or without the parent's events in front, the merged
\* edges of the graph are the transitions between the events the loop has seen,
\* one edge for each, with the number, the fastest, the slowest and the first of
\* its instances (ipg.py, IPGBuilder.build).
THEOREM GraphCorrect == Spec => []GraphFaithful
<1>1. AnalysisInv => GraphFaithful
  BY DEF AnalysisInv, GraphInv
<1>2. QED
  BY <1>1, AnalysisInvariant, PTL

\* For every number of claims, the verified count of the report is that of the
\* claims some event of the window matches, the grounding loop changes neither,
\* and when no parent events were shown a claim that quotes the graph is never
\* retracted (cove.py, evidence.py).
THEOREM ClaimsCorrect == Spec => []ClaimsFaithful
<1>1. AnalysisInv => ReportConsistent
  <2> SUFFICES ASSUME AnalysisInv, stage \in Late PROVE
        /\ counted = Cardinality(Backed(marks))
        /\ marks = Matches(decision.claims, own)
        /\ \A i \in Backed(marks) :
             \/ Exact(decision.claims[i], own[marks[i]])
             \/ Loose(decision.claims[i], own[marks[i]])
    BY DEF ReportConsistent, Late
  <2>1. /\ marks = Matches(decision.claims, own) /\ counted = Cardinality(Backed(marks))
        /\ decision.claims \in Seq(Claim) /\ own \in Seq(Kinds)
    BY DEF AnalysisInv, Reported, FlowType, Decisions
  <2>2. ASSUME NEW i \in Backed(marks)
        PROVE  \/ Exact(decision.claims[i], own[marks[i]])
               \/ Loose(decision.claims[i], own[marks[i]])
    <3>1. i \in DOMAIN decision.claims /\ marks[i] # 0
      BY <2>1 DEF Backed, Matches
    <3>2. decision.claims[i] \in Claim /\ marks[i] = MatchOf(decision.claims[i], own)
      BY <2>1, <3>1 DEF Matches
    <3>3. QED
      BY <2>1, <3>1, <3>2, MatchSound
  <2>3. QED
    BY <2>1, <2>2
<1>2. AnalysisInv => HonestAlone
  <2> SUFFICES ASSUME AnalysisInv, stage = "done", win = own, Honest,
                      NEW i \in DOMAIN marks
               PROVE  marks[i] # 0
    BY DEF HonestAlone
  <2> DEFINE c == decision.claims[i]
  <2>1. /\ marks = Matches(decision.claims, own)
        /\ decision.claims \in Seq(Claim) /\ own \in Seq(Kinds)
    BY DEF AnalysisInv, Reported, FlowType, Decisions, Late
  <2>2. i \in DOMAIN decision.claims /\ c \in Claim /\ marks[i] = MatchOf(c, own)
    BY <2>1 DEF Matches
  <2>3. Quotes(c)
    BY <2>2 DEF Honest
  <2> HIDE DEF c
  <2>4. PICK n \in DOMAIN edges :
          /\ c.res = edges[n].res
          /\ c.sc = edges[n].link.label \/ c.sc = "none" \/ c.res # NoRes
    BY <2>3 DEF Quotes
  <2> DEFINE k == edges[n].first
  <2>5. k \in Instances(edges[n].link) /\ edges[n].res = win[k].res
    BY DEF AnalysisInv, GraphInv, GraphFaithful
  <2> HIDE DEF k
  <2>6. k \in 2 .. Len(win) /\ Link(k) = edges[n].link
    BY <2>5 DEF AnalysisInv, GraphInv, GraphType, Instances
  <2>7. /\ k \in DOMAIN own /\ c.res = own[k].res /\ edges[n].link.label = own[k].sc
        /\ own[k] \in Kinds
    BY <2>1, <2>4, <2>5, <2>6, LinkType DEF AnalysisInv, GraphInv
  <2>8. own[k].res \in Resources
    BY <2>7, KindType
  <2>9. Exact(c, own[k]) \/ Loose(c, own[k])
    <3>1. <<own[k].res, own[k].res>> \in Part
      BY <2>8, EvidenceAssumption
    <3>2. QED
      BY <2>4, <2>7, <3>1 DEF Exact, Loose
  <2>10. MatchOf(c, own) # 0
    BY <2>1, <2>2, <2>7, <2>9, MatchSound
  <2>11. QED
    BY <2>2, <2>10
<1>3. AnalysisInv => ClaimsFaithful
  BY <1>1, <1>2 DEF ClaimsFaithful
<1>4. QED
  BY <1>3, AnalysisInvariant, PTL

\* For every calibration set and every share Alpha, a draft verdict that kept the
\* full model from being asked is BENIGN, and none of the last set's attacks had
\* been called BENIGN with as much confidence or, with this window, at most that
\* share of them; without a calibrator it is not the mock's where the threshold
\* is out of the mock's reach (llm/base.py, ConformalFastPath and DualTierClassifier).
THEOREM FastPath == Spec => []FastPathBound
<1>1. AnalysisInv => FastPathBound
  <2> SUFFICES ASSUME AnalysisInv, decision.by = "draft" PROVE
        /\ decision.label = "BENIGN"
        /\ ~conformal /\ DraftThreshold > 8 => ~decision.mock
        /\ conformal =>
             LET n == Len(cal.scores)
                 m == Cardinality({i \in 1 .. n : cal.scores[i] >= decision.conf}) IN
             /\ n >= MinSamples
             /\ m = 0 \/ 100 * (m + 1) <= Alpha * (n + 1)
    BY DEF FastPathBound
  <2>1. /\ decision.label = "BENIGN"
        /\ ~conformal /\ DraftThreshold > 8 => ~decision.mock
        /\ conformal => Above(cal, decision.conf)
        /\ decision.conf \in 0 .. 100 /\ CalInv
    BY DEF AnalysisInv, Drafted, FlowType, Decisions
  <2>2. QED
    BY <2>1, AboveBound
<1>2. QED
  BY <1>1, AnalysisInvariant, PTL
=============================================================================
