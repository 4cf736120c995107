--------------------------- MODULE Detector_proofs ---------------------------
(***************************************************************************)
(* Proofs about Detector for every set of processes, commands and syscall  *)
(* types, every window size and every pair of entropy tests.               *)
(***************************************************************************)
EXTENDS Detector, FiniteSetTheorems, FunctionTheorems, TLAPS

\* An event that is skipped by the gate had nothing new to teach it.
LEMMA SkippedIsOld ==
  ASSUME NEW e \in Events, Gated(e), Trigger(e) = Skip
  PROVE  NewEdge(e) = {} /\ NewTrans(e) = {}
<1>1. ~Bypass(e) /\ Full(e)
  BY DEF Gated
<1>2. ~e.alien /\ ~e.hot
  BY <1>1 DEF Bypass
<1>3. CASE Repetitive(e)
  BY <1>3 DEF Repetitive
<1>4. CASE ~Repetitive(e)
  <2>1. Trigger(e) = "anomaly"
    BY <1>1, <1>2, <1>4 DEF Trigger
  <2>2. QED
    BY <2>1 DEF Skip
<1>5. QED
  BY <1>3, <1>4

\* The gate learns nothing that has not been reported by then.
LEMMA HandleNovelty ==
  ASSUME NoveltyReported, NEW e \in Events, Handle(e)
  PROVE  NoveltyReported'
<1>1. CASE ~Gated(e)
  <2>1. seenEdges' = seenEdges /\ seenTrans' = seenTrans /\ announced \subseteq announced'
    BY <1>1 DEF Handle
  <2>2. QED
    BY <2>1 DEF NoveltyReported
<1>2. CASE Gated(e) /\ Trigger(e) = Skip
  <2>1. Edge(e) \subseteq seenEdges /\ (MarkovGate => TransKeys(e) \subseteq seenTrans)
    BY <1>2, SkippedIsOld DEF NewEdge, NewTrans
  <2>2. UNCHANGED <<seenEdges, seenTrans, announced>>
    BY <1>2, <2>1 DEF Handle
  <2>3. QED
    BY <2>2 DEF NoveltyReported
<1>3. CASE Gated(e) /\ Trigger(e) # Skip
  <2>1. announced' = announced \cup Edge(e) \cup TransKeys(e)
    BY <1>3 DEF Handle
  <2>2. /\ seenEdges' = seenEdges \cup Edge(e)
        /\ seenTrans' \subseteq seenTrans \cup TransKeys(e)
    BY <1>3 DEF Handle
  <2>3. QED
    BY <2>1, <2>2 DEF NoveltyReported
<1>4. QED
  BY <1>1, <1>2, <1>3

\* Nothing becomes "seen", and so silent, without a signal.
THEOREM Novelty == Spec => []NoveltyReported
<1>1. Init => NoveltyReported
  BY DEF Init, NoveltyReported
<1>2. NoveltyReported /\ [Next]_vars => NoveltyReported'
  <2>1. ASSUME NEW p \in Pids, FlagPid(p) \/ Expire(p)
        PROVE  UNCHANGED <<seenEdges, seenTrans, announced>>
    BY <2>1 DEF FlagPid, Expire, seen, ghosts
  <2>2. UNCHANGED vars => UNCHANGED <<seenEdges, seenTrans, announced>>
    BY DEF vars, seen, ghosts
  <2>3. QED
    BY <2>1, <2>2, HandleNovelty DEF Next, NoveltyReported
<1>3. QED
  BY <1>1, <1>2, PTL DEF Spec

-----------------------------------------------------------------------------
(* Sliding windows: a deque of bounded length is the end of what was ever    *)
(* put into it, and the counts kept beside it are those of its elements.     *)

LEMMA AppendElements ==
  ASSUME NEW S, NEW q \in Seq(S), NEW x \in S
  PROVE  /\ Append(q, x) \in Seq(S) /\ Len(Append(q, x)) = Len(q) + 1
         /\ \A i \in 1 .. Len(q) : Append(q, x)[i] = q[i]
         /\ Append(q, x)[Len(q) + 1] = x
  OBVIOUS

LEMMA TailElements ==
  ASSUME NEW S, NEW q \in Seq(S), q # <<>>
  PROVE  /\ Tail(q) \in Seq(S) /\ Len(Tail(q)) = Len(q) - 1
         /\ \A i \in 1 .. Len(q) - 1 : Tail(q)[i] = q[i + 1]
         /\ Head(q) = q[1] /\ Head(q) \in S /\ Len(q) \in Nat \ {0}
  OBVIOUS

LEMMA LastType ==
  ASSUME NEW S, NEW q \in Seq(S), NEW n \in Nat \ {0}
  PROVE  /\ LastOf(q, n) \in Seq(S) /\ Len(LastOf(q, n)) <= n
         /\ LastOf(q, n) = <<>> <=> q = <<>>
<1>1. CASE Len(q) <= n
  BY <1>1 DEF LastOf
<1>2. CASE ~(Len(q) <= n)
  <2>1. /\ SubSeq(q, Len(q) - n + 1, Len(q)) \in Seq(S)
        /\ Len(SubSeq(q, Len(q) - n + 1, Len(q))) = n
    BY <1>2
  <2>2. LastOf(q, n) = SubSeq(q, Len(q) - n + 1, Len(q))
    BY <1>2 DEF LastOf
  <2>3. q # <<>> /\ LastOf(q, n) # <<>>
    <3>1. Len(<<>>) = 0 /\ Len(q) \in Nat
      OBVIOUS
    <3>2. Len(q) # 0 /\ Len(LastOf(q, n)) # 0
      BY <1>2, <2>1, <2>2, <3>1
    <3>3. QED
      BY <3>1, <3>2
  <2>4. QED
    BY <2>1, <2>2, <2>3
<1>3. QED
  BY <1>1, <1>2

LEMMA LastSlides ==
  ASSUME NEW S, NEW q \in Seq(S), NEW x \in S, NEW n \in Nat \ {0}
  PROVE  LastOf(Append(q, x), n) = Slide(LastOf(q, n), x, n)
<1> DEFINE a == Append(q, x)
           k == Len(q)
<1>1. a \in Seq(S) /\ Len(a) = k + 1 /\ k \in Nat
  OBVIOUS
<1>2. CASE k < n
  <2>1. LastOf(q, n) = q /\ k # n
    BY <1>1, <1>2 DEF LastOf
  <2>2. LastOf(a, n) = a
    BY <1>1, <1>2 DEF LastOf
  <2>3. QED
    BY <2>1, <2>2 DEF Slide
<1>3. CASE ~(k < n)
  <2> DEFINE w == SubSeq(q, k - n + 1, k)
  <2>1. w \in Seq(S) /\ Len(w) = n /\ \A i \in 1 .. n : w[i] = q[k - n + i]
    BY <1>1, <1>3
  <2>2. LastOf(q, n) = w
    <3>1. CASE k = n
      <4>1. w = q
        BY <1>1, <3>1
      <4>2. QED
        BY <3>1, <4>1 DEF LastOf
    <3>2. CASE k # n
      BY <1>1, <1>3, <3>2 DEF LastOf
    <3>3. QED
      BY <3>1, <3>2
  <2>3. LastOf(a, n) = SubSeq(a, k - n + 2, k + 1)
    <3>1. ~(Len(a) <= n) /\ Len(a) - n + 1 = k - n + 2
      BY <1>1, <1>3
    <3>2. QED
      BY <1>1, <3>1 DEF LastOf
  <2>4. /\ SubSeq(a, k - n + 2, k + 1) \in Seq(S)
        /\ Len(SubSeq(a, k - n + 2, k + 1)) = n
        /\ \A i \in 1 .. n : SubSeq(a, k - n + 2, k + 1)[i] = a[k - n + 1 + i]
    BY <1>1, <1>3
  <2>5. /\ Append(Tail(w), x) \in Seq(S) /\ Len(Append(Tail(w), x)) = n
        /\ \A i \in 1 .. n - 1 : Append(Tail(w), x)[i] = w[i + 1]
        /\ Append(Tail(w), x)[n] = x
    <3>1. /\ Tail(w) \in Seq(S) /\ Len(Tail(w)) = n - 1
          /\ \A i \in 1 .. n - 1 : Tail(w)[i] = w[i + 1]
      <4> HIDE DEF w
      <4>1. Len(w) # Len(<<>>)
        BY <2>1
      <4>2. w \in Seq(S) /\ w # <<>>
        BY <2>1, <4>1
      <4>3. QED
        BY <2>1, <4>2, TailElements
    <3> DEFINE t == Tail(w)
    <3>2. t \in Seq(S) /\ Len(t) = n - 1
      BY <3>1
    <3> HIDE DEF t, w
    <3>3. /\ Append(t, x) \in Seq(S) /\ Len(Append(t, x)) = Len(t) + 1
          /\ \A i \in 1 .. Len(t) : Append(t, x)[i] = t[i]
          /\ Append(t, x)[Len(t) + 1] = x
      BY <3>2, AppendElements
    <3>4. (n - 1) + 1 = n
      OBVIOUS
    <3>5. /\ Append(t, x) \in Seq(S) /\ Len(Append(t, x)) = n
          /\ \A i \in 1 .. n - 1 : Append(t, x)[i] = t[i]
          /\ Append(t, x)[n] = x
      BY <3>2, <3>3, <3>4
    <3>6. QED
      BY <3>1, <3>5 DEF t
  <2>6. ASSUME NEW i \in 1 .. n
        PROVE  SubSeq(a, k - n + 2, k + 1)[i] = Append(Tail(w), x)[i]
    <3>1. CASE i = n
      BY <1>1, <1>3, <2>4, <2>5, <3>1
    <3>2. CASE i # n
      <4>1. i \in 1 .. n - 1 /\ i + 1 \in 1 .. n /\ k - n + 1 + i \in 1 .. k
        BY <1>1, <1>3, <3>2
      <4>2. Append(Tail(w), x)[i] = q[k - n + (i + 1)]
        BY <2>1, <2>5, <4>1
      <4>3. a[k - n + 1 + i] = q[k - n + 1 + i]
        BY <4>1
      <4>4. k - n + (i + 1) = k - n + 1 + i
        BY <1>1
      <4>5. QED
        BY <2>4, <4>2, <4>3, <4>4
    <3>3. QED
      BY <3>1, <3>2
  <2>7. SubSeq(a, k - n + 2, k + 1) = Append(Tail(w), x)
    <3> DEFINE u == SubSeq(a, k - n + 2, k + 1)
               v == Append(Tail(w), x)
    <3>1. u \in Seq(S) /\ v \in Seq(S) /\ Len(u) = n /\ Len(v) = n
          /\ \A i \in 1 .. n : u[i] = v[i]
      BY <2>4, <2>5, <2>6
    <3> HIDE DEF u, v
    <3>2. u = v
      BY <3>1
    <3>3. QED
      BY <3>2 DEF u, v
  <2>8. QED
    BY <2>1, <2>2, <2>3, <2>7 DEF Slide
<1>4. QED
  BY <1>2, <1>3

Where(q, y) == {i \in DOMAIN q : q[i] = y}

LEMMA CountWhere == \A q, y : Count(q, y) = Cardinality(Where(q, y))
  BY DEF Count, Where

LEMMA WhereFinite ==
  ASSUME NEW S, NEW q \in Seq(S), NEW y
  PROVE  IsFiniteSet(Where(q, y)) /\ Count(q, y) \in Nat
<1>1. IsFiniteSet(1 .. Len(q))
  BY FS_Interval
<1>2. Where(q, y) \in SUBSET (1 .. Len(q))
  BY DEF Where
<1>3. QED
  BY <1>1, <1>2, FS_Subset, FS_CardinalityType, CountWhere

LEMMA CountAppend ==
  ASSUME NEW S, NEW q \in Seq(S), NEW x \in S, NEW y
  PROVE  Count(Append(q, x), y) = Count(q, y) + (IF x = y THEN 1 ELSE 0)
<1> DEFINE k == Len(q) + 1
<1>1. Append(q, x) \in Seq(S) /\ k \notin Where(q, y)
  BY DEF Where
<1>2. CASE x = y
  <2>1. Where(Append(q, x), y) = Where(q, y) \cup {k}
    BY <1>2 DEF Where
  <2>2. QED
    <3>1. IsFiniteSet(Where(q, y))
      BY WhereFinite
    <3>2. Cardinality(Where(q, y) \cup {k}) = Cardinality(Where(q, y)) + 1
      BY <1>1, <3>1, FS_AddElement
    <3>3. QED
      BY <1>2, <2>1, <3>2, CountWhere
<1>3. CASE x # y
  <2>1. Where(Append(q, x), y) = Where(q, y)
    BY <1>3 DEF Where
  <2>2. QED
    <3>1. Count(q, y) \in Nat
      BY WhereFinite
    <3>2. QED
      BY <1>3, <2>1, <3>1, CountWhere
<1>4. QED
  BY <1>2, <1>3

LEMMA CountTail ==
  ASSUME NEW S, NEW q \in Seq(S), q # <<>>, NEW y
  PROVE  Count(q, y) = Count(Tail(q), y) + (IF Head(q) = y THEN 1 ELSE 0)
<1> DEFINE R == Where(q, y) \ {1}
           f == [i \in Where(Tail(q), y) |-> i + 1]
<1>1. /\ Tail(q) \in Seq(S) /\ Len(Tail(q)) = Len(q) - 1 /\ Len(q) \in Nat \ {0}
      /\ \A i \in 1 .. Len(q) - 1 : Tail(q)[i] = q[i + 1]
      /\ Head(q) = q[1]
  OBVIOUS
<1>2. Where(Tail(q), y) = {i \in 1 .. Len(q) - 1 : q[i + 1] = y}
  BY <1>1 DEF Where
<1>3. R = {i \in 2 .. Len(q) : q[i] = y}
  BY <1>1 DEF Where
<1>4. ASSUME NEW i \in Where(Tail(q), y)
      PROVE  i \in Nat /\ i + 1 \in R
  BY <1>1, <1>2, <1>3, <1>4
<1>5. ASSUME NEW j \in R
      PROVE  \E i \in Where(Tail(q), y) : f[i] = j
  <2>1. j - 1 \in Where(Tail(q), y) /\ (j - 1) + 1 = j
    BY <1>1, <1>2, <1>3, <1>5
  <2>2. QED
    BY <2>1
<1>6. f \in Bijection(Where(Tail(q), y), R)
  <2>1. f \in [Where(Tail(q), y) -> R]
    BY <1>4
  <2>2. \A i, j \in Where(Tail(q), y) : f[i] = f[j] => i = j
    BY <1>4
  <2>3. QED
    BY <1>5, <2>1, <2>2, Fun_IsBij
<1>7. Cardinality(R) = Count(Tail(q), y)
  <2>1. IsFiniteSet(Where(Tail(q), y))
    BY <1>1, WhereFinite
  <2>2. ExistsBijection(Where(Tail(q), y), R)
    BY <1>6 DEF ExistsBijection
  <2>3. Cardinality(R) = Cardinality(Where(Tail(q), y))
    BY <2>1, <2>2, FS_Bijection
  <2>4. QED
    BY <2>3, CountWhere
<1>8. Cardinality(R) = IF 1 \in Where(q, y) THEN Count(q, y) - 1 ELSE Count(q, y)
  <2>1. IsFiniteSet(Where(q, y))
    BY WhereFinite
  <2>2. Cardinality(R) = IF 1 \in Where(q, y) THEN Cardinality(Where(q, y)) - 1
                         ELSE Cardinality(Where(q, y))
    BY <2>1, FS_RemoveElement
  <2>3. QED
    BY <2>2, CountWhere
<1>9. 1 \in Where(q, y) <=> Head(q) = y
  BY <1>1 DEF Where
<1>10. QED
  BY <1>7, <1>8, <1>9, WhereFinite

\* The histogram of a deque.
Counts(h, q, S) == h \in [S -> Nat] /\ \A y \in S : h[y] = Count(q, y)

LEMMA RecountCounts ==
  ASSUME NEW S, NEW h, NEW q \in Seq(S), NEW x \in S, NEW n \in Nat \ {0},
         Counts(h, q, S)
  PROVE  Counts(Recount(h, q, x, n), Slide(q, x, n), S)
<1> USE DEF Counts
<1>1. ASSUME NEW g \in [S -> Nat], NEW r \in Seq(S), \A y \in S : g[y] = Count(r, y)
      PROVE  Counts([g EXCEPT ![x] = @ + 1], Append(r, x), S)
  BY <1>1, CountAppend
<1>2. CASE Len(q) # n
  BY <1>1, <1>2 DEF Recount, Slide
<1>3. CASE Len(q) = n
  <2>1. q # <<>> /\ Head(q) \in S /\ Tail(q) \in Seq(S)
    BY <1>3
  <2> DEFINE g == [h EXCEPT ![Head(q)] = @ - 1]
  <2>2. \A y \in S : g[y] = Count(Tail(q), y) /\ Count(Tail(q), y) \in Nat
    <3>1. ASSUME NEW y \in S
          PROVE  g[y] = Count(Tail(q), y) /\ Count(Tail(q), y) \in Nat
      <4>1. Count(Tail(q), y) \in Nat /\ h[y] = Count(q, y)
        BY <2>1, WhereFinite
      <4>2. Count(q, y) = Count(Tail(q), y) + (IF Head(q) = y THEN 1 ELSE 0)
        BY <2>1, CountTail
      <4>3. QED
        BY <2>1, <4>1, <4>2
    <3>2. QED
      BY <3>1
  <2>3. g \in [S -> Nat]
    BY <2>1, <2>2
  <2>4. /\ Recount(h, q, x, n) = [g EXCEPT ![x] = @ + 1]
        /\ Slide(q, x, n) = Append(Tail(q), x)
    BY <1>3 DEF Recount, Slide
  <2>5. ASSUME NEW r \in Seq(S), \A y \in S : g[y] = Count(r, y)
        PROVE  Counts([g EXCEPT ![x] = @ + 1], Append(r, x), S)
    BY <1>1, <2>3, <2>5
  <2>6. Counts([g EXCEPT ![x] = @ + 1], Append(Tail(q), x), S)
    BY <2>1, <2>2, <2>5
  <2> HIDE DEF g
  <2>7. QED
    BY <2>4, <2>6
<1>4. QED
  BY <1>2, <1>3

-----------------------------------------------------------------------------
(* What an event does to the state of its process.                          *)

LEMMA TypesAppend ==
  ASSUME NEW q \in Seq(Events), NEW e \in Events
  PROVE  /\ TypesOf(q) \in Seq(Types) /\ Len(TypesOf(q)) = Len(q)
         /\ TypesOf(Append(q, e)) = Append(TypesOf(q), e.sc)
         /\ TypesOf(<<>>) = <<>> /\ (TypesOf(q) = <<>> <=> q = <<>>)
<1>1. \A i \in Events : i.sc \in Types
  BY DetectorAssumption DEF Event
<1>2. ASSUME NEW r \in Seq(Events)
      PROVE  TypesOf(r) \in Seq(Types) /\ Len(TypesOf(r)) = Len(r)
             /\ \A i \in 1 .. Len(r) : TypesOf(r)[i] = r[i].sc
  BY <1>1, <1>2 DEF TypesOf
<1>3. /\ Append(q, e) \in Seq(Events) /\ Len(Append(q, e)) = Len(q) + 1
      /\ \A i \in 1 .. Len(q) : Append(q, e)[i] = q[i]
      /\ Append(q, e)[Len(q) + 1] = e
  BY AppendElements
<1>4. /\ TypesOf(q) \in Seq(Types) /\ Len(TypesOf(q)) = Len(q) /\ Len(q) \in Nat
      /\ \A i \in 1 .. Len(q) : TypesOf(q)[i] = q[i].sc
  BY <1>2
<1> DEFINE u == TypesOf(Append(q, e))
           v == Append(TypesOf(q), e.sc)
<1>5. /\ u \in Seq(Types) /\ Len(u) = Len(q) + 1
      /\ \A i \in 1 .. Len(q) : u[i] = q[i].sc
      /\ u[Len(q) + 1] = e.sc
  <2> DEFINE a == Append(q, e)
  <2>1. /\ TypesOf(a) \in Seq(Types) /\ Len(TypesOf(a)) = Len(q) + 1
        /\ \A i \in 1 .. Len(q) + 1 : TypesOf(a)[i] = a[i].sc
    BY <1>2, <1>3
  <2>2. /\ Len(q) + 1 \in 1 .. Len(q) + 1
        /\ \A i \in 1 .. Len(q) : i \in 1 .. Len(q) + 1
    BY <1>4
  <2>3. (\A i \in 1 .. Len(q) : a[i].sc = q[i].sc) /\ a[Len(q) + 1].sc = e.sc
    BY <1>3
  <2> HIDE DEF a
  <2>4. /\ \A i \in 1 .. Len(q) : TypesOf(a)[i] = q[i].sc
        /\ TypesOf(a)[Len(q) + 1] = e.sc
    BY <2>1, <2>2, <2>3
  <2>5. QED
    BY <2>1, <2>4 DEF a
<1>6. /\ v \in Seq(Types) /\ Len(v) = Len(q) + 1
      /\ \A i \in 1 .. Len(q) : v[i] = q[i].sc
      /\ v[Len(q) + 1] = e.sc
  BY <1>1, <1>4, AppendElements
<1>7. u = v
  <2>1. \A i \in 1 .. Len(q) + 1 : i \in 1 .. Len(q) \/ i = Len(q) + 1
    BY <1>4
  <2> HIDE DEF u, v
  <2>2. \A i \in 1 .. Len(u) : u[i] = v[i]
    BY <1>4, <1>5, <1>6, <2>1
  <2>3. QED
    BY <1>5, <1>6, <2>2
<1>8. <<>> \in Seq(Events) /\ Len(<<>>) = 0
  OBVIOUS
<1>9. TypesOf(<<>>) = <<>>
  <2>1. TypesOf(<<>>) \in Seq(Types) /\ Len(TypesOf(<<>>)) = 0
    BY <1>2, <1>8
  <2>2. \A r \in Seq(Types) : Len(r) = 0 => r = <<>>
    OBVIOUS
  <2>3. QED
    BY <2>1, <2>2
<1>10. TypesOf(q) = <<>> <=> q = <<>>
  BY <1>4, <1>8, <1>9
<1>11. QED
  BY <1>4, <1>7, <1>9, <1>10

LEMMA BigramsAppend ==
  ASSUME NEW q \in Seq(Types), NEW x \in Types
  PROVE  /\ Bigrams(q) \in Seq(Pairs)
         /\ q = <<>> => Bigrams(q) = <<>> /\ Bigrams(Append(q, x)) = <<>>
         /\ q # <<>> => Bigrams(Append(q, x)) = Append(Bigrams(q), <<q[Len(q)], x>>)
<1>1. ASSUME NEW r \in Seq(Types), Len(r) > 0
      PROVE  /\ Bigrams(r) \in Seq(Pairs) /\ Len(Bigrams(r)) = Len(r) - 1
             /\ \A i \in 1 .. Len(r) - 1 : Bigrams(r)[i] = <<r[i], r[i + 1]>>
  <2>1. \A i \in 1 .. Len(r) - 1 : <<r[i], r[i + 1]>> \in Pairs
    BY <1>1 DEF Pairs
  <2>2. Len(r) - 1 \in Nat
    BY <1>1
  <2>3. QED
    BY <2>1, <2>2 DEF Bigrams
<1>2. /\ Append(q, x) \in Seq(Types) /\ Len(Append(q, x)) = Len(q) + 1 /\ Len(q) \in Nat
      /\ \A i \in 1 .. Len(q) : Append(q, x)[i] = q[i]
      /\ Append(q, x)[Len(q) + 1] = x
  BY AppendElements
<1>3. CASE q = <<>>
  <2>1. Len(q) = 0 /\ Len(Append(q, x)) = 1
    BY <1>2, <1>3
  <2>2. 1 .. (Len(q) - 1) = {} /\ 1 .. (Len(Append(q, x)) - 1) = {}
    BY <2>1
  <2>3. Bigrams(q) = <<>> /\ Bigrams(Append(q, x)) = <<>>
    BY <2>2 DEF Bigrams
  <2>4. <<>> \in Seq(Pairs)
    OBVIOUS
  <2>5. QED
    BY <1>3, <2>3, <2>4
<1>4. CASE q # <<>>
  <2> DEFINE k == Len(q)
             u == Bigrams(Append(q, x))
             b == Bigrams(q)
             v == Append(b, <<q[k], x>>)
  <2>1. k \in Nat /\ k > 0
    BY <1>4
  <2>2. /\ u \in Seq(Pairs) /\ Len(u) = k
        /\ \A i \in 1 .. k : u[i] = <<Append(q, x)[i], Append(q, x)[i + 1]>>
    <3>1. Len(Append(q, x)) > 0 /\ Len(Append(q, x)) - 1 = k
      BY <1>2, <2>1
    <3>2. QED
      BY <1>1, <1>2, <3>1
  <2>3. /\ b \in Seq(Pairs) /\ Len(b) = k - 1
        /\ \A i \in 1 .. k - 1 : b[i] = <<q[i], q[i + 1]>>
    BY <1>1, <2>1
  <2>4. q[k] \in Types
    BY <2>1
  <2>5. /\ v \in Seq(Pairs) /\ Len(v) = k
        /\ \A i \in 1 .. k - 1 : v[i] = b[i]
        /\ v[k] = <<q[k], x>>
    <3>1. <<q[k], x>> \in Pairs
      BY <2>4 DEF Pairs
    <3> HIDE DEF b, k
    <3>2. (k - 1) + 1 = k
      BY <2>1
    <3>3. /\ v \in Seq(Pairs) /\ Len(v) = Len(b) + 1
          /\ \A i \in 1 .. Len(b) : v[i] = b[i]
          /\ v[Len(b) + 1] = <<q[k], x>>
      BY <2>3, <3>1, AppendElements
    <3>4. QED
      BY <2>3, <3>2, <3>3
  <2>6. ASSUME NEW i \in 1 .. k PROVE u[i] = v[i]
    <3>1. CASE i = k
      BY <1>2, <2>1, <2>2, <2>5, <3>1
    <3>2. CASE i # k
      <4>1. i \in 1 .. k - 1 /\ i + 1 \in 1 .. k
        BY <2>1, <3>2
      <4>2. QED
        BY <1>2, <2>2, <2>3, <2>5, <4>1
    <3>3. QED
      BY <3>1, <3>2
  <2>7. u = v
    <3> HIDE DEF u, v
    <3>1. QED
      BY <2>2, <2>5, <2>6
  <2>8. QED
    BY <1>4, <2>3, <2>7
<1>5. QED
  BY <1>3, <1>4

\* Windows, one process at a time.
WindowsOf(p) ==
  LET ts == TypesOf(trace[p]) IN
  /\ window[p] = LastOf(trace[p], WinSize)
  /\ entWin[p] = LastOf(ts, EntWin)
  /\ transWin[p] = LastOf(Bigrams(ts), EntWin)
  /\ prevSc[p] = IF ts = <<>> THEN NoType ELSE ts[Len(ts)]
  /\ (lastSeen[p] = 0) = (ts = <<>>)

StatsOf(p) == Counts(hist[p], entWin[p], Types) /\ Counts(transHist[p], transWin[p], Pairs)

Ghosts == trace \in [Pids -> Seq(Events)] /\ reported \subseteq Pids

DetInv ==
  /\ TypeOK /\ Ghosts
  /\ \A p \in Pids : WindowsOf(p) /\ StatsOf(p)

LEMMA After ==
  ASSUME DetInv, NEW e \in Events
  PROVE  LET p == e.pid
             q == Append(trace[p], e)
             ts == TypesOf(q) IN
         /\ p \in Pids /\ q \in Seq(Events) /\ ts # <<>> /\ ts[Len(ts)] = e.sc
         /\ Slide(window[p], e, WinSize) = LastOf(q, WinSize)
         /\ Slide(window[p], e, WinSize) \in Seq(Events)
         /\ EntWinAfter(e) = LastOf(ts, EntWin) /\ EntWinAfter(e) \in Seq(Types)
         /\ TransWinAfter(e) = LastOf(Bigrams(ts), EntWin)
         /\ TransWinAfter(e) \in Seq(Pairs)
         /\ Counts(HistAfter(e), EntWinAfter(e), Types)
         /\ Counts(TransHistAfter(e), TransWinAfter(e), Pairs)
<1> DEFINE p == e.pid
           q == Append(trace[p], e)
           old == TypesOf(trace[p])
           ts == TypesOf(q)
<1>1. p \in Pids /\ e.sc \in Types /\ WinSize \in Nat \ {0} /\ EntWin \in Nat \ {0}
      /\ NoType \notin Types
  BY DetectorAssumption DEF Event
<1>2. trace[p] \in Seq(Events) /\ WindowsOf(p) /\ StatsOf(p)
  BY <1>1 DEF DetInv, Ghosts
<1>3. /\ q \in Seq(Events) /\ old \in Seq(Types) /\ ts = Append(old, e.sc)
      /\ old = <<>> <=> trace[p] = <<>>
  BY <1>2, TypesAppend
<1> HIDE DEF old
<1>4. ts \in Seq(Types) /\ ts # <<>> /\ ts[Len(ts)] = e.sc
  <2>1. ts \in Seq(Types) /\ Len(ts) = Len(old) + 1 /\ ts[Len(old) + 1] = e.sc
        /\ Len(old) \in Nat
    BY <1>1, <1>3, AppendElements
  <2>2. QED
    BY <2>1
<1>5. /\ Slide(window[p], e, WinSize) = LastOf(q, WinSize)
      /\ LastOf(q, WinSize) \in Seq(Events)
  <2>1. window[p] = LastOf(trace[p], WinSize)
    BY <1>2 DEF WindowsOf
  <2>2. LastOf(q, WinSize) = Slide(LastOf(trace[p], WinSize), e, WinSize)
    BY <1>1, <1>2, LastSlides
  <2>3. LastOf(q, WinSize) \in Seq(Events)
    BY <1>1, <1>3, LastType
  <2>4. QED
    BY <2>1, <2>2, <2>3
<1>6. EntWinAfter(e) = LastOf(ts, EntWin) /\ EntWinAfter(e) \in Seq(Types)
  <2>1. entWin[p] = LastOf(old, EntWin)
    BY <1>2 DEF WindowsOf, old
  <2>2. LastOf(Append(old, e.sc), EntWin) = Slide(LastOf(old, EntWin), e.sc, EntWin)
    BY <1>1, <1>3, LastSlides
  <2>3. EntWinAfter(e) = LastOf(ts, EntWin)
    BY <1>3, <2>1, <2>2 DEF EntWinAfter
  <2>4. QED
    BY <1>1, <1>4, <2>3, LastType
<1>7. Counts(HistAfter(e), EntWinAfter(e), Types)
  <2>1. entWin[p] \in Seq(Types) /\ Counts(hist[p], entWin[p], Types)
    BY <1>1, <1>2 DEF StatsOf, DetInv, TypeOK
  <2>2. QED
    BY <1>1, <2>1, RecountCounts DEF HistAfter, EntWinAfter
<1>8. /\ transWin[p] = LastOf(Bigrams(old), EntWin) /\ transWin[p] \in Seq(Pairs)
      /\ Counts(transHist[p], transWin[p], Pairs)
      /\ Bigrams(old) \in Seq(Pairs)
  BY <1>1, <1>2, <1>3, BigramsAppend DEF WindowsOf, old, StatsOf, DetInv, TypeOK
<1>9. CASE old = <<>>
  <2>1. Trans(e) = {}
    BY <1>2, <1>9 DEF WindowsOf, old, Trans
  <2>2. Bigrams(old) = <<>> /\ Bigrams(ts) = <<>>
    <3>1. Bigrams(old) = <<>> /\ Bigrams(Append(old, e.sc)) = <<>>
      BY <1>1, <1>3, <1>9, BigramsAppend
    <3>2. QED
      BY <1>3, <3>1
  <2>3. TransWinAfter(e) = transWin[p] /\ TransHistAfter(e) = transHist[p]
    BY <2>1 DEF TransWinAfter, TransHistAfter
  <2>4. QED
    BY <1>1, <1>3, <1>4, <1>5, <1>6, <1>7, <1>8, <2>2, <2>3
<1>10. CASE old # <<>>
  <2> DEFINE x == <<prevSc[p], e.sc>>
  <2>1. prevSc[p] = old[Len(old)] /\ old[Len(old)] \in Types
    BY <1>2, <1>3, <1>10 DEF WindowsOf, old
  <2>2. Trans(e) # {} /\ x \in Pairs
    BY <1>1, <2>1 DEF Trans, Pairs
  <2>3. Bigrams(ts) = Append(Bigrams(old), x)
    BY <1>1, <1>3, <1>10, <2>1, BigramsAppend
  <2>4. /\ TransWinAfter(e) = Slide(transWin[p], x, EntWin)
        /\ TransHistAfter(e) = Recount(transHist[p], transWin[p], x, EntWin)
    BY <2>2 DEF TransWinAfter, TransHistAfter
  <2>5. TransWinAfter(e) = LastOf(Bigrams(ts), EntWin)
    BY <1>1, <1>8, <2>2, <2>3, <2>4, LastSlides
  <2>6. TransWinAfter(e) \in Seq(Pairs)
    <3>1. Bigrams(ts) \in Seq(Pairs)
      BY <1>8, <2>2, <2>3
    <3>2. QED
      BY <1>1, <2>5, <3>1, LastType
  <2>7. Counts(TransHistAfter(e), TransWinAfter(e), Pairs)
    BY <1>1, <1>8, <2>2, <2>4, RecountCounts
  <2>8. QED
    BY <1>1, <1>3, <1>4, <1>5, <1>6, <1>7, <2>5, <2>6, <2>7
<1>11. QED
  BY <1>9, <1>10

-----------------------------------------------------------------------------
(* The invariant.                                                           *)

LEMMA KeptType ==
  ASSUME NEW T, NEW f \in [Pids -> T], NEW p \in Pids, NEW v \in T, NEW dead,
         NEW none \in T
  PROVE  Kept(f, p, v, dead, none) \in [Pids -> T]
  BY DEF Kept

LEMMA Empties ==
  /\ LastOf(<<>>, WinSize) = <<>> /\ LastOf(<<>>, EntWin) = <<>>
  /\ TypesOf(<<>>) = <<>> /\ Bigrams(<<>>) = <<>>
  /\ Counts([t \in Types |-> 0], <<>>, Types)
  /\ Counts([b \in Pairs |-> 0], <<>>, Pairs)
<1>1. WinSize \in Nat /\ EntWin \in Nat
  BY DetectorAssumption
<1>2. LastOf(<<>>, WinSize) = <<>> /\ LastOf(<<>>, EntWin) = <<>>
  BY <1>1 DEF LastOf
<1>3. TypesOf(<<>>) = <<>> /\ Bigrams(<<>>) = <<>>
  <2>1. DOMAIN <<>> = {} /\ 1 .. (Len(<<>>) - 1) = {}
    OBVIOUS
  <2>2. QED
    BY <2>1 DEF TypesOf, Bigrams
<1>4. ASSUME NEW y PROVE Count(<<>>, y) = 0
  <2>1. Where(<<>>, y) = {}
    BY DEF Where
  <2>2. QED
    BY <2>1, CountWhere, FS_EmptySet
<1>5. QED
  BY <1>2, <1>3, <1>4 DEF Counts

LEMMA DetInit == Init => DetInv
<1> SUFFICES ASSUME Init PROVE DetInv
  OBVIOUS
<1>1. TypeOK /\ Ghosts
  BY DetectorAssumption DEF Init, TypeOK, Ghosts
<1>2. ASSUME NEW p \in Pids PROVE WindowsOf(p) /\ StatsOf(p)
  <2>1. /\ trace[p] = <<>> /\ window[p] = <<>> /\ entWin[p] = <<>>
        /\ transWin[p] = <<>> /\ prevSc[p] = NoType /\ lastSeen[p] = 0
        /\ hist[p] = [t \in Types |-> 0] /\ transHist[p] = [b \in Pairs |-> 0]
    BY DEF Init
  <2>2. WindowsOf(p)
    BY <2>1, Empties DEF WindowsOf
  <2>3. StatsOf(p)
    BY <2>1, Empties DEF StatsOf
  <2>4. QED
    BY <2>2, <2>3
<1>3. QED
  BY <1>1, <1>2 DEF DetInv

LEMMA HandleInv ==
  ASSUME DetInv, NEW e \in Events, Handle(e)
  PROVE  DetInv'
<1> DEFINE p == e.pid
           n == events + 1
           dead == Silent([lastSeen EXCEPT ![p] = n], n)
           q == Append(trace[p], e)
<1>1. /\ p \in Pids /\ e.ppid \in Pids \cup {NoPid} /\ e.sc \in Types /\ e.comm \in Comms
      /\ n \in 0 .. MaxEvents /\ n # 0 /\ NoType \notin Types
  BY DetectorAssumption DEF Event, Handle, DetInv, TypeOK
<1>2. /\ q \in Seq(Events)
      /\ Slide(window[p], e, WinSize) \in Seq(Events)
      /\ EntWinAfter(e) \in Seq(Types) /\ TransWinAfter(e) \in Seq(Pairs)
      /\ HistAfter(e) \in [Types -> Nat] /\ TransHistAfter(e) \in [Pairs -> Nat]
  BY After DEF Counts
<1>3. /\ ppidMap' = Kept(ppidMap, p, PpidAfter(e), dead, NoPid)
      /\ lastSeen' = Kept(lastSeen, p, n, dead, 0)
      /\ window' = Kept(window, p, Slide(window[p], e, WinSize), dead, <<>>)
      /\ entWin' = Kept(entWin, p, EntWinAfter(e), dead, <<>>)
      /\ hist' = Kept(hist, p, HistAfter(e), dead, [t \in Types |-> 0])
      /\ transWin' = Kept(transWin, p, TransWinAfter(e), dead, <<>>)
      /\ transHist' = Kept(transHist, p, TransHistAfter(e), dead, [b \in Pairs |-> 0])
      /\ prevSc' = Kept(prevSc, p, e.sc, dead, NoType)
      /\ trace' = Kept(trace, p, q, dead, <<>>)
  BY DEF Handle
<1> HIDE DEF dead, q, p
<1>4. /\ ppidMap' \in [Pids -> Pids \cup {NoPid}]
      /\ lastSeen' \in [Pids -> 0 .. MaxEvents]
      /\ prevSc' \in [Pids -> Types \cup {NoType}]
  <2>1. PpidAfter(e) \in Pids \cup {NoPid}
    BY <1>1 DEF PpidAfter, DetInv, TypeOK, p
  <2>2. 0 \in 0 .. MaxEvents
    BY DetectorAssumption
  <2>3. QED
    BY <1>1, <1>3, <2>1, <2>2, KeptType DEF DetInv, TypeOK
<1>5. /\ window' \in [Pids -> Seq(Events)] /\ trace' \in [Pids -> Seq(Events)]
      /\ entWin' \in [Pids -> Seq(Types)] /\ transWin' \in [Pids -> Seq(Pairs)]
  <2>1. <<>> \in Seq(Events) /\ <<>> \in Seq(Types) /\ <<>> \in Seq(Pairs)
    OBVIOUS
  <2>2. QED
    BY <1>1, <1>2, <1>3, <2>1, KeptType DEF DetInv, TypeOK, Ghosts
<1>6. /\ hist' \in [Pids -> [Types -> Nat]] /\ transHist' \in [Pids -> [Pairs -> Nat]]
  <2>1. [t \in Types |-> 0] \in [Types -> Nat] /\ [b \in Pairs |-> 0] \in [Pairs -> Nat]
    OBVIOUS
  <2>2. QED
    BY <1>1, <1>2, <1>3, <2>1, KeptType DEF DetInv, TypeOK
<1>7. seenEdges' \subseteq Comms \X Types /\ seenTrans' \subseteq Comms \X Types \X Types
  <2>1. Edge(e) \subseteq Comms \X Types
    BY <1>1 DEF Edge
  <2>2. Trans(e) \subseteq Pairs
    BY <1>1 DEF Trans, Pairs, DetInv, TypeOK, p
  <2>3. TransKeys(e) \subseteq Comms \X Types \X Types
    BY <1>1, <2>2 DEF TransKeys, Pairs
  <2>4. QED
    BY <2>1, <2>3 DEF Handle, DetInv, TypeOK
<1>8. /\ events' \in 0 .. MaxEvents /\ flagged' \subseteq Pids /\ reported' \subseteq Pids
  BY <1>1 DEF Handle, DetInv, TypeOK, Ghosts, p
<1>9. ASSUME NEW r \in Pids PROVE (WindowsOf(r) /\ StatsOf(r))'
  <2>1. CASE r \in dead
    <3>1. /\ window'[r] = <<>> /\ entWin'[r] = <<>> /\ transWin'[r] = <<>>
          /\ trace'[r] = <<>> /\ prevSc'[r] = NoType /\ lastSeen'[r] = 0
          /\ hist'[r] = [t \in Types |-> 0] /\ transHist'[r] = [b \in Pairs |-> 0]
      BY <1>3, <2>1 DEF Kept
    <3>2. WindowsOf(r)'
      BY <3>1, Empties DEF WindowsOf
    <3>3. StatsOf(r)'
      BY <3>1, Empties DEF StatsOf
    <3>4. QED
      BY <3>2, <3>3
  <2>2. CASE r \notin dead /\ r = p
    <3>1. /\ window'[r] = Slide(window[p], e, WinSize) /\ entWin'[r] = EntWinAfter(e)
          /\ transWin'[r] = TransWinAfter(e) /\ trace'[r] = q /\ prevSc'[r] = e.sc
          /\ lastSeen'[r] = n /\ hist'[r] = HistAfter(e)
          /\ transHist'[r] = TransHistAfter(e)
      BY <1>1, <1>3, <2>2 DEF Kept
    <3>2. /\ TypesOf(q) # <<>> /\ TypesOf(q)[Len(TypesOf(q))] = e.sc
          /\ Slide(window[p], e, WinSize) = LastOf(q, WinSize)
          /\ EntWinAfter(e) = LastOf(TypesOf(q), EntWin)
          /\ TransWinAfter(e) = LastOf(Bigrams(TypesOf(q)), EntWin)
          /\ Counts(HistAfter(e), EntWinAfter(e), Types)
          /\ Counts(TransHistAfter(e), TransWinAfter(e), Pairs)
      BY After DEF p, q
    <3>3. WindowsOf(r)'
      BY <1>1, <3>1, <3>2 DEF WindowsOf
    <3>4. StatsOf(r)'
      BY <3>1, <3>2 DEF StatsOf
    <3>5. QED
      BY <3>3, <3>4
  <2>3. CASE r \notin dead /\ r # p
    <3>1. /\ window'[r] = window[r] /\ entWin'[r] = entWin[r]
          /\ transWin'[r] = transWin[r] /\ trace'[r] = trace[r]
          /\ prevSc'[r] = prevSc[r] /\ lastSeen'[r] = lastSeen[r]
          /\ hist'[r] = hist[r] /\ transHist'[r] = transHist[r]
      BY <1>3, <2>3 DEF Kept
    <3>2. WindowsOf(r) /\ StatsOf(r)
      BY DEF DetInv
    <3>3. QED
      BY <3>1, <3>2 DEF WindowsOf, StatsOf
  <2>4. QED
    BY <2>1, <2>2, <2>3
<1>10. QED
  BY <1>4, <1>5, <1>6, <1>7, <1>8, <1>9 DEF DetInv, TypeOK, Ghosts

LEMMA DetStep == DetInv /\ [Next]_vars => DetInv'
<1>1. ASSUME DetInv, UNCHANGED <<events, windows, seen, ghosts>>, flagged' \subseteq Pids
      PROVE  DetInv'
  BY <1>1 DEF DetInv, TypeOK, Ghosts, WindowsOf, StatsOf, windows, seen, ghosts
<1>2. ASSUME DetInv, NEW p \in Pids, FlagPid(p) \/ Expire(p) PROVE DetInv'
  <2>1. UNCHANGED <<events, windows, seen, ghosts>> /\ flagged' \subseteq Pids
    BY <1>2 DEF FlagPid, Expire, DetInv, TypeOK
  <2>2. QED
    BY <1>1, <1>2, <2>1
<1>3. ASSUME DetInv, UNCHANGED vars PROVE DetInv'
  <2>1. UNCHANGED <<events, windows, seen, ghosts>> /\ flagged' \subseteq Pids
    BY <1>3 DEF vars, DetInv, TypeOK
  <2>2. QED
    BY <1>1, <1>3, <2>1
<1>4. QED
  BY <1>2, <1>3, HandleInv DEF Next

LEMMA DetInvariant == Spec => []DetInv
  BY DetInit, DetStep, PTL DEF Spec

\* No count of a histogram ever becomes negative, and all tables keep their
\* types through eviction (detector.py:265-304, 308-329).
THEOREM TypeCorrect == Spec => []TypeOK
<1>1. DetInv => TypeOK
  BY DEF DetInv
<1>2. QED
  BY <1>1, DetInvariant, PTL

\* The statistics and windows the detector updates event by event are those of
\* each process's own events since it was last forgotten (detector.py:121-142,
\* 265-304), for windows of any size.
THEOREM Faithful == Spec => []StateFaithful
<1>1. DetInv => StateFaithful
  BY DEF DetInv, WindowsOf, StatsOf, Counts, StateFaithful, Statistics, Windows
<1>2. QED
  BY <1>1, DetInvariant, PTL
=============================================================================
