------------------------ MODULE TraceWindows_proofs ------------------------
(***************************************************************************)
(* Proofs about TraceWindows, for all files, window sizes and depths.      *)
(*                                                                         *)
(* StreamFaithful needs what the tables of the first pass hold (Known);    *)
(* ChainFaithful needs what the walk up the parents reaches, and that the  *)
(* windows that are labelled and sampled are raw windows, labelled when    *)
(* neither raw nor ppids can change any more.                              *)
(***************************************************************************)
EXTENDS TraceWindows, FiniteSetTheorems, SequenceTheorems, WellFoundedInduction, TLAPS

-----------------------------------------------------------------------------
(* Sequences of sequences.  FlattenSeq is a recursive function over the      *)
(* positions; that it satisfies its equation, and what it contains, follow   *)
(* by taking the first position where they would not.                        *)

LEMMA NatMinimum ==
  ASSUME NEW T \in SUBSET Nat, T # {}
  PROVE  \E n \in T : \A m \in T : n <= m
<1>1. PICK n \in T : \A m \in T : ~(<<m, n>> \in OpToRel(<, Nat))
  BY NatLessThanWellFounded, WFMin
<1>2. ASSUME NEW m \in T PROVE n <= m
  <2>1. m \in Nat /\ n \in Nat /\ ~(m < n)
    BY <1>1 DEF OpToRel
  <2>2. QED
    BY <2>1
<1>3. QED
  BY <1>2

\* the body of FlattenSeq, for the first n sequences
FlatStep(q, f, i) == IF i = 1 THEN q[i] ELSE f[i - 1] \o q[i]

FlatEquation(q, f, n) == f = [i \in 1 .. n |-> FlatStep(q, f, i)]

LEMMA FlatExists ==
  ASSUME NEW q, NEW n \in Nat
  PROVE  \E f : FlatEquation(q, f, n)
<1> DEFINE Fails == {k \in Nat : ~ \E f : FlatEquation(q, f, k)}
<1>1. ASSUME NEW k \in Fails, \A m \in Fails : k <= m
      PROVE  FALSE
  <2>1. CASE k = 0
    <3>1. FlatEquation(q, [i \in 1 .. 0 |-> 0], 0)
      BY DEF FlatEquation
    <3>2. QED
      BY <2>1, <3>1
  <2>2. CASE k # 0
    <3>1. k - 1 \in Nat /\ k - 1 \notin Fails
      BY <1>1, <2>2
    <3>2. PICK f : FlatEquation(q, f, k - 1)
      BY <3>1
    <3> DEFINE h == [i \in 1 .. k |-> FlatStep(q, f, i)]
    <3>3. \A i \in 1 .. k - 1 : h[i] = f[i]
      BY <3>1, <3>2 DEF FlatEquation
    <3>4. \A i \in 1 .. k : FlatStep(q, h, i) = FlatStep(q, f, i)
      <4>1. \A i \in 1 .. k : i # 1 => h[i - 1] = f[i - 1]
        BY <3>1, <3>3
      <4> HIDE DEF h
      <4>2. QED
        BY <4>1, Zenon DEF FlatStep
    <3>5. h = [i \in 1 .. k |-> FlatStep(q, h, i)]
      BY <3>4
    <3> HIDE DEF h
    <3>6. FlatEquation(q, h, k)
      BY <3>5 DEF FlatEquation
    <3>7. QED
      BY <3>6
  <2>3. QED
    BY <2>1, <2>2
<1>2. Fails = {}
  BY <1>1, NatMinimum
<1>3. QED
  BY <1>2

Agree(q, r, n) == \A i \in 1 .. n : q[i] = r[i]

\* Two such functions agree as far as their sequences do.
LEMMA FlatAgrees ==
  ASSUME NEW q, NEW r, NEW m \in Nat, NEW n \in Nat, n <= m,
         NEW f, FlatEquation(q, f, m),
         NEW g, FlatEquation(r, g, n),
         Agree(q, r, n)
  PROVE  Agree(f, g, n)
<1> DEFINE Fails == {i \in 1 .. n : f[i] # g[i]}
<1>1. ASSUME NEW k \in Fails, \A i \in Fails : k <= i
      PROVE  FALSE
  <2>1. k \in 1 .. n /\ k \in 1 .. m /\ f[k] # g[k] /\ q[k] = r[k]
    BY DEF Agree
  <2>2. f[k] = FlatStep(q, f, k) /\ g[k] = FlatStep(r, g, k)
    BY <2>1 DEF FlatEquation
  <2>3. k # 1 => k - 1 \in 1 .. n /\ k - 1 \notin Fails
    BY <1>1, <2>1
  <2>4. k # 1 => f[k - 1] = g[k - 1]
    BY <2>3
  <2>5. QED
    BY <2>1, <2>2, <2>4 DEF FlatStep
<1>2. Fails \in SUBSET Nat
  OBVIOUS
<1>3. Fails = {}
  BY <1>1, <1>2, NatMinimum
<1>4. QED
  BY <1>3 DEF Agree

LEMMA FlattenValue ==
  ASSUME NEW q, Len(q) \in Nat \ {0}
  PROVE  \E f : FlatEquation(q, f, Len(q)) /\ FlattenSeq(q) = f[Len(q)]
<1> DEFINE flat == CHOOSE f : FlatEquation(q, f, Len(q))
<1>1. FlatEquation(q, flat, Len(q))
  BY FlatExists
<1>2. FlattenSeq(q) = flat[Len(q)]
  BY DEF FlattenSeq, FlatEquation, FlatStep
<1>3. QED
  BY <1>1, <1>2

LEMMA FlattenEmpty == FlattenSeq(<<>>) = <<>>
BY DEF FlattenSeq

LEMMA FlattenType ==
  ASSUME NEW E, NEW q \in Seq(Seq(E))
  PROVE  FlattenSeq(q) \in Seq(E)
<1>1. CASE Len(q) = 0
  <2>1. q = <<>>
    BY <1>1, EmptySeq
  <2>2. <<>> \in Seq(E)
    OBVIOUS
  <2>3. QED
    BY <2>1, <2>2, FlattenEmpty
<1>2. CASE Len(q) # 0
  <2>1. Len(q) \in Nat \ {0}
    BY <1>2
  <2>2. PICK f : FlatEquation(q, f, Len(q)) /\ FlattenSeq(q) = f[Len(q)]
    BY <2>1, FlattenValue
  <2> DEFINE Fails == {k \in 1 .. Len(q) : f[k] \notin Seq(E)}
  <2>3. ASSUME NEW k \in Fails, \A i \in Fails : k <= i
        PROVE  FALSE
    <3>1. k \in 1 .. Len(q) /\ q[k] \in Seq(E) /\ f[k] = FlatStep(q, f, k)
      <4>1. k \in 1 .. Len(q)
        OBVIOUS
      <4>2. q[k] \in Seq(E)
        BY <4>1, ElementOfSeq
      <4>3. QED
        BY <2>2, <4>1, <4>2, Zenon DEF FlatEquation
    <3>2. k # 1 => k - 1 \in 1 .. Len(q) /\ k - 1 \notin Fails
      BY <2>3, <3>1
    <3>3. k # 1 => f[k - 1] \in Seq(E)
      BY <3>2
    <3>4. f[k] \in Seq(E)
      BY <3>1, <3>3 DEF FlatStep
    <3>5. QED
      BY <3>4
  <2>4. Fails \in SUBSET Nat
    OBVIOUS
  <2>5. Fails = {}
    BY <2>3, <2>4, NatMinimum
  <2>6. QED
    BY <2>1, <2>2, <2>5
<1>3. QED
  BY <1>1, <1>2

LEMMA FlattenAppend ==
  ASSUME NEW E, NEW q \in Seq(Seq(E)), NEW s \in Seq(E)
  PROVE  FlattenSeq(Append(q, s)) = FlattenSeq(q) \o s
<1> DEFINE r == Append(q, s)
<1>1. /\ r \in Seq(Seq(E)) /\ Len(r) = Len(q) + 1 /\ Len(q) \in Nat
      /\ r[Len(q) + 1] = s
      /\ \A i \in 1 .. Len(q) : r[i] = q[i]
  OBVIOUS
<1> HIDE DEF r
<1>2. PICK g : FlatEquation(r, g, Len(r)) /\ FlattenSeq(r) = g[Len(r)]
  <2>1. Len(r) \in Nat \ {0}
    BY <1>1
  <2>2. QED
    BY <2>1, FlattenValue, Zenon
<1>3. g[Len(r)] = FlatStep(r, g, Len(r))
  <2>1. Len(r) \in 1 .. Len(r)
    BY <1>1
  <2>2. QED
    BY <1>2, <2>1, Zenon DEF FlatEquation
<1>4. CASE Len(q) = 0
  <2>1. FlattenSeq(r) = s
    BY <1>1, <1>2, <1>3, <1>4 DEF FlatStep
  <2>2. q = <<>> /\ <<>> \o s = s
    BY <1>4
  <2>3. QED
    BY <2>1, <2>2, FlattenEmpty DEF r
<1>5. CASE Len(q) # 0
  <2>1. PICK f : FlatEquation(q, f, Len(q)) /\ FlattenSeq(q) = f[Len(q)]
    BY <1>1, <1>5, FlattenValue
  <2>2. Len(r) \in Nat /\ Len(q) <= Len(r)
    BY <1>1
  <2>3. \A i \in 1 .. Len(q) : g[i] = f[i]
    <3>1. Agree(r, q, Len(q))
      BY <1>1 DEF Agree
    <3>2. FlatEquation(r, g, Len(r)) /\ FlatEquation(q, f, Len(q)) /\ Len(q) \in Nat
      BY <1>1, <1>2, <2>1
    <3>3. Agree(g, f, Len(q))
      BY <2>2, <3>1, <3>2, FlatAgrees
    <3>4. QED
      BY <3>3 DEF Agree
  <2>4. g[Len(q)] = FlattenSeq(q)
    BY <1>1, <1>5, <2>1, <2>3
  <2>5. Len(r) # 1 /\ Len(r) - 1 = Len(q)
    BY <1>1, <1>5
  <2>6. FlattenSeq(r) = g[Len(q)] \o s
    BY <1>1, <1>2, <1>3, <2>5 DEF FlatStep
  <2>7. QED
    BY <2>4, <2>6 DEF r
<1>6. QED
  BY <1>4, <1>5

\* x is an element of s
Element(x, s) == \E k \in 1 .. Len(s) : s[k] = x

LEMMA ElementOfConcat ==
  ASSUME NEW E, NEW s \in Seq(E), NEW t \in Seq(E), NEW x
  PROVE  Element(x, s \o t) <=> Element(x, s) \/ Element(x, t)
<1>1. ASSUME NEW k \in 1 .. Len(s \o t), (s \o t)[k] = x
      PROVE  Element(x, s) \/ Element(x, t)
  <2>1. CASE k \in 1 .. Len(s)
    BY <1>1, <2>1 DEF Element
  <2>2. CASE k \notin 1 .. Len(s)
    <3>1. k - Len(s) \in 1 .. Len(t) /\ t[k - Len(s)] = x
      BY <1>1, <2>2
    <3>2. QED
      BY <3>1 DEF Element
  <2>3. QED
    BY <2>1, <2>2
<1>2. ASSUME NEW k \in 1 .. Len(s), s[k] = x
      PROVE  Element(x, s \o t)
  <2>1. k \in 1 .. Len(s \o t) /\ (s \o t)[k] = x
    BY <1>2
  <2>2. QED
    BY <2>1 DEF Element
<1>3. ASSUME NEW k \in 1 .. Len(t), t[k] = x
      PROVE  Element(x, s \o t)
  <2>1. Len(s) + k \in 1 .. Len(s \o t) /\ (s \o t)[Len(s) + k] = x
    BY <1>3
  <2>2. QED
    BY <2>1 DEF Element
<1>4. QED
  BY <1>1, <1>2, <1>3 DEF Element

\* What is flattened has the elements of the parts.
LEMMA FlattenElements ==
  ASSUME NEW E, NEW q \in Seq(Seq(E)), NEW x
  PROVE  Element(x, FlattenSeq(q)) <=> \E i \in 1 .. Len(q) : Element(x, q[i])
<1>1. CASE Len(q) = 0
  BY <1>1, FlattenEmpty DEF Element
<1>2. CASE Len(q) # 0
  <2>1. Len(q) \in Nat \ {0}
    BY <1>2
  <2>2. PICK f : FlatEquation(q, f, Len(q)) /\ FlattenSeq(q) = f[Len(q)]
    BY <2>1, FlattenValue
  <2> DEFINE Good(k) == /\ f[k] \in Seq(E)
                        /\ Element(x, f[k]) <=> \E i \in 1 .. k : Element(x, q[i])
             Fails == {k \in 1 .. Len(q) : ~Good(k)}
  <2>3. ASSUME NEW k \in Fails, \A i \in Fails : k <= i
        PROVE  FALSE
    <3>1. k \in 1 .. Len(q) /\ q[k] \in Seq(E) /\ f[k] = FlatStep(q, f, k)
      <4>1. k \in 1 .. Len(q)
        OBVIOUS
      <4>2. q[k] \in Seq(E)
        BY <4>1, ElementOfSeq
      <4>3. QED
        BY <2>2, <4>1, <4>2, Zenon DEF FlatEquation
    <3>2. CASE k = 1
      <4>1. f[k] = q[1]
        BY <3>1, <3>2 DEF FlatStep
      <4>2. \A i \in 1 .. k : i = 1
        BY <3>2
      <4>3. QED
        BY <3>1, <3>2, <4>1, <4>2
    <3>3. CASE k # 1
      <4>1. k - 1 \in 1 .. Len(q) /\ k - 1 \notin Fails
        BY <2>3, <3>1, <3>3
      <4>2. Good(k - 1)
        BY <4>1
      <4>3. f[k] = f[k - 1] \o q[k]
        BY <3>1, <3>3 DEF FlatStep
      <4>4. Element(x, f[k]) <=> Element(x, f[k - 1]) \/ Element(x, q[k])
        BY <3>1, <4>2, <4>3, ElementOfConcat
      <4>5. \A i : i \in 1 .. k <=> i \in 1 .. k - 1 \/ i = k
        BY <3>1, <3>3
      <4>6. Element(x, f[k]) <=> \E i \in 1 .. k : Element(x, q[i])
        BY <4>2, <4>4, <4>5
      <4>7. f[k] \in Seq(E)
        BY <3>1, <4>2, <4>3
      <4>8. QED
        BY <4>6, <4>7
    <3>4. QED
      BY <3>2, <3>3
  <2>4. Fails \in SUBSET Nat
    OBVIOUS
  <2>5. Fails = {}
    BY <2>3, <2>4, NatMinimum
  <2>6. Good(Len(q))
    <3>1. Len(q) \in 1 .. Len(q)
      BY <2>1
    <3> HIDE DEF Good
    <3>2. \A k \in 1 .. Len(q) : Good(k)
      BY <2>5
    <3>3. QED
      BY <3>1, <3>2
  <2>7. QED
    BY <2>2, <2>6
<1>3. QED
  BY <1>1, <1>2

\* Only, for a test that is membership
OnlyIn(s, P) == Only(s, LAMBDA x : x \in P)

Parts(s, P) == [i \in 1 .. Len(s) |-> IF s[i] \in P THEN <<s[i]>> ELSE <<>>]

LEMMA OnlyInParts ==
  ASSUME NEW E, NEW s \in Seq(E), NEW P
  PROVE  /\ OnlyIn(s, P) = FlattenSeq(Parts(s, P))
         /\ Parts(s, P) \in Seq(Seq(E \cap P)) /\ Len(Parts(s, P)) = Len(s)
<1>1. DOMAIN s = 1 .. Len(s) /\ Len(s) \in Nat
  OBVIOUS
<1>2. OnlyIn(s, P) = FlattenSeq(Parts(s, P))
  BY <1>1 DEF OnlyIn, Only, Parts
<1>3. ASSUME NEW i \in 1 .. Len(s)
      PROVE  (IF s[i] \in P THEN <<s[i]>> ELSE <<>>) \in Seq(E \cap P)
  <2>1. s[i] \in E
    BY <1>3
  <2>2. ASSUME s[i] \in P PROVE <<s[i]>> \in Seq(E \cap P)
    BY <2>1, <2>2
  <2>3. <<>> \in Seq(E \cap P)
    OBVIOUS
  <2>4. QED
    BY <2>2, <2>3
<1>4. Parts(s, P) \in [1 .. Len(s) -> Seq(E \cap P)]
  BY <1>3, Zenon DEF Parts
<1> DEFINE T == Seq(E \cap P)
<1> HIDE DEF T
<1>5. Parts(s, P) \in Seq(T) /\ Len(Parts(s, P)) = Len(s)
  BY <1>1, <1>4, IsASeq, LenProperties DEF T
<1>6. QED
  BY <1>2, <1>5 DEF T

\* The filter keeps exactly the elements that pass.
LEMMA OnlyInElements ==
  ASSUME NEW E, NEW s \in Seq(E), NEW P
  PROVE  /\ OnlyIn(s, P) \in Seq(E \cap P)
         /\ \A x : Element(x, OnlyIn(s, P)) <=> Element(x, s) /\ x \in P
<1> DEFINE q == Parts(s, P)
<1>1. OnlyIn(s, P) = FlattenSeq(q) /\ q \in Seq(Seq(E \cap P)) /\ Len(q) = Len(s)
  BY OnlyInParts
<1>2. ASSUME NEW x PROVE Element(x, FlattenSeq(q)) <=> \E i \in 1 .. Len(q) : Element(x, q[i])
  BY <1>1, FlattenElements
<1>3. ASSUME NEW x, NEW i \in 1 .. Len(s)
      PROVE  Element(x, q[i]) <=> s[i] = x /\ x \in P
  <2>1. q[i] = IF s[i] \in P THEN <<s[i]>> ELSE <<>>
    BY DEF Parts
  <2>2. CASE s[i] \in P
    <3>1. q[i] = <<s[i]>>
      BY <2>1, <2>2
    <3>2. Len(<<s[i]>>) = 1 /\ <<s[i]>>[1] = s[i]
      OBVIOUS
    <3>3. QED
      BY <2>2, <3>1, <3>2 DEF Element
  <2>3. CASE s[i] \notin P
    <3>1. q[i] = <<>>
      BY <2>1, <2>3
    <3>2. QED
      BY <2>3, <3>1 DEF Element
  <2>4. QED
    BY <2>2, <2>3
<1> HIDE DEF q
<1>4. \A x : Element(x, FlattenSeq(q)) <=> Element(x, s) /\ x \in P
  <2> TAKE x
  <2>1. Element(x, FlattenSeq(q)) <=> \E i \in 1 .. Len(s) : Element(x, q[i])
    BY <1>1, <1>2
  <2>2. QED
    BY <1>3, <2>1 DEF Element
<1>5. FlattenSeq(q) \in Seq(E \cap P)
  BY <1>1, FlattenType
<1>6. QED
  BY <1>1, <1>4, <1>5

LEMMA OnlyInNone ==
  ASSUME NEW P
  PROVE  OnlyIn(<<>>, P) = <<>>
<1>1. <<>> \in Seq({}) /\ Len(<<>>) = 0
  OBVIOUS
<1>2. OnlyIn(<<>>, P) = FlattenSeq(Parts(<<>>, P))
  BY <1>1, OnlyInParts
<1>3. Parts(<<>>, P) = <<>>
  BY <1>1 DEF Parts
<1>4. QED
  BY <1>2, <1>3, FlattenEmpty

LEMMA OnlyInAppend ==
  ASSUME NEW E, NEW s \in Seq(E), NEW P, NEW x \in E
  PROVE  OnlyIn(Append(s, x), P) =
           IF x \in P THEN Append(OnlyIn(s, P), x) ELSE OnlyIn(s, P)
<1> DEFINE q == Parts(s, P)
           t == Append(s, x)
           d == IF x \in P THEN <<x>> ELSE <<>>
<1>1. OnlyIn(s, P) = FlattenSeq(q) /\ q \in Seq(Seq(E \cap P)) /\ Len(q) = Len(s)
  BY OnlyInParts
<1>2. t \in Seq(E) /\ Len(t) = Len(s) + 1 /\ Len(s) \in Nat
  OBVIOUS
<1>3. OnlyIn(t, P) = FlattenSeq(Parts(t, P)) /\ Parts(t, P) \in Seq(Seq(E \cap P))
  BY <1>2, OnlyInParts
<1>4. d \in Seq(E \cap P)
  <2>1. <<>> \in Seq(E \cap P) /\ (x \in P => <<x>> \in Seq(E \cap P))
    OBVIOUS
  <2>2. QED
    BY <2>1
<1>5. Parts(t, P) = Append(q, d)
  <2> DEFINE T == Seq(E \cap P)
             u == Parts(t, P)
  <2>1. /\ u \in Seq(T) /\ Len(u) = Len(s) + 1
        /\ q \in Seq(T) /\ Len(q) = Len(s) /\ d \in T
    BY <1>1, <1>2, <1>3, <1>4, OnlyInParts
  <2>2. ASSUME NEW i \in 1 .. Len(s) PROVE u[i] = q[i]
    <3>1. t[i] = s[i] /\ i \in 1 .. Len(t)
      BY <1>2
    <3>2. QED
      BY <3>1 DEF Parts
  <2>3. u[Len(s) + 1] = d
    <3>1. t[Len(s) + 1] = x /\ Len(s) + 1 \in 1 .. Len(t)
      BY <1>2
    <3>2. QED
      BY <3>1 DEF Parts
  <2> HIDE DEF T, u, q, d
  <2> DEFINE v == Append(q, d)
  <2>4. /\ v \in Seq(T) /\ Len(v) = Len(s) + 1 /\ v[Len(s) + 1] = d
        /\ \A i \in 1 .. Len(s) : v[i] = q[i]
    BY <2>1, AppendProperties
  <2> HIDE DEF v
  <2>5. \A i \in 1 .. Len(u) : u[i] = v[i]
    <3>1. \A i \in 1 .. Len(u) : i \in 1 .. Len(s) \/ i = Len(s) + 1
      BY <1>2, <2>1
    <3>2. QED
      BY <2>2, <2>3, <2>4, <3>1
  <2>6. u = v
    BY <2>1, <2>4, <2>5, SeqEqual
  <2>7. QED
    BY <2>6 DEF u, v
<1>6. OnlyIn(t, P) = FlattenSeq(q) \o d
  <2> HIDE DEF q, d, t
  <2>1. QED
    BY <1>1, <1>3, <1>4, <1>5, FlattenAppend
<1>7. CASE x \in P
  <2>1. FlattenSeq(q) \in Seq(E \cap P)
    BY <1>1, FlattenType
  <2>2. FlattenSeq(q) \o <<x>> = Append(FlattenSeq(q), x)
    <3> HIDE DEF q
    <3>1. x \in E \cap P
      BY <1>7
    <3>2. QED
      BY <2>1, <3>1, AppendIsConcat
  <2>3. QED
    BY <1>1, <1>6, <1>7, <2>2
<1>8. CASE x \notin P
  <2>1. FlattenSeq(q) \in Seq(E \cap P)
    BY <1>1, FlattenType
  <2>2. FlattenSeq(q) \o <<>> = FlattenSeq(q)
    BY <2>1, ConcatEmptySeq
  <2>3. QED
    BY <1>1, <1>6, <1>8, <2>2
<1>9. QED
  BY <1>7, <1>8

-----------------------------------------------------------------------------
(* The inductive invariant.                                                  *)

Event == [pid : Pids, ppid : Pids, comm : Texts, res : Texts, at : Texts]
SubjectRecord == [pid : Pids, parent : References, comm : Texts]
Window == [pid : Pids, events : Seq(Event)]

TypeInv ==
  /\ file \in Seq(Records)
  /\ pass \in {"entities", "events", "done"} /\ line \in 0 .. Len(file)
  /\ reader \in {"parser", "ingestor"}
  /\ subjects \in [References -> SubjectRecord]
  /\ objects \in [References -> Texts]
  /\ emitted \in Seq(Event)
  /\ window \in Seq(Event) /\ windows \in Seq(Seq(Event))
  /\ buffers \in [Pids -> Seq(Event)] /\ ppids \in [Pids -> Pids]
  /\ raw \in Seq(Window)

\* How much of the file the tables of the first pass have seen.
Upto == IF pass = "entities" THEN line ELSE Len(file)

Describes(i, u, kinds) ==
  /\ file[i].kind \in kinds /\ file[i].uuid = u
  /\ reader = "parser" \/ ~Overlooked(file[i])

IsLast(i, u, kinds, n) ==
  /\ i \in 1 .. n /\ Describes(i, u, kinds)
  /\ \A j \in 1 .. n : Describes(j, u, kinds) => j <= i

SubjectKnown(u, n) ==
  /\ (\A i \in 1 .. n : ~Describes(i, u, {"Subject"})) =>
       subjects[u].pid = 0 /\ subjects[u].parent = NoUuid
  /\ \A i \in 1 .. n : IsLast(i, u, {"Subject"}, n) =>
       /\ subjects[u].pid = file[i].pid
       /\ reader = "parser" => subjects[u].parent = file[i].parent

\* what is recorded of the object that record i describes
ObjectSays(i, u) ==
  IF file[i].kind = "NetFlowObject"
  THEN file[i].remote # "" /\ file[i].rport => objects[u] = file[i].remote
  ELSE file[i].path \notin {"", Null} => objects[u] = file[i].path

ObjectKnown(u, n) ==
  \A i \in 1 .. n : IsLast(i, u, ObjectKinds, n) => ObjectSays(i, u)

\* The tables hold the last description of each identifier so far.
Known == \A u \in References : SubjectKnown(u, Upto) /\ ObjectKnown(u, Upto)

\* The sizes of the pieces.
Sized ==
  /\ \A p \in Pids : Len(buffers[p]) < WindowSize
  /\ \A j \in 1 .. Len(raw) : Len(raw[j].events) = WindowSize

\* What is labelled and sampled are raw windows, with the labels of now.
LabelledRaw == {Labelled(raw[j]) : j \in 1 .. Len(raw)}
Attacks == {w \in LabelledRaw : w.is_attack}
Calm == {w \in LabelledRaw : ~w.is_attack}

Labels ==
  /\ reader = "ingestor" => raw = <<>>
  /\ reader = "ingestor" \/ pass # "done" => attack = <<>> /\ benign = <<>> /\ sample = <<>>
  /\ attack \in Seq(Attacks) /\ benign \in Seq(Calm) /\ sample \in Seq(LabelledRaw)
  /\ Cardinality({i \in DOMAIN sample : sample[i].is_attack}) <= MaxAttack

Inv == TypeInv /\ Known /\ Resolution /\ Cutting /\ Sized /\ Labels

-----------------------------------------------------------------------------
(* Types.                                                                    *)

LEMMA RecordFields ==
  ASSUME NEW r \in Records
  PROVE  /\ r.kind = "Subject" =>
              /\ r.uuid \in Uuids /\ r.pid \in Pids /\ r.parent \in References
              /\ r.name \in Texts \cup {Null} /\ r.cmd \in Texts
         /\ r.kind \in {"FileObject", "PacketSocketObject"} =>
              r.uuid \in Uuids /\ r.path \in Texts \cup {Null}
         /\ r.kind = "NetFlowObject" =>
              /\ r.uuid \in Uuids /\ r.remote \in Texts /\ r.local \in Texts
              /\ r.rport \in BOOLEAN /\ r.lport \in BOOLEAN
         /\ r.kind = "Event" =>
              /\ r.subj \in References /\ r.obj \in References /\ r.at \in Texts
              /\ {r.exec, r.path, r.addr} \subseteq Texts \cup {Null}
BY DEF Records

LEMMA FirstType ==
  ASSUME NEW a \in Texts, NEW b \in Texts
  PROVE  First(<<a, b>>) \in Texts
BY DEF First

LEMMA GivenType ==
  ASSUME NEW a \in Texts \cup {Null}
  PROVE  Given(a) \in Texts
BY FilesAssumption DEF Given

LEMMA ReferencesType == Uuids \subseteq References /\ NoUuid \in References /\ 0 \in Pids
BY WindowsAssumption DEF References

LEMMA TextsType == "" \in Texts /\ "unknown" \in Texts /\ "file" \in Texts
BY FilesAssumption

\* A record that is an event of the parser's, resolved in the tables.
LEMMA ResolvedType ==
  ASSUME TypeInv, NEW r \in Records, r.kind = "Event"
  PROVE  Resolved(r) \in Event
<1>1. /\ r.subj \in References /\ r.obj \in References /\ r.at \in Texts
      /\ Given(r.exec) \in Texts /\ Given(r.path) \in Texts /\ Given(r.addr) \in Texts
  BY RecordFields, GivenType
<1>2. subjects[r.subj] \in SubjectRecord /\ objects[r.obj] \in Texts
  BY <1>1 DEF TypeInv
<1>3. subjects[subjects[r.subj].parent] \in SubjectRecord
  BY <1>2 DEF TypeInv, SubjectRecord
<1> DEFINE named == First(<<Given(r.path), objects[r.obj]>>)
<1>4. named \in Texts
  BY <1>1, <1>2, FirstType
<1>5. Resource(r) = IF r.type \in NetTypes THEN First(<<named, Given(r.addr)>>) ELSE named
  BY DEF Resource
<1> HIDE DEF named
<1>6. Resource(r) \in Texts
  BY <1>1, <1>4, <1>5, FirstType
<1> DEFINE comm == First(<<Given(r.exec), First(<<subjects[r.subj].comm, "unknown">>)>>)
<1>7. comm \in Texts
  <2>1. subjects[r.subj].comm \in Texts /\ "unknown" \in Texts
    BY <1>2, TextsType DEF SubjectRecord
  <2>2. QED
    BY <1>1, <2>1, FirstType
<1>8. Resolved(r) = [pid |-> subjects[r.subj].pid,
                     ppid |-> subjects[subjects[r.subj].parent].pid,
                     comm |-> comm, res |-> Resource(r), at |-> r.at]
  BY DEF Resolved
<1> HIDE DEF comm
<1>9. subjects[r.subj].pid \in Pids /\ subjects[subjects[r.subj].parent].pid \in Pids
  BY <1>2, <1>3 DEF SubjectRecord
<1>10. QED
  BY <1>1, <1>6, <1>7, <1>8, <1>9 DEF Event

LEMMA Pass1Type ==
  ASSUME TypeInv,
         \/ Pass1 /\ UNCHANGED ingestorVars
         \/ BuildEntities,
         UNCHANGED windowVars
  PROVE  TypeInv'
<1> DEFINE r == file[line + 1]
<1>1. /\ line < Len(file) /\ line' = line + 1 /\ file' = file /\ pass' = pass
      /\ emitted' = emitted /\ window' = window /\ windows' = windows /\ reader' = reader
      /\ \/ IngestSubject(r) \/ IngestFileObject(r) \/ IngestNetObject(r) \/ PassOver(r)
         \/ ProcessSubject(r) \/ ProcessObject(r) \/ Overlook(r)
  BY DEF Pass1, BuildEntities, ingestorVars
<1>2. r \in Records
  <2>1. line + 1 \in 1 .. Len(file)
    BY <1>1 DEF TypeInv
  <2>2. QED
    BY <2>1, ElementOfSeq DEF TypeInv
<1> HIDE DEF r
<1>3. subjects' \in [References -> SubjectRecord] /\ objects' \in [References -> Texts]
  <2>1. CASE IngestSubject(r) \/ ProcessSubject(r)
    <3>1. /\ r.uuid \in Uuids /\ r.pid \in Pids /\ r.parent \in References
          /\ Given(r.name) \in Texts /\ r.cmd \in Texts
      BY <1>2, <2>1, RecordFields, GivenType DEF IngestSubject, ProcessSubject
    <3>2. PICK par \in References, com \in Texts :
            /\ subjects' = [subjects EXCEPT
                 ![r.uuid] = [pid |-> r.pid, parent |-> par, comm |-> com]]
            /\ UNCHANGED objects
      <4>1. CASE IngestSubject(r)
        BY <3>1, <4>1, FirstType DEF IngestSubject
      <4>2. CASE ProcessSubject(r)
        BY <4>2, ReferencesType, TextsType DEF ProcessSubject
      <4>3. QED
        BY <2>1, <4>1, <4>2
    <3>3. [pid |-> r.pid, parent |-> par, comm |-> com] \in SubjectRecord
      BY <3>1 DEF SubjectRecord
    <3>4. QED
      BY <3>2, <3>3 DEF TypeInv
  <2>2. CASE IngestFileObject(r) \/ IngestNetObject(r) \/ ProcessObject(r)
    <3>1. PICK res \in Texts :
            /\ UNCHANGED subjects
            /\ objects' = objects \/ objects' = [objects EXCEPT ![r.uuid] = res]
      <4>1. CASE IngestFileObject(r)
        BY <1>2, <4>1, RecordFields, GivenType DEF IngestFileObject
      <4>2. CASE IngestNetObject(r)
        <5>1. r.remote \in Texts /\ r.local \in Texts
          BY <1>2, <4>2, RecordFields DEF IngestNetObject
        <5>2. NetResource(r) \in Texts
          BY <5>1, FirstType DEF NetResource
        <5>3. QED
          BY <4>2, <5>2 DEF IngestNetObject
      <4>3. CASE ProcessObject(r)
        <5>1. CASE r.kind = "FileObject"
          <6>1. r.path \in Texts
            BY <1>2, <4>3, <5>1, RecordFields DEF ProcessObject, Overlooked
          <6>2. First(<<r.path, "file">>) \in Texts
            BY <6>1, FirstType, TextsType
          <6>3. QED
            BY <4>3, <5>1, <6>2 DEF ProcessObject
        <5>2. CASE r.kind = "NetFlowObject"
          <6>1. r.remote \in Texts
            BY <1>2, <5>2, RecordFields
          <6>2. QED
            BY <4>3, <5>2, <6>1 DEF ProcessObject
        <5>3. QED
          BY <4>3, <5>1, <5>2 DEF ProcessObject
      <4>4. QED
        BY <2>2, <4>1, <4>2, <4>3
    <3>2. QED
      BY <3>1 DEF TypeInv
  <2>3. CASE PassOver(r) \/ Overlook(r)
    BY <2>3 DEF TypeInv, PassOver, Overlook
  <2>4. QED
    BY <1>1, <2>1, <2>2, <2>3
<1>4. line' \in 0 .. Len(file')
  BY <1>1 DEF TypeInv
<1>5. QED
  BY <1>1, <1>3, <1>4 DEF TypeInv, windowVars

\* The end of a pass, and lines that give no event.
LEMMA QuietType ==
  ASSUME TypeInv, UNCHANGED <<file, subjects, objects, emitted, reader, buffers, ppids, raw>>,
         line' \in 0 .. Len(file), pass' \in {"entities", "events", "done"},
         window' \in Seq(Event), windows' \in Seq(Seq(Event))
  PROVE  TypeInv'
BY DEF TypeInv

\* What an event of the ingestor's consists of.
Streamed(r, comm) ==
  [pid |-> subjects[r.subj].pid, ppid |-> 0, comm |-> comm,
   res |-> IngestedResource(r), at |-> r.at]

LEMMA StreamedType ==
  ASSUME TypeInv, NEW r \in Records, Ingested(r), NEW comm \in Texts
  PROVE  Streamed(r, comm) \in Event
<1>1. /\ r.subj \in References /\ r.obj \in References
      /\ r.path \in Texts \cup {Null} /\ r.addr \in Texts /\ r.at \in Texts
  BY RecordFields DEF Ingested, Raises
<1>2. subjects[r.subj] \in SubjectRecord /\ objects[r.obj] \in Texts
  BY <1>1 DEF TypeInv
<1>3. subjects[r.subj].pid \in Pids /\ 0 \in Pids
  BY <1>2, ReferencesType DEF SubjectRecord
<1>4. First(<<objects[r.obj], r.addr>>) \in Texts
  BY <1>1, <1>2, FirstType
<1>5. r.type = "execute" /\ r.path # "" => r.path \in Texts
  BY <1>1 DEF Ingested, Raises
<1>6. IngestedResource(r) \in Texts
  BY <1>2, <1>4, <1>5 DEF IngestedResource
<1>7. QED
  BY <1>1, <1>3, <1>6 DEF Streamed, Event

\* A step of the ingestor that yields: the event, and what becomes of the
\* window and of the name of the process.
LEMMA StreamStep ==
  ASSUME TypeInv, Stream
  PROVE  \E comm \in Texts :
           LET r == file[line + 1] e == Streamed(r, comm) IN
           /\ e \in Event /\ emitted' = Append(emitted, e)
           /\ subjects' \in [References -> SubjectRecord]
           /\ \A u \in References : /\ subjects'[u].pid = subjects[u].pid
                                    /\ subjects'[u].parent = subjects[u].parent
           /\ \/ window' = <<>> /\ windows' = Append(windows, Append(window, e))
              \/ window' = Append(window, e) /\ windows' = windows
<1> DEFINE r == file[line + 1]
           comm == IF Renames(r) THEN r.exec ELSE First(<<subjects[r.subj].comm, "unknown">>)
           e == Streamed(r, comm)
<1>1. r \in Records /\ Ingested(r)
  <2>1. line + 1 \in 1 .. Len(file)
    BY DEF TypeInv, Stream
  <2>2. QED
    BY <2>1, ElementOfSeq DEF TypeInv, Stream
<1>2. /\ emitted' = Append(emitted, e)
      /\ subjects' = IF r.subj \in Uuids /\ subjects[r.subj] # NoSubject
                     THEN [subjects EXCEPT ![r.subj].comm = comm] ELSE subjects
      /\ \/ window' = <<>> /\ windows' = Append(windows, Append(window, e))
         \/ window' = Append(window, e) /\ windows' = windows
  BY DEF Stream, Streamed
<1> HIDE DEF r
<1>3. comm \in Texts
  <2>1. r.exec \in Texts /\ r.subj \in References
    BY <1>1, RecordFields DEF Ingested, Raises
  <2>2. subjects[r.subj].comm \in Texts /\ "unknown" \in Texts
    BY <2>1, TextsType DEF TypeInv, SubjectRecord
  <2>3. QED
    BY <2>1, <2>2, FirstType
<1> HIDE DEF comm
<1>4. e \in Event
  BY <1>1, <1>3, StreamedType
<1>5. /\ subjects' \in [References -> SubjectRecord]
      /\ \A u \in References : /\ subjects'[u].pid = subjects[u].pid
                               /\ subjects'[u].parent = subjects[u].parent
  <2>1. \A u \in References : subjects[u] \in SubjectRecord
    BY DEF TypeInv
  <2>2. \A x \in SubjectRecord : /\ [x EXCEPT !.comm = comm] \in SubjectRecord
                                 /\ [x EXCEPT !.comm = comm].pid = x.pid
                                 /\ [x EXCEPT !.comm = comm].parent = x.parent
    BY <1>3 DEF SubjectRecord
  <2>3. subjects \in [References -> SubjectRecord]
    BY DEF TypeInv
  <2>4. subjects' = subjects \/ subjects' = [subjects EXCEPT ![r.subj] = [@ EXCEPT !.comm = comm]]
    BY <1>2
  <2>5. CASE subjects' = [subjects EXCEPT ![r.subj] = [@ EXCEPT !.comm = comm]]
    <3>1. ASSUME NEW u \in References
          PROVE  /\ subjects'[u] \in SubjectRecord
                 /\ subjects'[u].pid = subjects[u].pid
                 /\ subjects'[u].parent = subjects[u].parent
      <4>1. CASE u = r.subj
        <5>1. subjects'[u] = [subjects[u] EXCEPT !.comm = comm]
          BY <2>3, <2>5, <4>1
        <5>2. QED
          BY <2>1, <2>2, <5>1
      <4>2. CASE u # r.subj
        BY <2>1, <2>3, <2>5, <4>2
      <4>3. QED
        BY <4>1, <4>2
    <3>2. subjects' = [u \in References |-> subjects'[u]]
      BY <2>3, <2>5
    <3>3. QED
      BY <3>1, <3>2
  <2>6. QED
    BY <2>1, <2>3, <2>4, <2>5
<1>6. QED
  BY <1>2, <1>3, <1>4, <1>5 DEF r

LEMMA StreamType ==
  ASSUME TypeInv, Stream, UNCHANGED windowVars
  PROVE  TypeInv'
<1>1. PICK comm \in Texts :
        LET r == file[line + 1] e == Streamed(r, comm) IN
        /\ e \in Event /\ emitted' = Append(emitted, e)
        /\ subjects' \in [References -> SubjectRecord]
        /\ \/ window' = <<>> /\ windows' = Append(windows, Append(window, e))
           \/ window' = Append(window, e) /\ windows' = windows
  BY StreamStep
<1> DEFINE e == Streamed(file[line + 1], comm)
<1>2. /\ e \in Event /\ emitted' = Append(emitted, e)
      /\ subjects' \in [References -> SubjectRecord]
      /\ \/ window' = <<>> /\ windows' = Append(windows, Append(window, e))
         \/ window' = Append(window, e) /\ windows' = windows
  BY <1>1
<1> HIDE DEF e
<1>3. /\ emitted' \in Seq(Event)
      /\ window' \in Seq(Event) /\ windows' \in Seq(Seq(Event))
  <2>1. emitted \in Seq(Event) /\ window \in Seq(Event) /\ windows \in Seq(Seq(Event))
    BY DEF TypeInv
  <2>2. Append(window, e) \in Seq(Event) /\ <<>> \in Seq(Event) /\ Append(emitted, e) \in Seq(Event)
    BY <1>2, <2>1
  <2> DEFINE T == Seq(Event)
  <2> HIDE DEF T
  <2>3. Append(windows, Append(window, e)) \in Seq(T)
    BY <2>1, <2>2, AppendProperties DEF T
  <2>4. QED
    BY <1>2, <2>1, <2>2, <2>3 DEF T
<1>4. /\ line' \in 0 .. Len(file') /\ file' = file /\ pass' = pass
      /\ objects' = objects /\ reader' = reader
  BY DEF Stream, TypeInv
<1>5. QED
  BY <1>2, <1>3, <1>4 DEF TypeInv, windowVars

\* The first phase for an event e: windows of its process, and its parent.
LEMMA ConsumeStep ==
  ASSUME TypeInv, Consume
  PROVE  LET r == file[line + 1] e == Resolved(r) IN
         /\ r \in Records /\ IsEvent(r) /\ e \in Event /\ emitted' = Append(emitted, e)
         /\ Collect(e)
         /\ ppids' \in [Pids -> Pids]
<1> DEFINE r == file[line + 1]
           e == Resolved(r)
<1>1. r \in Records /\ IsEvent(r)
  <2>1. line + 1 \in 1 .. Len(file)
    BY DEF TypeInv, Consume, Yield
  <2>2. QED
    BY <2>1, ElementOfSeq DEF TypeInv, Consume, Yield
<1>2. e \in Event
  BY <1>1, ResolvedType DEF IsEvent
<1>3. emitted' = Append(emitted, e)
  BY DEF Consume, Yield
<1>4. emitted'[Len(emitted')] = e
  <2> HIDE DEF e
  <2>1. emitted \in Seq(Event)
    BY DEF TypeInv
  <2>2. QED
    BY <1>2, <1>3, <2>1
<1>5. /\ Collect(e)
      /\ ppids' = IF e.pid # 0 /\ e.ppid # 0 THEN [ppids EXCEPT ![e.pid] = e.ppid] ELSE ppids
  BY <1>4, Zenon DEF Consume
<1> HIDE DEF e
<1>6. ppids' \in [Pids -> Pids]
  BY <1>2, <1>5 DEF TypeInv, Event
<1> HIDE DEF r
<1>7. QED
  BY <1>1, <1>2, <1>3, <1>5, <1>6 DEF e, r

LEMMA CollectType ==
  ASSUME TypeInv, NEW e \in Event, Collect(e)
  PROVE  buffers' \in [Pids -> Seq(Event)] /\ raw' \in Seq(Window)
<1> DEFINE buf == Append(buffers[e.pid], e)
<1>1. e.pid \in Pids
  BY DEF Event
<1>2. buf \in Seq(Event) /\ <<>> \in Seq(Event)
  <2>1. buffers[e.pid] \in Seq(Event)
    BY <1>1 DEF TypeInv
  <2>2. QED
    BY <2>1
<1>3. \/ buffers' = [buffers EXCEPT ![e.pid] = buf] /\ raw' = raw
      \/ /\ buffers' = [buffers EXCEPT ![e.pid] = <<>>]
         /\ raw' = Append(raw, [pid |-> e.pid, events |-> buf])
  BY DEF Collect
<1> HIDE DEF buf
<1>4. [pid |-> e.pid, events |-> buf] \in Window
  BY <1>1, <1>2 DEF Window
<1>5. buffers' \in [Pids -> Seq(Event)]
  BY <1>1, <1>2, <1>3 DEF TypeInv
<1>6. raw' \in Seq(Window)
  <2>1. raw \in Seq(Window)
    BY DEF TypeInv
  <2>2. QED
    BY <1>3, <1>4, <2>1
<1>7. QED
  BY <1>5, <1>6

LEMMA ConsumeType ==
  ASSUME TypeInv, Consume, UNCHANGED ingestorVars
  PROVE  TypeInv'
<1> DEFINE e == Resolved(file[line + 1])
<1>1. /\ e \in Event /\ emitted' = Append(emitted, e) /\ Collect(e)
      /\ ppids' \in [Pids -> Pids]
  BY ConsumeStep
<1> HIDE DEF e
<1>2. buffers' \in [Pids -> Seq(Event)] /\ raw' \in Seq(Window)
  BY <1>1, CollectType
<1>3. /\ line' \in 0 .. Len(file') /\ file' = file /\ pass' = pass
      /\ subjects' = subjects /\ objects' = objects
  BY DEF Consume, Yield, TypeInv
<1>4. emitted' \in Seq(Event)
  BY <1>1 DEF TypeInv
<1>5. QED
  BY <1>1, <1>2, <1>3, <1>4 DEF TypeInv, ingestorVars

-----------------------------------------------------------------------------
(* The tables of the first pass.                                             *)

LEMMA LastNext ==
  ASSUME NEW n \in Nat, NEW u, NEW K, NEW i \in 1 .. n + 1, IsLast(i, u, K, n + 1)
  PROVE  /\ Describes(n + 1, u, K) => i = n + 1
         /\ ~Describes(n + 1, u, K) => i \in 1 .. n /\ IsLast(i, u, K, n)
<1>1. /\ Describes(i, u, K)
      /\ \A j \in 1 .. n + 1 : Describes(j, u, K) => j <= i
  BY DEF IsLast
<1>2. n + 1 \in 1 .. n + 1 /\ \A j \in 1 .. n : j \in 1 .. n + 1
  OBVIOUS
<1>3. Describes(n + 1, u, K) => i = n + 1
  BY <1>1, <1>2
<1>4. ~Describes(n + 1, u, K) => i \in 1 .. n
  <2>1. i # n + 1 => i \in 1 .. n
    OBVIOUS
  <2>2. QED
    BY <1>1, <2>1
<1>5. QED
  BY <1>1, <1>2, <1>3, <1>4 DEF IsLast

\* What a record of the first pass does to the tables.
LEMMA Pass1Effect ==
  ASSUME TypeInv,
         \/ reader = "parser" /\ Pass1
         \/ reader = "ingestor" /\ BuildEntities,
         NEW u \in References
  PROVE  LET r == file[line + 1] IN
         /\ Describes(line + 1, u, {"Subject"}) =>
              /\ subjects'[u].pid = r.pid
              /\ reader = "parser" => subjects'[u].parent = r.parent
         /\ ~Describes(line + 1, u, {"Subject"}) => subjects'[u] = subjects[u]
         /\ Describes(line + 1, u, ObjectKinds) =>
              IF r.kind = "NetFlowObject"
              THEN r.remote # "" /\ r.rport => objects'[u] = r.remote
              ELSE r.path \notin {"", Null} => objects'[u] = r.path
         /\ ~Describes(line + 1, u, ObjectKinds) => objects'[u] = objects[u]
<1> DEFINE r == file[line + 1]
           reads == reader = "parser" \/ ~Overlooked(r)
<1>1. /\ Describes(line + 1, u, {"Subject"}) <=> r.kind = "Subject" /\ r.uuid = u /\ reads
      /\ Describes(line + 1, u, ObjectKinds) <=>
           r.kind \in ObjectKinds /\ r.uuid = u /\ reads
  BY DEF Describes
<1>2. \/ reader = "parser" /\ (\/ IngestSubject(r) \/ IngestFileObject(r)
                              \/ IngestNetObject(r) \/ PassOver(r))
      \/ reader = "ingestor" /\ (\/ ProcessSubject(r) \/ ProcessObject(r)
                                \/ Overlook(r) \/ PassOver(r))
  BY DEF Pass1, BuildEntities
<1>3. subjects \in [References -> SubjectRecord] /\ objects \in [References -> Texts]
  BY DEF TypeInv
<1> HIDE DEF r
<1>4. CASE reader = "parser" /\ IngestSubject(r)
  BY <1>1, <1>3, <1>4 DEF IngestSubject, ObjectKinds, r
<1>5. CASE reader = "ingestor" /\ ProcessSubject(r)
  BY <1>1, <1>3, <1>5 DEF ProcessSubject, ObjectKinds, r
<1>6. CASE reader = "parser" /\ IngestFileObject(r)
  BY <1>1, <1>3, <1>6 DEF IngestFileObject, Given, ObjectKinds, r
<1>7. CASE reader = "parser" /\ IngestNetObject(r)
  BY <1>1, <1>3, <1>7 DEF IngestNetObject, NetResource, ObjectKinds, r
<1>8. CASE reader = "ingestor" /\ ProcessObject(r)
  BY <1>1, <1>3, <1>8 DEF ProcessObject, First, ObjectKinds, r
<1>9. CASE reader = "ingestor" /\ Overlook(r)
  BY <1>1, <1>9 DEF Overlook, r
<1>10. CASE PassOver(r)
  BY <1>1, <1>10 DEF PassOver, ObjectKinds, r
<1>11. QED
  BY <1>2, <1>4, <1>5, <1>6, <1>7, <1>8, <1>9, <1>10

LEMMA Pass1Known ==
  ASSUME TypeInv, Known,
         \/ reader = "parser" /\ Pass1
         \/ reader = "ingestor" /\ BuildEntities,
         UNCHANGED reader
  PROVE  Known'
<1>1. /\ pass = "entities" /\ pass' = pass /\ file' = file /\ line' = line + 1
      /\ line \in Nat
  BY DEF TypeInv, Pass1, BuildEntities
<1> PICK n \in Nat : n = line
  BY <1>1
<1>2. Upto = n /\ Upto' = n + 1
  BY <1>1 DEF Upto
<1> SUFFICES ASSUME NEW u \in References
             PROVE  SubjectKnown(u, n + 1)' /\ ObjectKnown(u, n + 1)'
  BY <1>2 DEF Known
<1> DEFINE r == file[n + 1]
           S == {"Subject"}
           O == ObjectKinds
<1>3. SubjectKnown(u, n) /\ ObjectKnown(u, n)
  BY <1>2 DEF Known
<1>4. \A i, K : (Describes(i, u, K)' <=> Describes(i, u, K))
  BY <1>1 DEF Describes
<1>5. \A i, m, K : (IsLast(i, u, K, m)' <=> IsLast(i, u, K, m))
  BY <1>4 DEF IsLast
<1>6. /\ Describes(n + 1, u, S) =>
           /\ subjects'[u].pid = r.pid
           /\ reader = "parser" => subjects'[u].parent = r.parent
      /\ ~Describes(n + 1, u, S) => subjects'[u] = subjects[u]
      /\ Describes(n + 1, u, O) =>
           IF r.kind = "NetFlowObject"
           THEN r.remote # "" /\ r.rport => objects'[u] = r.remote
           ELSE r.path \notin {"", Null} => objects'[u] = r.path
      /\ ~Describes(n + 1, u, O) => objects'[u] = objects[u]
  BY Pass1Effect
<1>7. SubjectKnown(u, n + 1)'
  <2>1. ASSUME \A i \in 1 .. n + 1 : ~Describes(i, u, S)
        PROVE  subjects'[u].pid = 0 /\ subjects'[u].parent = NoUuid
    <3>1. ~Describes(n + 1, u, S) /\ \A i \in 1 .. n : ~Describes(i, u, S)
      BY <1>1, <2>1
    <3>2. QED
      BY <1>3, <1>6, <3>1 DEF SubjectKnown
  <2>2. ASSUME NEW i \in 1 .. n + 1, IsLast(i, u, S, n + 1)
        PROVE  /\ subjects'[u].pid = file[i].pid
               /\ reader = "parser" => subjects'[u].parent = file[i].parent
    <3>1. CASE Describes(n + 1, u, S)
      <4>1. i = n + 1
        BY <1>1, <2>2, <3>1, LastNext
      <4>2. QED
        BY <1>6, <3>1, <4>1
    <3>2. CASE ~Describes(n + 1, u, S)
      <4>1. i \in 1 .. n /\ IsLast(i, u, S, n)
        BY <1>1, <2>2, <3>2, LastNext
      <4>2. QED
        BY <1>3, <1>6, <3>2, <4>1 DEF SubjectKnown
    <3>3. QED
      BY <3>1, <3>2
  <2>3. QED
    BY <1>1, <1>4, <1>5, <2>1, <2>2 DEF SubjectKnown
<1>8. ObjectKnown(u, n + 1)'
  <2>1. ASSUME NEW i \in 1 .. n + 1, IsLast(i, u, O, n + 1)
        PROVE  ObjectSays(i, u)'
    <3>1. CASE Describes(n + 1, u, O)
      <4>1. i = n + 1
        BY <1>1, <2>1, <3>1, LastNext
      <4>2. QED
        BY <1>1, <1>6, <3>1, <4>1 DEF ObjectSays
    <3>2. CASE ~Describes(n + 1, u, O)
      <4>1. i \in 1 .. n /\ IsLast(i, u, O, n)
        BY <1>1, <2>1, <3>2, LastNext
      <4>2. ObjectSays(i, u)
        BY <1>3, <4>1 DEF ObjectKnown
      <4>3. QED
        BY <1>1, <1>6, <3>2, <4>2 DEF ObjectSays
    <3>3. QED
      BY <3>1, <3>2
  <2>2. QED
    BY <1>1, <1>5, <2>1 DEF ObjectKnown
<1>9. QED
  BY <1>7, <1>8

\* The second pass keeps what the tables say.
LEMMA LaterKnown ==
  ASSUME TypeInv, Known,
         UNCHANGED <<file, reader, objects>>, Upto' = Upto,
         \A u \in References : /\ subjects'[u].pid = subjects[u].pid
                               /\ subjects'[u].parent = subjects[u].parent
  PROVE  Known'
<1>1. \A i, u, K : (Describes(i, u, K)' <=> Describes(i, u, K))
  BY DEF Describes
<1>2. \A i, u, n, K : (IsLast(i, u, K, n)' <=> IsLast(i, u, K, n))
  BY <1>1 DEF IsLast
<1>3. \A i, u : (ObjectSays(i, u)' <=> ObjectSays(i, u))
  BY DEF ObjectSays
<1>4. ASSUME NEW u \in References
      PROVE  SubjectKnown(u, Upto)' /\ ObjectKnown(u, Upto)'
  <2>1. SubjectKnown(u, Upto) /\ ObjectKnown(u, Upto)
    BY DEF Known
  <2>2. SubjectKnown(u, Upto)'
    BY <1>1, <1>2, <2>1 DEF SubjectKnown
  <2>3. ObjectKnown(u, Upto)'
    BY <1>2, <1>3, <2>1 DEF ObjectKnown
  <2>4. QED
    BY <2>2, <2>3
<1>5. QED
  BY <1>4 DEF Known

-----------------------------------------------------------------------------
(* What the file says of an identifier is what its last record says.         *)

LEMMA SetMaximum ==
  ASSUME NEW n \in Nat, NEW S \in SUBSET (1 .. n), S # {}
  PROVE  LET m == CHOOSE i \in S : \A j \in S : j <= i IN
         m \in S /\ \A j \in S : j <= m
<1> DEFINE Bounds == {b \in Nat : \A j \in S : j <= b}
<1>1. n \in Bounds /\ Bounds \in SUBSET Nat
  OBVIOUS
<1>2. PICK b \in Bounds : \A c \in Bounds : b <= c
  BY <1>1, NatMinimum
<1>3. b \in S
  <2>1. SUFFICES ASSUME b \notin S PROVE FALSE
    OBVIOUS
  <2>2. \A j \in S : j \in Nat /\ j >= 1 /\ j <= b /\ j # b
    BY <1>2, <2>1
  <2>3. b \in Nat /\ b >= 1
    <3>1. PICK j \in S : TRUE
      OBVIOUS
    <3>2. j \in Nat /\ j >= 1 /\ j <= b /\ b \in Nat
      BY <2>2
    <3>3. QED
      BY <3>2
  <2>4. b - 1 \in Nat /\ \A j \in S : j <= b - 1
    BY <2>2, <2>3
  <2>5. b <= b - 1
    BY <1>2, <2>4
  <2>6. QED
    BY <2>3, <2>5
<1>4. \A j \in S : j <= b
  BY <1>2
<1>5. QED
  BY <1>3, <1>4

LEMMA SaidIsKnown ==
  ASSUME TypeInv, Known, pass # "entities", NEW u \in References
  PROVE  /\ PidSaid(u) = subjects[u].pid
         /\ reader = "parser" => ParentSaid(u) = subjects[u].parent
<1> DEFINE S == Said(u, {"Subject"})
           m == CHOOSE i \in S : \A j \in S : j <= i
<1>1. Len(file) \in Nat /\ DOMAIN file = 1 .. Len(file) /\ Upto = Len(file)
  BY DEF TypeInv, Upto
<1>2. /\ S \in SUBSET (1 .. Len(file))
      /\ \A i : i \in S <=> i \in 1 .. Len(file) /\ Describes(i, u, {"Subject"})
  BY <1>1 DEF Said, Describes
<1>3. SubjectKnown(u, Len(file))
  BY <1>1 DEF Known
<1>4. /\ PidSaid(u) = IF S = {} THEN 0 ELSE file[m].pid
      /\ ParentSaid(u) = IF S = {} THEN NoUuid ELSE file[m].parent
  BY DEF PidSaid, ParentSaid
<1>5. CASE S = {}
  <2>1. \A i \in 1 .. Len(file) : ~Describes(i, u, {"Subject"})
    BY <1>2, <1>5
  <2>2. QED
    BY <1>3, <1>4, <1>5, <2>1 DEF SubjectKnown
<1>6. CASE S # {}
  <2> HIDE DEF S
  <2>1. m \in S /\ \A j \in S : j <= m
    BY <1>1, <1>2, <1>6, SetMaximum
  <2> HIDE DEF m
  <2>2. m \in 1 .. Len(file) /\ IsLast(m, u, {"Subject"}, Len(file))
    BY <1>2, <2>1 DEF IsLast
  <2>3. QED
    BY <1>3, <1>4, <1>6, <2>2 DEF SubjectKnown
<1>7. QED
  BY <1>5, <1>6

LEMMA SaidObject ==
  ASSUME TypeInv, Known, pass # "entities", NEW u \in References,
         NEW k \in Said(u, ObjectKinds),
         \A j \in Said(u, ObjectKinds) : j <= k
  PROVE  ObjectSays(k, u)
<1> DEFINE O == ObjectKinds
<1>1. Len(file) \in Nat /\ DOMAIN file = 1 .. Len(file) /\ Upto = Len(file)
  BY DEF TypeInv, Upto
<1>2. \A i : i \in Said(u, O) <=> i \in 1 .. Len(file) /\ Describes(i, u, O)
  BY <1>1 DEF Said, Describes
<1>3. k \in 1 .. Len(file) /\ IsLast(k, u, O, Len(file))
  BY <1>2 DEF IsLast
<1>4. ObjectKnown(u, Len(file))
  BY <1>1 DEF Known
<1>5. QED
  BY <1>3, <1>4 DEF ObjectKnown

-----------------------------------------------------------------------------
(* The stream.                                                               *)

\* the records that the reader makes an event of
Reads == {r \in Records : IF reader = "parser" THEN IsEvent(r) ELSE Ingested(r)}

LEMMA EventsOfPrefix ==
  ASSUME NEW s \in Seq(Records)
  PROVE  Only(s, LAMBDA r : IF reader = "parser" THEN IsEvent(r) ELSE Ingested(r))
         = OnlyIn(s, Reads)
<1>1. \A i \in DOMAIN s : s[i] \in Records
  OBVIOUS
<1>2. \A i \in DOMAIN s :
        (IF reader = "parser" THEN IsEvent(s[i]) ELSE Ingested(s[i])) <=> s[i] \in Reads
  BY <1>1 DEF Reads
<1>3. QED
  BY <1>2 DEF Only, OnlyIn

\* The events read, and the ones with the next line.
LEMMA EventsReadStep ==
  ASSUME TypeInv
  PROVE  /\ EventsRead \in Seq(Records)
         /\ pass = "entities" => EventsRead = <<>>
         /\ pass = "events" /\ pass' = pass /\ line < Len(file) /\ line' = line + 1
            /\ UNCHANGED <<file, reader>> =>
              EventsRead' = IF file[line + 1] \in Reads
                            THEN Append(EventsRead, file[line + 1]) ELSE EventsRead
<1> DEFINE m == IF pass = "entities" THEN 0 ELSE line
           s == SubSeq(file, 1, m)
<1>1. /\ file \in Seq(Records) /\ Len(file) \in Nat
      /\ m \in 0 .. Len(file) /\ line \in 0 .. Len(file)
  BY DEF TypeInv
<1>2. s \in Seq(Records)
  BY <1>1
<1>3. EventsRead = OnlyIn(s, Reads)
  BY <1>2, EventsOfPrefix DEF EventsRead
<1>4. EventsRead \in Seq(Records)
  <2>1. EventsRead \in Seq(Records \cap Reads)
    BY <1>2, <1>3, OnlyInElements
  <2>2. QED
    BY <2>1
<1>5. ASSUME pass = "entities" PROVE EventsRead = <<>>
  <2>1. s = <<>>
    BY <1>1, <1>5
  <2>2. QED
    BY <1>3, <2>1, OnlyInNone
<1>6. ASSUME pass = "events", pass' = pass, line < Len(file), line' = line + 1,
             UNCHANGED <<file, reader>>
      PROVE  EventsRead' = IF file[line + 1] \in Reads
                           THEN Append(EventsRead, file[line + 1]) ELSE EventsRead
  <2> DEFINE r == file[line + 1]
             t == SubSeq(file, 1, line + 1)
  <2>1. r \in Records
    BY <1>1, <1>6
  <2>2. t \in Seq(Records) /\ t = Append(SubSeq(file, 1, line), r)
    <3>1. t \in Seq(Records) /\ Len(t) = line + 1
      BY <1>1, <1>6
    <3>2. SubSeq(file, 1, line) \in Seq(Records) /\ Len(SubSeq(file, 1, line)) = line
      BY <1>1
    <3> DEFINE u == Append(SubSeq(file, 1, line), r)
    <3>3. u \in Seq(Records) /\ Len(u) = line + 1
      BY <1>1, <2>1, <3>2
    <3>4. \A i \in 1 .. line + 1 : t[i] = u[i]
      BY <1>1, <1>6, <3>2
    <3> HIDE DEF t, u
    <3>5. t = u
      BY <3>1, <3>3, <3>4, SeqEqual
    <3>6. QED
      BY <3>1, <3>5 DEF u
  <2>3. EventsRead' = OnlyIn(t, Reads)
    <3>1. EventsRead' = Only(t, LAMBDA x : IF reader = "parser" THEN IsEvent(x) ELSE Ingested(x))
      BY <1>6 DEF EventsRead, Only
    <3>2. QED
      BY <2>2, <3>1, EventsOfPrefix
  <2>4. s = SubSeq(file, 1, line)
    BY <1>6
  <2> HIDE DEF t, s, r
  <2>5. s \in Seq(Records) /\ t = Append(s, r)
    BY <1>2, <2>2, <2>4
  <2>6. QED
    <3>1. OnlyIn(t, Reads) = IF r \in Reads THEN Append(OnlyIn(s, Reads), r) ELSE OnlyIn(s, Reads)
      BY <2>1, <2>5, OnlyInAppend
    <3>2. QED
      BY <1>3, <2>3, <3>1 DEF r
<1>7. QED
  BY <1>4, <1>5, <1>6

LEMMA AttributedStays ==
  ASSUME UNCHANGED <<file, reader>>
  PROVE  \A e, r : Attributed(e, r)' <=> Attributed(e, r)
BY DEF Attributed, PidSaid, ParentSaid, Said

LEMMA ParserAttributes ==
  ASSUME TypeInv, Known, pass = "events", reader = "parser",
         NEW r \in Records, IsEvent(r)
  PROVE  Attributed(Resolved(r), r)
<1>1. r.subj \in References /\ r.obj \in References /\ r.path \in Texts \cup {Null}
  BY RecordFields DEF IsEvent
<1>2. PidSaid(r.subj) = subjects[r.subj].pid /\ ParentSaid(r.subj) = subjects[r.subj].parent
  BY <1>1, SaidIsKnown
<1>3. subjects[r.subj].parent \in References
  BY <1>1 DEF TypeInv, SubjectRecord
<1>4. PidSaid(ParentSaid(r.subj)) = subjects[subjects[r.subj].parent].pid
  BY <1>2, <1>3, SaidIsKnown
<1>5. /\ Resolved(r).pid = subjects[r.subj].pid /\ Resolved(r).at = r.at
      /\ Resolved(r).ppid = subjects[subjects[r.subj].parent].pid
      /\ Resolved(r).res = Resource(r)
  BY DEF Resolved
<1>6. r.path \in {"", Null} /\ objects[r.obj] # "" => Resource(r) = objects[r.obj]
  BY DEF Resource, First, Given
<1> DEFINE said == Said(r.obj, ObjectKinds)
<1>7. ASSUME r.path \in {"", Null}, NEW k \in said, \A j \in said : j <= k
      PROVE  IF file[k].kind = "NetFlowObject"
             THEN file[k].remote # "" /\ file[k].rport => Resource(r) = file[k].remote
             ELSE file[k].path \notin {"", Null} => Resource(r) = file[k].path
  <2>1. ObjectSays(k, r.obj)
    BY <1>1, <1>7, SaidObject
  <2>2. QED
    BY <1>6, <1>7, <2>1 DEF ObjectSays
<1> HIDE DEF said
<1>8. QED
  BY <1>2, <1>4, <1>5, <1>7 DEF Attributed, said

LEMMA IngestorAttributes ==
  ASSUME TypeInv, Known, pass = "events", reader = "ingestor",
         NEW r \in Records, Ingested(r), NEW comm
  PROVE  Attributed(Streamed(r, comm), r)
<1>1. r.subj \in References /\ r.obj \in References /\ r.path \in Texts \cup {Null}
  BY RecordFields DEF Ingested
<1>2. PidSaid(r.subj) = subjects[r.subj].pid
  BY <1>1, SaidIsKnown
<1>3. /\ Streamed(r, comm).pid = subjects[r.subj].pid /\ Streamed(r, comm).at = r.at
      /\ Streamed(r, comm).ppid = 0 /\ Streamed(r, comm).res = IngestedResource(r)
  BY DEF Streamed
<1>4. r.path \in {"", Null} /\ objects[r.obj] # "" => IngestedResource(r) = objects[r.obj]
  BY DEF IngestedResource, First, Ingested, Raises
<1> DEFINE said == Said(r.obj, ObjectKinds)
<1>5. ASSUME r.path \in {"", Null}, NEW k \in said, \A j \in said : j <= k
      PROVE  IF file[k].kind = "NetFlowObject"
             THEN file[k].remote # "" /\ file[k].rport => IngestedResource(r) = file[k].remote
             ELSE file[k].path \notin {"", Null} => IngestedResource(r) = file[k].path
  <2>1. ObjectSays(k, r.obj)
    BY <1>1, <1>5, SaidObject
  <2>2. QED
    BY <1>4, <1>5, <2>1 DEF ObjectSays
<1> HIDE DEF said
<1>6. QED
  BY <1>2, <1>3, <1>5 DEF Attributed, said

\* One more event, of the record that is read.
LEMMA ResolutionGrows ==
  ASSUME TypeInv, Resolution, pass = "events", pass' = pass,
         line < Len(file), line' = line + 1, UNCHANGED <<file, reader>>,
         NEW e \in Event, emitted' = Append(emitted, e),
         file[line + 1] \in Reads, Attributed(e, file[line + 1])
  PROVE  Resolution'
<1> DEFINE r == file[line + 1]
           E == EventsRead
<1>1. /\ E \in Seq(Records) /\ EventsRead' = Append(E, r) /\ r \in Records
      /\ emitted \in Seq(Event) /\ Len(emitted) = Len(E)
      /\ \A i \in 1 .. Len(emitted) : Attributed(emitted[i], E[i])
  <2>1. E \in Seq(Records) /\ EventsRead' = Append(E, r)
    BY EventsReadStep
  <2>2. r \in Records
    BY DEF Reads
  <2>3. emitted \in Seq(Event)
    BY DEF TypeInv
  <2>4. Len(emitted) = Len(E) /\ \A i \in DOMAIN emitted : Attributed(emitted[i], E[i])
    BY DEF Resolution
  <2>5. QED
    BY <2>1, <2>2, <2>3, <2>4
<1> DEFINE e2 == Append(emitted, e)
           E2 == Append(E, r)
<1>2. /\ Len(E2) = Len(emitted) + 1 /\ Len(e2) = Len(emitted) + 1
      /\ e2[Len(emitted) + 1] = e /\ E2[Len(emitted) + 1] = r
      /\ \A i \in 1 .. Len(emitted) : e2[i] = emitted[i] /\ E2[i] = E[i]
      /\ DOMAIN e2 = 1 .. Len(emitted) + 1
  BY <1>1
<1>3. \A x, y : Attributed(x, y)' <=> Attributed(x, y)
  BY AttributedStays
<1>4. Attributed(e, r)
  OBVIOUS
<1> HIDE DEF e2, E2, r, E
<1>5. \A i \in DOMAIN e2 : Attributed(e2[i], E2[i])
  <2>1. \A i \in DOMAIN e2 : i \in 1 .. Len(emitted) \/ i = Len(emitted) + 1
    BY <1>1, <1>2
  <2>2. QED
    BY <1>1, <1>2, <1>4, <2>1
<1>6. emitted' = e2 /\ EventsRead' = E2
  BY <1>1 DEF e2, E2
<1>7. QED
  BY <1>2, <1>3, <1>5, <1>6 DEF Resolution

\* A step that gives no event.
LEMMA ResolutionStays ==
  ASSUME Resolution, UNCHANGED <<file, reader, emitted>>, EventsRead' = EventsRead
  PROVE  Resolution'
<1>1. \A x, y : Attributed(x, y)' <=> Attributed(x, y)
  BY AttributedStays
<1>2. QED
  BY <1>1 DEF Resolution

-----------------------------------------------------------------------------
(* The windows.                                                              *)

OfPidSet(p) == {e \in Event : e.pid = p}

LEMMA OfPidStep ==
  ASSUME NEW s \in Seq(Event), NEW e \in Event, NEW p
  PROVE  /\ OfPid(s, p) \in Seq(Event) /\ OfPid(<<>>, p) = <<>>
         /\ OfPid(Append(s, e), p) = IF e.pid = p THEN Append(OfPid(s, p), e) ELSE OfPid(s, p)
<1>1. ASSUME NEW t \in Seq(Event) PROVE OfPid(t, p) = OnlyIn(t, OfPidSet(p))
  <2>1. \A i \in DOMAIN t : t[i].pid = p <=> t[i] \in OfPidSet(p)
    BY <1>1 DEF OfPidSet
  <2>2. QED
    BY <2>1 DEF OfPid, Only, OnlyIn
<1>2. <<>> \in Seq(Event) /\ Append(s, e) \in Seq(Event)
  OBVIOUS
<1>3. OfPid(s, p) \in Seq(Event)
  <2>1. OfPid(s, p) \in Seq(Event \cap OfPidSet(p))
    BY <1>1, OnlyInElements
  <2>2. Event \cap OfPidSet(p) \subseteq Event
    OBVIOUS
  <2>3. QED
    BY <2>1, <2>2, SeqMonotonic
<1>4. OfPid(<<>>, p) = <<>>
  BY <1>1, <1>2, OnlyInNone
<1>5. OfPid(Append(s, e), p) = IF e \in OfPidSet(p) THEN Append(OfPid(s, p), e) ELSE OfPid(s, p)
  <2>1. OfPid(Append(s, e), p) = OnlyIn(Append(s, e), OfPidSet(p))
    BY <1>1, <1>2
  <2>2. OfPid(s, p) = OnlyIn(s, OfPidSet(p))
    BY <1>1
  <2>3. QED
    BY <2>1, <2>2, OnlyInAppend
<1>6. e \in OfPidSet(p) <=> e.pid = p
  BY DEF OfPidSet
<1>7. QED
  BY <1>3, <1>4, <1>5, <1>6

\* the parts that CutOf flattens
CutParts(ws, p) == [i \in DOMAIN ws |-> IF ws[i].pid = p THEN ws[i].events ELSE <<>>]

LEMMA CutPartsType ==
  ASSUME NEW ws \in Seq(Window), NEW p
  PROVE  CutParts(ws, p) \in Seq(Seq(Event)) /\ Len(CutParts(ws, p)) = Len(ws)
<1> DEFINE T == Seq(Event)
           q == CutParts(ws, p)
<1>1. DOMAIN ws = 1 .. Len(ws) /\ Len(ws) \in Nat
  OBVIOUS
<1>2. ASSUME NEW i \in 1 .. Len(ws)
      PROVE  (IF ws[i].pid = p THEN ws[i].events ELSE <<>>) \in T
  <2>1. ws[i].events \in Seq(Event) /\ <<>> \in Seq(Event)
    <3>1. ws[i] \in Window
      BY <1>2
    <3>2. QED
      BY <3>1 DEF Window
  <2>2. QED
    BY <2>1
<1> HIDE DEF T
<1>3. q \in [1 .. Len(ws) -> T]
  BY <1>1, <1>2 DEF CutParts
<1> HIDE DEF q
<1>4. q \in Seq(T) /\ Len(q) = Len(ws)
  BY <1>1, <1>3
<1>5. QED
  BY <1>4 DEF T, q

LEMMA CutAppend ==
  ASSUME NEW ws \in Seq(Window), NEW w \in Window, NEW p
  PROVE  /\ FlattenSeq(CutParts(ws, p)) \in Seq(Event)
         /\ FlattenSeq(CutParts(Append(ws, w), p))
              = FlattenSeq(CutParts(ws, p)) \o (IF w.pid = p THEN w.events ELSE <<>>)
<1> DEFINE T == Seq(Event)
           d == IF w.pid = p THEN w.events ELSE <<>>
           v == Append(ws, w)
           q == CutParts(ws, p)
           u == CutParts(v, p)
           z == Append(q, d)
<1>1. v \in Seq(Window) /\ Len(v) = Len(ws) + 1 /\ Len(ws) \in Nat /\ v[Len(ws) + 1] = w
      /\ \A i \in 1 .. Len(ws) : v[i] = ws[i]
  BY AppendProperties
<1>2. d \in T
  <2>1. w.events \in Seq(Event) /\ <<>> \in Seq(Event)
    BY DEF Window
  <2>2. QED
    BY <2>1
<1> HIDE DEF v
<1>3. q \in Seq(T) /\ Len(q) = Len(ws) /\ u \in Seq(T) /\ Len(u) = Len(ws) + 1
  BY <1>1, CutPartsType
<1>4. ASSUME NEW i \in 1 .. Len(ws) PROVE u[i] = q[i]
  <2>1. i \in DOMAIN v /\ i \in DOMAIN ws /\ v[i] = ws[i]
    BY <1>1
  <2>2. QED
    BY <2>1 DEF CutParts
<1>5. u[Len(ws) + 1] = d
  <2>1. Len(ws) + 1 \in DOMAIN v /\ v[Len(ws) + 1] = w
    BY <1>1
  <2>2. QED
    BY <2>1 DEF CutParts
<1>6. FlattenSeq(q) \in Seq(Event)
  BY <1>3, FlattenType
<1> HIDE DEF T, q, u, d
<1>7. z \in Seq(T) /\ Len(z) = Len(ws) + 1 /\ z[Len(ws) + 1] = d
      /\ \A i \in 1 .. Len(ws) : z[i] = q[i]
  BY <1>2, <1>3, AppendProperties
<1> HIDE DEF z
<1>8. \A i \in 1 .. Len(u) : u[i] = z[i]
  <2>1. \A i \in 1 .. Len(u) : i \in 1 .. Len(ws) \/ i = Len(ws) + 1
    BY <1>1, <1>3
  <2>2. QED
    BY <1>4, <1>5, <1>7, <2>1
<1>9. u = z
  BY <1>3, <1>7, <1>8, SeqEqual
<1>10. FlattenSeq(z) = FlattenSeq(q) \o d
  BY <1>2, <1>3, FlattenAppend DEF z, T
<1>11. QED
  BY <1>6, <1>9, <1>10 DEF q, u, v, d

LEMMA AppendToConcat ==
  ASSUME NEW s \in Seq(Event), NEW t \in Seq(Event), NEW e \in Event
  PROVE  Append(s \o t, e) = s \o Append(t, e)
<1>1. Append(s \o t, e) = (s \o t) \o <<e>>
  BY ConcatProperties, AppendIsConcat
<1>2. Append(t, e) = t \o <<e>> /\ <<e>> \in Seq(Event)
  BY AppendIsConcat
<1>3. (s \o t) \o <<e>> = s \o (t \o <<e>>)
  BY <1>2, ConcatAssociative
<1>4. QED
  BY <1>1, <1>2, <1>3

LEMMA ConsumeCuts ==
  ASSUME TypeInv, Cutting, Sized, reader = "parser", Consume, UNCHANGED ingestorVars
  PROVE  Cutting' /\ Sized'
<1> DEFINE e == Resolved(file[line + 1])
           buf == Append(buffers[e.pid], e)
           w == [pid |-> e.pid, events |-> buf]
<1>1. e \in Event /\ emitted' = Append(emitted, e) /\ Collect(e)
  BY ConsumeStep
<1> HIDE DEF e
<1>2. /\ e.pid \in Pids /\ emitted \in Seq(Event) /\ raw \in Seq(Window)
      /\ buffers \in [Pids -> Seq(Event)] /\ reader' = reader
  BY <1>1 DEF Event, TypeInv, ingestorVars
<1>3. /\ buf \in Seq(Event) /\ Len(buf) = Len(buffers[e.pid]) + 1
      /\ Len(buffers[e.pid]) \in Nat /\ Len(buffers[e.pid]) < WindowSize
  BY <1>1, <1>2 DEF Sized
<1>4. \/ Len(buf) < WindowSize /\ buffers' = [buffers EXCEPT ![e.pid] = buf] /\ raw' = raw
      \/ /\ ~(Len(buf) < WindowSize)
         /\ buffers' = [buffers EXCEPT ![e.pid] = <<>>] /\ raw' = Append(raw, w)
  BY <1>1 DEF Collect
<1>5. w \in Window
  BY <1>2, <1>3 DEF Window
<1>6. Len(buf) <= WindowSize /\ WindowSize \in Nat \ {0}
  BY <1>3, WindowsAssumption
<1>7. \A p : CutOf(p) = FlattenSeq(CutParts(raw, p)) /\ CutOf(p)' = FlattenSeq(CutParts(raw', p))
  BY DEF CutOf, CutParts
<1> HIDE DEF buf, w
<1>8. ASSUME NEW p \in Pids
      PROVE  OfPid(emitted', p) = FlattenSeq(CutParts(raw', p)) \o buffers'[p]
  <2> DEFINE o == OfPid(emitted, p)
             c == FlattenSeq(CutParts(raw, p))
  <2>1. o = c \o buffers[p] /\ buffers[p] \in Seq(Event)
    BY <1>2, <1>7 DEF Cutting
  <2>2. o \in Seq(Event) /\ OfPid(emitted', p) = IF e.pid = p THEN Append(o, e) ELSE o
    BY <1>1, <1>2, OfPidStep
  <2>3. /\ c \in Seq(Event)
        /\ FlattenSeq(CutParts(Append(raw, w), p)) = c \o (IF w.pid = p THEN w.events ELSE <<>>)
    BY <1>2, <1>5, CutAppend
  <2> HIDE DEF o, c
  <2>4. w.pid = e.pid /\ w.events = buf
    BY DEF w
  <2>5. CASE e.pid = p
    <3>1. Append(o, e) = c \o buf
      <4>1. Append(c \o buffers[p], e) = c \o Append(buffers[p], e)
        BY <1>1, <2>1, <2>3, AppendToConcat
      <4>2. QED
        BY <2>1, <2>5, <4>1 DEF buf
    <3>2. buf \o <<>> = buf /\ c \o buf \in Seq(Event)
      BY <1>3, <2>3
    <3>3. CASE buffers' = [buffers EXCEPT ![e.pid] = buf] /\ raw' = raw
      <4>1. buffers'[p] = buf
        BY <1>2, <2>5, <3>3
      <4>2. QED
        BY <2>2, <2>5, <3>1, <3>3, <4>1 DEF c
    <3>4. CASE buffers' = [buffers EXCEPT ![e.pid] = <<>>] /\ raw' = Append(raw, w)
      <4>1. buffers'[p] = <<>>
        BY <1>2, <2>5, <3>4
      <4>2. FlattenSeq(CutParts(raw', p)) = c \o buf
        BY <2>3, <2>4, <2>5, <3>4
      <4>3. (c \o buf) \o <<>> = c \o buf
        BY <3>2, ConcatEmptySeq
      <4>4. QED
        BY <2>2, <2>5, <3>1, <4>1, <4>2, <4>3
    <3>5. QED
      BY <1>4, <3>3, <3>4
  <2>6. CASE e.pid # p
    <3>1. buffers'[p] = buffers[p]
      BY <1>2, <1>4, <2>6
    <3>2. c \o <<>> = c
      BY <2>3, ConcatEmptySeq
    <3>3. FlattenSeq(CutParts(raw', p)) = c
      BY <1>4, <2>3, <2>4, <2>6, <3>2 DEF c
    <3>4. QED
      BY <2>1, <2>2, <2>6, <3>1, <3>3
  <2>7. QED
    BY <2>5, <2>6
<1>9. Cutting'
  BY <1>2, <1>7, <1>8 DEF Cutting
<1>10. \A p \in Pids : Len(buffers'[p]) < WindowSize
  <2> TAKE p \in Pids
  <2>1. Len(buffers[p]) < WindowSize
    BY DEF Sized
  <2>2. Len(<<>>) < WindowSize
    BY <1>6
  <2>3. QED
    BY <1>2, <1>4, <2>1, <2>2
<1>11. \A j \in 1 .. Len(raw') : Len(raw'[j].events) = WindowSize
  <2>1. \A j \in 1 .. Len(raw) : Len(raw[j].events) = WindowSize
    BY DEF Sized
  <2>2. CASE raw' = raw
    BY <2>1, <2>2
  <2>3. CASE ~(Len(buf) < WindowSize) /\ raw' = Append(raw, w)
    <3>1. Len(w.events) = WindowSize
      BY <1>3, <1>6, <2>3 DEF w
    <3>2. /\ Len(raw') = Len(raw) + 1 /\ Len(raw) \in Nat /\ raw'[Len(raw) + 1] = w
          /\ \A j \in 1 .. Len(raw) : raw'[j] = raw[j]
      BY <1>2, <1>5, <2>3
    <3>3. \A j \in 1 .. Len(raw') : j \in 1 .. Len(raw) \/ j = Len(raw) + 1
      BY <3>2
    <3>4. QED
      BY <2>1, <3>1, <3>2, <3>3
  <2>4. QED
    BY <1>4, <2>2, <2>3
<1>12. QED
  BY <1>9, <1>10, <1>11 DEF Sized

LEMMA StreamCuts ==
  ASSUME TypeInv, Cutting, reader = "ingestor", Stream
  PROVE  Cutting'
<1>1. PICK comm \in Texts :
        LET r == file[line + 1] e == Streamed(r, comm) IN
        /\ e \in Event /\ emitted' = Append(emitted, e)
        /\ \/ window' = <<>> /\ windows' = Append(windows, Append(window, e))
           \/ window' = Append(window, e) /\ windows' = windows
  BY StreamStep
<1> DEFINE e == Streamed(file[line + 1], comm)
           f == FlattenSeq(windows)
<1>2. /\ e \in Event /\ emitted' = Append(emitted, e)
      /\ \/ window' = <<>> /\ windows' = Append(windows, Append(window, e))
         \/ window' = Append(window, e) /\ windows' = windows
  BY <1>1
<1> HIDE DEF e
<1>3. /\ emitted = f \o window /\ reader' = "ingestor" /\ pass' # "done"
  BY DEF Cutting, Stream
<1>4. /\ window \in Seq(Event) /\ windows \in Seq(Seq(Event)) /\ f \in Seq(Event)
      /\ Append(window, e) \in Seq(Event)
  <2>1. window \in Seq(Event) /\ windows \in Seq(Seq(Event))
    BY DEF TypeInv
  <2>2. QED
    BY <1>2, <2>1, FlattenType
<1>5. FlattenSeq(Append(windows, Append(window, e))) = f \o Append(window, e)
  BY <1>4, FlattenAppend
<1> HIDE DEF f
<1>6. Append(f \o window, e) = f \o Append(window, e)
  BY <1>2, <1>4, AppendToConcat
<1>7. (f \o Append(window, e)) \o <<>> = f \o Append(window, e)
  <2>1. f \o Append(window, e) \in Seq(Event)
    BY <1>4
  <2>2. QED
    BY <2>1, ConcatEmptySeq
<1>8. emitted' = FlattenSeq(windows') \o window'
  BY <1>2, <1>3, <1>5, <1>6, <1>7 DEF f
<1>9. QED
  BY <1>3, <1>8 DEF Cutting

LEMMA FlushCuts ==
  ASSUME TypeInv, Cutting, reader = "ingestor", Flush
  PROVE  Cutting' /\ windows' \in Seq(Seq(Event)) /\ window' \in Seq(Event)
<1> DEFINE f == FlattenSeq(windows)
<1>1. /\ emitted = f \o window /\ reader' = "ingestor" /\ window' = <<>> /\ emitted' = emitted
      /\ windows' = IF window = <<>> THEN windows ELSE Append(windows, window)
  BY DEF Cutting, Flush, EndOfFile
<1>2. window \in Seq(Event) /\ windows \in Seq(Seq(Event))
  BY DEF TypeInv
<1>3. f \in Seq(Event) /\ FlattenSeq(Append(windows, window)) = f \o window
  BY <1>2, FlattenType, FlattenAppend
<1> HIDE DEF f
<1>4. (f \o window) \o <<>> = f \o window
  <2>1. f \o window \in Seq(Event)
    BY <1>2, <1>3
  <2>2. QED
    BY <2>1, ConcatEmptySeq
<1>5. emitted' = FlattenSeq(windows') \o window'
  BY <1>1, <1>3, <1>4 DEF f
<1>6. Append(windows, window) \in Seq(Seq(Event))
  <2> DEFINE T == Seq(Event)
  <2>1. windows \in Seq(T) /\ window \in T
    BY <1>2
  <2> HIDE DEF T
  <2>2. Append(windows, window) \in Seq(T)
    BY <2>1, AppendProperties
  <2>3. QED
    BY <2>2 DEF T
<1>7. <<>> \in Seq(Event)
  OBVIOUS
<1>8. QED
  BY <1>1, <1>2, <1>5, <1>6, <1>7 DEF Cutting

\* A step that neither emits nor cuts.
LEMMA CuttingStays ==
  ASSUME Cutting, Sized, UNCHANGED <<emitted, reader, window, windows, buffers, raw>>,
         pass' = "done" /\ reader # "parser" => window = <<>>
  PROVE  Cutting' /\ Sized'
<1>1. \A p : CutOf(p)' = CutOf(p)
  BY DEF CutOf
<1>2. Cutting'
  BY <1>1 DEF Cutting
<1>3. QED
  BY <1>2 DEF Sized

-----------------------------------------------------------------------------
(* The labels and the sample.                                                *)

LEMMA TakeType ==
  ASSUME NEW E, NEW s \in Seq(E), NEW n \in Nat
  PROVE  Take(s, n) \in Seq(E) /\ Len(Take(s, n)) <= n
<1> DEFINE m == IF n < Len(s) THEN n ELSE Len(s)
<1>1. m \in Nat /\ m <= n /\ m <= Len(s)
  OBVIOUS
<1>2. Take(s, n) = SubSeq(s, 1, m)
  BY DEF Take
<1> HIDE DEF m
<1>3. SubSeq(s, 1, m) \in Seq(E) /\ Len(SubSeq(s, 1, m)) = m
  BY <1>1, SubSeqProperties
<1>4. QED
  BY <1>1, <1>2, <1>3

\* A filter keeps the type.
LEMMA OnlyInType ==
  ASSUME NEW E, NEW s \in Seq(E), NEW P
  PROVE  OnlyIn(s, P) \in Seq(E)
<1>1. OnlyIn(s, P) \in Seq(E \cap P)
  BY OnlyInElements
<1>2. E \cap P \subseteq E
  OBVIOUS
<1>3. QED
  BY <1>1, <1>2, SeqMonotonic

LEMMA HardShare ==
  LET n == (MaxAttack * HardPercent) \div 100 IN n \in Nat /\ n <= MaxAttack
<1> DEFINE x == MaxAttack * HardPercent
<1>1. MaxAttack \in Nat /\ HardPercent \in Nat /\ HardPercent <= 100
  BY WindowsAssumption
<1>2. x \in Nat /\ x <= MaxAttack * 100
  <2>1. MaxAttack * (100 - HardPercent) >= 0
    BY <1>1
  <2>2. MaxAttack * (100 - HardPercent) = MaxAttack * 100 - MaxAttack * HardPercent
    BY <1>1
  <2>3. x \in Nat
    BY <1>1
  <2>4. QED
    BY <1>1, <2>1, <2>2, <2>3
<1> HIDE DEF x
<1>3. x \div 100 \in Nat /\ x \div 100 <= MaxAttack
  BY <1>1, <1>2
<1>4. QED
  BY <1>3 DEF x

LEMMA SampledType ==
  ASSUME attack \in Seq(Attacks)
  PROVE  Sampled \in Seq(Attacks) /\ Len(Sampled) <= MaxAttack
<1> DEFINE A == Attacks
           LevelSet(k) == {w \in A : w.priority /\ Prio(w) = k}
           Level(k) == Only(attack, LAMBDA w : w.priority /\ Prio(w) = k)
           Rest == Only(attack, LAMBDA w : ~w.priority)
           easy == Level(0) \o Level(1) \o Level(2)
           hard == Level(3) \o Rest
           nHard == (MaxAttack * HardPercent) \div 100
<1>1. \A i \in DOMAIN attack : attack[i] \in A
  OBVIOUS
<1>2. /\ Level(0) = OnlyIn(attack, LevelSet(0)) /\ Level(1) = OnlyIn(attack, LevelSet(1))
      /\ Level(2) = OnlyIn(attack, LevelSet(2)) /\ Level(3) = OnlyIn(attack, LevelSet(3))
  <2>1. \A k : \A i \in DOMAIN attack :
          (attack[i].priority /\ Prio(attack[i]) = k) <=> attack[i] \in LevelSet(k)
    BY <1>1
  <2> HIDE DEF LevelSet
  <2>2. Level(0) = OnlyIn(attack, LevelSet(0))
    <3>1. \A i \in DOMAIN attack :
            (attack[i].priority /\ Prio(attack[i]) = 0) <=> attack[i] \in LevelSet(0)
      BY <2>1
    <3>2. QED
      BY <3>1 DEF Only, OnlyIn
  <2>3. Level(1) = OnlyIn(attack, LevelSet(1))
    <3>1. \A i \in DOMAIN attack :
            (attack[i].priority /\ Prio(attack[i]) = 1) <=> attack[i] \in LevelSet(1)
      BY <2>1
    <3>2. QED
      BY <3>1 DEF Only, OnlyIn
  <2>4. Level(2) = OnlyIn(attack, LevelSet(2))
    <3>1. \A i \in DOMAIN attack :
            (attack[i].priority /\ Prio(attack[i]) = 2) <=> attack[i] \in LevelSet(2)
      BY <2>1
    <3>2. QED
      BY <3>1 DEF Only, OnlyIn
  <2>5. Level(3) = OnlyIn(attack, LevelSet(3))
    <3>1. \A i \in DOMAIN attack :
            (attack[i].priority /\ Prio(attack[i]) = 3) <=> attack[i] \in LevelSet(3)
      BY <2>1
    <3>2. QED
      BY <3>1 DEF Only, OnlyIn
  <2>6. QED
    BY <2>2, <2>3, <2>4, <2>5
<1>3. Rest \in Seq(A)
  <2> DEFINE P == {w \in A : ~w.priority}
  <2>1. \A i \in DOMAIN attack : ~attack[i].priority <=> attack[i] \in P
    BY <1>1
  <2>2. Rest = OnlyIn(attack, P)
    BY <2>1 DEF Only, OnlyIn
  <2>3. QED
    BY <2>2, OnlyInType
<1>4. Sampled = IF HardPercent > 0
                THEN Take(easy, MaxAttack - nHard) \o Take(hard, nHard)
                ELSE Take(easy \o hard, MaxAttack)
  BY DEF Sampled
<1>5. Level(0) \in Seq(A) /\ Level(1) \in Seq(A) /\ Level(2) \in Seq(A) /\ Level(3) \in Seq(A)
  BY <1>2, OnlyInType
<1> HIDE DEF Level, Rest, A
<1>6. easy \in Seq(A) /\ hard \in Seq(A)
  BY <1>3, <1>5
<1>7. nHard \in Nat /\ nHard <= MaxAttack /\ MaxAttack \in Nat
  BY HardShare, WindowsAssumption
<1> HIDE DEF easy, hard, nHard
<1>8. /\ Take(easy, MaxAttack - nHard) \in Seq(A)
      /\ Len(Take(easy, MaxAttack - nHard)) <= MaxAttack - nHard
      /\ Take(hard, nHard) \in Seq(A) /\ Len(Take(hard, nHard)) <= nHard
  <2>1. MaxAttack - nHard \in Nat
    BY <1>7
  <2>2. QED
    BY <1>6, <1>7, <2>1, TakeType
<1>9. easy \o hard \in Seq(A)
  BY <1>6
<1>10. Take(easy \o hard, MaxAttack) \in Seq(A) /\ Len(Take(easy \o hard, MaxAttack)) <= MaxAttack
  BY <1>7, <1>9, TakeType
<1> DEFINE a == Take(easy, MaxAttack - nHard)
           b == Take(hard, nHard)
<1>11. a \o b \in Seq(A) /\ Len(a \o b) <= MaxAttack
  <2> HIDE DEF a, b
  <2>1. a \in Seq(A) /\ b \in Seq(A) /\ Len(a) <= MaxAttack - nHard /\ Len(b) <= nHard
    BY <1>8 DEF a, b
  <2>2. a \o b \in Seq(A) /\ Len(a \o b) = Len(a) + Len(b) /\ Len(a) \in Nat /\ Len(b) \in Nat
    BY <2>1
  <2>3. QED
    BY <1>7, <2>1, <2>2
<1>12. QED
  BY <1>4, <1>10, <1>11 DEF A

\* What is labelled does not change once raw and ppids do not.
LEMMA LabelledStays ==
  ASSUME UNCHANGED <<raw, ppids>>
  PROVE  LabelledRaw' = LabelledRaw /\ Attacks' = Attacks /\ Calm' = Calm
<1>1. C2Windows' = C2Windows
  BY DEF C2Windows, MarkedIn, Only
<1>2. \A p : Walk(p)' = Walk(p)
  BY DEF Walk
<1>3. \A a : Below(a)' = Below(a)
  BY <1>1, <1>2 DEF Below, Only
<1>4. \A a : (IsAncestor(a)' <=> IsAncestor(a)) /\ ChildResource(a)' = ChildResource(a)
  BY <1>3 DEF IsAncestor, ChildResource, MarkedIn, Only
<1>5. \A w : Synthetic(w)' = Synthetic(w)
  BY <1>4, Zenon DEF Synthetic, MarkedIn, Only
<1>6. \A w : HasC2(w)' <=> HasC2(w)
  BY <1>5, Zenon DEF HasC2, Has
<1>7. \A w : (IsAttack(w)' <=> IsAttack(w)) /\ GtName(w)' = GtName(w)
  BY <1>4, <1>6, Zenon DEF IsAttack, GtName, Hits, Has, Only
<1>8. \A w : Labelled(w)' = Labelled(w)
  BY <1>5, <1>6, <1>7 DEF Labelled
<1>9. LabelledRaw' = LabelledRaw
  BY <1>8 DEF LabelledRaw
<1>10. QED
  BY <1>9 DEF Attacks, Calm

LEMMA GroupedType ==
  ASSUME TypeInv
  PROVE  Grouped \in Seq({raw[j] : j \in 1 .. Len(raw)})
<1> DEFINE Kept == {raw[j] : j \in 1 .. Len(raw)}
           T == Seq(Kept)
           id == [i \in DOMAIN raw |-> i]
           IsFirst == {i \in 1 .. Len(raw) : \A j \in 1 .. i - 1 : raw[j].pid # raw[i].pid}
           firsts == Only(id, LAMBDA i : \A j \in 1 .. i - 1 : raw[j].pid # raw[i].pid)
           group(i) == Only(raw, LAMBDA w : w.pid = raw[i].pid /\ w.pid # 0)
           groups == [k \in DOMAIN firsts |-> group(firsts[k])]
<1>1. DOMAIN raw = 1 .. Len(raw) /\ Len(raw) \in Nat /\ raw \in Seq(Kept)
  <2>1. raw \in Seq(Window)
    BY DEF TypeInv
  <2>2. DOMAIN raw = 1 .. Len(raw) /\ Len(raw) \in Nat /\ raw = [j \in 1 .. Len(raw) |-> raw[j]]
    BY <2>1
  <2>3. \A j \in 1 .. Len(raw) : raw[j] \in Kept
    OBVIOUS
  <2> HIDE DEF Kept
  <2>4. raw \in [1 .. Len(raw) -> Kept]
    BY <2>2, <2>3
  <2>5. QED
    BY <2>2, <2>4, IsASeq
<1>2. firsts \in Seq(1 .. Len(raw))
  <2>1. id \in Seq(1 .. Len(raw)) /\ DOMAIN id = 1 .. Len(raw) /\ \A i \in DOMAIN id : id[i] = i
    BY <1>1
  <2>2. \A i \in DOMAIN id :
          (\A j \in 1 .. id[i] - 1 : raw[j].pid # raw[id[i]].pid) <=> id[i] \in IsFirst
    BY <2>1
  <2> HIDE DEF IsFirst, id
  <2>3. firsts = OnlyIn(id, IsFirst)
    BY <2>2 DEF Only, OnlyIn
  <2>4. QED
    BY <2>1, <2>3, OnlyInType
<1>3. ASSUME NEW i PROVE group(i) \in T
  <2> DEFINE P == {w \in Kept : w.pid = raw[i].pid /\ w.pid # 0}
  <2>1. \A j \in DOMAIN raw : (raw[j].pid = raw[i].pid /\ raw[j].pid # 0) <=> raw[j] \in P
    BY <1>1
  <2> HIDE DEF P
  <2>2. group(i) = OnlyIn(raw, P)
    BY <2>1 DEF Only, OnlyIn
  <2>3. QED
    BY <1>1, <2>2, OnlyInType
<1> HIDE DEF firsts, T, group
<1>4. groups \in Seq(T)
  <2>1. DOMAIN firsts = 1 .. Len(firsts) /\ Len(firsts) \in Nat
    BY <1>2
  <2>2. groups \in [1 .. Len(firsts) -> T]
    BY <1>3, <2>1
  <2>3. QED
    BY <2>1, <2>2, IsASeq
<1>5. Grouped = FlattenSeq(groups)
  BY DEF Grouped, firsts, group
<1> HIDE DEF groups, Kept
<1>6. FlattenSeq(groups) \in Seq(Kept)
  BY <1>4, FlattenType DEF T
<1>7. QED
  BY <1>5, <1>6 DEF Kept

LEMMA LabelStep ==
  ASSUME TypeInv, Label
  PROVE  attack' \in Seq(Attacks) /\ benign' \in Seq(Calm)
<1> DEFINE all == [i \in DOMAIN Grouped |-> Labelled(Grouped[i])]
           calm == Only(all, LAMBDA w : ~w.is_attack)
           m == IF Len(calm) < 4 * MaxBenign THEN Len(calm) ELSE 4 * MaxBenign
           L == LabelledRaw
<1>1. all \in Seq(L)
  <2> DEFINE Kept == {raw[j] : j \in 1 .. Len(raw)}
             g == Grouped
  <2>1. g \in Seq(Kept)
    BY GroupedType
  <2>2. \A w \in Kept : Labelled(w) \in L
    BY DEF LabelledRaw
  <2> HIDE DEF Kept, g, L
  <2>3. DOMAIN g = 1 .. Len(g) /\ Len(g) \in Nat /\ \A i \in DOMAIN g : g[i] \in Kept
    BY <2>1
  <2>4. [i \in DOMAIN g |-> Labelled(g[i])] \in [1 .. Len(g) -> L]
    BY <2>2, <2>3
  <2>5. [i \in DOMAIN g |-> Labelled(g[i])] \in Seq(L)
    BY <2>3, <2>4, IsASeq
  <2>6. QED
    BY <2>5 DEF g
<1>2. attack' = Only(all, LAMBDA w : w.is_attack) /\ benign' = SubSeq(calm, 1, m)
  BY DEF Label
<1>3. Attacks = {w \in L : w.is_attack} /\ Calm = {w \in L : ~w.is_attack}
  BY DEF Attacks, Calm
<1> HIDE DEF L, all
<1>4. \A i \in DOMAIN all : all[i] \in L
  BY <1>1
<1>5. attack' \in Seq(Attacks)
  <2>1. \A i \in DOMAIN all : all[i].is_attack <=> all[i] \in Attacks
    BY <1>3, <1>4
  <2>2. attack' = OnlyIn(all, Attacks)
    BY <1>2, <2>1 DEF Only, OnlyIn
  <2>3. OnlyIn(all, Attacks) \in Seq(L \cap Attacks) /\ L \cap Attacks \subseteq Attacks
    BY <1>1, OnlyInElements
  <2>4. QED
    BY <2>2, <2>3, SeqMonotonic
<1>6. calm \in Seq(Calm)
  <2>1. \A i \in DOMAIN all : ~all[i].is_attack <=> all[i] \in Calm
    BY <1>3, <1>4
  <2>2. calm = OnlyIn(all, Calm)
    BY <2>1 DEF Only, OnlyIn
  <2>3. OnlyIn(all, Calm) \in Seq(L \cap Calm) /\ L \cap Calm \subseteq Calm
    BY <1>1, OnlyInElements
  <2>4. QED
    BY <2>2, <2>3, SeqMonotonic
<1> HIDE DEF calm
<1>7. m \in Nat /\ m <= Len(calm)
  BY <1>6, WindowsAssumption
<1> HIDE DEF m
<1>8. SubSeq(calm, 1, m) \in Seq(Calm)
  BY <1>6, <1>7, SubSeqProperties
<1>9. QED
  BY <1>2, <1>5, <1>8

LEMMA SampleStep ==
  ASSUME attack \in Seq(Attacks), benign \in Seq(Calm), Sample
  PROVE  /\ sample' \in Seq(LabelledRaw)
         /\ Cardinality({i \in DOMAIN sample' : sample'[i].is_attack}) <= MaxAttack
<1> DEFINE a == Sampled
           b == Take(benign, MaxBenign)
           s == a \o b
<1>1. a \in Seq(Attacks) /\ Len(a) <= MaxAttack
  BY SampledType
<1>2. b \in Seq(Calm)
  BY TakeType, WindowsAssumption
<1>3. sample' = s
  BY DEF Sample
<1>4. Attacks \subseteq LabelledRaw /\ Calm \subseteq LabelledRaw
  BY DEF Attacks, Calm
<1> HIDE DEF a, b
<1>5. a \in Seq(LabelledRaw) /\ b \in Seq(LabelledRaw)
  BY <1>1, <1>2, <1>4, SeqMonotonic
<1>6. /\ s \in Seq(LabelledRaw) /\ DOMAIN s = 1 .. Len(a) + Len(b)
      /\ Len(a) \in Nat /\ Len(b) \in Nat
      /\ \A i \in 1 .. Len(a) + Len(b) : i > Len(a) => s[i] = b[i - Len(a)]
  BY <1>5
<1> HIDE DEF s
<1> DEFINE S == {i \in DOMAIN s : s[i].is_attack}
<1>7. S \subseteq 1 .. Len(a)
  <2>1. ASSUME NEW i \in S, i > Len(a) PROVE FALSE
    <3>1. s[i] = b[i - Len(a)] /\ i - Len(a) \in 1 .. Len(b)
      BY <1>6, <2>1
    <3>2. b[i - Len(a)] \in Calm
      BY <1>2, <3>1
    <3>3. QED
      BY <2>1, <3>1, <3>2 DEF Calm
  <2>2. QED
    BY <1>6, <2>1
<1>8. IsFiniteSet(1 .. Len(a)) /\ Cardinality(1 .. Len(a)) = Len(a)
  <2> DEFINE n == Len(a)
  <2>1. n \in Nat
    BY <1>6
  <2> HIDE DEF n
  <2>2. /\ IsFiniteSet(1 .. n)
        /\ Cardinality(1 .. n) = IF 1 > n THEN 0 ELSE n - 1 + 1
    BY <2>1, FS_Interval
  <2>3. Cardinality(1 .. n) = n
    BY <2>1, <2>2
  <2>4. QED
    BY <2>2, <2>3 DEF n
<1>9. IsFiniteSet(S) /\ Cardinality(S) <= Len(a)
  BY <1>7, <1>8, FS_Subset
<1>10. Cardinality(S) <= MaxAttack
  <2>1. Cardinality(S) \in Nat /\ MaxAttack \in Nat
    BY <1>9, FS_CardinalityType, WindowsAssumption
  <2>2. QED
    BY <1>1, <1>6, <1>9, <2>1
<1>11. QED
  BY <1>3, <1>6, <1>10

-----------------------------------------------------------------------------
(* The invariant, one step per action.                                       *)

LEMMA EmptyCount == Cardinality({i \in DOMAIN <<>> : <<>>[i].is_attack}) <= MaxAttack
<1>1. {i \in DOMAIN <<>> : <<>>[i].is_attack} = {}
  OBVIOUS
<1>2. Cardinality({}) = 0
  BY FS_EmptySet
<1>3. MaxAttack \in Nat
  BY WindowsAssumption
<1>4. QED
  BY <1>1, <1>2, <1>3

LEMMA InitTables ==
  ASSUME Init
  PROVE  Known
<1>1. /\ pass = "entities" /\ line = 0
      /\ subjects = [u \in References |-> NoSubject]
  BY DEF Init, IngestorInit, ParserInit
<1>2. Upto = 0
  BY <1>1 DEF Upto
<1>3. NoSubject.pid = 0 /\ NoSubject.parent = NoUuid
  BY DEF NoSubject
<1> HIDE DEF NoSubject
<1>4. ASSUME NEW u \in References PROVE SubjectKnown(u, 0) /\ ObjectKnown(u, 0)
  <2>1. subjects[u].pid = 0 /\ subjects[u].parent = NoUuid
    BY <1>1, <1>3
  <2>2. \A i : i \notin 1 .. 0
    OBVIOUS
  <2>3. SubjectKnown(u, 0)
    BY <2>1, <2>2, Zenon DEF SubjectKnown
  <2>4. ObjectKnown(u, 0)
    BY <2>2, Zenon DEF ObjectKnown
  <2>5. QED
    BY <2>3, <2>4
<1>5. QED
  BY <1>2, <1>4 DEF Known

LEMMA InitInv == Init => Inv
<1> SUFFICES ASSUME Init PROVE Inv
  OBVIOUS
<1>1. /\ file \in Files /\ pass = "entities" /\ line = 0
      /\ subjects = [u \in References |-> NoSubject]
      /\ emitted = <<>> /\ reader \in {"parser", "ingestor"}
      /\ window = <<>> /\ windows = <<>>
      /\ buffers = [p \in Pids |-> <<>>] /\ ppids = [p \in Pids |-> 0]
      /\ raw = <<>> /\ attack = <<>> /\ benign = <<>> /\ sample = <<>>
  BY DEF Init, IngestorInit, ParserInit
<1>2. TypeInv
  <2>1. file \in Seq(Records)
    <3>1. Files \subseteq Seq(Records)
      BY FilesAssumption
    <3>2. QED
      BY <1>1, <3>1
  <2>2. subjects \in [References -> SubjectRecord]
    <3>1. NoSubject \in SubjectRecord
      <4>1. 0 \in Pids /\ NoUuid \in References /\ "" \in Texts
        BY ReferencesType, TextsType
      <4>2. QED
        BY <4>1 DEF NoSubject, SubjectRecord
    <3> HIDE DEF NoSubject
    <3>2. QED
      BY <1>1, <3>1
  <2>3. objects \in [References -> Texts]
    <3> DEFINE none == ""
    <3>1. none \in Texts /\ objects = [u \in References |-> none]
      BY TextsType DEF Init, IngestorInit, ParserInit
    <3> HIDE DEF none
    <3>2. QED
      BY <3>1
  <2>4. line \in 0 .. Len(file)
    BY <1>1, <2>1
  <2>5. buffers \in [Pids -> Seq(Event)] /\ ppids \in [Pids -> Pids]
    BY <1>1, ReferencesType
  <2>6. /\ emitted \in Seq(Event) /\ window \in Seq(Event) /\ windows \in Seq(Seq(Event))
        /\ raw \in Seq(Window)
    BY <1>1
  <2>7. QED
    BY <1>1, <2>1, <2>2, <2>3, <2>4, <2>5, <2>6 DEF TypeInv
<1>3. Known
  BY InitTables
<1>4. Resolution
  <2>1. EventsRead = <<>>
    BY <1>1, <1>2, EventsReadStep
  <2>2. QED
    BY <1>1, <2>1 DEF Resolution
<1>5. Cutting
  <2>1. ASSUME NEW p \in Pids PROVE OfPid(emitted, p) = CutOf(p) \o buffers[p]
    <3>1. CutOf(p) = <<>>
      <4>1. [i \in DOMAIN raw |-> IF raw[i].pid = p THEN raw[i].events ELSE <<>>] = <<>>
        BY <1>1
      <4>2. QED
        BY <4>1, FlattenEmpty DEF CutOf
    <3>2. OfPid(<<>>, p) = <<>>
      BY FlattenEmpty DEF OfPid, Only
    <3>3. <<>> \o <<>> = <<>>
      OBVIOUS
    <3>4. QED
      BY <1>1, <3>1, <3>2, <3>3
  <2>2. emitted = FlattenSeq(windows) \o window /\ pass # "done"
    BY <1>1, FlattenEmpty
  <2>3. QED
    BY <2>1, <2>2 DEF Cutting
<1>6. Sized
  <2>1. Len(<<>>) < WindowSize
    BY WindowsAssumption
  <2>2. QED
    BY <1>1, <2>1 DEF Sized
<1>7. Labels
  BY <1>1, EmptyCount DEF Labels
<1>8. QED
  BY <1>2, <1>3, <1>4, <1>5, <1>6, <1>7 DEF Inv

\* Before the labels.
LEMMA UnlabelledStays ==
  ASSUME Labels, UNCHANGED <<attack, benign, sample, reader>>,
         reader = "ingestor" \/ pass # "done",
         reader = "ingestor" => raw' = raw
  PROVE  Labels'
<1>1. attack = <<>> /\ benign = <<>> /\ sample = <<>>
  BY DEF Labels
<1>2. attack' = <<>> /\ benign' = <<>> /\ sample' = <<>> /\ reader' = reader
  BY <1>1
<1>3. <<>> \in Seq(Attacks') /\ <<>> \in Seq(Calm') /\ <<>> \in Seq(LabelledRaw')
  OBVIOUS
<1>4. reader' = "ingestor" => raw' = <<>>
  BY DEF Labels
<1>5. QED
  BY <1>2, <1>3, <1>4, EmptyCount DEF Labels

\* A line that gives no event, and the end of the file.
LEMMA EventsReadStays ==
  ASSUME TypeInv, UNCHANGED <<file, reader>>,
         \/ pass = "events" /\ pass' = pass /\ line < Len(file) /\ line' = line + 1
            /\ file[line + 1] \notin Reads
         \/ pass = "events" /\ pass' = "done" /\ line' = line
         \/ pass = "entities" /\ pass' = "entities"
         \/ pass = "entities" /\ pass' = "events" /\ line' = 0
         \/ UNCHANGED <<pass, line>>
  PROVE  EventsRead' = EventsRead
<1>1. CASE pass = "events" /\ pass' = pass /\ line < Len(file) /\ line' = line + 1
           /\ file[line + 1] \notin Reads
  BY <1>1, EventsReadStep
<1> DEFINE m == IF pass = "entities" THEN 0 ELSE line
           n == IF pass' = "entities" THEN 0 ELSE line'
<1>2. CASE m = n
  <2>1. EventsRead' = Only(SubSeq(file, 1, n),
                            LAMBDA r : IF reader = "parser" THEN IsEvent(r) ELSE Ingested(r))
    BY DEF EventsRead, Only
  <2>2. QED
    BY <1>2, <2>1 DEF EventsRead, Only
<1>3. QED
  BY <1>1, <1>2

LEMMA TypeParts ==
  ASSUME TypeInv
  PROVE  /\ file \in Seq(Records) /\ Len(file) \in Nat /\ line \in 0 .. Len(file)
         /\ window \in Seq(Event) /\ windows \in Seq(Seq(Event)) /\ <<>> \in Seq(Event)
         /\ (line < Len(file) => line + 1 \in 0 .. Len(file) /\ file[line + 1] \in Records)
         /\ 0 \in 0 .. Len(file)
<1>1. file \in Seq(Records) /\ line \in 0 .. Len(file)
  BY DEF TypeInv
<1>2. Len(file) \in Nat
  BY <1>1
<1>3. line < Len(file) => line + 1 \in 0 .. Len(file) /\ line + 1 \in 1 .. Len(file)
  BY <1>1, <1>2
<1>4. line < Len(file) => file[line + 1] \in Records
  BY <1>1, <1>3, ElementOfSeq
<1>5. 0 \in 0 .. Len(file)
  BY <1>2
<1>6. QED
  BY <1>1, <1>2, <1>3, <1>4, <1>5 DEF TypeInv

\* A line of the first pass, for either reader.
LEMMA Pass1Inv ==
  ASSUME Inv, UNCHANGED windowVars,
         \/ reader = "parser" /\ Pass1 /\ UNCHANGED ingestorVars
         \/ reader = "ingestor" /\ BuildEntities
  PROVE  Inv'
<1>1. TypeInv /\ Known /\ Resolution /\ Cutting /\ Sized /\ Labels
  BY DEF Inv
<1>2. /\ pass = "entities" /\ pass' = pass
      /\ UNCHANGED <<file, reader, emitted, window, windows, buffers, ppids, raw>>
      /\ UNCHANGED <<attack, benign, sample>>
  BY DEF Pass1, BuildEntities, ingestorVars, windowVars
<1>3. TypeInv'
  BY <1>1, Pass1Type
<1>4. Known'
  BY <1>1, <1>2, Pass1Known
<1>5. Resolution'
  BY <1>1, <1>2, EventsReadStays, ResolutionStays
<1>6. Cutting' /\ Sized'
  BY <1>1, <1>2, CuttingStays
<1>7. Labels'
  BY <1>1, <1>2, UnlabelledStays
<1>8. QED
  BY <1>3, <1>4, <1>5, <1>6, <1>7 DEF Inv

\* A line that gives no event, and what happens between the passes.
LEMMA QuietInv ==
  ASSUME Inv, UNCHANGED windowVars, UNCHANGED ingestorVars,
         \/ Rewind
         \/ reader = "parser" /\ SkipLine
         \/ reader = "ingestor" /\ Dropped
  PROVE  Inv'
<1>1. TypeInv /\ Known /\ Resolution /\ Cutting /\ Sized /\ Labels
  BY DEF Inv
<1>2. /\ UNCHANGED <<file, subjects, objects, emitted, reader, window, windows>>
      /\ UNCHANGED <<buffers, ppids, raw, attack, benign, sample>>
  BY DEF Rewind, SkipLine, Dropped, ingestorVars, windowVars
<1>3. /\ pass \in {"entities", "events"} /\ pass' = "events"
      /\ \/ pass = "entities" /\ line = Len(file) /\ line' = 0
         \/ /\ pass = "events" /\ line < Len(file) /\ line' = line + 1
            /\ file[line + 1] \notin Reads
  <2>1. CASE Rewind
    BY <2>1 DEF Rewind
  <2>2. CASE reader = "parser" /\ SkipLine
    BY <2>2 DEF SkipLine, Reads
  <2>3. CASE reader = "ingestor" /\ Dropped
    BY <2>3 DEF Dropped, Reads
  <2>4. QED
    BY <2>1, <2>2, <2>3
<1>4. TypeInv'
  <2>1. line' \in 0 .. Len(file) /\ window' \in Seq(Event) /\ windows' \in Seq(Seq(Event))
    BY <1>1, <1>2, <1>3, TypeParts
  <2>2. QED
    BY <1>1, <1>2, <1>3, <2>1, QuietType
<1>5. Known'
  <2>1. Upto' = Upto
    BY <1>2, <1>3 DEF Upto
  <2>2. QED
    BY <1>1, <1>2, <2>1, LaterKnown
<1>6. Resolution'
  BY <1>1, <1>2, <1>3, EventsReadStays, ResolutionStays
<1>7. Cutting' /\ Sized'
  BY <1>1, <1>2, <1>3, CuttingStays
<1>8. Labels'
  BY <1>1, <1>2, <1>3, UnlabelledStays
<1>9. QED
  BY <1>4, <1>5, <1>6, <1>7, <1>8 DEF Inv

LEMMA ConsumeInv ==
  ASSUME Inv, reader = "parser", Consume, UNCHANGED ingestorVars
  PROVE  Inv'
<1>1. TypeInv /\ Known /\ Resolution /\ Cutting /\ Sized /\ Labels
  BY DEF Inv
<1>2. /\ UNCHANGED <<file, pass, subjects, objects, reader, attack, benign, sample>>
      /\ pass = "events" /\ line < Len(file) /\ line' = line + 1
  BY DEF Consume, Yield, ingestorVars
<1>3. TypeInv'
  BY <1>1, ConsumeType
<1>4. Known'
  <2>1. Upto' = Upto
    BY <1>2 DEF Upto
  <2>2. QED
    BY <1>1, <1>2, <2>1, LaterKnown
<1>5. Resolution'
  <2> DEFINE r == file[line + 1]
             e == Resolved(r)
  <2>1. r \in Records /\ IsEvent(r) /\ e \in Event /\ emitted' = Append(emitted, e)
    BY <1>1, ConsumeStep
  <2>2. Attributed(e, r)
    BY <1>1, <1>2, <2>1, ParserAttributes
  <2>3. r \in Reads
    BY <2>1 DEF Reads
  <2> HIDE DEF e
  <2>4. QED
    BY <1>1, <1>2, <2>1, <2>2, <2>3, ResolutionGrows
<1>6. Cutting' /\ Sized'
  BY <1>1, ConsumeCuts
<1>7. Labels'
  BY <1>1, <1>2, UnlabelledStays
<1>8. QED
  BY <1>3, <1>4, <1>5, <1>6, <1>7 DEF Inv

LEMMA StreamInv ==
  ASSUME Inv, reader = "ingestor", Stream, UNCHANGED windowVars
  PROVE  Inv'
<1>1. TypeInv /\ Known /\ Resolution /\ Cutting /\ Sized /\ Labels
  BY DEF Inv
<1>2. /\ UNCHANGED <<file, pass, objects, reader, buffers, raw, attack, benign, sample>>
      /\ pass = "events" /\ line < Len(file) /\ line' = line + 1
      /\ Ingested(file[line + 1])
  BY DEF Stream, windowVars
<1>3. TypeInv'
  BY <1>1, StreamType
<1>4. PICK comm \in Texts :
        LET r == file[line + 1] e == Streamed(r, comm) IN
        /\ e \in Event /\ emitted' = Append(emitted, e)
        /\ \A u \in References : /\ subjects'[u].pid = subjects[u].pid
                                 /\ subjects'[u].parent = subjects[u].parent
  BY <1>1, StreamStep
<1> DEFINE r == file[line + 1]
           e == Streamed(r, comm)
<1>5. /\ e \in Event /\ emitted' = Append(emitted, e)
      /\ \A u \in References : /\ subjects'[u].pid = subjects[u].pid
                               /\ subjects'[u].parent = subjects[u].parent
  BY <1>4
<1>6. Known'
  <2>1. Upto' = Upto
    BY <1>2 DEF Upto
  <2>2. QED
    BY <1>1, <1>2, <1>5, <2>1, LaterKnown
<1>7. Resolution'
  <2>1. r \in Records
    BY <1>1, <1>2, TypeParts
  <2>2. Attributed(e, r)
    BY <1>1, <1>2, <2>1, IngestorAttributes
  <2>3. r \in Reads
    BY <1>2, <2>1 DEF Reads
  <2> HIDE DEF e
  <2>4. QED
    BY <1>1, <1>2, <1>5, <2>2, <2>3, ResolutionGrows
<1>8. Cutting' /\ Sized'
  <2>1. Cutting'
    BY <1>1, StreamCuts
  <2>2. Sized'
    BY <1>1, <1>2 DEF Sized
  <2>3. QED
    BY <2>1, <2>2
<1>9. Labels'
  BY <1>1, <1>2, UnlabelledStays
<1>10. QED
  BY <1>3, <1>6, <1>7, <1>8, <1>9 DEF Inv

LEMMA FlushInv ==
  ASSUME Inv, reader = "ingestor", Flush, UNCHANGED windowVars
  PROVE  Inv'
<1>1. TypeInv /\ Known /\ Resolution /\ Cutting /\ Sized /\ Labels
  BY DEF Inv
<1>2. /\ UNCHANGED <<file, line, subjects, objects, emitted, reader>>
      /\ UNCHANGED <<buffers, ppids, raw, attack, benign, sample>>
      /\ pass = "events" /\ pass' = "done"
  BY DEF Flush, EndOfFile, windowVars
<1>3. Cutting' /\ windows' \in Seq(Seq(Event)) /\ window' \in Seq(Event)
  BY <1>1, FlushCuts
<1>4. TypeInv'
  <2>1. line' \in 0 .. Len(file)
    BY <1>1, <1>2, TypeParts
  <2>2. QED
    BY <1>1, <1>2, <1>3, <2>1, QuietType
<1>5. Known'
  <2>1. Upto' = Upto
    BY <1>2 DEF Upto
  <2>2. QED
    BY <1>1, <1>2, <2>1, LaterKnown
<1>6. Resolution'
  BY <1>1, <1>2, EventsReadStays, ResolutionStays
<1>7. Sized'
  BY <1>1, <1>2 DEF Sized
<1>8. Labels'
  BY <1>1, <1>2, UnlabelledStays
<1>9. QED
  BY <1>3, <1>4, <1>5, <1>6, <1>7, <1>8 DEF Inv

LEMMA LabelInv ==
  ASSUME Inv, reader = "parser", Label, UNCHANGED ingestorVars
  PROVE  Inv'
<1>1. TypeInv /\ Known /\ Resolution /\ Cutting /\ Sized /\ Labels
  BY DEF Inv
<1>2. /\ UNCHANGED <<file, line, subjects, objects, emitted, reader, window, windows>>
      /\ UNCHANGED <<buffers, ppids, raw, sample>>
      /\ pass = "events" /\ pass' = "done"
  BY DEF Label, EndOfFile, ingestorVars
<1>3. TypeInv'
  <2>1. line' \in 0 .. Len(file) /\ window' \in Seq(Event) /\ windows' \in Seq(Seq(Event))
    BY <1>1, <1>2, TypeParts
  <2>2. QED
    BY <1>1, <1>2, <2>1, QuietType
<1>4. Known'
  <2>1. Upto' = Upto
    BY <1>2 DEF Upto
  <2>2. QED
    BY <1>1, <1>2, <2>1, LaterKnown
<1>5. Resolution'
  BY <1>1, <1>2, EventsReadStays, ResolutionStays
<1>6. Cutting' /\ Sized'
  BY <1>1, <1>2, CuttingStays
<1>7. Labels'
  <2>1. attack' \in Seq(Attacks') /\ benign' \in Seq(Calm')
    BY <1>1, <1>2, LabelStep, LabelledStays
  <2>2. sample' = <<>> /\ reader' # "ingestor" /\ pass' = "done"
    BY <1>1, <1>2 DEF Labels
  <2>3. sample' \in Seq(LabelledRaw')
    BY <2>2
  <2>4. QED
    BY <2>1, <2>2, <2>3, EmptyCount DEF Labels
<1>8. QED
  BY <1>3, <1>4, <1>5, <1>6, <1>7 DEF Inv

\* Nothing that is read moves.
LEMMA ReadStays ==
  ASSUME Inv, UNCHANGED <<parserVars, ingestorVars, buffers, ppids, raw>>
  PROVE  TypeInv' /\ Known' /\ Resolution' /\ Cutting' /\ Sized'
<1>1. TypeInv /\ Known /\ Resolution /\ Cutting /\ Sized
  BY DEF Inv
<1>2. UNCHANGED <<file, pass, line, subjects, objects, emitted, reader, window, windows,
                  buffers, ppids, raw>>
  BY DEF parserVars, ingestorVars
<1>3. TypeInv'
  BY <1>1, <1>2 DEF TypeInv
<1>4. Known'
  <2>1. Upto' = Upto
    BY <1>2 DEF Upto
  <2>2. QED
    BY <1>1, <1>2, <2>1, LaterKnown
<1>5. Resolution'
  BY <1>1, <1>2, EventsReadStays, ResolutionStays
<1>6. Cutting' /\ Sized'
  BY <1>1, <1>2, CuttingStays DEF Cutting
<1>7. QED
  BY <1>3, <1>4, <1>5, <1>6

LEMMA SampleInv ==
  ASSUME Inv, reader = "parser", Sample, UNCHANGED ingestorVars
  PROVE  Inv'
<1>1. Labels
  BY DEF Inv
<1>2. /\ UNCHANGED <<parserVars, buffers, ppids, raw, attack, benign>>
      /\ pass = "done" /\ pass' = "done" /\ reader' = "parser"
  BY DEF Sample, parserVars, ingestorVars
<1>3. TypeInv' /\ Known' /\ Resolution' /\ Cutting' /\ Sized'
  BY <1>2, ReadStays
<1>4. LabelledRaw' = LabelledRaw /\ Attacks' = Attacks /\ Calm' = Calm
  BY <1>2, LabelledStays
<1>5. attack \in Seq(Attacks) /\ benign \in Seq(Calm)
  BY <1>1 DEF Labels
<1>6. /\ sample' \in Seq(LabelledRaw)
      /\ Cardinality({i \in DOMAIN sample' : sample'[i].is_attack}) <= MaxAttack
  BY <1>5, SampleStep
<1>7. Labels'
  BY <1>2, <1>4, <1>5, <1>6 DEF Labels
<1>8. QED
  BY <1>3, <1>7 DEF Inv

LEMMA StutterInv ==
  ASSUME Inv, UNCHANGED vars
  PROVE  Inv'
<1>1. UNCHANGED <<parserVars, ingestorVars, buffers, ppids, raw, attack, benign, sample>>
  BY DEF vars
<1>2. TypeInv' /\ Known' /\ Resolution' /\ Cutting' /\ Sized'
  BY <1>1, ReadStays
<1>3. LabelledRaw' = LabelledRaw /\ Attacks' = Attacks /\ Calm' = Calm
  BY <1>1, LabelledStays
<1>4. pass' = pass /\ reader' = reader
  BY <1>1 DEF parserVars, ingestorVars
<1>5. Labels
  BY DEF Inv
<1>6. Labels'
  BY <1>1, <1>3, <1>4, <1>5 DEF Labels
<1>7. QED
  BY <1>2, <1>6 DEF Inv

LEMMA StepInv == Inv /\ [Next]_vars => Inv'
<1> SUFFICES ASSUME Inv, [Next]_vars PROVE Inv'
  OBVIOUS
<1>1. CASE Ingestor /\ UNCHANGED windowVars
  <2>1. reader = "ingestor"
    BY <1>1 DEF Ingestor
  <2>2. CASE BuildEntities
    BY <1>1, <2>1, <2>2, Pass1Inv
  <2>3. CASE Rewind /\ UNCHANGED ingestorVars
    BY <1>1, <2>3, QuietInv
  <2>4. CASE Dropped
    <3>1. UNCHANGED ingestorVars
      BY <2>4 DEF Dropped
    <3>2. QED
      BY <1>1, <2>1, <2>4, <3>1, QuietInv
  <2>5. CASE Stream
    BY <1>1, <2>1, <2>5, StreamInv
  <2>6. CASE Flush
    BY <1>1, <2>1, <2>6, FlushInv
  <2>7. QED
    BY <1>1, <2>2, <2>3, <2>4, <2>5, <2>6 DEF Ingestor
<1>2. CASE reader = "parser" /\ Ingest /\ UNCHANGED ingestorVars
  <2>1. UNCHANGED windowVars
    BY <1>2 DEF Ingest
  <2>2. CASE Pass1
    BY <1>2, <2>1, <2>2, Pass1Inv
  <2>3. CASE Rewind
    BY <1>2, <2>1, <2>3, QuietInv
  <2>4. CASE SkipLine
    BY <1>2, <2>1, <2>4, QuietInv
  <2>5. QED
    BY <1>2, <2>2, <2>3, <2>4 DEF Ingest
<1>3. CASE reader = "parser" /\ Consume /\ UNCHANGED ingestorVars
  BY <1>3, ConsumeInv
<1>4. CASE reader = "parser" /\ Label /\ UNCHANGED ingestorVars
  BY <1>4, LabelInv
<1>5. CASE reader = "parser" /\ Sample /\ UNCHANGED ingestorVars
  BY <1>5, SampleInv
<1>6. CASE UNCHANGED vars
  BY <1>6, StutterInv
<1>7. QED
  BY <1>1, <1>2, <1>3, <1>4, <1>5, <1>6 DEF Next

LEMMA Invariant == Spec => []Inv
<1>1. QED
  BY InitInv, StepInv, PTL DEF Spec

\* Whichever program reads the file, each event carries the process, and a
\* call without a path the object, that the file describes before or after it
\* (CdmParser.stream and CadetsIngestor.stream_events read the file twice), and
\* cutting the stream into windows loses, repeats and reorders no event.
THEOREM FaithfulStream == Spec => []StreamFaithful
<1>1. Inv => StreamFaithful
  BY DEF Inv, StreamFaithful
<1>2. QED
  BY Invariant, <1>1, PTL

-----------------------------------------------------------------------------
(* The walk up the parents.                                                  *)

\* the body of the function in Walk, for the first n generations
WalkStep(p, f, d) ==
  IF d = 0 THEN <<p>>
  ELSE LET path == f[d - 1]
           q == ppids[Last(path)]
       IN IF q \in {0, Last(path)} THEN path ELSE Append(path, q)

WalkEquation(p, f, n) == f = [d \in 0 .. n |-> WalkStep(p, f, d)]

LEMMA WalkExists ==
  ASSUME NEW p, NEW n \in Nat
  PROVE  \E f : WalkEquation(p, f, n)
<1> DEFINE Fails == {k \in Nat : ~ \E f : WalkEquation(p, f, k)}
<1>1. ASSUME NEW k \in Fails, \A m \in Fails : k <= m
      PROVE  FALSE
  <2>1. \E f : \A i \in 0 .. k : i # 0 => f[i - 1] = WalkStep(p, f, i - 1)
    <3>1. CASE k = 0
      BY <3>1
    <3>2. CASE k # 0
      <4>1. k - 1 \in Nat /\ k - 1 \notin Fails
        BY <1>1, <3>2
      <4>2. PICK f : WalkEquation(p, f, k - 1)
        BY <4>1
      <4>3. ASSUME NEW i \in 0 .. k, i # 0 PROVE f[i - 1] = WalkStep(p, f, i - 1)
        <5>1. i - 1 \in 0 .. k - 1
          BY <4>1, <4>3
        <5>2. QED
          BY <4>2, <5>1 DEF WalkEquation
      <4>4. QED
        BY <4>3
    <3>3. QED
      BY <3>1, <3>2
  <2>2. PICK f : \A i \in 0 .. k : i # 0 => f[i - 1] = WalkStep(p, f, i - 1)
    BY <2>1
  <2> DEFINE h == [i \in 0 .. k |-> WalkStep(p, f, i)]
  <2>3. \A i \in 0 .. k : i # 0 => h[i - 1] = f[i - 1]
    <3>1. \A i \in 0 .. k : i # 0 => i - 1 \in 0 .. k
      OBVIOUS
    <3>2. \A i \in 0 .. k : h[i] = WalkStep(p, f, i)
      OBVIOUS
    <3> HIDE DEF h
    <3>3. QED
      BY <2>2, <3>1, <3>2
  <2>4. \A i \in 0 .. k : WalkStep(p, h, i) = WalkStep(p, f, i)
    <3> HIDE DEF h
    <3>1. QED
      BY <2>3, Zenon DEF WalkStep
  <2>5. h = [i \in 0 .. k |-> WalkStep(p, h, i)]
    BY <2>4
  <2> HIDE DEF h
  <2>6. WalkEquation(p, h, k)
    BY <2>5 DEF WalkEquation
  <2>7. QED
    BY <1>1, <2>6
<1>2. Fails = {}
  BY <1>1, NatMinimum
<1>3. QED
  BY <1>2

LEMMA WalkValue ==
  ASSUME NEW p
  PROVE  \E f : WalkEquation(p, f, MaxDepth) /\ Walk(p) = Tail(f[MaxDepth])
<1> DEFINE to == CHOOSE f : WalkEquation(p, f, MaxDepth)
<1>1. WalkEquation(p, to, MaxDepth)
  BY WalkExists, WindowsAssumption
<1>2. Walk(p) = Tail(to[MaxDepth])
  BY DEF Walk, WalkEquation, WalkStep
<1>3. QED
  BY <1>1, <1>2

\* path leads from p up the parents, for d generations or as far as they go
LeadsUp(p, path, d) ==
  /\ path \in Seq(Pids) /\ Len(path) \in 1 .. d + 1 /\ path[1] = p
  /\ \A i \in 2 .. Len(path) : /\ path[i] = ppids[path[i - 1]]
                               /\ path[i] # 0 /\ path[i] # path[i - 1]
  /\ Len(path) < d + 1 => ppids[path[Len(path)]] \in {0, path[Len(path)]}

LEMMA WalkLeadsUp ==
  ASSUME ppids \in [Pids -> Pids], NEW p \in Pids, NEW n \in Nat,
         NEW f, WalkEquation(p, f, n)
  PROVE  LeadsUp(p, f[n], n)
<1> DEFINE Fails == {k \in 0 .. n : ~LeadsUp(p, f[k], k)}
<1>1. ASSUME NEW k \in Fails, \A m \in Fails : k <= m
      PROVE  FALSE
  <2>1. k \in 0 .. n /\ ~LeadsUp(p, f[k], k) /\ f[k] = WalkStep(p, f, k)
    BY DEF WalkEquation
  <2>2. CASE k = 0
    <3>1. f[k] = <<p>>
      BY <2>1, <2>2 DEF WalkStep
    <3>2. LeadsUp(p, <<p>>, 0)
      BY DEF LeadsUp
    <3>3. QED
      BY <2>1, <2>2, <3>1, <3>2
  <2>3. CASE k # 0
    <3> DEFINE path == f[k - 1]
               q == ppids[Last(path)]
    <3>1. k - 1 \in 0 .. n /\ k - 1 \notin Fails /\ k \in Nat
      BY <1>1, <2>1, <2>3
    <3>2. LeadsUp(p, path, k - 1)
      BY <3>1
    <3>3. f[k] = IF q \in {0, Last(path)} THEN path ELSE Append(path, q)
      BY <2>1, <2>3 DEF WalkStep
    <3> HIDE DEF path
    <3> DEFINE l == Len(path)
    <3>4. /\ path \in Seq(Pids) /\ l \in Nat /\ l >= 1 /\ l <= k /\ path[1] = p
          /\ \A i \in 2 .. l : /\ path[i] = ppids[path[i - 1]]
                               /\ path[i] # 0 /\ path[i] # path[i - 1]
          /\ l < k => ppids[path[l]] \in {0, path[l]}
      BY <3>1, <3>2 DEF LeadsUp
    <3>5. Last(path) = path[l] /\ path[l] \in Pids /\ q = ppids[path[l]] /\ q \in Pids
      BY <3>4 DEF Last
    <3>6. CASE q \in {0, path[l]}
      <4>1. f[k] = path
        BY <3>3, <3>5, <3>6
      <4>2. LeadsUp(p, path, k)
        BY <3>1, <3>4, <3>5, <3>6 DEF LeadsUp
      <4>3. QED
        BY <2>1, <4>1, <4>2
    <3>7. CASE q \notin {0, path[l]}
      <4> DEFINE next == Append(path, q)
      <4>1. f[k] = next /\ l = k
        BY <3>1, <3>3, <3>4, <3>5, <3>7
      <4>2. /\ next \in Seq(Pids) /\ Len(next) = l + 1 /\ next[l + 1] = q
            /\ \A i \in 1 .. l : next[i] = path[i]
        BY <3>4, <3>5, AppendProperties
      <4> HIDE DEF next
      <4>3. ASSUME NEW i \in 2 .. l + 1
            PROVE  next[i] = ppids[next[i - 1]] /\ next[i] # 0 /\ next[i] # next[i - 1]
        <5>1. CASE i \in 2 .. l
          <6>1. i \in 1 .. l /\ i - 1 \in 1 .. l
            BY <3>4, <5>1
          <6>2. QED
            BY <3>4, <4>2, <5>1, <6>1
        <5>2. CASE i = l + 1
          <6>1. i - 1 = l /\ l \in 1 .. l
            BY <3>4, <5>2
          <6>2. QED
            BY <3>5, <3>7, <4>2, <5>2, <6>1
        <5>3. QED
          BY <3>4, <4>3, <5>1, <5>2
      <4>4. next[1] = p
        <5>1. 1 \in 1 .. l
          BY <3>4
        <5>2. QED
          BY <3>4, <4>2, <5>1
      <4>5. Len(next) \in 1 .. k + 1 /\ Len(next) = k + 1 /\ ~(k + 1 < k + 1)
        BY <3>1, <3>4, <4>1, <4>2
      <4>6. LeadsUp(p, next, k)
        BY <4>2, <4>3, <4>4, <4>5 DEF LeadsUp
      <4>7. QED
        BY <2>1, <4>1, <4>6
    <3>8. QED
      BY <3>6, <3>7
  <2>4. QED
    BY <2>2, <2>3
<1>2. Fails \in SUBSET Nat
  OBVIOUS
<1>3. Fails = {}
  BY <1>1, <1>2, NatMinimum
<1>4. n \in 0 .. n
  OBVIOUS
<1>5. QED
  BY <1>3, <1>4

\* The walk meets the ancestors of p, MaxDepth generations up, and no others.
LEMMA WalkAncestors ==
  ASSUME ppids \in [Pids -> Pids], NEW p \in Pids, NEW a
  PROVE  a \in ToSet(Walk(p)) <=> Descends(p, a)
<1>1. PICK f : WalkEquation(p, f, MaxDepth) /\ Walk(p) = Tail(f[MaxDepth])
  BY WalkValue
<1> DEFINE path == f[MaxDepth]
           l == Len(path)
<1>2. MaxDepth \in Nat
  BY WindowsAssumption
<1>3. LeadsUp(p, path, MaxDepth)
  BY <1>1, <1>2, WalkLeadsUp
<1> HIDE DEF path
<1>4. /\ path \in Seq(Pids) /\ l \in Nat /\ l >= 1 /\ l <= MaxDepth + 1 /\ path[1] = p
      /\ \A i \in 2 .. l : /\ path[i] = ppids[path[i - 1]]
                           /\ path[i] # 0 /\ path[i] # path[i - 1]
      /\ l < MaxDepth + 1 => ppids[path[l]] \in {0, path[l]}
  BY <1>2, <1>3 DEF LeadsUp
<1>5. a \in ToSet(Walk(p)) <=> \E i \in 2 .. l : path[i] = a
  <2>1. path # <<>>
    BY <1>4
  <2>2. /\ Tail(path) \in Seq(Pids) /\ Len(Tail(path)) = l - 1
        /\ \A i \in 1 .. Len(Tail(path)) : Tail(path)[i] = path[i + 1]
    BY <1>4, <2>1, HeadTailProperties
  <2> DEFINE t == Tail(path)
  <2> HIDE DEF t
  <2>3. DOMAIN t = 1 .. l - 1 /\ \A i \in 1 .. l - 1 : t[i] = path[i + 1]
    BY <2>2 DEF t
  <2>4. a \in ToSet(t) <=> \E i \in 1 .. l - 1 : t[i] = a
    BY <2>3 DEF ToSet
  <2>5. (\E i \in 1 .. l - 1 : t[i] = a) <=> \E i \in 2 .. l : path[i] = a
    <3>1. ASSUME NEW i \in 1 .. l - 1, t[i] = a PROVE \E j \in 2 .. l : path[j] = a
      <4>1. i + 1 \in 2 .. l /\ path[i + 1] = a
        BY <1>4, <2>3, <3>1
      <4>2. QED
        BY <4>1
    <3>2. ASSUME NEW j \in 2 .. l, path[j] = a PROVE \E i \in 1 .. l - 1 : t[i] = a
      <4>1. j - 1 \in 1 .. l - 1 /\ (j - 1) + 1 = j
        BY <1>4, <3>2
      <4>2. t[j - 1] = a
        BY <2>3, <3>2, <4>1
      <4>3. QED
        BY <4>1, <4>2
    <3>3. QED
      BY <3>1, <3>2
  <2>6. QED
    BY <1>1, <2>4, <2>5 DEF t, path
<1>6. ASSUME NEW i \in 2 .. l, path[i] = a PROVE Descends(p, a)
  <2> DEFINE n == i - 1
             chain == [k \in 1 .. n |-> path[k + 1]]
  <2>1. n \in 1 .. MaxDepth /\ n + 1 = i /\ \A k \in 1 .. n : k + 1 \in 2 .. l
    BY <1>2, <1>4
  <2> HIDE DEF n
  <2>2. \A k \in 1 .. n : chain[k] = path[k + 1]
    OBVIOUS
  <2>3. \A k \in 2 .. l : path[k] \in Pids \ {0}
    <3>1. \A k \in 2 .. l : k \in 1 .. Len(path)
      BY <1>4
    <3>2. QED
      BY <1>4, <3>1, ElementOfSeq
  <2>4. chain \in [1 .. n -> Pids \ {0}]
    BY <2>1, <2>3
  <2> HIDE DEF chain
  <2>5. 1 \in 1 .. n /\ n \in 1 .. n /\ 2 \in 2 .. l /\ 1 + 1 = 2 /\ 2 - 1 = 1
    BY <1>2, <1>4, <2>1
  <2>6. chain[1] = ppids[p] /\ chain[1] # p
    <3>1. chain[1] = path[2]
      BY <2>2, <2>5
    <3>2. path[2] = ppids[path[1]] /\ path[2] # path[1]
      BY <1>4, <2>5
    <3>3. QED
      BY <1>4, <3>1, <3>2
  <2>7. chain[n] = a
    BY <1>6, <2>1, <2>2, <2>5
  <2>8. \A k \in 2 .. n : chain[k] = ppids[chain[k - 1]]
    <3> TAKE k \in 2 .. n
    <3>1. k \in 1 .. n /\ k - 1 \in 1 .. n /\ (k - 1) + 1 = k /\ k + 1 \in 2 .. l /\ (k + 1) - 1 = k
      BY <2>1
    <3>2. chain[k] = path[k + 1] /\ chain[k - 1] = path[k]
      BY <2>2, <3>1
    <3>3. path[k + 1] = ppids[path[k]]
      BY <1>4, <3>1
    <3>4. QED
      BY <3>2, <3>3
  <2>9. QED
    BY <2>1, <2>4, <2>6, <2>7, <2>8 DEF Descends
<1>7. ASSUME Descends(p, a) PROVE \E i \in 2 .. l : path[i] = a
  <2>1. PICK n \in 1 .. MaxDepth : \E chain \in [1 .. n -> Pids \ {0}] :
          /\ chain[1] = ppids[p] /\ chain[1] # p /\ chain[n] = a
          /\ \A k \in 2 .. n : chain[k] = ppids[chain[k - 1]]
    BY <1>7 DEF Descends
  <2>2. PICK chain \in [1 .. n -> Pids \ {0}] :
          /\ chain[1] = ppids[p] /\ chain[1] # p /\ chain[n] = a
          /\ \A k \in 2 .. n : chain[k] = ppids[chain[k - 1]]
    BY <2>1
  <2>3. n \in Nat /\ n >= 1 /\ n <= MaxDepth
    BY <1>2, <2>1
  <2>4. \A k \in 1 .. n : chain[k] # 0
    BY <2>2
  <2>5. l >= 2
    <3>1. ASSUME l = 1 PROVE FALSE
      <4>1. ppids[p] \in {0, p}
        BY <1>2, <1>4, <2>3, <3>1
      <4>2. 1 \in 1 .. n
        BY <2>3
      <4>3. QED
        BY <2>2, <2>4, <4>1, <4>2
    <3>2. l \in Nat /\ l >= 1
      BY <1>4
    <3>3. \A m \in Nat : m >= 1 /\ m # 1 => m >= 2
      OBVIOUS
    <3>4. QED
      BY <3>1, <3>2, <3>3
  <2> DEFINE at(k) == IF k + 1 <= l THEN k + 1 ELSE l
             Fails == {k \in 1 .. n : chain[k] # path[at(k)]}
  <2>6. ASSUME NEW k \in Fails, \A m \in Fails : k <= m PROVE FALSE
    <3>1. k \in 1 .. n /\ chain[k] # path[at(k)]
      OBVIOUS
    <3>2. CASE k = 1
      <4>1. at(1) = 2 /\ 2 \in 2 .. l /\ 2 - 1 = 1
        BY <1>4, <2>5
      <4>2. path[2] = ppids[path[1]]
        BY <1>4, <4>1
      <4>3. QED
        BY <1>4, <2>2, <3>1, <3>2, <4>1, <4>2
    <3>3. CASE k # 1
      <4>1. k - 1 \in 1 .. n /\ k \in 2 .. n /\ ~(k <= k - 1) /\ (k - 1) + 1 = k
        BY <2>3, <3>1, <3>3
      <4>2. chain[k - 1] = path[at(k - 1)]
        BY <2>6, <4>1
      <4>3. chain[k] = ppids[chain[k - 1]]
        BY <2>2, <4>1
      <4>4. CASE k + 1 <= l
        <5>1. at(k - 1) = k /\ at(k) = k + 1 /\ k + 1 \in 2 .. l /\ (k + 1) - 1 = k
          BY <1>4, <4>1, <4>4
        <5>2. path[k + 1] = ppids[path[k]]
          BY <1>4, <5>1
        <5>3. QED
          BY <3>1, <4>2, <4>3, <5>1, <5>2
      <4>5. CASE ~(k + 1 <= l)
        <5>1. at(k - 1) = l /\ at(k) = l /\ l < MaxDepth + 1
          BY <1>2, <1>4, <2>3, <4>1, <4>5
        <5>2. ppids[path[l]] \in {0, path[l]}
          BY <1>4, <5>1
        <5>3. QED
          BY <2>4, <3>1, <4>2, <4>3, <5>1, <5>2
      <4>6. QED
        BY <4>4, <4>5
    <3>4. QED
      BY <3>2, <3>3
  <2>7. Fails \in SUBSET Nat
    OBVIOUS
  <2>8. Fails = {}
    BY <2>6, <2>7, NatMinimum
  <2>9. n \in 1 .. n /\ chain[n] = path[at(n)]
    BY <2>3, <2>8
  <2>10. at(n) \in 2 .. l
    BY <1>4, <2>3, <2>5
  <2> HIDE DEF at
  <2>11. QED
    BY <2>2, <2>9, <2>10
<1>8. QED
  BY <1>5, <1>6, <1>7

-----------------------------------------------------------------------------
(* The windows below an ancestor.                                            *)

HasMark(w) == \E k \in DOMAIN w.events : Marked(w.events[k])

\* the set that ChainFaithful calls below
BelowSet(a) == {j \in DOMAIN raw : Descends(raw[j].pid, a) /\ HasMark(raw[j])}

LEMMA MarkedInElements ==
  ASSUME NEW w \in Window
  PROVE  /\ MarkedIn(w) \in Seq(Event)
         /\ \A e : Element(e, MarkedIn(w)) <=> Element(e, w.events) /\ Marked(e)
         /\ MarkedIn(w) # <<>> <=> HasMark(w)
<1> DEFINE P == {e \in Event : Marked(e)}
           m == MarkedIn(w)
           s == w.events
<1>1. s \in Seq(Event)
  BY DEF Window
<1>2. m = OnlyIn(s, P)
  <2>1. \A k \in DOMAIN s : Marked(s[k]) <=> s[k] \in P
    BY <1>1
  <2> HIDE DEF P
  <2>2. QED
    BY <2>1 DEF MarkedIn, Only, OnlyIn
<1>3. m \in Seq(Event) /\ \A e : Element(e, m) <=> Element(e, s) /\ e \in P
  BY <1>1, <1>2, OnlyInElements, OnlyInType
<1>4. DOMAIN s = 1 .. Len(s) /\ \A k \in DOMAIN s : s[k] \in Event
  BY <1>1
<1>5. \A e : Element(e, s) => e \in Event
  BY <1>4 DEF Element
<1> HIDE DEF m, s
<1>6. \A e : Element(e, m) <=> Element(e, s) /\ Marked(e)
  BY <1>3, <1>5
<1>7. m # <<>> <=> \E e : Element(e, m)
  <2>1. ASSUME m # <<>> PROVE \E e : Element(e, m)
    <3>1. Len(m) # 0 /\ Len(m) \in Nat
      BY <1>3, <2>1, EmptySeq
    <3>2. 1 \in 1 .. Len(m)
      BY <3>1
    <3>3. Element(m[1], m)
      BY <3>2 DEF Element
    <3>4. QED
      BY <3>3
  <2>2. ASSUME NEW e, Element(e, m) PROVE m # <<>>
    BY <2>2 DEF Element
  <2>3. QED
    BY <2>1, <2>2
<1>8. (\E e : Element(e, s) /\ Marked(e)) <=> HasMark(w)
  BY <1>4 DEF Element, HasMark, s
<1>9. QED
  BY <1>3, <1>6, <1>7, <1>8 DEF m, s

\* c2_resource has one window of each process that has a marked one.
LEMMA C2WindowsElements ==
  ASSUME TypeInv
  PROVE  /\ C2Windows \in Seq(1 .. Len(raw))
         /\ \A i : Element(i, C2Windows) => i \in 1 .. Len(raw) /\ HasMark(raw[i])
         /\ \A j \in 1 .. Len(raw) : HasMark(raw[j]) =>
              \E i \in 1 .. Len(raw) : Element(i, C2Windows) /\ raw[i].pid = raw[j].pid
<1> DEFINE id == [i \in DOMAIN raw |-> i]
           F == {i \in 1 .. Len(raw) :
                  /\ MarkedIn(raw[i]) # <<>>
                  /\ \A j \in 1 .. i - 1 : raw[j].pid = raw[i].pid => MarkedIn(raw[j]) = <<>>}
           c == C2Windows
<1>1. /\ raw \in Seq(Window) /\ DOMAIN raw = 1 .. Len(raw) /\ Len(raw) \in Nat
      /\ \A i \in 1 .. Len(raw) : raw[i] \in Window
  BY DEF TypeInv
<1>2. \A i \in 1 .. Len(raw) : MarkedIn(raw[i]) # <<>> <=> HasMark(raw[i])
  BY <1>1, MarkedInElements
<1>3. /\ id \in Seq(1 .. Len(raw)) /\ Len(id) = Len(raw)
      /\ DOMAIN id = 1 .. Len(raw) /\ \A i \in 1 .. Len(raw) : id[i] = i
  BY <1>1
<1>4. c = OnlyIn(id, F)
  <2>1. \A i \in DOMAIN id :
          (/\ MarkedIn(raw[id[i]]) # <<>>
           /\ \A j \in 1 .. id[i] - 1 : raw[j].pid = raw[id[i]].pid => MarkedIn(raw[j]) = <<>>)
          <=> id[i] \in F
    BY <1>3
  <2>2. c = Only(id, LAMBDA i : /\ MarkedIn(raw[i]) # <<>>
                                /\ \A j \in 1 .. i - 1 : raw[j].pid = raw[i].pid
                                                         => MarkedIn(raw[j]) = <<>>)
    BY DEF C2Windows
  <2> HIDE DEF F, id, c
  <2>3. QED
    BY <2>1, <2>2 DEF Only, OnlyIn
<1> HIDE DEF id, c, F
<1>5. /\ c \in Seq(1 .. Len(raw))
      /\ \A i : Element(i, c) <=> Element(i, id) /\ i \in F
  BY <1>3, <1>4, OnlyInElements, OnlyInType
<1>6. \A i : i \in F => Element(i, id) /\ i \in 1 .. Len(raw) /\ HasMark(raw[i])
  <2>1. \A i : i \in F => i \in 1 .. Len(raw) /\ MarkedIn(raw[i]) # <<>>
    BY DEF F
  <2>2. \A i \in 1 .. Len(raw) : Element(i, id)
    BY <1>3 DEF Element
  <2>3. QED
    BY <1>2, <2>1, <2>2
<1>7. ASSUME NEW j \in 1 .. Len(raw), HasMark(raw[j])
      PROVE  \E i \in 1 .. Len(raw) : Element(i, c) /\ raw[i].pid = raw[j].pid
  <2> DEFINE T == {i \in 1 .. Len(raw) : raw[i].pid = raw[j].pid /\ MarkedIn(raw[i]) # <<>>}
  <2>1. T \in SUBSET Nat /\ j \in T
    BY <1>1, <1>2, <1>7
  <2>2. PICK m \in T : \A i \in T : m <= i
    BY <2>1, NatMinimum
  <2>3. m \in 1 .. Len(raw) /\ raw[m].pid = raw[j].pid /\ MarkedIn(raw[m]) # <<>>
    OBVIOUS
  <2>4. ASSUME NEW i \in 1 .. m - 1, raw[i].pid = raw[m].pid PROVE MarkedIn(raw[i]) = <<>>
    <3>1. i \in 1 .. Len(raw) /\ ~(m <= i)
      BY <1>1, <2>3, <2>4
    <3>2. i \notin T
      BY <2>2, <3>1
    <3>3. QED
      BY <2>3, <2>4, <3>1, <3>2
  <2>5. m \in F
    BY <2>3, <2>4 DEF F
  <2>6. QED
    BY <1>5, <1>6, <2>3, <2>5
<1>8. QED
  BY <1>5, <1>6, <1>7 DEF c

LEMMA FirstElement ==
  ASSUME NEW E, NEW s \in Seq(E)
  PROVE  /\ s # <<>> => Element(Head(s), s) /\ Head(s) \in E
         /\ \A x : Element(x, s) => s # <<>>
<1>1. ASSUME s # <<>> PROVE Element(Head(s), s) /\ Head(s) \in E
  <2>1. Len(s) # 0 /\ Len(s) \in Nat
    BY <1>1, EmptySeq
  <2>2. 1 \in 1 .. Len(s) /\ Head(s) = s[1]
    BY <2>1
  <2>3. s[1] \in E
    BY <2>2, ElementOfSeq
  <2>4. QED
    BY <2>2, <2>3 DEF Element
<1>2. ASSUME NEW x, Element(x, s) PROVE s # <<>>
  BY <1>2 DEF Element
<1>3. QED
  BY <1>1, <1>2

\* An ancestor is one of a process with a marked window, and gets the resource
\* of one of them.
LEMMA BelowWindows ==
  ASSUME TypeInv, NEW a
  PROVE  /\ IsAncestor(a) <=> BelowSet(a) # {}
         /\ IsAncestor(a) =>
              \E j \in BelowSet(a) : \E k \in DOMAIN raw[j].events :
                /\ Marked(raw[j].events[k]) /\ raw[j].events[k].res = ChildResource(a)
<1> DEFINE c == C2Windows
           b == Below(a)
           P == {i \in 1 .. Len(raw) : a \in ToSet(Walk(raw[i].pid))}
<1>1. /\ raw \in Seq(Window) /\ DOMAIN raw = 1 .. Len(raw) /\ Len(raw) \in Nat
      /\ ppids \in [Pids -> Pids]
      /\ \A i \in 1 .. Len(raw) : raw[i] \in Window /\ raw[i].pid \in Pids
  <2>1. raw \in Seq(Window) /\ ppids \in [Pids -> Pids]
    BY DEF TypeInv
  <2>2. /\ DOMAIN raw = 1 .. Len(raw) /\ Len(raw) \in Nat
        /\ \A i \in 1 .. Len(raw) : raw[i] \in Window
    BY <2>1
  <2>3. \A w \in Window : w.pid \in Pids
    BY DEF Window
  <2>4. QED
    BY <2>1, <2>2, <2>3
<1>2. /\ c \in Seq(1 .. Len(raw))
      /\ \A i : Element(i, c) => i \in 1 .. Len(raw) /\ HasMark(raw[i])
      /\ \A j \in 1 .. Len(raw) : HasMark(raw[j]) =>
           \E i \in 1 .. Len(raw) : Element(i, c) /\ raw[i].pid = raw[j].pid
  BY C2WindowsElements
<1>3. b = OnlyIn(c, P)
  <2>1. \A i \in DOMAIN c : a \in ToSet(Walk(raw[c[i]].pid)) <=> c[i] \in P
    BY <1>2
  <2>2. b = Only(c, LAMBDA i : a \in ToSet(Walk(raw[i].pid)))
    BY DEF Below
  <2> HIDE DEF P, c, b
  <2>3. QED
    BY <2>1, <2>2 DEF Only, OnlyIn
<1> HIDE DEF c, b
<1>4. /\ b \in Seq(1 .. Len(raw))
      /\ \A i : Element(i, b) <=> Element(i, c) /\ i \in P
  BY <1>2, <1>3, OnlyInElements, OnlyInType
<1>5. \A i \in 1 .. Len(raw) : i \in P <=> Descends(raw[i].pid, a)
  BY <1>1, WalkAncestors
<1> HIDE DEF P
<1>6. \A i : Element(i, b) => i \in BelowSet(a)
  BY <1>1, <1>2, <1>4, <1>5 DEF BelowSet
<1>7. b # <<>> => Element(Head(b), b)
  BY <1>4, FirstElement
<1>8. ASSUME NEW j \in BelowSet(a) PROVE b # <<>>
  <2>1. j \in 1 .. Len(raw) /\ HasMark(raw[j]) /\ Descends(raw[j].pid, a)
    BY <1>1 DEF BelowSet
  <2>2. PICK i \in 1 .. Len(raw) : Element(i, c) /\ raw[i].pid = raw[j].pid
    BY <1>2, <2>1
  <2>3. Element(i, b)
    BY <1>4, <1>5, <2>1, <2>2
  <2>4. QED
    BY <1>4, <2>3, FirstElement
<1>9. IsAncestor(a) <=> b # <<>>
  BY DEF IsAncestor, b
<1>10. ASSUME b # <<>>
       PROVE  \E j \in BelowSet(a) : \E k \in DOMAIN raw[j].events :
                /\ Marked(raw[j].events[k]) /\ raw[j].events[k].res = ChildResource(a)
  <2> DEFINE j == Head(b)
             m == MarkedIn(raw[j])
             e == Head(m)
  <2>1. j \in BelowSet(a)
    BY <1>6, <1>7, <1>10
  <2>2. j \in 1 .. Len(raw) /\ HasMark(raw[j]) /\ raw[j] \in Window
    BY <1>1, <2>1 DEF BelowSet
  <2>3. ChildResource(a) = e.res
    BY DEF ChildResource, b
  <2> HIDE DEF j
  <2>4. /\ m \in Seq(Event) /\ m # <<>>
        /\ \A x : Element(x, m) <=> Element(x, raw[j].events) /\ Marked(x)
    BY <2>2, MarkedInElements
  <2> HIDE DEF m
  <2>5. Element(e, m)
    BY <2>4, FirstElement
  <2> HIDE DEF e
  <2>6. Element(e, raw[j].events) /\ Marked(e)
    BY <2>4, <2>5
  <2>7. DOMAIN raw[j].events = 1 .. Len(raw[j].events)
    BY <2>2 DEF Window
  <2>8. PICK k \in DOMAIN raw[j].events : raw[j].events[k] = e
    BY <2>6, <2>7 DEF Element
  <2>9. QED
    BY <2>1, <2>3, <2>6, <2>8
<1>11. QED
  BY <1>6, <1>7, <1>8, <1>9, <1>10

LEMMA LabelFields ==
  ASSUME NEW r
  PROVE  /\ Labelled(r).pid = r.pid /\ Labelled(r).events = r.events
         /\ Labelled(r).child = Synthetic(r) /\ Labelled(r).is_attack = IsAttack(r)
BY DEF Labelled

\* What the label of a window says of it and of the windows below.
LEMMA LabelSays ==
  ASSUME TypeInv, NEW r \in Window
  PROVE  /\ Synthetic(r) # "" <=> (BelowSet(r.pid) # {} /\ ~HasMark(r))
         /\ ~IsAttack(r) => BelowSet(r.pid) = {} /\ ~HasMark(r)
         /\ Synthetic(r) # "" =>
              \E j \in BelowSet(r.pid) : \E k \in DOMAIN raw[j].events :
                raw[j].events[k].res = Synthetic(r)
<1>1. /\ IsAncestor(r.pid) <=> BelowSet(r.pid) # {}
      /\ IsAncestor(r.pid) =>
           \E j \in BelowSet(r.pid) : \E k \in DOMAIN raw[j].events :
             /\ Marked(raw[j].events[k]) /\ raw[j].events[k].res = ChildResource(r.pid)
  BY BelowWindows
<1>2. MarkedIn(r) = <<>> <=> ~HasMark(r)
  BY MarkedInElements
<1>3. \A e : Marked(e) => e.res # ""
  BY Zenon DEF Marked
<1>4. IsAncestor(r.pid) => ChildResource(r.pid) # ""
  BY <1>1, <1>3, Zenon
<1>5. /\ IsAncestor(r.pid) /\ ~HasMark(r) => Synthetic(r) = ChildResource(r.pid)
      /\ ~(IsAncestor(r.pid) /\ ~HasMark(r)) => Synthetic(r) = ""
  BY <1>2, Zenon DEF Synthetic
<1>6. Synthetic(r) # "" <=> (BelowSet(r.pid) # {} /\ ~HasMark(r))
  BY <1>1, <1>4, <1>5, Zenon
<1>7. ASSUME ~IsAttack(r) PROVE ~HasMark(r) /\ Synthetic(r) = ""
  BY <1>7, Zenon DEF IsAttack, HasC2, Has, HasMark, Marked
<1>8. ASSUME Synthetic(r) # ""
      PROVE  \E j \in BelowSet(r.pid) : \E k \in DOMAIN raw[j].events :
               raw[j].events[k].res = Synthetic(r)
  <2>1. IsAncestor(r.pid) /\ Synthetic(r) = ChildResource(r.pid)
    BY <1>5, <1>8, Zenon
  <2>2. QED
    BY <1>1, <2>1, Zenon
<1>9. QED
  BY <1>6, <1>7, <1>8, Zenon

LEMMA InvImpliesChain == Inv => ChainFaithful
<1> SUFFICES ASSUME Inv PROVE ChainFaithful
  OBVIOUS
<1>1. TypeInv /\ Sized /\ Labels
  BY DEF Inv
<1>2. /\ Cardinality({i \in DOMAIN sample : sample[i].is_attack}) <= MaxAttack
      /\ sample \in Seq(LabelledRaw)
  BY <1>1 DEF Labels
<1>3. ASSUME NEW i \in DOMAIN sample
      PROVE  LET w == sample[i]
                 marked == \E k \in DOMAIN w.events : Marked(w.events[k])
                 below == {j \in DOMAIN raw : /\ Descends(raw[j].pid, w.pid)
                                              /\ \E k \in DOMAIN raw[j].events :
                                                   Marked(raw[j].events[k])}
             IN /\ (w.child # "") <=> (below # {} /\ ~marked)
                /\ ~w.is_attack => below = {} /\ ~marked
                /\ w.child # "" =>
                     \E j \in below, k \in 1 .. WindowSize : raw[j].events[k].res = w.child
  <2> DEFINE w == sample[i]
  <2>1. w \in LabelledRaw
    BY <1>2, <1>3
  <2> HIDE DEF w
  <2>2. PICK n \in 1 .. Len(raw) : w = Labelled(raw[n])
    BY <2>1 DEF LabelledRaw
  <2> DEFINE r == raw[n]
             B == BelowSet(w.pid)
  <2>3. r \in Window
    BY <1>1, ElementOfSeq DEF TypeInv
  <2> HIDE DEF r
  <2>4. /\ w.pid = r.pid /\ w.events = r.events
        /\ w.child = Synthetic(r) /\ w.is_attack = IsAttack(r)
    BY <2>2, LabelFields DEF r
  <2>5. /\ Synthetic(r) # "" <=> (B # {} /\ ~HasMark(r))
        /\ ~IsAttack(r) => B = {} /\ ~HasMark(r)
        /\ Synthetic(r) # "" =>
             \E j \in B : \E k \in DOMAIN raw[j].events : raw[j].events[k].res = Synthetic(r)
    BY <1>1, <2>3, <2>4, LabelSays
  <2>6. HasMark(w) <=> HasMark(r)
    BY <2>4, Zenon DEF HasMark
  <2>7. \A j \in B : DOMAIN raw[j].events = 1 .. WindowSize
    <3>1. raw \in Seq(Window)
      BY <1>1 DEF TypeInv
    <3>2. \A j \in B : j \in 1 .. Len(raw) /\ raw[j] \in Window
      BY <3>1 DEF BelowSet
    <3>3. \A j \in 1 .. Len(raw) : Len(raw[j].events) = WindowSize
      BY <1>1 DEF Sized
    <3>4. \A v \in Window : DOMAIN v.events = 1 .. Len(v.events)
      BY DEF Window
    <3>5. QED
      BY <3>2, <3>3, <3>4
  <2>8. B = {j \in DOMAIN raw : /\ Descends(raw[j].pid, w.pid)
                                /\ \E k \in DOMAIN raw[j].events : Marked(raw[j].events[k])}
    BY DEF BelowSet, HasMark
  <2> HIDE DEF B
  <2>9. /\ (w.child # "") <=> (B # {} /\ ~HasMark(w))
        /\ ~w.is_attack => B = {} /\ ~HasMark(w)
        /\ w.child # "" => \E j \in B, k \in 1 .. WindowSize : raw[j].events[k].res = w.child
    BY <2>4, <2>5, <2>6, <2>7, Zenon
  <2>10. QED
    BY <2>8, <2>9, Zenon DEF HasMark, w
<1>4. QED
  BY <1>2, <1>3, Zenon DEF ChainFaithful

\* "Every window whose PID is an ancestor of a C2-connecting process" (the
\* second phase of build_labeled_windows) carries the synthetic edge unless it
\* has a mark itself, and no other does; a window sampled as benign has neither
\* a mark nor a marked descendant, the edge names a resource that a descendant
\* used, and the sample has no more attack windows than asked for.
THEOREM FaithfulChain == Spec => []ChainFaithful
BY Invariant, InvImpliesChain, PTL
=============================================================================
