---------------------------- MODULE Probes_proofs ----------------------------
(***************************************************************************)
(* Proofs about Probes for every set of processes and CPUs, every window   *)
(* size and capacity, and every binary with its layout of sections.        *)
(***************************************************************************)
EXTENDS Probes, FiniteSetTheorems, FunctionTheorems, WellFoundedInduction, TLAPS

-----------------------------------------------------------------------------
(* Sums over the CPUs.  MapThenSumSet is a recursive function on sets; that  *)
(* it satisfies its equation, and what a change of one summand does to it,   *)
(* follow by taking a smallest set for which they fail.                      *)

Chosen(s) == CHOOSE x \in s : TRUE

\* the equation of the sum of f over the members of a family of sets
SumEquation(g, f, D) ==
  g = [s \in D |-> IF s = {} THEN 0 ELSE f[Chosen(s)] + g[s \ {Chosen(s)}]]

UpTo(S, n) == {s \in SUBSET S : Cardinality(s) <= n}

LEMMA NatMinimum ==
  ASSUME NEW T \in SUBSET Nat, T # {}
  PROVE  \E n \in T : \A m \in T : n <= m
<1>1. PICK n \in T : \A m \in T : ~(<<m, n>> \in OpToRel(<, Nat))
  BY NatLessThanWellFounded, WFMin
<1>2. ASSUME NEW m \in T PROVE n <= m
  <2>1. m \in Nat /\ n \in Nat /\ ~(m < n)
    BY <1>1 DEF OpToRel
  <2>2. QED
    BY <2>1
<1>3. QED
  BY <1>2

LEMMA SumExists ==
  ASSUME NEW S, IsFiniteSet(S), NEW f
  PROVE  \E g : SumEquation(g, f, SUBSET S)
<1> DEFINE Fails == {n \in Nat : ~ \E g : SumEquation(g, f, UpTo(S, n))}
<1>1. \A s \in SUBSET S : IsFiniteSet(s) /\ Cardinality(s) \in Nat
  BY FS_Subset, FS_CardinalityType
<1>2. ASSUME NEW n \in Fails, \A m \in Fails : n <= m
      PROVE  FALSE
  <2>1. CASE n = 0
    <3> DEFINE g == [s \in UpTo(S, 0) |-> 0]
    <3>1. \A s \in UpTo(S, 0) : s = {}
      BY <1>1, FS_EmptySet DEF UpTo
    <3>2. SumEquation(g, f, UpTo(S, 0))
      BY <3>1 DEF SumEquation
    <3>3. QED
      BY <2>1, <3>2
  <2>2. CASE n # 0
    <3>1. n - 1 \in Nat /\ n - 1 \notin Fails
      BY <1>2, <2>2
    <3>2. PICK g : SumEquation(g, f, UpTo(S, n - 1))
      BY <3>1
    <3> DEFINE F(h, s) == IF s = {} THEN 0 ELSE f[Chosen(s)] + h[s \ {Chosen(s)}]
               h == [s \in UpTo(S, n) |-> F(g, s)]
    <3>3. \A s \in UpTo(S, n - 1) : g[s] = F(g, s)
      BY <3>2 DEF SumEquation
    <3>4. UpTo(S, n - 1) \subseteq UpTo(S, n)
      BY <1>1, <3>1 DEF UpTo
    <3>5. ASSUME NEW s \in UpTo(S, n), s # {}
          PROVE  s \ {Chosen(s)} \in UpTo(S, n - 1)
      <4>1. Chosen(s) \in s
        BY <3>5 DEF Chosen
      <4>2. s \in SUBSET S /\ IsFiniteSet(s) /\ Cardinality(s) \in Nat /\ Cardinality(s) <= n
        BY <1>1 DEF UpTo
      <4>3. Cardinality(s \ {Chosen(s)}) = Cardinality(s) - 1
        BY <4>1, <4>2, FS_RemoveElement
      <4>4. QED
        BY <4>2, <4>3 DEF UpTo
    <3>6. \A s \in UpTo(S, n) : F(h, s) = F(g, s)
      BY <3>3, <3>4, <3>5
    <3>7. h = [s \in UpTo(S, n) |-> F(h, s)]
      BY <3>6
    <3> HIDE DEF h
    <3>8. SumEquation(h, f, UpTo(S, n))
      BY <3>7 DEF SumEquation
    <3>9. QED
      BY <3>8
  <2>3. QED
    BY <2>1, <2>2
<1>3. Fails = {}
  BY <1>2, NatMinimum
<1>4. Cardinality(S) \in Nat /\ UpTo(S, Cardinality(S)) = SUBSET S
  BY FS_CardinalityType, FS_Subset DEF UpTo
<1>5. \E g : SumEquation(g, f, UpTo(S, Cardinality(S)))
  BY <1>3, <1>4
<1>6. QED
  BY <1>4, <1>5

Sum(f, S) == MapThenSumSet(LAMBDA x : f[x], S)

\* Adding d to one summand adds d to the sum.
LEMMA SumChanges ==
  ASSUME NEW S, IsFiniteSet(S), NEW f \in [S -> Int], NEW c \in S, NEW d \in Int
  PROVE  Sum(f, S) \in Int /\ Sum([f EXCEPT ![c] = f[c] + d], S) = Sum(f, S) + d
<1> DEFINE g == [f EXCEPT ![c] = f[c] + d]
           I(k) == CHOOSE i : SumEquation(i, k, SUBSET S)
           F == I(f)
           G == I(g)
           One(s) == IF c \in s THEN d ELSE 0
           Fails == {n \in Nat : \E s \in SUBSET S :
                       /\ Cardinality(s) = n
                       /\ ~(F[s] \in Int /\ G[s] = F[s] + One(s))}
<1>1. Sum(f, S) = F[S] /\ Sum(g, S) = G[S]
  BY DEF Sum, MapThenSumSet, MapThenFoldSet, SumEquation, Chosen
<1>2. SumEquation(F, f, SUBSET S) /\ SumEquation(G, g, SUBSET S)
  BY SumExists
<1> HIDE DEF F, G, I
<1>3. \A s \in SUBSET S : IsFiniteSet(s) /\ Cardinality(s) \in Nat
  BY FS_Subset, FS_CardinalityType
<1>4. ASSUME NEW n \in Fails, \A m \in Fails : n <= m
      PROVE  FALSE
  <2>1. PICK s \in SUBSET S : /\ Cardinality(s) = n
                              /\ ~(F[s] \in Int /\ G[s] = F[s] + One(s))
    OBVIOUS
  <2>2. s # {}
    BY <1>2, <2>1 DEF SumEquation
  <2> DEFINE x == Chosen(s)
             r == s \ {x}
  <2>3. x \in s /\ x \in S /\ r \in SUBSET S
    BY <2>2 DEF Chosen
  <2>4. Cardinality(r) = n - 1 /\ n - 1 \in Nat
    <3>1. Cardinality(r) = Cardinality(s) - 1 /\ Cardinality(r) \in Nat
      BY <1>3, <2>3, FS_RemoveElement
    <3>2. QED
      BY <2>1, <3>1
  <2>5. F[r] \in Int /\ G[r] = F[r] + One(r)
    <3>1. n - 1 \notin Fails
      BY <1>4, <2>4
    <3>2. QED
      BY <2>3, <2>4, <3>1
  <2>6. F[s] = f[x] + F[r] /\ G[s] = g[x] + G[r]
    BY <1>2, <2>2 DEF SumEquation
  <2>7. f[x] \in Int /\ g[x] = IF x = c THEN f[x] + d ELSE f[x]
    BY <2>3
  <2>8. One(s) = IF x = c THEN d ELSE One(r)
    BY <2>3
  <2>9. One(r) \in Int /\ (x = c => One(r) = 0)
    OBVIOUS
  <2> HIDE DEF One, x, r
  <2>10. QED
    BY <2>1, <2>5, <2>6, <2>7, <2>8, <2>9
<1>5. Fails = {}
  BY <1>4, NatMinimum
<1>6. F[S] \in Int /\ G[S] = F[S] + One(S)
  <2>1. Cardinality(S) \notin Fails /\ Cardinality(S) \in Nat
    BY <1>3, <1>5
  <2>2. QED
    BY <2>1
<1>7. QED
  BY <1>1, <1>6

\* A sum of zeros is zero.
LEMMA SumOfZeros ==
  ASSUME NEW S, IsFiniteSet(S)
  PROVE  Sum([x \in S |-> 0], S) = 0
<1> DEFINE f == [x \in S |-> 0]
           F == CHOOSE i : SumEquation(i, f, SUBSET S)
           Fails == {n \in Nat : \E s \in SUBSET S : Cardinality(s) = n /\ F[s] # 0}
<1>1. Sum(f, S) = F[S]
  BY DEF Sum, MapThenSumSet, MapThenFoldSet, SumEquation, Chosen
<1>2. SumEquation(F, f, SUBSET S)
  BY SumExists
<1> HIDE DEF F
<1>3. \A s \in SUBSET S : IsFiniteSet(s) /\ Cardinality(s) \in Nat
  BY FS_Subset, FS_CardinalityType
<1>4. ASSUME NEW n \in Fails, \A m \in Fails : n <= m
      PROVE  FALSE
  <2>1. PICK s \in SUBSET S : Cardinality(s) = n /\ F[s] # 0
    OBVIOUS
  <2>2. s # {}
    BY <1>2, <2>1 DEF SumEquation
  <2> DEFINE x == Chosen(s)
             r == s \ {x}
  <2>3. x \in s /\ x \in S /\ r \in SUBSET S
    BY <2>2 DEF Chosen
  <2>4. Cardinality(r) = n - 1 /\ n - 1 \in Nat
    <3>1. Cardinality(r) = Cardinality(s) - 1 /\ Cardinality(r) \in Nat
      BY <1>3, <2>3, FS_RemoveElement
    <3>2. QED
      BY <2>1, <3>1
  <2>5. F[r] = 0
    <3>1. n - 1 \notin Fails
      BY <1>4, <2>4
    <3>2. QED
      BY <2>3, <2>4, <3>1
  <2>6. F[s] = f[x] + F[r]
    BY <1>2, <2>2 DEF SumEquation
  <2>7. QED
    BY <2>1, <2>3, <2>5, <2>6
<1>5. Fails = {}
  BY <1>4, NatMinimum
<1>6. QED
  BY <1>1, <1>3, <1>5

\* The merged count of a lineage record, as a sum.
LEMMA MergedCount ==
  ASSUME NEW l
  PROVE  MapThenSumSet(LAMBDA c : l[c].count, Cpus) = Sum([c \in Cpus |-> l[c].count], Cpus)
<1> DEFINE f == [c \in Cpus |-> l[c].count]
           D == SUBSET Cpus
           E(i) == i = [s \in D |-> IF s = {} THEN 0
                                    ELSE l[Chosen(s)].count + i[s \ {Chosen(s)}]]
<1>1. MapThenSumSet(LAMBDA c : l[c].count, Cpus) = (CHOOSE i : E(i))[Cpus]
  BY DEF MapThenSumSet, MapThenFoldSet, Chosen
<1>2. Sum(f, Cpus) = (CHOOSE i : SumEquation(i, f, D))[Cpus]
  BY DEF Sum, MapThenSumSet, MapThenFoldSet, SumEquation, Chosen
<1>3. \A s \in D : s # {} => Chosen(s) \in Cpus
  BY DEF Chosen
<1>4. \A i : E(i) <=> SumEquation(i, f, D)
  BY <1>3 DEF SumEquation
<1> HIDE DEF E
<1>5. (CHOOSE i : E(i)) = (CHOOSE i : SumEquation(i, f, D))
  BY <1>4
<1>6. QED
  BY <1>1, <1>2, <1>5

-----------------------------------------------------------------------------
(* Histograms: how often a type occurs in a window.                          *)

Places(q, y) == {i \in DOMAIN q : q[i] = y}
Occurs(q, y) == Cardinality(Places(q, y))

LEMMA PlacesFinite ==
  ASSUME NEW S, NEW q \in Seq(S), NEW y
  PROVE  IsFiniteSet(Places(q, y)) /\ Occurs(q, y) \in Nat
<1>1. Places(q, y) \in SUBSET (1 .. Len(q)) /\ Len(q) \in Int /\ 1 \in Int
  BY DEF Places
<1>2. IsFiniteSet(1 .. Len(q))
  BY <1>1, FS_Interval
<1>3. QED
  BY <1>1, <1>2, FS_Subset, FS_CardinalityType DEF Occurs

LEMMA OccursAppend ==
  ASSUME NEW S, NEW q \in Seq(S), NEW x \in S, NEW y
  PROVE  Occurs(Append(q, x), y) = Occurs(q, y) + (IF x = y THEN 1 ELSE 0)
<1> DEFINE k == Len(q) + 1
<1>1. Append(q, x) \in Seq(S) /\ k \notin Places(q, y)
  BY DEF Places
<1>2. CASE x = y
  <2>1. Places(Append(q, x), y) = Places(q, y) \cup {k}
    BY <1>2 DEF Places
  <2>2. QED
    BY <1>1, <1>2, <2>1, PlacesFinite, FS_AddElement DEF Occurs
<1>3. CASE x # y
  <2>1. Places(Append(q, x), y) = Places(q, y)
    BY <1>3 DEF Places
  <2>2. QED
    BY <1>3, <2>1, PlacesFinite DEF Occurs
<1>4. QED
  BY <1>2, <1>3

LEMMA OccursTail ==
  ASSUME NEW S, NEW q \in Seq(S), q # <<>>, NEW y
  PROVE  Occurs(q, y) = Occurs(Tail(q), y) + (IF Head(q) = y THEN 1 ELSE 0)
<1> DEFINE R == Places(q, y) \ {1}
           P == Places(Tail(q), y)
           f == [i \in P |-> i + 1]
<1>1. /\ Tail(q) \in Seq(S) /\ Len(Tail(q)) = Len(q) - 1 /\ Len(q) \in Nat \ {0}
      /\ \A i \in 1 .. Len(q) - 1 : Tail(q)[i] = q[i + 1]
      /\ Head(q) = q[1]
  OBVIOUS
<1>2. P = {i \in 1 .. Len(q) - 1 : q[i + 1] = y} /\ R = {i \in 2 .. Len(q) : q[i] = y}
  BY <1>1 DEF Places
<1> HIDE DEF P, R
<1>3. f \in Bijection(P, R)
  <2>1. f \in [P -> R]
    BY <1>1, <1>2
  <2>2. \A i, j \in P : f[i] = f[j] => i = j
    BY <1>1, <1>2
  <2>3. ASSUME NEW j \in R PROVE \E i \in P : f[i] = j
    <3>1. j - 1 \in P /\ (j - 1) + 1 = j
      BY <1>1, <1>2
    <3>2. QED
      BY <3>1
  <2>4. QED
    BY <2>1, <2>2, <2>3, Fun_IsBij
<1>4. IsFiniteSet(P) /\ Cardinality(P) = Occurs(Tail(q), y)
  BY <1>1, PlacesFinite DEF P, Occurs
<1>5. Cardinality(R) = Occurs(Tail(q), y)
  <2>1. ExistsBijection(P, R)
    BY <1>3 DEF ExistsBijection
  <2>2. QED
    BY <1>4, <2>1, FS_Bijection
<1>6. Cardinality(R) = IF 1 \in Places(q, y) THEN Occurs(q, y) - 1 ELSE Occurs(q, y)
  BY PlacesFinite, FS_RemoveElement DEF R, Occurs
<1>7. 1 \in Places(q, y) <=> Head(q) = y
  BY <1>1 DEF Places
<1>8. QED
  BY <1>5, <1>6, <1>7, PlacesFinite

-----------------------------------------------------------------------------
(* The circular histogram of the kernel: its ring holds the window, oldest   *)
(* call at pos once it is full, and its counts are those of the window.      *)

After(pos) == IF pos + 1 = W THEN 0 ELSE pos + 1

Oldest(pos, i) == IF pos + i <= W THEN pos + i - 1 ELSE pos + i - 1 - W

Slot(h, i) == IF h.total < W THEN i - 1 ELSE Oldest(h.pos, i)

Mirrors(h, win) ==
  /\ win \in Seq(Types) /\ Len(win) = h.total
  /\ h.total < W => h.pos = h.total
  /\ \A i \in 1 .. h.total : h.ring[Slot(h, i)] = win[i]
  /\ \A t \in Types : h.counts[t] = Occurs(win, t)

LEMMA NextPosition ==
  ASSUME NEW k \in 0 .. W - 1
  PROVE  (k + 1) % W = After(k)
  BY ProbesAssumption DEF After

LEMMA OldestMoves ==
  ASSUME NEW pos \in 0 .. W - 1
  PROVE  /\ Oldest(pos, 1) = pos /\ Oldest(After(pos), W) = pos
         /\ \A i \in 1 .. W - 1 : /\ Oldest(After(pos), i) = Oldest(pos, i + 1)
                                /\ Oldest(pos, i + 1) \in 0 .. W - 1 \ {pos}
<1>1. W \in Nat /\ W > 0 /\ pos \in Int
  BY ProbesAssumption
<1>2. CASE pos + 1 = W
  BY <1>1, <1>2 DEF Oldest, After
<1>3. CASE pos + 1 # W
  BY <1>1, <1>3 DEF Oldest, After
<1>4. QED
  BY <1>2, <1>3

LEMMA NewHistogramMirrors ==
  NewHistogram \in Histogram /\ Mirrors(NewHistogram, <<>>)
<1>1. "EXEC" \in Types /\ W \in Nat \ {0}
  BY ProbesAssumption DEF Types
<1>2. NewHistogram \in Histogram
  BY <1>1 DEF NewHistogram, Histogram
<1>3. \A t \in Types : Occurs(<<>>, t) = 0
  <2>1. \A t : Places(<<>>, t) = {}
    BY DEF Places
  <2>2. QED
    BY <2>1, FS_EmptySet DEF Occurs
<1>4. QED
  BY <1>1, <1>2, <1>3 DEF NewHistogram, Mirrors

LEMMA PushedMirrors ==
  ASSUME NEW h \in Histogram, NEW win, Mirrors(h, win), NEW t \in Types
  PROVE  Pushed(h, t) \in Histogram /\ Mirrors(Pushed(h, t), Mirrored(win, t))
<1> DEFINE n == Pushed(h, t)
           m == Mirrored(win, t)
           kept == IF h.total >= W THEN [h.counts EXCEPT ![h.ring[h.pos]] = @ - 1]
                   ELSE h.counts
<1>1. /\ W \in Nat /\ W > 0 /\ h.pos \in 0 .. W - 1 /\ h.total \in 0 .. W
      /\ h.ring \in [0 .. W - 1 -> Types] /\ h.counts \in [Types -> Nat]
      /\ win \in Seq(Types) /\ Len(win) = h.total
  BY ProbesAssumption DEF Histogram, Mirrors
<1>2. /\ n.ring = [h.ring EXCEPT ![h.pos] = t]
      /\ n.pos = After(h.pos)
      /\ n.total = IF h.total < W THEN h.total + 1 ELSE h.total
      /\ n.counts = [kept EXCEPT ![t] = @ + 1]
      /\ n = [ring |-> n.ring, pos |-> n.pos, total |-> n.total, counts |-> n.counts]
  BY <1>1, NextPosition DEF Pushed
<1> HIDE DEF n
<1>a. kept \in [Types -> Int]
  BY <1>1
<1>b. h.total < W => kept = h.counts /\ m = Append(win, t)
  BY <1>1 DEF Mirrored
<1>c. h.total = W => /\ kept = [h.counts EXCEPT ![h.ring[h.pos]] = @ - 1]
                     /\ m = Append(Tail(win), t)
  BY <1>1 DEF Mirrored
<1>d. /\ n.counts \in [Types -> Int]
      /\ \A y \in Types : n.counts[y] = kept[y] + (IF t = y THEN 1 ELSE 0)
  BY <1>2, <1>a
<1>e. /\ n.ring \in [0 .. W - 1 -> Types] /\ n.pos \in 0 .. W - 1 /\ n.total \in 0 .. W
      /\ (\A y \in Types : n.counts[y] \in Nat) => n.counts \in [Types -> Nat]
  <2>1. n.ring \in [0 .. W - 1 -> Types]
    BY <1>1, <1>2
  <2>2. n.pos \in 0 .. W - 1 /\ n.total \in 0 .. W
    BY <1>1, <1>2, SMTT(30) DEF After
  <2>3. (\A y \in Types : n.counts[y] \in Nat) => n.counts \in [Types -> Nat]
    BY <1>d
  <2>4. QED
    BY <2>1, <2>2, <2>3
<1>f. (\A y \in Types : n.counts[y] \in Nat) => n \in Histogram
  BY <1>2, <1>e DEF Histogram
<1>g. /\ Oldest(h.pos, 1) = h.pos /\ Oldest(n.pos, W) = h.pos
      /\ \A i \in 1 .. W - 1 : /\ Oldest(n.pos, i) = Oldest(h.pos, i + 1)
                             /\ Oldest(h.pos, i + 1) \in 0 .. W - 1 \ {h.pos}
  BY <1>1, <1>2, OldestMoves
<1> HIDE DEF kept, m
<1>3. CASE h.total < W
  <2>1. m = Append(win, t) /\ kept = h.counts
    BY <1>3, <1>b
  <2>2. \A y \in Types : n.counts[y] = Occurs(m, y) /\ n.counts[y] \in Nat
    <3>1. \A y \in Types : Occurs(m, y) = h.counts[y] + (IF t = y THEN 1 ELSE 0)
      <4>1. \A y \in Types : Occurs(Append(win, t), y)
                               = Occurs(win, y) + (IF t = y THEN 1 ELSE 0)
        BY <1>1, OccursAppend
      <4>2. QED
        BY <2>1, <4>1 DEF Mirrors
    <3>2. \A y \in Types : n.counts[y] = h.counts[y] + (IF t = y THEN 1 ELSE 0)
      BY <1>d, <2>1
    <3>3. \A y \in Types : h.counts[y] \in Nat
      BY <1>1
    <3>4. QED
      BY <3>1, <3>2, <3>3
  <2>3. n \in Histogram
    BY <1>f, <2>2
  <2>4. m \in Seq(Types) /\ Len(m) = n.total /\ (n.total < W => n.pos = n.total)
    BY <1>1, <1>2, <1>3, <2>1 DEF Mirrors, After
  <2>5. ASSUME NEW i \in 1 .. n.total
        PROVE  n.ring[Slot(n, i)] = m[i]
    <3>1. h.pos = h.total /\ n.total = h.total + 1 /\ n.pos = IF n.total = W THEN 0 ELSE n.total
      BY <1>1, <1>2, <1>3 DEF Mirrors, After
    <3>2. Slot(n, i) = i - 1
      <4>1. CASE n.total = W
        <5>1. n.pos = 0 /\ Slot(n, i) = Oldest(0, i) /\ i \in 1 .. W
          BY <1>1, <3>1, <4>1 DEF Slot
        <5>2. QED
          BY <1>1, <5>1 DEF Oldest
      <4>2. CASE n.total # W
        BY <1>1, <1>3, <3>1, <4>2 DEF Slot
      <4>3. QED
        BY <4>1, <4>2
    <3>3. CASE i = h.total + 1
      BY <1>1, <1>2, <1>3, <2>1, <3>1, <3>2, <3>3
    <3>4. CASE i \in 1 .. h.total
      <4>1. h.ring[i - 1] = win[i]
        BY <1>3, <3>4 DEF Mirrors, Slot
      <4>2. i - 1 \in 0 .. W - 1 /\ i - 1 # h.pos
        BY <1>1, <3>1, <3>4
      <4>3. m[i] = win[i]
        BY <1>1, <2>1, <3>4
      <4>4. n.ring[i - 1] = h.ring[i - 1]
        BY <1>1, <1>2, <4>2
      <4>5. QED
        BY <3>2, <4>1, <4>3, <4>4
    <3>5. QED
      BY <1>1, <3>1, <3>3, <3>4
  <2>6. Mirrors(n, m)
    BY <2>2, <2>4, <2>5 DEF Mirrors
  <2>7. QED
    BY <2>3, <2>6 DEF n, m
<1>4. CASE ~(h.total < W)
  <2>1. h.total = W /\ h.total >= W /\ n.total = W /\ Len(win) = W
    BY <1>1, <1>2, <1>4
  <2>2. win # <<>> /\ m = Append(Tail(win), t)
    BY <1>1, <1>c, <2>1
  <2>3. /\ Tail(win) \in Seq(Types) /\ Len(Tail(win)) = W - 1
        /\ \A i \in 1 .. W - 1 : Tail(win)[i] = win[i + 1]
        /\ Head(win) = win[1] /\ win[1] \in Types
    BY <1>1, <2>1, <2>2
  <2>4. /\ m \in Seq(Types) /\ Len(m) = W /\ m[W] = t
        /\ \A i \in 1 .. W - 1 : m[i] = win[i + 1]
    BY <1>1, <2>2, <2>3
  <2>5. h.ring[h.pos] = win[1]
    <3>1. Slot(h, 1) = h.pos
      BY <1>1, <1>g, <2>1 DEF Slot
    <3>2. 1 \in 1 .. h.total
      BY <1>1, <2>1
    <3>3. QED
      BY <3>1, <3>2 DEF Mirrors
  <2>6. \A y \in Types : n.counts[y] = Occurs(m, y) /\ n.counts[y] \in Nat
    <3>1. ASSUME NEW y \in Types
          PROVE  n.counts[y] = Occurs(m, y) /\ n.counts[y] \in Nat
      <4>1. h.counts[y] = Occurs(Tail(win), y) + (IF win[1] = y THEN 1 ELSE 0)
        BY <1>1, <2>2, <2>3, OccursTail DEF Mirrors
      <4>2. Occurs(Tail(win), y) \in Nat
        BY <2>3, PlacesFinite
      <4>3. kept[y] = Occurs(Tail(win), y)
        <5>1. kept = [h.counts EXCEPT ![win[1]] = @ - 1]
          BY <1>c, <2>1, <2>5
        <5>2. kept[y] = IF win[1] = y THEN h.counts[y] - 1 ELSE h.counts[y]
          BY <1>1, <5>1
        <5>3. QED
          BY <4>1, <4>2, <5>2
      <4>4. Occurs(m, y) = Occurs(Tail(win), y) + (IF t = y THEN 1 ELSE 0)
        <5>1. Occurs(Append(Tail(win), t), y)
                = Occurs(Tail(win), y) + (IF t = y THEN 1 ELSE 0)
          <6> DEFINE r == Tail(win)
          <6>1. r \in Seq(Types)
            BY <2>3
          <6> HIDE DEF r
          <6>2. Occurs(Append(r, t), y) = Occurs(r, y) + (IF t = y THEN 1 ELSE 0)
            BY <6>1, OccursAppend
          <6>3. QED
            BY <6>2 DEF r
        <5>2. QED
          BY <2>2, <5>1
      <4>5. n.counts[y] = kept[y] + (IF t = y THEN 1 ELSE 0)
        BY <1>d
      <4>6. QED
        BY <4>2, <4>3, <4>4, <4>5
    <3>2. QED
      BY <3>1
  <2>7. n \in Histogram
    BY <1>f, <2>6
  <2>8. ASSUME NEW i \in 1 .. W
        PROVE  n.ring[Slot(n, i)] = m[i]
    <3>1. CASE i = W
      <4>1. Slot(n, i) = h.pos
        BY <1>1, <1>g, <2>1, <3>1 DEF Slot
      <4>2. QED
        BY <1>1, <1>2, <2>4, <3>1, <4>1
    <3>2. CASE i # W
      <4>1. i \in 1 .. W - 1 /\ i + 1 \in 1 .. W
        BY <1>1, <3>2
      <4>2. Slot(n, i) = Slot(h, i + 1) /\ Slot(n, i) \in 0 .. W - 1 /\ Slot(n, i) # h.pos
        <5>1. Slot(n, i) = Oldest(n.pos, i) /\ Slot(h, i + 1) = Oldest(h.pos, i + 1)
          BY <1>1, <2>1 DEF Slot
        <5>2. QED
          BY <1>g, <4>1, <5>1
      <4>3. h.ring[Slot(h, i + 1)] = win[i + 1]
        BY <2>1, <4>1 DEF Mirrors
      <4>4. QED
        BY <1>1, <1>2, <2>4, <4>1, <4>2, <4>3
    <3>3. QED
      BY <3>1, <3>2
  <2>9. Mirrors(n, m)
    BY <1>1, <2>1, <2>4, <2>6, <2>8 DEF Mirrors
  <2>10. QED
    BY <2>7, <2>9 DEF n, m
<1>5. QED
  BY <1>3, <1>4

-----------------------------------------------------------------------------
(* What a step of a probe does to each table.                                *)

HistInv ==
  /\ hist \in [Pids -> {Absent} \cup [Cpus -> Histogram]]
  /\ mirror \in [Pids -> [Cpus -> Seq(Types)]]
  /\ \A p \in Pids, c \in Cpus :
       IF hist[p] = Absent THEN mirror[p][c] = <<>> ELSE Mirrors(hist[p][c], mirror[p][c])

LEMMA MirroredType ==
  ASSUME NEW win \in Seq(Types), NEW t \in Types
  PROVE  Mirrored(win, t) \in Seq(Types)
<1>1. CASE Len(win) = W
  <2>1. win # <<>>
    BY <1>1, ProbesAssumption
  <2>2. QED
    BY <1>1, <2>1 DEF Mirrored
<1>2. CASE Len(win) # W
  BY <1>2 DEF Mirrored
<1>3. QED
  BY <1>1, <1>2

LEMMA CountKeeps ==
  ASSUME HistInv, NEW p \in Pids, NEW c \in Cpus, NEW t \in Types, Count(p, c, t)
  PROVE  HistInv'
<1> USE DEF HistInv
<1>1. Absent \notin [Cpus -> Histogram]
  BY ProbesAssumption
<1>2. CASE hist[p] # Absent
  <2>1. /\ hist' = [hist EXCEPT ![p][c] = Pushed(hist[p][c], t)]
        /\ mirror' = [mirror EXCEPT ![p][c] = Mirrored(mirror[p][c], t)]
    BY <1>2 DEF Count
  <2>2. hist[p] \in [Cpus -> Histogram] /\ Mirrors(hist[p][c], mirror[p][c])
    BY <1>2
  <2>3. /\ Pushed(hist[p][c], t) \in Histogram
        /\ Mirrors(Pushed(hist[p][c], t), Mirrored(mirror[p][c], t))
    BY <2>2, PushedMirrors
  <2>4. Mirrored(mirror[p][c], t) \in Seq(Types)
    BY MirroredType
  <2>5. /\ hist'[p] \in [Cpus -> Histogram] /\ hist'[p] # Absent
        /\ \A k \in Cpus : hist'[p][k] = IF k = c THEN Pushed(hist[p][c], t) ELSE hist[p][k]
        /\ \A q \in Pids \ {p} : hist'[q] = hist[q]
    BY <1>1, <2>1, <2>2, <2>3
  <2>6. /\ mirror' \in [Pids -> [Cpus -> Seq(Types)]]
        /\ \A k \in Cpus : mirror'[p][k] = IF k = c THEN Mirrored(mirror[p][c], t)
                                           ELSE mirror[p][k]
        /\ \A q \in Pids \ {p} : mirror'[q] = mirror[q]
    BY <2>1, <2>4
  <2>7. hist' \in [Pids -> {Absent} \cup [Cpus -> Histogram]]
    BY <2>1, <2>5
  <2>8. ASSUME NEW q \in Pids, NEW k \in Cpus
        PROVE  IF hist'[q] = Absent THEN mirror'[q][k] = <<>>
               ELSE Mirrors(hist'[q][k], mirror'[q][k])
    <3>1. CASE q = p
      BY <1>2, <2>3, <2>5, <2>6, <3>1
    <3>2. CASE q # p
      BY <2>5, <2>6, <3>2
    <3>3. QED
      BY <3>1, <3>2
  <2>9. QED
    BY <2>6, <2>7, <2>8
<1>3. CASE hist[p] = Absent /\ UNCHANGED <<hist, mirror>>
  BY <1>3
<1>4. CASE hist[p] = Absent /\ ~UNCHANGED <<hist, mirror>>
  <2>1. PICK gone \in SUBSET Entries(hist) :
          /\ hist' = [q \in Pids |->
               IF q = p THEN [k \in Cpus |-> IF k = c THEN Pushed(NewHistogram, t)
                                             ELSE NewHistogram]
               ELSE IF q \in gone THEN Absent ELSE hist[q]]
          /\ mirror' = [q \in Pids |->
               IF q = p THEN [mirror[p] EXCEPT ![c] = Mirrored(<<>>, t)]
               ELSE IF q \in gone THEN [k \in Cpus |-> <<>>] ELSE mirror[q]]
    BY <1>4 DEF Count
  <2>2. NewHistogram \in Histogram /\ Mirrors(NewHistogram, <<>>)
    BY NewHistogramMirrors
  <2>3. /\ Pushed(NewHistogram, t) \in Histogram
        /\ Mirrors(Pushed(NewHistogram, t), Mirrored(<<>>, t))
    BY <2>2, PushedMirrors
  <2>4. <<>> \in Seq(Types) /\ Mirrored(<<>>, t) \in Seq(Types)
    BY <2>2, <2>3 DEF Mirrors
  <2>5. /\ hist'[p] \in [Cpus -> Histogram] /\ hist'[p] # Absent
        /\ \A k \in Cpus : hist'[p][k] = IF k = c THEN Pushed(NewHistogram, t)
                                         ELSE NewHistogram
        /\ \A q \in Pids \ {p} : hist'[q] = IF q \in gone THEN Absent ELSE hist[q]
    <3>1. hist'[p] = [k \in Cpus |-> IF k = c THEN Pushed(NewHistogram, t) ELSE NewHistogram]
      BY <2>1
    <3>2. hist'[p] \in [Cpus -> Histogram]
      BY <2>2, <2>3, <3>1
    <3>3. QED
      BY <1>1, <2>1, <3>1, <3>2
  <2>6. /\ mirror' \in [Pids -> [Cpus -> Seq(Types)]]
        /\ \A k \in Cpus : mirror'[p][k] = IF k = c THEN Mirrored(<<>>, t) ELSE <<>>
        /\ \A q \in Pids \ {p} : mirror'[q] = IF q \in gone THEN [k \in Cpus |-> <<>>]
                                              ELSE mirror[q]
    <3>1. mirror[p] \in [Cpus -> Seq(Types)] /\ \A k \in Cpus : mirror[p][k] = <<>>
      BY <1>4
    <3>2. mirror'[p] = [mirror[p] EXCEPT ![c] = Mirrored(<<>>, t)]
      BY <2>1
    <3>3. mirror' \in [Pids -> [Cpus -> Seq(Types)]]
      BY <2>1, <2>4, <3>1
    <3>4. QED
      BY <2>1, <3>1, <3>2, <3>3
  <2>7. hist' \in [Pids -> {Absent} \cup [Cpus -> Histogram]]
    BY <2>1, <2>5
  <2>8. ASSUME NEW q \in Pids, NEW k \in Cpus
        PROVE  IF hist'[q] = Absent THEN mirror'[q][k] = <<>>
               ELSE Mirrors(hist'[q][k], mirror'[q][k])
    <3>1. CASE q = p
      BY <2>2, <2>3, <2>5, <2>6, <3>1
    <3>2. CASE q # p
      BY <2>5, <2>6, <3>2
    <3>3. QED
      BY <3>1, <3>2
  <2>9. QED
    BY <2>6, <2>7, <2>8
<1>5. QED
  BY <1>2, <1>3, <1>4

\* What a lineage record holds: an original name of a probe that looked it up
\* before it was made, others only from such probes, and its renames, counted.
Merges(l, early, n) ==
  /\ \E m \in early : l[m.cpu].original = m.comm
  /\ \A c \in Cpus : l[c].original # NoName => [cpu |-> c, comm |-> l[c].original] \in early
  /\ Sum([c \in Cpus |-> l[c].count], Cpus) = n

LineageHolds(p) == lineage[p] # Absent => Merges(lineage[p], first[p], renames[p])

CopiesInv ==
  /\ lineage \in [Pids -> {Absent} \cup [Cpus -> Lineage]]
  /\ renames \in [Pids -> Nat] /\ first \in [Pids -> SUBSET [cpu : Cpus, comm : Comms]]
  /\ \A p \in Pids : LineageHolds(p)

\* A probe that found no record has written nothing on its CPU, and is among
\* those for which the record was made if it was made since.
Found(c, p) ==
  /\ probe[c].seen => lineage[p] # Absent
  /\ ~probe[c].seen /\ lineage[p] # Absent =>
       lineage[p][c] = NoLineage /\ [cpu |-> c, comm |-> probe[c].comm] \in first[p]

Between(c) ==
  probe[c].rec.pid # Absent => /\ probe[c].comm \in Comms /\ probe[c].name \in Comms
                               /\ Found(c, probe[c].rec.pid)

ProbesInv == probe \in [Cpus -> Pending] /\ \A c \in Cpus : Between(c)

LineageInv == CopiesInv /\ ProbesInv

LEMMA PendingType ==
  ASSUME ProbesInv, NEW c \in Cpus
  PROVE  /\ probe[c].rec \in Record
         /\ probe[c].rec.sc \in Types /\ probe[c].rec.pid \in Pids \cup {Absent}
         /\ probe[c].seen \in BOOLEAN
  BY DEF ProbesInv, Pending, Record

LEMMA NoProbeType == NoProbe \in Pending /\ NoProbe.rec.pid = Absent
  BY DEF NoProbe, NoRecord, Pending, Record, Types

LEMMA RenamedType ==
  ASSUME NEW l \in Lineage, NEW name \in Comms
  PROVE  /\ Renamed(l, name) \in Lineage
         /\ Renamed(l, name).original = l.original /\ Renamed(l, name).count = l.count + 1
<1> DEFINE r == [l EXCEPT !.count = @ + 1]
<1>1. l \in [count : Nat, original : Comms \cup {NoName}, current : Comms \cup {NoName}]
  BY DEF Lineage
<1>2. /\ r \in [count : Nat, original : Comms \cup {NoName}, current : Comms \cup {NoName}]
      /\ r.count = l.count + 1 /\ r.original = l.original
  BY <1>1
<1>3. Renamed(l, name) = [r EXCEPT !.current = name]
  BY <1>1 DEF Renamed
<1> HIDE DEF r
<1>4. QED
  BY <1>2, <1>3 DEF Lineage

LEMMA CountChanges ==
  ASSUME NEW f \in [Cpus -> Int], NEW c \in Cpus, NEW d \in Int
  PROVE  Sum([f EXCEPT ![c] = f[c] + d], Cpus) = Sum(f, Cpus) + d
  BY ProbesAssumption, SumChanges, ZenonT(30)

\* A copy of a record changes on one CPU, by d renames, to a name it had or to
\* one of a probe that came early.
LEMMA CopyKeeps ==
  ASSUME CopiesInv, NEW p \in Pids, lineage[p] # Absent, NEW c \in Cpus,
         NEW own \in Lineage, NEW d \in Nat, own.count = lineage[p][c].count + d,
         \/ own.original = lineage[p][c].original
         \/ [cpu |-> c, comm |-> own.original] \in first[p],
         lineage' = [lineage EXCEPT ![p][c] = own],
         renames' = [renames EXCEPT ![p] = @ + d], first' = first
  PROVE  /\ CopiesInv'
         /\ \A q \in Pids : lineage'[q] # Absent <=> lineage[q] # Absent
         /\ \A q \in Pids, k \in Cpus \ {c} :
              lineage[q] # Absent => lineage'[q][k] = lineage[q][k]
<1> DEFINE old == lineage[p]
           new == [old EXCEPT ![c] = own]
<1>1. old \in [Cpus -> Lineage] /\ Absent \notin [Cpus -> Lineage]
  BY ProbesAssumption DEF CopiesInv
<1>2. /\ new \in [Cpus -> Lineage] /\ lineage'[p] = new
      /\ \A q \in Pids \ {p} : lineage'[q] = lineage[q]
  BY <1>1 DEF CopiesInv
<1>3. /\ \A k \in Cpus : new[k] = IF k = c THEN own ELSE old[k]
      /\ \A k \in Cpus : old[k].count \in Nat
  BY <1>1 DEF Lineage
<1>4. /\ renames'[p] = renames[p] + d /\ renames' \in [Pids -> Nat]
      /\ \A q \in Pids \ {p} : renames'[q] = renames[q]
  BY DEF CopiesInv
<1>5. lineage' \in [Pids -> {Absent} \cup [Cpus -> Lineage]]
  BY <1>2 DEF CopiesInv
<1> HIDE DEF new
<1>6. Sum([k \in Cpus |-> new[k].count], Cpus) = renames[p] + d
  <2> DEFINE f == [k \in Cpus |-> old[k].count]
  <2>1. f \in [Cpus -> Int] /\ d \in Int
    BY <1>3
  <2>2. [k \in Cpus |-> new[k].count] = [f EXCEPT ![c] = f[c] + d]
    BY <1>3
  <2>3. Sum(f, Cpus) = renames[p]
    BY DEF CopiesInv, LineageHolds, Merges
  <2> HIDE DEF f
  <2>4. Sum([f EXCEPT ![c] = f[c] + d], Cpus) = Sum(f, Cpus) + d
    BY <2>1, CountChanges
  <2>5. QED
    BY <2>2, <2>3, <2>4
<1>7. /\ \E m \in first[p] : old[m.cpu].original = m.comm
      /\ \A k \in Cpus : old[k].original # NoName =>
                           [cpu |-> k, comm |-> old[k].original] \in first[p]
      /\ first[p] \in SUBSET [cpu : Cpus, comm : Comms]
  BY DEF CopiesInv, LineageHolds, Merges
<1>8. \E m \in first[p] : new[m.cpu].original = m.comm
  <2>1. CASE own.original = old[c].original
    BY <1>3, <1>7, <2>1
  <2>2. CASE [cpu |-> c, comm |-> own.original] \in first[p]
    BY <1>3, <2>2
  <2>3. QED
    BY <2>1, <2>2
<1>9. \A k \in Cpus : new[k].original # NoName =>
                        [cpu |-> k, comm |-> new[k].original] \in first[p]
  BY <1>3, <1>7
<1>10. LineageHolds(p)'
  <2>1. Merges(new, first[p], renames[p] + d)
    BY <1>6, <1>8, <1>9 DEF Merges
  <2>2. QED
    BY <1>2, <1>4, <2>1 DEF LineageHolds
<1>11. ASSUME NEW q \in Pids \ {p} PROVE LineageHolds(q)'
  BY <1>2, <1>4 DEF CopiesInv, LineageHolds
<1>12. CopiesInv'
  BY <1>4, <1>5, <1>10, <1>11 DEF CopiesInv
<1>13. QED
  BY <1>1, <1>2, <1>3, <1>12

\* A new record has the name of the probe that makes it, on its CPU.
LEMMA NewRecordKeeps ==
  ASSUME LineageInv, NEW p \in Pids, lineage[p] = Absent, NEW c \in Cpus,
         probe[c].rec.pid = p, ~probe[c].seen, NEW n \in Nat,
         NEW own \in Lineage, own.count = n, own.original = probe[c].comm,
         lineage' = [lineage EXCEPT
           ![p] = [k \in Cpus |-> IF k = c THEN own ELSE NoLineage]],
         renames' = [renames EXCEPT ![p] = n], first' = [first EXCEPT ![p] = Early(p)]
  PROVE  CopiesInv'
<1> DEFINE rec == [k \in Cpus |-> IF k = c THEN own ELSE NoLineage]
<1>1. NoLineage \in Lineage /\ rec \in [Cpus -> Lineage]
  BY DEF Lineage, NoLineage
<1>2. /\ lineage'[p] = rec /\ renames'[p] = n /\ first'[p] = Early(p)
      /\ \A q \in Pids \ {p} : /\ lineage'[q] = lineage[q] /\ renames'[q] = renames[q]
                               /\ first'[q] = first[q]
  BY DEF LineageInv, CopiesInv
<1>3. /\ [cpu |-> c, comm |-> own.original] \in Early(p)
      /\ Early(p) \in SUBSET [cpu : Cpus, comm : Comms]
  <2>1. \A k \in Cpus : probe[k].rec.pid = p => probe[k].comm \in Comms
    BY <1>1, ProbesAssumption DEF LineageInv, ProbesInv, Between
  <2>2. QED
    BY <2>1 DEF Early
<1>4. /\ lineage' \in [Pids -> {Absent} \cup [Cpus -> Lineage]]
      /\ renames' \in [Pids -> Nat] /\ first' \in [Pids -> SUBSET [cpu : Cpus, comm : Comms]]
  BY <1>1, <1>3 DEF LineageInv, CopiesInv
<1>5. Sum([k \in Cpus |-> rec[k].count], Cpus) = n
  <2> DEFINE z == [k \in Cpus |-> 0]
  <2>1. [k \in Cpus |-> rec[k].count] = [z EXCEPT ![c] = z[c] + n]
    BY DEF NoLineage
  <2>2. Sum(z, Cpus) = 0
    BY ProbesAssumption, SumOfZeros
  <2>3. z \in [Cpus -> Int] /\ n \in Int
    OBVIOUS
  <2> HIDE DEF z
  <2>4. Sum([z EXCEPT ![c] = z[c] + n], Cpus) = Sum(z, Cpus) + n
    BY <2>3, CountChanges
  <2>5. QED
    BY <2>1, <2>2, <2>4
<1>6. /\ rec[c] = own
      /\ \A k \in Cpus : rec[k].original # NoName => k = c
  BY DEF NoLineage
<1> HIDE DEF rec
<1>7. /\ \E m \in Early(p) : rec[m.cpu].original = m.comm
      /\ \A k \in Cpus : rec[k].original # NoName =>
                           [cpu |-> k, comm |-> rec[k].original] \in Early(p)
  BY <1>3, <1>6
<1>8. LineageHolds(p)'
  <2>1. Merges(rec, Early(p), n)
    BY <1>5, <1>7 DEF Merges
  <2>2. QED
    BY <1>2, <2>1 DEF LineageHolds
<1>9. ASSUME NEW q \in Pids \ {p} PROVE LineageHolds(q)'
  BY <1>2 DEF LineageInv, CopiesInv, LineageHolds
<1>10. QED
  BY <1>4, <1>8, <1>9 DEF CopiesInv

\* The probes on the other CPUs stay right, whatever a probe leaves behind.
LEMMA OthersKeep ==
  ASSUME LineageInv, CopiesInv', NEW c \in Cpus,
         probe' = [probe EXCEPT ![c] = NoProbe],
         \A k \in Cpus \ {c} : probe[k].rec.pid # Absent => Found(k, probe[k].rec.pid)'
  PROVE  LineageInv'
<1>1. probe' \in [Cpus -> Pending]
  BY NoProbeType DEF LineageInv, ProbesInv
<1>2. /\ probe'[c].rec.pid = Absent
      /\ \A k \in Cpus \ {c} : probe'[k] = probe[k]
  BY NoProbeType DEF LineageInv, ProbesInv
<1>3. Between(c)'
  BY <1>2 DEF Between
<1>4. ASSUME NEW k \in Cpus \ {c} PROVE Between(k)'
  <2>1. probe[k].rec.pid # Absent => Found(k, probe[k].rec.pid)'
    OBVIOUS
  <2>2. probe'[k] = probe[k] /\ Between(k)
    BY <1>2 DEF LineageInv, ProbesInv
  <2>3. QED
    BY <2>1, <2>2 DEF Between, Found
<1>5. QED
  BY <1>1, <1>3, <1>4 DEF LineageInv, ProbesInv

\* A record that is there is changed, or left, on one CPU.
LEMMA CopyUpdates ==
  ASSUME LineageInv, NEW p \in Pids, lineage[p] # Absent, NEW c \in Cpus,
         NEW own \in Lineage, NEW d \in Nat, own.count = lineage[p][c].count + d,
         \/ own.original = lineage[p][c].original
         \/ [cpu |-> c, comm |-> own.original] \in first[p],
         lineage' = [lineage EXCEPT ![p][c] = own],
         renames' = [renames EXCEPT ![p] = @ + d], first' = first,
         probe' = [probe EXCEPT ![c] = NoProbe]
  PROVE  LineageInv'
<1>1. CopiesInv
  BY DEF LineageInv
<1>2. /\ CopiesInv'
      /\ \A q \in Pids : lineage'[q] # Absent <=> lineage[q] # Absent
      /\ \A q \in Pids, k \in Cpus \ {c} :
           lineage[q] # Absent => lineage'[q][k] = lineage[q][k]
  BY <1>1, CopyKeeps
<1>3. \A k \in Cpus \ {c} : probe'[k] = probe[k] /\ Between(k)
  BY DEF LineageInv, ProbesInv
<1>4. ASSUME NEW k \in Cpus \ {c}, probe[k].rec.pid # Absent
      PROVE  Found(k, probe[k].rec.pid)'
  <2> DEFINE q == probe[k].rec.pid
  <2>1. q \in Pids /\ Found(k, q) /\ probe'[k] = probe[k] /\ probe'[k].rec.pid = q
    BY <1>3, <1>4, PendingType DEF LineageInv, Between
  <2>2. lineage'[q] # Absent <=> lineage[q] # Absent
    BY <1>2, <2>1
  <2>3. lineage[q] # Absent => lineage'[q][k] = lineage[q][k]
    BY <1>2, <2>1
  <2>4. QED
    BY <2>1, <2>2, <2>3 DEF Found
<1>5. QED
  BY <1>2, <1>4, OthersKeep

LEMMA RecordedKeeps ==
  ASSUME LineageInv, NEW p \in Pids, NEW c \in Cpus, NEW n \in Nat,
         probe[c].rec.pid = p, ~probe[c].seen, Recorded(p, c, n),
         probe' = [probe EXCEPT ![c] = NoProbe]
  PROVE  LineageInv'
<1> DEFINE own == [count |-> n, original |-> probe[c].comm, current |-> probe[c].name]
<1>1. /\ own \in Lineage /\ own.count = n /\ own.original = probe[c].comm
      /\ Found(c, p) /\ p # Absent
  BY ProbesAssumption DEF LineageInv, ProbesInv, Between, Lineage
<1>2. \A k \in Cpus \ {c} : probe'[k] = probe[k] /\ Between(k)
  BY DEF LineageInv, ProbesInv
<1>3. CASE lineage[p] # Absent
  <2>1. /\ lineage' = [lineage EXCEPT ![p][c] = own]
        /\ renames' = [renames EXCEPT ![p] = @ + n] /\ first' = first
    BY <1>3 DEF Recorded
  <2>2. /\ lineage[p][c] = NoLineage
        /\ [cpu |-> c, comm |-> own.original] \in first[p]
    BY <1>1, <1>3 DEF Found
  <2>3. own.count = lineage[p][c].count + n
    BY <1>1, <2>2 DEF NoLineage
  <2> HIDE DEF own
  <2>4. QED
    BY <1>1, <1>3, <2>1, <2>2, <2>3, CopyUpdates
<1>4. CASE UNCHANGED <<lineage, renames, first>>
  <2>1. CopiesInv'
    BY <1>4 DEF LineageInv, CopiesInv, LineageHolds
  <2>2. \A k \in Cpus \ {c} : probe[k].rec.pid # Absent => Found(k, probe[k].rec.pid)'
    BY <1>2, <1>4 DEF Between, Found
  <2>3. QED
    BY <2>1, <2>2, OthersKeep
<1>5. CASE lineage[p] = Absent /\ ~UNCHANGED <<lineage, renames, first>>
  <2>1. /\ lineage' = [lineage EXCEPT
              ![p] = [k \in Cpus |-> IF k = c THEN own ELSE NoLineage]]
        /\ renames' = [renames EXCEPT ![p] = n] /\ first' = [first EXCEPT ![p] = Early(p)]
    BY <1>5 DEF Recorded
  <2> HIDE DEF own
  <2>2. CopiesInv'
    BY <1>1, <1>5, <2>1, NewRecordKeeps
  <2>3. /\ lineage'[p] = [k \in Cpus |-> IF k = c THEN own ELSE NoLineage]
        /\ first'[p] = Early(p)
        /\ \A q \in Pids \ {p} : lineage'[q] = lineage[q] /\ first'[q] = first[q]
    BY <2>1 DEF LineageInv, CopiesInv
  <2>4. lineage'[p] # Absent
    <3>1. NoLineage \in Lineage
      BY DEF Lineage, NoLineage
    <3>2. QED
      BY <1>1, <2>3, <3>1, ProbesAssumption
  <2>5. ASSUME NEW k \in Cpus \ {c}, probe[k].rec.pid # Absent
        PROVE  Found(k, probe[k].rec.pid)'
    <3> DEFINE q == probe[k].rec.pid
    <3>1. q \in Pids /\ Found(k, q) /\ probe'[k] = probe[k] /\ probe'[k].rec.pid = q
      BY <1>2, <2>5, PendingType DEF LineageInv, Between
    <3>2. CASE q = p
      <4>1. ~probe[k].seen => [cpu |-> k, comm |-> probe[k].comm] \in Early(p)
        BY <3>2 DEF Early
      <4>2. lineage'[p][k] = NoLineage
        BY <2>3
      <4>3. QED
        BY <2>3, <2>4, <3>1, <3>2, <4>1, <4>2 DEF Found
    <3>3. CASE q # p
      BY <2>3, <3>1, <3>3 DEF Found
    <3>4. QED
      BY <3>2, <3>3
  <2>6. QED
    BY <2>2, <2>5, OthersKeep
<1>6. QED
  BY <1>3, <1>4, <1>5

LEMMA FinishKeeps ==
  ASSUME LineageInv, NEW p \in Pids, NEW c \in Cpus, probe[c].rec.pid = p,
         Trace(p, c) \/ Rename(p, c), probe' = [probe EXCEPT ![c] = NoProbe]
  PROVE  LineageInv'
<1>1. /\ Found(c, p) /\ probe[c].name \in Comms
      /\ \A k \in Cpus \ {c} : probe'[k] = probe[k] /\ Between(k)
  BY ProbesAssumption DEF LineageInv, ProbesInv, Between
<1>2. CASE ~probe[c].seen
  <2>1. Recorded(p, c, 0) \/ Recorded(p, c, 1)
    BY <1>2 DEF Trace, Rename
  <2>2. QED
    BY <1>2, <2>1, RecordedKeeps
<1>3. CASE probe[c].seen /\ Trace(p, c)
  <2>1. UNCHANGED <<lineage, renames, first>>
    BY <1>3 DEF Trace
  <2>2. CopiesInv'
    BY <2>1 DEF LineageInv, CopiesInv, LineageHolds
  <2>3. \A k \in Cpus \ {c} : probe[k].rec.pid # Absent => Found(k, probe[k].rec.pid)'
    BY <1>1, <2>1 DEF Between, Found
  <2>4. QED
    BY <2>2, <2>3, OthersKeep
<1>4. CASE probe[c].seen /\ Rename(p, c)
  <2> DEFINE own == Renamed(lineage[p][c], probe[c].name)
  <2>1. /\ lineage' = [lineage EXCEPT ![p][c] = own]
        /\ renames' = [renames EXCEPT ![p] = @ + 1] /\ first' = first
    BY <1>4 DEF Rename
  <2>2. lineage[p] # Absent /\ lineage[p][c] \in Lineage
    BY <1>1, <1>4 DEF Found, LineageInv, CopiesInv
  <2>3. /\ own \in Lineage
        /\ own.original = lineage[p][c].original /\ own.count = lineage[p][c].count + 1
    BY <1>1, <2>2, RenamedType
  <2> HIDE DEF own
  <2>4. QED
    BY <2>1, <2>2, <2>3, CopyUpdates
<1>5. QED
  BY <1>2, <1>3, <1>4

LEMMA LookUpKeeps ==
  ASSUME LineageInv, NEW p \in Pids, NEW c \in Cpus, NEW r \in Record, r.pid = p,
         NEW comm \in Comms, NEW name \in Comms,
         probe' = [probe EXCEPT ![c] = [rec |-> r, comm |-> comm, name |-> name,
                                        seen |-> lineage[p] # Absent]],
         UNCHANGED <<lineage, renames, first>>
  PROVE  LineageInv'
<1>1. CopiesInv'
  BY DEF LineageInv, CopiesInv, LineageHolds
<1> DEFINE q == [rec |-> r, comm |-> comm, name |-> name, seen |-> lineage[p] # Absent]
<1>2. q \in Pending
  BY DEF Pending
<1>3. /\ probe' \in [Cpus -> Pending] /\ probe'[c] = q
      /\ \A k \in Cpus \ {c} : probe'[k] = probe[k]
  BY <1>2 DEF LineageInv, ProbesInv
<1>4. Between(c)'
  BY <1>3 DEF Between, Found
<1>5. ASSUME NEW k \in Cpus \ {c} PROVE Between(k)'
  BY <1>3 DEF LineageInv, ProbesInv, Between, Found
<1>6. QED
  BY <1>1, <1>3, <1>4, <1>5 DEF LineageInv, ProbesInv

-----------------------------------------------------------------------------
(* The records and the call-site map.                                        *)

RecordInv ==
  /\ secs \in Layouts /\ base \in Bases
  /\ csm \in {Loaded(Build(secs)), Loaded(LegacyFile(Build(secs)))}
  /\ sent \in 0 .. MaxRecords
  /\ last \in Record

Inv == HistInv /\ LineageInv /\ RecordInv

LEMMA AddressType ==
  ASSUME RecordInv
  PROVE  Addresses \subseteq Nat
<1>1. base \in Nat /\ Strays \subseteq Nat
  BY ProbesAssumption DEF RecordInv
<1>2. \A c \in Calls : c.ret \in Nat
  BY CallSitesAssumption
<1>3. \A c \in Calls : base + c.ret \in Nat
  BY <1>1, <1>2
<1>4. QED
  BY <1>1, <1>3 DEF Addresses

LEMMA SubmitKeeps ==
  ASSUME HistInv, NEW r \in Record, r.pid \in Pids, NEW c \in Cpus, Submit(r, c)
  PROVE  HistInv' /\ last' \in Record
<1>1. r.sc \in Types
  BY DEF Record
<1>2. QED
  BY <1>1, CountKeeps DEF Submit

LEMMA PlainKeeps ==
  ASSUME Inv, NEW p \in Pids, NEW c \in Cpus, NEW t \in Types, NEW site \in Nat,
         NEW ips \in SUBSET Nat, Plain(p, c, t, site, ips)
  PROVE  Inv'
<1>1. PICK ip \in ips : Submit([sc |-> t, pid |-> p, ip |-> ip, site |-> site], c)
  BY DEF Plain
<1>2. [sc |-> t, pid |-> p, ip |-> ip, site |-> site] \in Record
  BY DEF Record
<1>3. HistInv' /\ last' \in Record
  BY <1>1, <1>2, SubmitKeeps DEF Inv
<1>4. RecordInv'
  BY <1>1, <1>3, ProbesAssumption DEF Inv, RecordInv, Plain, Reserve, Submit, binary
<1>5. LineageInv'
  BY DEF Plain, Inv, LineageInv, CopiesInv, LineageHolds, ProbesInv, Between, Found
<1>6. QED
  BY <1>3, <1>4, <1>5 DEF Inv

LEMMA LookUpStep ==
  ASSUME Inv, NEW p \in Pids, NEW c \in Cpus, NEW t \in Types, NEW site \in Nat,
         NEW comm \in Comms, NEW name \in Comms, LookUp(p, c, t, site, comm, name)
  PROVE  Inv'
<1>1. Leftover \in SUBSET Nat
  BY AddressType DEF Leftover, Inv
<1>2. PICK ip \in Leftover :
        probe' = [probe EXCEPT ![c] =
          [rec |-> [sc |-> t, pid |-> p, ip |-> ip, site |-> site],
           comm |-> comm, name |-> name, seen |-> lineage[p] # Absent]]
  BY DEF LookUp
<1> DEFINE r == [sc |-> t, pid |-> p, ip |-> ip, site |-> site]
<1>3. r \in Record /\ r.pid = p
  BY <1>1 DEF Record
<1>4. LineageInv'
  <2>1. LineageInv /\ UNCHANGED <<lineage, renames, first>>
    BY DEF Inv, LookUp
  <2>2. probe' = [probe EXCEPT ![c] = [rec |-> r, comm |-> comm, name |-> name,
                                       seen |-> lineage[p] # Absent]]
    BY <1>2
  <2> HIDE DEF r
  <2>3. QED
    BY <1>3, <2>1, <2>2, LookUpKeeps
<1>5. HistInv' /\ RecordInv'
  BY ProbesAssumption DEF Inv, HistInv, RecordInv, LookUp, Reserve, binary
<1>6. QED
  BY <1>4, <1>5 DEF Inv

LEMMA FinishStep ==
  ASSUME Inv, NEW p \in Pids, NEW c \in Cpus, FinishExecve(p, c) \/ FinishPrctl(p, c)
  PROVE  Inv'
<1>1. /\ probe[c].rec.pid = p
      /\ Trace(p, c) \/ Rename(p, c)
      /\ Submit(probe[c].rec, c) /\ sent' = sent
      /\ probe' = [probe EXCEPT ![c] = NoProbe]
  BY DEF FinishExecve, FinishPrctl, Finish
<1>2. probe[c].rec \in Record
  BY PendingType DEF Inv, LineageInv
<1>3. HistInv' /\ last' \in Record
  BY <1>1, <1>2, SubmitKeeps DEF Inv
<1>4. RecordInv'
  BY <1>1, <1>3 DEF Inv, RecordInv, Submit, binary
<1>5. LineageInv'
  BY <1>1, FinishKeeps DEF Inv
<1>6. QED
  BY <1>3, <1>4, <1>5 DEF Inv

LEMMA InvInit == Init => Inv
<1> SUFFICES ASSUME Init PROVE Inv
  OBVIOUS
<1>1. HistInv
  BY DEF Init, HistInv
<1>2. LineageInv
  BY NoProbeType DEF Init, LineageInv, CopiesInv, LineageHolds, ProbesInv, Between
<1>3. RecordInv
  BY ProbesAssumption DEF Init, RecordInv, NoRecord, Record, Types
<1>4. QED
  BY <1>1, <1>2, <1>3 DEF Inv

LEMMA InvNext == Inv /\ [Next]_vars => Inv'
<1> SUFFICES ASSUME Inv, [Next]_vars PROVE Inv'
  OBVIOUS
<1>1. CASE UNCHANGED vars
  BY <1>1 DEF vars, Inv, HistInv, LineageInv, CopiesInv, LineageHolds, ProbesInv, Between,
              Found, RecordInv
<1>2. ASSUME NEW p \in Pids, NEW c \in Cpus, FinishExecve(p, c) \/ FinishPrctl(p, c)
      PROVE  Inv'
  BY <1>2, FinishStep
<1>3. ASSUME NEW p \in Pids, NEW c \in Cpus, NEW site \in Addresses,
             \/ \E comm \in Comms : TraceExecve(p, c, site, comm)
             \/ \E comm, name \in Comms : TracePrctl(p, c, site, comm, name)
             \/ LsmBprmCheck(p, c, site)
             \/ \E mode \in 0 .. 2 : TraceOpenat(p, c, site, mode) \/ LsmFileOpen(p, c, site, mode)
             \/ TraceConnect(p, c, site) \/ LsmSocketConnect(p, c, site)
             \/ \E fd \in {-1, 0, 1024, 1025} : TraceWrite(p, c, site, fd)
             \/ TraceSetuid(p, c, site) \/ TracePtrace(p, c, site)
      PROVE  Inv'
  <2>1. site \in Nat /\ Leftover \in SUBSET Nat /\ Captured(site) \in SUBSET Nat
    BY AddressType DEF Leftover, Captured, Inv
  <2>2. /\ {"EXEC", "NET_CON", "FILE_W", "SETUID", "PTRACE", "PRCTL"} \subseteq Types
        /\ \A mode : OpenType(mode) \in Types
    BY DEF Types, OpenType
  <2>3. ASSUME NEW t \in Types, NEW ips \in SUBSET Nat, Plain(p, c, t, site, ips)
        PROVE  Inv'
    BY <2>1, <2>3, PlainKeeps
  <2>4. ASSUME NEW comm \in Comms, TraceExecve(p, c, site, comm) PROVE Inv'
    BY <2>1, <2>2, <2>4, LookUpStep DEF TraceExecve
  <2>5. ASSUME NEW comm \in Comms, NEW name \in Comms, TracePrctl(p, c, site, comm, name)
        PROVE  Inv'
    BY <2>1, <2>2, <2>5, LookUpStep DEF TracePrctl
  <2>6. CASE LsmBprmCheck(p, c, site)
    BY <2>1, <2>2, <2>3, <2>6 DEF LsmBprmCheck
  <2>7. ASSUME NEW mode, TraceOpenat(p, c, site, mode) \/ LsmFileOpen(p, c, site, mode)
        PROVE  Inv'
    BY <2>1, <2>2, <2>3, <2>7 DEF TraceOpenat, LsmFileOpen
  <2>8. CASE TraceConnect(p, c, site) \/ LsmSocketConnect(p, c, site)
    BY <2>1, <2>2, <2>3, <2>8 DEF TraceConnect, LsmSocketConnect
  <2>9. ASSUME NEW fd, TraceWrite(p, c, site, fd) PROVE Inv'
    BY <2>1, <2>2, <2>3, <2>9 DEF TraceWrite
  <2>10. CASE TraceSetuid(p, c, site) \/ TracePtrace(p, c, site)
    BY <2>1, <2>2, <2>3, <2>10 DEF TraceSetuid, TracePtrace
  <2>11. QED
    BY <1>3, <2>4, <2>5, <2>6, <2>7, <2>8, <2>9, <2>10
<1>4. QED
  BY <1>1, <1>2, <1>3 DEF Next

LEMMA Invariance == Spec => []Inv
  BY InvInit, InvNext, PTL DEF Spec

-----------------------------------------------------------------------------
(* Theorems.                                                                 *)

\* The kernel's tables keep their types; no count ever drops below zero.
THEOREM TypeCorrect == Spec => []TypeOK
<1>1. Inv => TypeOK
  BY DEF Inv, HistInv, LineageInv, CopiesInv, ProbesInv, RecordInv, TypeOK, Layouts, Sections
<1>2. QED
  BY <1>1, Invariance, PTL

\* The kernel's histogram is the user-space tracker's, on every CPU, through
\* wrap-around, eviction and return.
THEOREM MirrorsUserSpace == Spec => []MirrorsTracker
<1>1. Inv => MirrorsTracker
  BY DEF Inv, HistInv, MirrorsTracker, Entries, Mirrors, Occurs, Places
<1>2. QED
  BY <1>1, Invariance, PTL

\* The copies of a lineage record, on however many CPUs and however the probes
\* of a process overlap, count each rename once, and every original name in them
\* is of a probe that had looked the record up before it was made.
THEOREM LineageSurvivesRaces == Spec => []LineageMerged
<1>1. Inv => LineageMerged
  BY MergedCount DEF Inv, LineageInv, CopiesInv, LineageHolds, Merges, LineageMerged, Entries
<1>2. QED
  BY <1>1, Invariance, PTL

\* A sensitive call of the binary is one of the call sites: some symbol whose
\* stub is near its target gets it, if only its own.
LEMMA CallIsSite ==
  ASSUME NEW x \in SUBSET Sections, "plt" \in x, NEW c \in Calls,
         Relocs[c.sym] \in Sensitive
  PROVE  c.ret \in SiteAddrs(x)
<1>1. Relocs \in Seq(STRING) /\ c.sym \in DOMAIN Relocs /\ SectionAt \in [Sections -> Nat]
  BY CallSitesAssumption
<1>2. c.sym \in DOMAIN Stubs(x) /\ Stubs(x)[c.sym] = {Stub(c.sym, sec) : sec \in x}
  BY <1>1 DEF Stubs
<1>3. Target(c, x) \in Stubs(x)[c.sym]
  BY <1>2 DEF Target
<1>4. Near(Target(c, x), Target(c, x))
  <2>1. c.sym \in Int /\ SectionAt["plt"] \in Int /\ ("sec" \in x => SectionAt["sec"] \in Int)
    BY <1>1 DEF Sections
  <2>2. Target(c, x) \in Int
    BY <2>1 DEF Target, Stub
  <2>3. QED
    BY <2>2 DEF Near
<1>5. c.sym \in Matching(c, x)
  BY <1>2, <1>3, <1>4 DEF Matching
<1>6. Matching(c, x) \in SUBSET Nat
  BY <1>1 DEF Matching, Stubs
<1>7. PICK i \in Matching(c, x) : \A j \in Matching(c, x) : i <= j
  BY <1>5, <1>6, NatMinimum
<1>8. c.ret \in CallSitesOf(i, x) /\ i \in DOMAIN Stubs(x)
  BY <1>7 DEF CallSitesOf, Matching
<1>9. QED
  BY <1>8 DEF SiteAddrs

\* Which of the mapped binary's own sensitive calls raise an alarm: none at the
\* linked address (a Bloom filter has no false negatives), all without a .plt,
\* and elsewhere those whose address is not in the filter by chance.
THEOREM SelfAlarms == Spec => []OwnCallAlarms
<1>1. Inv => OwnCallAlarms
  <2> SUFFICES ASSUME Inv, NEW c \in Calls, Relocs[c.sym] \in Sensitive,
                      last.ip = base + c.ret
               PROVE  Alarm(last) <=>
                        \/ "plt" \notin secs
                        \/ base # 0 /\ ~(Hashed(base + c.ret) \subseteq Bloom(SiteAddrs(secs)))
    BY DEF OwnCallAlarms
  <2>1. csm.bloom = Bloom(SiteAddrs(secs))
    BY DEF Inv, RecordInv, Loaded, Build, LegacyFile
  <2>2. c.ret \in Nat \ {0} /\ base \in Nat /\ base \in Bases /\ secs \in SUBSET Sections
    BY CallSitesAssumption, ProbesAssumption DEF Inv, RecordInv, Layouts, Sections
  <2> DEFINE ip == base + c.ret
  <2>3. ip # 0 /\ ip - 0 = ip
    BY <2>2
  <2>4. Alarm(last) <=> ~(Hashed(ip) \subseteq Bloom(SiteAddrs(secs)))
    BY <2>1, <2>3 DEF Alarm, Valid
  <2>5. CASE "plt" \notin secs
    <3>1. SiteAddrs(secs) = {}
      BY <2>5 DEF SiteAddrs, Stubs
    <3>2. Bloom(SiteAddrs(secs)) = {}
      BY <3>1 DEF Bloom
    <3>3. Hashed(ip) # {}
      BY <2>2, ProbesAssumption
    <3>4. QED
      BY <2>4, <2>5, <3>2, <3>3
  <2>6. CASE "plt" \in secs /\ base = 0
    <3>1. c.ret \in SiteAddrs(secs) /\ ip = c.ret
      BY <2>2, <2>6, CallIsSite
    <3>2. Hashed(ip) \subseteq Bloom(SiteAddrs(secs))
      BY <3>1 DEF Bloom
    <3>3. QED
      BY <2>4, <2>6, <3>2
  <2>7. CASE "plt" \in secs /\ base # 0
    BY <2>4, <2>7
  <2>8. QED
    BY <2>5, <2>6, <2>7
<1>2. QED
  BY <1>1, Invariance, PTL
=============================================================================
