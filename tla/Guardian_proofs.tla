--------------------------- MODULE Guardian_proofs ---------------------------
(***************************************************************************)
(* Theorems of Guardian: types, the exact contents of the watch table, and *)
(* from it that tier 1 raises exactly the violations of the reference      *)
(* definition; what tier 2 reports of a whole stream, and that the slices  *)
(* the auditor hands it are long enough.                                   *)
(*                                                                         *)
(* Tier 2 is a recursive function of the length of its input.  That it     *)
(* exists and satisfies its equation, and what its value is, are           *)
(* inductions over that length.  They are carried out on a smallest length *)
(* for which the statement fails (NatMinimum).                             *)
(***************************************************************************)
EXTENDS Guardian, SequenceTheorems, WellFoundedInduction, TLAPS

Inv == TypeOK /\ WatchesExact /\ FeedExact

\* What an event leaves of the watch table and of the stream.
LEMMA FeedStream ==
  ASSUME TypeOK, NEW e \in Event, Feed(e)
  PROVE  /\ count \in Nat /\ count' = count + 1
         /\ stream' \in Seq(Event) /\ Len(stream') = count'
         /\ stream'[count'] = e
         /\ \A k \in 1..count : stream'[k] = stream[k]
         /\ e.pid \in Pids /\ e.kind \in Kinds
  BY DEF TypeOK, Feed, Event

LEMMA KeepTypes ==
  ASSUME TypeOK, NEW e \in Event
  PROVE  /\ Alive(e, count + 1) \subseteq watches[e.pid]
         /\ Fired(e, count + 1) \subseteq Watch
         /\ Immediate(e, count + 1) \subseteq Armed(e, count + 1)
         /\ Armed(e, count + 1) \subseteq Watch
         /\ Keep(e, count + 1) \subseteq Watch
         /\ \A w \in Armed(e, count + 1) : w.armed = count + 1
         /\ \A w \in Fired(e, count + 1) : w.armed \in 1..count
         /\ \A w \in Keep(e, count + 1) : w.armed \in 1..(count + 1)
<1>1. count \in Nat /\ e.pid \in Pids
  BY GuardianAssumption DEF TypeOK, Event
<1>2. Alive(e, count + 1) \subseteq watches[e.pid]
  BY DEF Alive
<1>3. watches[e.pid] \subseteq Watch /\ \A w \in watches[e.pid] : w.armed \in 1..count
  BY <1>1 DEF TypeOK
<1>4. Fired(e, count + 1) \subseteq Alive(e, count + 1)
  BY DEF Fired
<1>5. Immediate(e, count + 1) \subseteq Armed(e, count + 1)
  BY DEF Immediate
<1>6. \A w \in Armed(e, count + 1) : w \in Watch /\ w.armed = count + 1
  BY <1>1 DEF Armed, Watch
<1>7. Keep(e, count + 1) \subseteq Alive(e, count + 1) \cup Armed(e, count + 1)
  BY DEF Keep
<1> QED
  BY <1>1, <1>2, <1>3, <1>4, <1>5, <1>6, <1>7

LEMMA FeedTypes ==
  ASSUME TypeOK, NEW e \in Event, Feed(e)
  PROVE  TypeOK'
<1> DEFINE n == count + 1
           new == {[axiom |-> w.axiom, armed |-> w.armed, at |-> n] :
                     w \in Fired(e, n) \cup Immediate(e, n)}
<1>1. count \in Nat /\ count' = n /\ count' \in 0..MaxEvents
  BY GuardianAssumption DEF TypeOK, Feed
<1>2. stream' \in Seq(Event) /\ Len(stream') = count'
  BY FeedStream
<1>3. \A p \in Pids : /\ watches'[p] \subseteq Watch
                      /\ \A w \in watches'[p] : w.armed \in 1..count'
  BY <1>1, KeepTypes DEF TypeOK, Feed
<1>4. watches' \in [Pids -> SUBSET Watch]
  BY <1>3 DEF TypeOK, Feed
<1>5. \A v \in new : v \in Violation /\ v.armed \in 1..v.at /\ v.at \in 1..count'
  <2>1. \A w \in Fired(e, n) \cup Immediate(e, n) : w \in Watch /\ w.armed \in 1..n
    BY <1>1, KeepTypes
  <2> QED
    BY <1>1, <2>1 DEF Watch, Violation
<1>6. raised' = raised \cup new
  BY DEF Feed
<1>7. \A v \in raised : v \in Violation /\ v.armed \in 1..v.at /\ v.at \in 1..count'
  BY <1>1 DEF TypeOK
<1> QED
  BY <1>1, <1>2, <1>3, <1>4, <1>5, <1>6, <1>7 DEF TypeOK

-----------------------------------------------------------------------------
\* What lies before the new event is read as before it.
LEMMA FeedPast ==
  ASSUME TypeOK, NEW e \in Event, Feed(e), NEW ax \in SimpleAxioms,
         NEW i \in 1..count, NEW n \in Nat, n = count + 1
  PROVE  /\ Triggers(ax, i)' <=> Triggers(ax, i)
         /\ \A k \in i..count : Hits(ax, i, k)' <=> Hits(ax, i, k)
         /\ Hits(ax, i, n)' <=>
              stream[i].pid = e.pid /\ e.kind \in ax.forbidden
  BY FeedStream DEF Triggers, Hits

LEMMA FeedPresent ==
  ASSUME TypeOK, NEW e \in Event, Feed(e), NEW ax \in SimpleAxioms,
         NEW n \in Nat, n = count + 1
  PROVE  /\ Triggers(ax, n)' <=> e.kind \in ax.trigger
         /\ Hits(ax, n, n)' <=> ax.self /\ e.kind \in ax.forbidden
  BY FeedStream, GuardianAssumption DEF Triggers, Hits

\* Which watches of an event's process are read, kept and entered.
LEMMA KeepExact ==
  ASSUME TypeOK, NEW e \in Event, NEW ax \in SimpleAxioms, NEW i \in 1..(count + 1)
  PROVE  LET w == [axiom |-> ax, armed |-> i] IN
         /\ i # count + 1 =>
              /\ w \in Fired(e, count + 1) <=>
                   w \in watches[e.pid] /\ InWindow(ax, i, count + 1) /\ e.kind \in ax.forbidden
              /\ w \notin Immediate(e, count + 1)
              /\ w \in Keep(e, count + 1) <=>
                   w \in watches[e.pid] /\ InWindow(ax, i, count + 1) /\ e.kind \notin ax.forbidden
         /\ i = count + 1 =>
              /\ w \notin Fired(e, count + 1)
              /\ w \in Immediate(e, count + 1) <=>
                   e.kind \in ax.trigger /\ ax.self /\ e.kind \in ax.forbidden
              /\ w \in Keep(e, count + 1) <=>
                   e.kind \in ax.trigger /\ ~(ax.self /\ e.kind \in ax.forbidden)
<1> DEFINE w == [axiom |-> ax, armed |-> i]
<1>1. count \in Nat /\ w.axiom = ax /\ w.armed = i
  BY GuardianAssumption DEF TypeOK
<1>2. w \in Alive(e, count + 1) <=> w \in watches[e.pid] /\ InWindow(ax, i, count + 1)
  BY <1>1 DEF Alive, InWindow
<1>3. w \in Armed(e, count + 1) <=> i = count + 1 /\ e.kind \in ax.trigger
  BY <1>1 DEF Armed
<1>4. w \in Fired(e, count + 1) <=> w \in Alive(e, count + 1) /\ e.kind \in ax.forbidden
  BY <1>1 DEF Fired
<1>5. w \in Immediate(e, count + 1) <=>
        w \in Armed(e, count + 1) /\ ax.self /\ e.kind \in ax.forbidden
  BY <1>1 DEF Immediate
<1>6. i = count + 1 => w \notin watches[e.pid]
  BY <1>1 DEF TypeOK, Event
<1> QED
  BY <1>2, <1>3, <1>4, <1>5, <1>6 DEF Keep

LEMMA FeedWatches ==
  ASSUME TypeOK, WatchesExact, NEW e \in Event, Feed(e)
  PROVE  WatchesExact'
<1> SUFFICES ASSUME NEW p \in Pids, NEW ax \in SimpleAxioms, NEW i \in 1..count'
             PROVE  [axiom |-> ax, armed |-> i] \in watches'[p] <=> Pending(p, ax, i)'
  BY DEF WatchesExact
<1> DEFINE w == [axiom |-> ax, armed |-> i]
<1>1. /\ count \in Nat /\ count' = count + 1 /\ stream'[count + 1] = e
      /\ \A k \in 1..count : stream'[k] = stream[k]
      /\ e.pid \in Pids
  BY FeedStream
<1>2. /\ p # e.pid => watches'[p] = watches[p]
      /\ p = e.pid => watches'[p] = Keep(e, count + 1)
  BY DEF Feed, TypeOK
<1>3. ax.window \in Nat
  BY GuardianAssumption
<1>4. CASE i \in 1..count
  <2>1. w \in watches[p] <=> Pending(p, ax, i)
    BY <1>4 DEF WatchesExact
  <2>2. Pending(p, ax, i)' <=>
          /\ Pending(p, ax, i)
          /\ p = e.pid => e.kind \notin ax.forbidden /\ InWindow(ax, i, count + 1)
    <3> PICK n \in Nat : n = count + 1
      BY <1>1
    <3>1. i..count' = (i..count) \cup {n}
      BY <1>1, <1>4
    <3>2. (\A k \in i..count : ~Hits(ax, i, k)') <=> (\A k \in i..count : ~Hits(ax, i, k))
      BY <1>4, FeedPast
    <3>3. (\A k \in i..count : stream'[k].pid = p => InWindow(ax, i, k)) <=>
          (\A k \in i..count : stream[k].pid = p => InWindow(ax, i, k))
      BY <1>1, <1>4
    <3>4. stream'[i].pid = stream[i].pid /\ stream'[count + 1].pid = e.pid
      BY <1>1, <1>4
    <3>5. /\ Triggers(ax, i)' <=> Triggers(ax, i)
          /\ Hits(ax, i, n)' <=> stream[i].pid = e.pid /\ e.kind \in ax.forbidden
      BY <1>4, FeedPast
    <3>6. Pending(p, ax, i)' <=>
            /\ stream'[i].pid = p /\ Triggers(ax, i)'
            /\ \A k \in i..count' : ~Hits(ax, i, k)'
            /\ \A k \in i..count' : stream'[k].pid = p => InWindow(ax, i, k)
      BY DEF Pending, InWindow
    <3>7. (\A k \in i..count' : ~Hits(ax, i, k)') <=>
            (\A k \in i..count : ~Hits(ax, i, k)) /\ ~Hits(ax, i, n)'
      BY <3>1, <3>2
    <3>8. (\A k \in i..count' : stream'[k].pid = p => InWindow(ax, i, k)) <=>
            /\ \A k \in i..count : stream[k].pid = p => InWindow(ax, i, k)
            /\ e.pid = p => InWindow(ax, i, count + 1)
      BY <3>1, <3>3, <3>4
    <3> QED
      BY <3>4, <3>5, <3>6, <3>7, <3>8 DEF Pending
  <2>3. p = e.pid => (w \in watches'[p] <=> w \in watches[p] /\ InWindow(ax, i, count + 1)
                                             /\ e.kind \notin ax.forbidden)
    BY <1>1, <1>2, <1>4, KeepExact
  <2> QED
    BY <1>2, <2>1, <2>2, <2>3
<1>5. CASE i = count + 1
  <2>1. i..count' = {count + 1} /\ InWindow(ax, i, count + 1)
    BY <1>1, <1>3, <1>5 DEF InWindow
  <2>2. Pending(p, ax, i)' <=>
          /\ e.pid = p /\ e.kind \in ax.trigger
          /\ ~(ax.self /\ e.kind \in ax.forbidden)
    <3>1. Pending(p, ax, i)' <=>
            /\ stream'[i].pid = p /\ Triggers(ax, i)'
            /\ \A k \in i..count' : ~Hits(ax, i, k)'
            /\ \A k \in i..count' : stream'[k].pid = p => InWindow(ax, i, k)
      BY DEF Pending, InWindow
    <3> QED
      BY <1>1, <1>5, <2>1, <3>1, FeedPresent
  <2>3. p # e.pid => w \notin watches'[p]
    BY <1>1, <1>2, <1>5 DEF TypeOK
  <2>4. p = e.pid => (w \in watches'[p] <=> /\ e.kind \in ax.trigger
                                             /\ ~(ax.self /\ e.kind \in ax.forbidden))
    BY <1>1, <1>2, <1>5, KeepExact
  <2> QED
    BY <2>2, <2>3, <2>4
<1> QED
  BY <1>1, <1>4, <1>5

LEMMA FeedRaised ==
  ASSUME TypeOK, WatchesExact, FeedExact, NEW e \in Event, Feed(e)
  PROVE  FeedExact'
<1> SUFFICES ASSUME NEW ax \in SimpleAxioms, NEW j \in 1..count', NEW i \in 1..j
             PROVE  [axiom |-> ax, armed |-> i, at |-> j] \in raised'
                      <=> Violates(ax, i, j)'
  BY DEF FeedExact
<1> DEFINE w == [axiom |-> ax, armed |-> i]
           v == [axiom |-> ax, armed |-> i, at |-> j]
           now == Fired(e, count + 1) \cup Immediate(e, count + 1)
           new == {[axiom |-> x.axiom, armed |-> x.armed, at |-> count + 1] : x \in now}
<1>1. /\ count \in Nat /\ count' = count + 1 /\ stream'[count + 1] = e
      /\ \A k \in 1..count : stream'[k] = stream[k]
      /\ e.pid \in Pids
  BY FeedStream
<1>2. raised' = raised \cup new
  BY DEF Feed
<1>3. ax.window \in Nat
  BY GuardianAssumption
<1>4. v \in new <=> j = count + 1 /\ w \in now
  <2>1. now \subseteq Watch
    BY KeepTypes
  <2>2. \A x \in now : x = [axiom |-> x.axiom, armed |-> x.armed]
    BY <2>1 DEF Watch
  <2>3. v \in new => j = count + 1 /\ w \in now
    <3> SUFFICES ASSUME NEW x \in now, v = [axiom |-> x.axiom, armed |-> x.armed, at |-> count + 1]
                 PROVE  j = count + 1 /\ w \in now
      OBVIOUS
    <3>1. v.axiom = x.axiom /\ v.armed = x.armed /\ v.at = count + 1
      OBVIOUS
    <3>2. w = x
      BY <3>1, <2>2
    <3> QED
      BY <3>1, <3>2
  <2>4. j = count + 1 /\ w \in now => v \in new
    <3> SUFFICES ASSUME j = count + 1, w \in now PROVE v \in new
      OBVIOUS
    <3>1. v = [axiom |-> w.axiom, armed |-> w.armed, at |-> count + 1]
      OBVIOUS
    <3> QED
      BY <3>1
  <2> QED
    BY <2>3, <2>4
<1>5. Violates(ax, i, j)' <=>
        /\ Triggers(ax, i)' /\ Hits(ax, i, j)' /\ InWindow(ax, i, j)
        /\ \A k \in i..(j - 1) : ~Hits(ax, i, k)'
  BY DEF Violates, InWindow
<1>6. CASE j \in 1..count
  <2>1. v \in raised <=> Violates(ax, i, j)
    BY <1>6 DEF FeedExact
  <2>2. i \in 1..count /\ \A k \in i..j : k \in i..count
    BY <1>1, <1>6
  <2>3. /\ Triggers(ax, i)' <=> Triggers(ax, i)
        /\ \A k \in i..j : Hits(ax, i, k)' <=> Hits(ax, i, k)
    BY <1>1, <2>2, FeedPast
  <2>4. j \in i..j /\ \A k \in i..(j - 1) : k \in i..j
    BY <1>1
  <2>5. Violates(ax, i, j)' <=> Violates(ax, i, j)
    BY <1>5, <2>3, <2>4 DEF Violates
  <2> QED
    BY <1>1, <1>2, <1>4, <1>6, <2>1, <2>5
<1>7. CASE j = count + 1
  <2>1. v \notin raised
    BY <1>1, <1>7 DEF TypeOK
  <2>2. CASE i \in 1..count
    <3>1. w \in now <=> /\ w \in watches[e.pid] /\ InWindow(ax, i, count + 1)
                         /\ e.kind \in ax.forbidden
      BY <1>1, <2>2, KeepExact
    <3>2. w \in watches[e.pid] <=> Pending(e.pid, ax, i)
      BY <1>1, <2>2 DEF WatchesExact
    <3>3. /\ Triggers(ax, i)' <=> Triggers(ax, i)
          /\ \A k \in i..count : Hits(ax, i, k)' <=> Hits(ax, i, k)
          /\ Hits(ax, i, j)' <=> stream[i].pid = e.pid /\ e.kind \in ax.forbidden
      BY <1>1, <1>7, <2>2, FeedPast
    <3>4. InWindow(ax, i, count + 1) => \A k \in i..count : InWindow(ax, i, k)
      BY <1>1, <1>3, <2>2 DEF InWindow
    <3>5. i..(j - 1) = i..count
      BY <1>1, <1>7
    <3>6. Violates(ax, i, j)' <=>
            /\ Pending(e.pid, ax, i) /\ InWindow(ax, i, count + 1)
            /\ e.kind \in ax.forbidden
      BY <1>5, <1>7, <3>3, <3>4, <3>5 DEF Pending
    <3> QED
      BY <1>2, <1>4, <1>7, <2>1, <3>1, <3>2, <3>6
  <2>3. CASE i = count + 1
    <3>1. w \in now <=> e.kind \in ax.trigger /\ ax.self /\ e.kind \in ax.forbidden
      BY <1>1, <2>3, KeepExact
    <3>2. i..(j - 1) = {} /\ InWindow(ax, i, j)
      BY <1>1, <1>3, <1>7, <2>3 DEF InWindow
    <3>3. Violates(ax, i, j)' <=> e.kind \in ax.trigger /\ ax.self /\ e.kind \in ax.forbidden
      BY <1>5, <1>7, <2>3, <3>2, FeedPresent
    <3> QED
      BY <1>2, <1>4, <1>7, <2>1, <3>1, <3>3
  <2> QED
    BY <1>1, <1>7, <2>2, <2>3
<1> QED
  BY <1>1, <1>6, <1>7

-----------------------------------------------------------------------------
LEMMA InitInv == Init => Inv
<1> SUFFICES ASSUME Init PROVE Inv
  OBVIOUS
<1>1. TypeOK
  BY GuardianAssumption DEF Init, TypeOK
<1>2. 1..count = {}
  BY DEF Init
<1> QED
  BY <1>1, <1>2 DEF Inv, WatchesExact, FeedExact

LEMMA StepInv == Inv /\ [Next]_vars => Inv'
<1> SUFFICES ASSUME Inv, [Next]_vars PROVE Inv'
  OBVIOUS
<1>1. TypeOK /\ WatchesExact /\ FeedExact
  BY DEF Inv
<1>2. CASE Reset
  <2>1. TypeOK'
    BY <1>2, GuardianAssumption DEF Reset, TypeOK
  <2>2. 1..count' = {}
    BY <1>2 DEF Reset
  <2> QED
    BY <2>1, <2>2 DEF Inv, WatchesExact, FeedExact
<1>3. ASSUME NEW e \in Event, Feed(e) PROVE Inv'
  BY <1>1, <1>3, FeedTypes, FeedWatches, FeedRaised DEF Inv
<1>4. CASE UNCHANGED vars
  <2>1. TypeOK'
    BY <1>1, <1>4 DEF vars, TypeOK
  <2>2. WatchesExact'
    <3>1. count' = count /\ stream' = stream /\ watches' = watches
      BY <1>4 DEF vars
    <3>2. \A p, ax, i : Pending(p, ax, i)' <=> Pending(p, ax, i)
      BY <3>1 DEF Pending, Triggers, Hits, InWindow
    <3> QED
      BY <1>1, <3>1, <3>2 DEF WatchesExact
  <2>3. FeedExact'
    <3>1. count' = count /\ stream' = stream /\ raised' = raised
      BY <1>4 DEF vars
    <3>2. \A ax, i, j : Violates(ax, i, j)' <=> Violates(ax, i, j)
      BY <3>1 DEF Violates, Triggers, Hits, InWindow
    <3> QED
      BY <1>1, <3>1, <3>2 DEF FeedExact
  <2> QED
    BY <2>1, <2>2, <2>3 DEF Inv
<1> QED
  BY <1>2, <1>3, <1>4 DEF Next

\* Types, and that watches and violations point to past events.
THEOREM TypeCorrect == Spec => []TypeOK
<1>1. Inv => TypeOK
  BY DEF Inv
<1> QED
  BY <1>1, InitInv, StepInv, PTL DEF Spec

\* The watch table of RuntimeMonitor.feed is at every moment the set of the
\* triggers that can still be violated, whatever axioms it is given and
\* however the events of the processes interleave.
THEOREM WatchTable == Spec => []WatchesExact
<1>1. Inv => WatchesExact
  BY DEF Inv
<1> QED
  BY <1>1, InitInv, StepInv, PTL DEF Spec

\* RuntimeMonitor.feed raises a violation exactly when the reference
\* definition of the axiom is violated: none missed, repeated or late.
THEOREM Monitoring == Spec => []FeedExact
<1>1. Inv => FeedExact
  BY DEF Inv
<1> QED
  BY <1>1, InitInv, StepInv, PTL DEF Spec

-----------------------------------------------------------------------------
(* Tier 2.  The replay is a recursive function over the positions of its     *)
(* window.  That it satisfies its equation, and what its values are, follow  *)
(* by taking the first position where they would not.                        *)

LEMMA NatMinimum ==
  ASSUME NEW T \in SUBSET Nat, T # {}
  PROVE  \E n \in T : \A m \in T : n <= m
<1>1. PICK n \in T : \A m \in T : ~(<<m, n>> \in OpToRel(<, Nat))
  BY NatLessThanWellFounded, WFMin
<1>2. ASSUME NEW m \in T PROVE n <= m
  <2>1. m \in Nat /\ n \in Nat /\ ~(m < n)
    BY <1>1 DEF OpToRel
  <2>2. QED
    BY <2>1
<1>3. QED
  BY <1>2

Opened(ax, q, i) ==
  IF q[i].kind \in ax.trigger THEN {[pid |-> q[i].pid, at |-> i, seen |-> FALSE]} ELSE {}

ReplayStep(ax, q, f, i) == Observe(ax, f[i - 1], q[i]) \cup Opened(ax, q, i)

ReplayEquation(ax, q, f, n) ==
  f = [i \in 0 .. n |-> IF i = 0 THEN {} ELSE ReplayStep(ax, q, f, i)]

LEMMA ReplayExists ==
  ASSUME NEW ax, NEW q, NEW n \in Nat
  PROVE  \E f : ReplayEquation(ax, q, f, n)
<1> DEFINE Fails == {k \in Nat : ~ \E f : ReplayEquation(ax, q, f, k)}
<1>1. ASSUME NEW k \in Fails, \A m \in Fails : k <= m
      PROVE  FALSE
  <2>1. CASE k = 0
    <3>1. ReplayEquation(ax, q, [i \in 0 .. 0 |-> {}], 0)
      BY DEF ReplayEquation
    <3>2. QED
      BY <2>1, <3>1
  <2>2. CASE k # 0
    <3>1. k - 1 \in Nat /\ k - 1 \notin Fails
      BY <1>1, <2>2
    <3>2. PICK f : ReplayEquation(ax, q, f, k - 1)
      BY <3>1
    <3> DEFINE F(g, i) == IF i = 0 THEN {} ELSE ReplayStep(ax, q, g, i)
               h == [i \in 0 .. k |-> F(f, i)]
    <3>3. \A i \in 0 .. k - 1 : f[i] = F(f, i)
      BY <3>2 DEF ReplayEquation
    <3>4. \A i \in 0 .. k - 1 : h[i] = f[i]
      BY <3>1, <3>3
    <3>5. \A i \in 0 .. k : F(h, i) = F(f, i)
      <4>1. \A i \in 0 .. k : i # 0 => i - 1 \in 0 .. k - 1
        BY <3>1
      <4>2. QED
        BY <3>4, <4>1 DEF ReplayStep
    <3>6. h = [i \in 0 .. k |-> F(h, i)]
      BY <3>5
    <3> HIDE DEF h
    <3>7. ReplayEquation(ax, q, h, k)
      BY <3>6 DEF ReplayEquation
    <3>8. QED
      BY <3>7
  <2>3. QED
    BY <2>1, <2>2
<1>2. Fails = {}
  BY <1>1, NatMinimum
<1>3. QED
  BY <1>2

\* does the process of event i do something in ks after i, up to n?
SeenBy(q, i, n, ks) ==
  \E k \in (i + 1) .. n : q[k].pid = q[i].pid /\ q[k].kind \in ks

\* what the replay holds after n events
Watched(ax, q, n) ==
  {[pid |-> q[i].pid, at |-> i, seen |-> SeenBy(q, i, n, ax.consequence)] :
     i \in {j \in 1 .. n : q[j].kind \in ax.trigger}}

LEMMA WatchedStep ==
  ASSUME NEW ax, NEW q, NEW n \in Nat \ {0}
  PROVE  Observe(ax, Watched(ax, q, n - 1), q[n]) \cup Opened(ax, q, n) = Watched(ax, q, n)
<1> DEFINE W(i, m) == [pid |-> q[i].pid, at |-> i, seen |-> SeenBy(q, i, m, ax.consequence)]
           T(m) == {j \in 1 .. m : q[j].kind \in ax.trigger}
<1>1. ASSUME NEW i \in 1 .. n - 1
      PROVE  [W(i, n - 1) EXCEPT !.seen = @ \/ (W(i, n - 1).pid = q[n].pid
                                                /\ q[n].kind \in ax.consequence)]
             = W(i, n)
  <2>1. SeenBy(q, i, n, ax.consequence)
          <=> \/ SeenBy(q, i, n - 1, ax.consequence)
              \/ q[i].pid = q[n].pid /\ q[n].kind \in ax.consequence
    <3>1. (i + 1) .. n = ((i + 1) .. (n - 1)) \cup {n}
      OBVIOUS
    <3>2. QED
      BY <3>1 DEF SeenBy
  <2>2. SeenBy(q, i, n, ax.consequence) \in BOOLEAN
    BY DEF SeenBy
  <2>3. QED
    BY <2>1, <2>2
<1>2. Observe(ax, Watched(ax, q, n - 1), q[n]) = {W(i, n) : i \in T(n - 1)}
  <2>1. Watched(ax, q, n - 1) = {W(i, n - 1) : i \in T(n - 1)}
    BY DEF Watched
  <2>2. T(n - 1) \subseteq 1 .. n - 1
    OBVIOUS
  <2> HIDE DEF W, T
  <2>3. ASSUME NEW v \in Observe(ax, Watched(ax, q, n - 1), q[n])
        PROVE  \E i \in T(n - 1) : v = W(i, n)
    <3>1. PICK w \in Watched(ax, q, n - 1) :
            v = [w EXCEPT !.seen = @ \/ (w.pid = q[n].pid /\ q[n].kind \in ax.consequence)]
      BY <2>3 DEF Observe
    <3>2. PICK i \in T(n - 1) : w = W(i, n - 1)
      BY <2>1
    <3>3. v = W(i, n)
      BY <1>1, <2>2, <3>1, <3>2
    <3>4. QED
      BY <3>3
  <2>4. ASSUME NEW i \in T(n - 1)
        PROVE  W(i, n) \in Observe(ax, Watched(ax, q, n - 1), q[n])
    <3>1. W(i, n - 1) \in Watched(ax, q, n - 1)
      BY <2>1
    <3>2. [W(i, n - 1) EXCEPT !.seen = @ \/ (W(i, n - 1).pid = q[n].pid
                                              /\ q[n].kind \in ax.consequence)]
          = W(i, n)
      BY <1>1, <2>2
    <3>3. QED
      BY <3>1, <3>2 DEF Observe
  <2>5. QED
    BY <2>3, <2>4
<1>3. Opened(ax, q, n) = {W(i, n) : i \in T(n) \ T(n - 1)}
  <2>1. SeenBy(q, n, n, ax.consequence) = FALSE
    BY DEF SeenBy
  <2>2. T(n) \ T(n - 1) = IF q[n].kind \in ax.trigger THEN {n} ELSE {}
    OBVIOUS
  <2>3. QED
    BY <2>1, <2>2 DEF Opened
<1>4. T(n - 1) \subseteq T(n)
  OBVIOUS
<1>5. QED
  BY <1>2, <1>3, <1>4 DEF Watched

LEMMA ReplayValue ==
  ASSUME NEW ax, NEW q \in Seq(Event)
  PROVE  Replay(ax, q) = Watched(ax, q, Len(q))
<1> DEFINE after == CHOOSE f : ReplayEquation(ax, q, f, Len(q))
           Fails == {n \in 0 .. Len(q) : after[n] # Watched(ax, q, n)}
<1>1. Len(q) \in Nat
  OBVIOUS
<1>2. ReplayEquation(ax, q, after, Len(q))
  BY <1>1, ReplayExists
<1>3. Replay(ax, q) = after[Len(q)]
  BY DEF Replay, ReplayEquation, ReplayStep, Opened
<1> HIDE DEF after
<1>4. ASSUME NEW n \in Fails, \A m \in Fails : n <= m
      PROVE  FALSE
  <2>1. n \in 0 .. Len(q) /\ after[n] # Watched(ax, q, n)
    OBVIOUS
  <2>2. CASE n = 0
    <3>1. after[0] = {}
      BY <1>1, <1>2 DEF ReplayEquation
    <3>2. Watched(ax, q, 0) = {}
      BY DEF Watched
    <3>3. QED
      BY <2>1, <2>2, <3>1, <3>2
  <2>3. CASE n # 0
    <3>1. n \in Nat \ {0} /\ n - 1 \in 0 .. Len(q) /\ n - 1 \notin Fails
      BY <1>1, <1>4, <2>1, <2>3
    <3>2. after[n - 1] = Watched(ax, q, n - 1)
      BY <3>1
    <3>3. after[n] = ReplayStep(ax, q, after, n)
      BY <1>2, <2>1, <2>3 DEF ReplayEquation
    <3>4. after[n] = Watched(ax, q, n)
      BY <3>1, <3>2, <3>3, WatchedStep DEF ReplayStep
    <3>5. QED
      BY <2>1, <3>4
  <2>4. QED
    BY <2>2, <2>3
<1>5. Fails \in SUBSET Nat
  BY <1>1
<1>6. Fails = {}
  BY <1>4, <1>5, NatMinimum
<1>7. after[Len(q)] = Watched(ax, q, Len(q))
  BY <1>1, <1>6
<1>8. QED
  BY <1>3, <1>7

\* What a window of events is reported for.
LEMMA ReportValue ==
  ASSUME NEW ax, NEW q \in Seq(Event), NEW i
  PROVE  i \in Report(ax, q) <=>
           /\ i \in 1 .. Len(q) /\ q[i].kind \in ax.trigger
           /\ \/ ax.negate /\ SeenBy(q, i, Len(q), ax.consequence)
              \/ /\ ~ax.negate /\ ~SeenBy(q, i, Len(q), ax.consequence)
                 /\ Len(q) - (i - 1) > ax.window
<1> DEFINE W(j) == [pid |-> q[j].pid, at |-> j, seen |-> SeenBy(q, j, Len(q), ax.consequence)]
           C(v) == \/ ax.negate /\ v.seen
                   \/ ~ax.negate /\ ~v.seen /\ Len(q) - (v.at - 1) > ax.window
           T == {j \in 1 .. Len(q) : q[j].kind \in ax.trigger}
<1>1. Replay(ax, q) = {W(j) : j \in T}
  BY ReplayValue DEF Watched
<1>2. \A j : W(j).at = j /\ W(j).seen = SeenBy(q, j, Len(q), ax.consequence)
  OBVIOUS
<1>3. Report(ax, q) = {w.at : w \in {v \in Replay(ax, q) : C(v)}}
  BY DEF Report
<1> HIDE DEF W
<1>4. i \in Report(ax, q) <=> i \in T /\ C(W(i))
  <2>1. ASSUME i \in Report(ax, q) PROVE i \in T /\ C(W(i))
    <3>1. PICK w \in Replay(ax, q) : C(w) /\ i = w.at
      BY <1>3, <2>1
    <3>2. PICK j \in T : w = W(j)
      BY <1>1
    <3>3. j = i
      BY <1>2, <3>1, <3>2
    <3>4. QED
      BY <3>1, <3>2, <3>3
  <2>2. ASSUME i \in T, C(W(i)) PROVE i \in Report(ax, q)
    BY <1>1, <1>2, <1>3, <2>2
  <2>3. QED
    BY <2>1, <2>2
<1>5. QED
  BY <1>2, <1>4

\* On a whole stream, BuchiMonitor._check_axiom reports every forbidden
\* consequence within the window of its trigger and no missing one that came
\* in time or could still come, for every set of axioms.
THEOREM TemporalReports == Spec => []TemporalExact
<1>1. TypeOK => TemporalExact
  <2> SUFFICES ASSUME TypeOK, NEW ax \in TemporalAxioms, NEW i \in 1 .. count
      PROVE  IF ax.negate
             THEN /\ Triggers(ax, i) /\ Follows(i, ax.window, ax.consequence)
                       => i \in Report(ax, stream)
                  /\ i \in Report(ax, stream)
                       => Triggers(ax, i) /\ Follows(i, count, ax.consequence)
             ELSE i \in Report(ax, stream) =>
                    /\ Triggers(ax, i) /\ ~Follows(i, ax.window, ax.consequence)
                    /\ i + ax.window <= count
    BY DEF TemporalExact
  <2>1. count \in Nat /\ Len(stream) = count /\ stream \in Seq(Event)
    BY GuardianAssumption DEF TypeOK
  <2>2. ax.window \in Nat
    BY GuardianAssumption
  <2>3. SeenBy(stream, i, count, ax.consequence) <=> Follows(i, count, ax.consequence)
    <3>1. \A k \in (i + 1) .. count : k - i <= count <=> TRUE
      BY <2>1
    <3>2. QED
      BY <3>1 DEF SeenBy, Follows
  <2>4. Follows(i, ax.window, ax.consequence) => SeenBy(stream, i, count, ax.consequence)
    BY <2>3 DEF SeenBy, Follows
  <2>5. i \in Report(ax, stream) <=>
           /\ Triggers(ax, i)
           /\ \/ ax.negate /\ SeenBy(stream, i, count, ax.consequence)
              \/ /\ ~ax.negate /\ ~SeenBy(stream, i, count, ax.consequence)
                 /\ count - (i - 1) > ax.window
    BY <2>1, ReportValue DEF Triggers
  <2>6. count - (i - 1) > ax.window => i + ax.window <= count
    BY <2>1, <2>2
  <2>7. QED
    BY <2>3, <2>4, <2>5, <2>6
<1>2. QED
  BY <1>1, TypeCorrect, PTL

-----------------------------------------------------------------------------
(* The slice of one process's events that the auditor replays.             *)

OwnStep(q, p, f, i) == IF q[i].pid = p THEN Append(f[i - 1], q[i]) ELSE f[i - 1]

OwnEquation(q, p, f, n) ==
  f = [i \in 0 .. n |-> IF i = 0 THEN <<>> ELSE OwnStep(q, p, f, i)]

LEMMA OwnExists ==
  ASSUME NEW q, NEW p, NEW n \in Nat
  PROVE  \E f : OwnEquation(q, p, f, n)
<1> DEFINE Fails == {k \in Nat : ~ \E f : OwnEquation(q, p, f, k)}
<1>1. ASSUME NEW k \in Fails, \A m \in Fails : k <= m
      PROVE  FALSE
  <2>1. CASE k = 0
    <3>1. OwnEquation(q, p, [i \in 0 .. 0 |-> <<>>], 0)
      BY DEF OwnEquation
    <3>2. QED
      BY <2>1, <3>1
  <2>2. CASE k # 0
    <3>1. k - 1 \in Nat /\ k - 1 \notin Fails
      BY <1>1, <2>2
    <3>2. PICK f : OwnEquation(q, p, f, k - 1)
      BY <3>1
    <3> DEFINE F(g, i) == IF i = 0 THEN <<>> ELSE OwnStep(q, p, g, i)
               h == [i \in 0 .. k |-> F(f, i)]
    <3>3. \A i \in 0 .. k - 1 : f[i] = F(f, i)
      BY <3>2 DEF OwnEquation
    <3>4. \A i \in 0 .. k - 1 : h[i] = f[i]
      BY <3>1, <3>3
    <3>5. \A i \in 0 .. k : F(h, i) = F(f, i)
      <4>1. \A i \in 0 .. k : i # 0 => i - 1 \in 0 .. k - 1
        BY <3>1
      <4>2. \A i \in 0 .. k : i # 0 => h[i - 1] = f[i - 1]
        BY <3>4, <4>1
      <4> HIDE DEF h
      <4>3. \A i \in 0 .. k : i # 0 => OwnStep(q, p, h, i) = OwnStep(q, p, f, i)
        BY <4>2, Zenon DEF OwnStep
      <4>4. QED
        BY <4>3, Zenon
    <3>6. h = [i \in 0 .. k |-> F(h, i)]
      BY <3>5
    <3> HIDE DEF h
    <3>7. OwnEquation(q, p, h, k)
      BY <3>6 DEF OwnEquation
    <3>8. QED
      BY <3>7
  <2>3. QED
    BY <2>1, <2>2
<1>2. Fails = {}
  BY <1>1, NatMinimum
<1>3. QED
  BY <1>2

\* a sequence of events of process p
IsOwn(s, p) == s \in Seq(Event) /\ \A i \in 1 .. Len(s) : s[i].pid = p

LEMMA OwnEvents ==
  ASSUME NEW q \in Seq(Event), NEW p
  PROVE  IsOwn(OfPid(q, p), p)
<1> DEFINE own == CHOOSE f : OwnEquation(q, p, f, Len(q))
           Fails == {n \in 0 .. Len(q) : ~IsOwn(own[n], p)}
<1>1. Len(q) \in Nat
  OBVIOUS
<1>2. OwnEquation(q, p, own, Len(q))
  BY <1>1, OwnExists
<1>3. OfPid(q, p) = own[Len(q)]
  BY DEF OfPid, OwnEquation, OwnStep
<1> HIDE DEF own
<1>4. ASSUME NEW n \in Fails, \A m \in Fails : n <= m
      PROVE  FALSE
  <2>1. n \in 0 .. Len(q) /\ ~IsOwn(own[n], p)
    OBVIOUS
  <2>2. CASE n = 0
    <3>1. own[0] = <<>>
      BY <1>1, <1>2 DEF OwnEquation
    <3>2. IsOwn(<<>>, p)
      BY DEF IsOwn
    <3>3. QED
      BY <2>1, <2>2, <3>1, <3>2
  <2>3. CASE n # 0
    <3>1. n \in 1 .. Len(q) /\ n - 1 \in 0 .. Len(q) /\ n - 1 \notin Fails
      BY <1>1, <1>4, <2>1, <2>3
    <3>2. IsOwn(own[n - 1], p)
      BY <3>1
    <3>3. own[n] = OwnStep(q, p, own, n)
      BY <1>2, <2>1, <2>3 DEF OwnEquation
    <3>4. q[n] \in Event
      BY <3>1
    <3>5. ASSUME q[n].pid = p
          PROVE  IsOwn(Append(own[n - 1], q[n]), p)
      BY <3>2, <3>4, <3>5 DEF IsOwn
    <3>6. IsOwn(own[n], p)
      BY <3>2, <3>3, <3>5 DEF OwnStep
    <3>7. QED
      BY <2>1, <3>6
  <2>4. QED
    BY <2>2, <2>3
<1>5. Fails \in SUBSET Nat
  BY <1>1
<1>6. Fails = {}
  BY <1>4, <1>5, NatMinimum
<1>7. QED
  BY <1>1, <1>3, <1>6

\* The slice keeps the end of the sequence: its last n elements.
LEMMA LastOfElements ==
  ASSUME NEW s \in Seq(Event), NEW n \in Nat \ {0}
  PROVE  /\ LastOf(s, n) \in Seq(Event)
         /\ Len(LastOf(s, n)) = IF Len(s) <= n THEN Len(s) ELSE n
         /\ \A j \in 1 .. Len(LastOf(s, n)) :
              LastOf(s, n)[j] = s[Len(s) - Len(LastOf(s, n)) + j]
<1>1. Len(s) \in Nat
  OBVIOUS
<1>2. CASE Len(s) <= n
  BY <1>1, <1>2 DEF LastOf
<1>3. CASE ~(Len(s) <= n)
  <2> DEFINE m == Len(s) - n + 1
  <2>1. m \in 1 .. Len(s) /\ Len(s) - m + 1 = n
    BY <1>1, <1>3
  <2>2. LastOf(s, n) = SubSeq(s, m, Len(s))
    BY <1>3 DEF LastOf
  <2>3. /\ SubSeq(s, m, Len(s)) \in Seq(Event)
        /\ Len(SubSeq(s, m, Len(s))) = n
        /\ \A j \in 1 .. n : SubSeq(s, m, Len(s))[j] = s[m + j - 1]
    BY <2>1, SubSeqProperties
  <2>4. \A j \in 1 .. n : m + j - 1 = Len(s) - n + j
    BY <1>1
  <2>5. QED
    BY <1>3, <2>2, <2>3, <2>4
<1>4. QED
  BY <1>2, <1>3

\* The last WinSize events of the process, which is all that the auditor
\* passes to analyze_window, are enough to see a forbidden consequence of an
\* axiom with a shorter window at the event that brings it.
THEOREM SlidingWindows == Spec => []SlidingComplete
<1>1. TypeOK => SlidingComplete
  <2> SUFFICES ASSUME TypeOK, NEW p \in Pids, NEW ax \in TemporalAxioms,
                      NEW i \in 1 .. (Len(OfPid(stream, p)) - 1),
                      ax.negate, ax.window < WinSize,
                      Len(OfPid(stream, p)) - i <= ax.window,
                      OfPid(stream, p)[i].kind \in ax.trigger,
                      OfPid(stream, p)[Len(OfPid(stream, p))].kind \in ax.consequence
      PROVE  i - (Len(OfPid(stream, p)) - Len(LastOf(OfPid(stream, p), WinSize)))
               \in Report(ax, LastOf(OfPid(stream, p), WinSize))
    BY DEF SlidingComplete
  <2> DEFINE own == OfPid(stream, p)
             q == LastOf(own, WinSize)
             j == i - (Len(own) - Len(q))
  <2>1. own \in Seq(Event) /\ \A k \in 1 .. Len(own) : own[k].pid = p
    BY OwnEvents DEF TypeOK, IsOwn
  <2> HIDE DEF own
  <2>2. WinSize \in Nat \ {0} /\ ax.window \in Nat
    BY GuardianAssumption
  <2>3. /\ q \in Seq(Event)
        /\ Len(q) = IF Len(own) <= WinSize THEN Len(own) ELSE WinSize
        /\ \A k \in 1 .. Len(q) : q[k] = own[Len(own) - Len(q) + k]
    BY <2>1, <2>2, LastOfElements
  <2>4. i \in 1 .. (Len(own) - 1) /\ Len(own) - i <= ax.window /\ ax.window < WinSize
    BY DEF own
  <2>5. own[i].kind \in ax.trigger /\ own[Len(own)].kind \in ax.consequence
    BY DEF own
  <2> HIDE DEF q
  <2>6. Len(own) \in Nat /\ Len(q) \in Nat
    BY <2>1, <2>3
  <2>7. Len(q) = IF Len(own) <= WinSize THEN Len(own) ELSE WinSize
    BY <2>3
  <2>8. /\ j \in 1 .. Len(q) /\ Len(q) \in (j + 1) .. Len(q)
        /\ Len(own) - Len(q) + j = i /\ Len(own) - Len(q) + Len(q) = Len(own)
    <3>1. CASE Len(own) <= WinSize
      BY <2>4, <2>6, <2>7, <3>1
    <3>2. CASE ~(Len(own) <= WinSize)
      BY <2>2, <2>4, <2>6, <2>7, <3>2
    <3>3. QED
      BY <3>1, <3>2
  <2> HIDE DEF j
  <2>9. q[j] = own[i] /\ q[Len(q)] = own[Len(own)]
    <3>1. q[j] = own[Len(own) - Len(q) + j]
      BY <2>3, <2>8
    <3>2. q[Len(q)] = own[Len(own) - Len(q) + Len(q)]
      BY <2>3, <2>8, SMTT(30)
    <3>3. QED
      BY <2>8, <3>1, <3>2
  <2>10. own[i].pid = own[Len(own)].pid
    BY <2>1, <2>4, <2>6
  <2>11. SeenBy(q, j, Len(q), ax.consequence)
    BY <2>5, <2>8, <2>9, <2>10 DEF SeenBy
  <2>12. j \in Report(ax, q)
    BY <2>3, <2>5, <2>8, <2>9, <2>11, ReportValue
  <2>13. QED
    BY <2>12 DEF own, q, j
<1>2. QED
  BY <1>1, TypeCorrect, PTL
=============================================================================
