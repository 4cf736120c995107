---------------------------- MODULE TraceWindows ----------------------------
(***************************************************************************)
(* build_labeled_windows of evaluate_darpa_tc.py, fed by the parser's      *)
(* stream: windows of each process, the ancestors of processes that met a  *)
(* known attack address or file, labels, and the sample that is evaluated. *)
(***************************************************************************)
EXTENDS CadetsIngestor, SequencesExt

CONSTANTS
  Pids,           \* pids, with 0 for an unknown process
  Texts,          \* what stands in the records
  MinHits,
  MaxDepth,       \* generations that a mark is carried up
  MaxAttack, MaxBenign, HardPercent,
  AttackComms, HighPrio

ASSUME WindowsAssumption ==
  /\ 0 \in Pids /\ WindowSize \in Nat \ {0}
  /\ {MinHits, MaxDepth, MaxAttack, MaxBenign} \subseteq Nat
  /\ HardPercent \in 0 .. 100

Records ==
  [kind : {"Subject"}, uuid : Uuids, pid : Pids, parent : References,
   name : Texts \cup {Null}, cmd : Texts]
  \cup [kind : {"FileObject", "PacketSocketObject"}, uuid : Uuids,
        path : Texts \cup {Null}]
  \cup [kind : {"NetFlowObject"}, uuid : Uuids, remote : Texts, rport : BOOLEAN,
        local : Texts, lport : BOOLEAN]
  \cup [kind : {"Event"}, type : Texts, subj : References, obj : References,
        exec : Texts \cup {Null}, path : Texts \cup {Null}, addr : Texts \cup {Null},
        at : Texts]
  \cup [kind : {"junk"}]

ASSUME FilesAssumption ==
  /\ {"", "unknown", "file"} \subseteq Texts
  /\ Files \subseteq Seq(Records)
  /\ {NoUuid, Null} \cap Uuids = {}

VARIABLES
  buffers,     \* events of each process that do not fill a window yet
  ppids,       \* parent of each process, 0 if unknown
  raw,         \* complete windows, in the order of their completion
  attack,      \* labelled windows of each class
  benign,
  sample       \* what build_labeled_windows returns

vars == <<parserVars, ingestorVars, buffers, ppids, raw, attack, benign, sample>>

Init ==
  /\ IngestorInit
  /\ buffers = [p \in Pids |-> <<>>] /\ ppids = [p \in Pids |-> 0]
  /\ raw = <<>> /\ attack = <<>> /\ benign = <<>> /\ sample = <<>>

-----------------------------------------------------------------------------
(* Phase 1.                                                                 *)

\* the elements of s that pass the test, in their order
Only(s, Test(_)) ==
  FlattenSeq([i \in DOMAIN s |-> IF Test(s[i]) THEN <<s[i]>> ELSE <<>>])

Marked(e) == e.res \in {"c2", "malware"}

Collect(e) ==
  LET buf == Append(buffers[e.pid], e) IN
  IF Len(buf) < WindowSize
  THEN buffers' = [buffers EXCEPT ![e.pid] = buf] /\ UNCHANGED raw
  ELSE /\ buffers' = [buffers EXCEPT ![e.pid] = <<>>]
       /\ raw' = Append(raw, [pid |-> e.pid, events |-> buf])

Consume ==
  /\ Yield
  /\ LET e == emitted'[Len(emitted')] IN
       /\ Collect(e)
       /\ ppids' = IF e.pid # 0 /\ e.ppid # 0 THEN [ppids EXCEPT ![e.pid] = e.ppid]
                   ELSE ppids
  /\ UNCHANGED <<attack, benign, sample>>

-----------------------------------------------------------------------------
(* Between the phases: the ancestors of the processes in c2_resource.       *)

MarkedIn(w) == Only(w.events, Marked)

\* c2_resource, in the order its processes were put in
C2Windows ==
  LET FirstOfPid(i) == /\ MarkedIn(raw[i]) # <<>>
                       /\ \A j \in 1 .. i - 1 : raw[j].pid = raw[i].pid
                                                => MarkedIn(raw[j]) = <<>>
  IN Only([i \in DOMAIN raw |-> i], FirstOfPid)

\* Mutant of Walk: a step down instead of up.
WalkDown(p) ==
  LET to[d \in 0 .. MaxDepth] ==
        IF d = 0 THEN <<p>>
        ELSE LET path == to[d - 1]
                 below == {q \in Pids : ppids[q] = Last(path) /\ q # Last(path)}
             IN IF below = {} THEN path ELSE Append(path, CHOOSE q \in below : TRUE)
  IN Tail(to[MaxDepth])

\* the parents of p, at most MaxDepth
Walk(p) ==
  LET to[d \in 0 .. MaxDepth] ==
        IF d = 0 THEN <<p>>
        ELSE LET path == to[d - 1]
                 q == ppids[Last(path)]
             IN IF q \in {0, Last(path)} THEN path ELSE Append(path, q)
  IN Tail(to[MaxDepth])

\* ancestor_c2_res: the resource of the first such process below a
Below(a) == Only(C2Windows, LAMBDA i : a \in ToSet(Walk(raw[i].pid)))
IsAncestor(a) == Below(a) # <<>>
ChildResource(a) == Head(MarkedIn(raw[Head(Below(a))])).res

-----------------------------------------------------------------------------
(* Phase 2.                                                                 *)

\* windows by process, processes by their first window; process 0 is dropped
Grouped ==
  LET firsts == Only([i \in DOMAIN raw |-> i],
                  LAMBDA i : \A j \in 1 .. i - 1 : raw[j].pid # raw[i].pid)
      group(i) == Only(raw, LAMBDA w : w.pid = raw[i].pid /\ w.pid # 0)
  IN FlattenSeq([k \in DOMAIN firsts |-> group(firsts[k])])

Hits(w) == Only(w.events, LAMBDA e : e.at # "calm")
Has(w, mark) == \E i \in DOMAIN w.events : w.events[i].res = mark

\* the synthetic edge of an ancestor's window without marks of its own; "" if
\* there is none
Synthetic(w) ==
  IF IsAncestor(w.pid) /\ MarkedIn(w) = <<>> THEN ChildResource(w.pid) ELSE ""

HasC2(w) == Has(w, "c2") \/ Synthetic(w) # ""

IsAttack(w) ==
  \/ Len(Hits(w)) >= MinHits /\ w.events[1].comm \in AttackComms
  \/ HasC2(w) \/ Has(w, "malware")

GtName(w) ==
  IF Hits(w) # <<>> THEN Hits(w)[1].at
  ELSE IF HasC2(w) THEN "c2_detected"
  ELSE IF Has(w, "malware") THEN "malware_detected"
  ELSE IF IsAncestor(w.pid) THEN "parent_chain" ELSE ""

Labelled(w) ==
  [pid |-> w.pid, events |-> w.events, child |-> Synthetic(w),
   is_attack |-> IsAttack(w), gt |-> IF IsAttack(w) THEN GtName(w) ELSE "",
   priority |-> HasC2(w) \/ Has(w, "malware") \/ w.events[1].comm \in HighPrio]

Label ==
  /\ EndOfFile
  /\ LET all == [i \in DOMAIN Grouped |-> Labelled(Grouped[i])]
         calm == Only(all, LAMBDA w : ~w.is_attack)
     IN /\ attack' = Only(all, LAMBDA w : w.is_attack)
        /\ benign' = SubSeq(calm, 1, IF Len(calm) < 4 * MaxBenign THEN Len(calm)
                                     ELSE 4 * MaxBenign)
  /\ UNCHANGED <<buffers, ppids, raw, sample>>

Prio(w) == CASE w.gt = "c2_detected" -> 0 [] w.gt = "malware_detected" -> 1
             [] w.gt = "parent_chain" -> 2 [] OTHER -> 3

Take(s, n) == SubSeq(s, 1, IF n < Len(s) THEN n ELSE Len(s))

\* the priority windows, in a stable order of their names, then the others
Sampled ==
  LET Level(k) == Only(attack, LAMBDA w : w.priority /\ Prio(w) = k)
      easy == Level(0) \o Level(1) \o Level(2)
      hard == Level(3) \o Only(attack, LAMBDA w : ~w.priority)
      nHard == (MaxAttack * HardPercent) \div 100
  IN IF HardPercent > 0
     THEN Take(easy, MaxAttack - nHard) \o Take(hard, nHard)
     ELSE Take(easy \o hard, MaxAttack)

Sample ==
  /\ pass = "done" /\ sample = <<>> /\ attack \o benign # <<>>
  /\ sample' = Sampled \o Take(benign, MaxBenign)
  /\ UNCHANGED <<parserVars, buffers, ppids, raw, attack, benign>>

windowVars == <<buffers, ppids, raw, attack, benign, sample>>

Ingest == (Pass1 \/ Rewind \/ SkipLine) /\ UNCHANGED windowVars

Next ==
  \/ Ingestor /\ UNCHANGED windowVars
  \/ /\ reader = "parser"
     /\ Ingest \/ Consume \/ Label \/ Sample
     /\ UNCHANGED ingestorVars

Spec == Init /\ [][Next]_vars

-----------------------------------------------------------------------------
(* Properties.                                                              *)

\* what the file says of an identifier, wherever it stands; the ingestor cannot
\* read all of it
Said(u, kinds) ==
  {i \in DOMAIN file : /\ file[i].kind \in kinds /\ file[i].uuid = u
                       /\ reader = "parser" \/ ~Overlooked(file[i])}

PidSaid(u) ==
  LET S == Said(u, {"Subject"}) IN
  IF S = {} THEN 0 ELSE file[CHOOSE i \in S : \A j \in S : j <= i].pid

ParentSaid(u) ==
  LET S == Said(u, {"Subject"}) IN
  IF S = {} THEN NoUuid ELSE file[CHOOSE i \in S : \A j \in S : j <= i].parent

OfPid(s, p) == Only(s, LAMBDA e : e.pid = p)

EventsRead == Only(SubSeq(file, 1, IF pass = "entities" THEN 0 ELSE line),
                        LAMBDA r : IF reader = "parser" THEN IsEvent(r) ELSE Ingested(r))

ObjectKinds == {"FileObject", "PacketSocketObject", "NetFlowObject"}

\* e is the event of record r, with what the file says of its process and object
Attributed(e, r) ==
  LET said == Said(r.obj, ObjectKinds) IN
  /\ e.pid = PidSaid(r.subj) /\ e.at = r.at
  /\ e.ppid = IF reader = "parser" THEN PidSaid(ParentSaid(r.subj)) ELSE 0
  /\ r.path \in {"", Null} =>
       \A k \in said : (\A j \in said : j <= k) =>
         IF file[k].kind = "NetFlowObject"
         THEN file[k].remote # "" /\ file[k].rport => e.res = file[k].remote
         ELSE file[k].path \notin {"", Null} => e.res = file[k].path

\* evaluate_darpa_tc.py:3-6, cadets_ingestor.py:93: an event is attributed to the
\* process, and a call without a path to the object, that its file describes,
\* before it or after it, by either reader; the ingestor has no process (pid 0) for
\* a subject whose "properties" are null, although it has a pid, and gives up an
\* event with a null.
Resolution ==
  /\ Len(emitted) = Len(EventsRead)
  /\ \A i \in DOMAIN emitted : Attributed(emitted[i], EventsRead[i])

\* the events of the windows of process p, one after the other
CutOf(p) ==
  FlattenSeq([i \in DOMAIN raw |-> IF raw[i].pid = p THEN raw[i].events ELSE <<>>])

\* Cutting the stream into windows loses, repeats and reorders no event: of a
\* process, or of the stream; the ingestor leaves no event behind at the end.
Cutting ==
  IF reader = "parser"
  THEN \A p \in Pids : OfPid(emitted, p) = CutOf(p) \o buffers[p]
  ELSE /\ emitted = FlattenSeq(windows) \o window
       /\ pass = "done" => window = <<>>

\* Both readers pass on what the file says, wherever it says it, and their
\* windows are the stream.
StreamFaithful == Resolution /\ Cutting

\* a is the parent of p, or of its parent, and so on, MaxDepth times at most
Descends(p, a) ==
  \E n \in 1 .. MaxDepth : \E chain \in [1 .. n -> Pids \ {0}] :
    /\ chain[1] = ppids[p] /\ chain[1] # p /\ chain[n] = a
    /\ \A k \in 2 .. n : chain[k] = ppids[chain[k - 1]]

\* "every window whose PID is an ancestor of a C2-connecting process" carries
\* the synthetic edge unless it has a mark itself, and no other window does; so
\* a window that is sampled as benign has neither a mark nor such a descendant,
\* the sample is as large as asked at most, and the edge names a resource that
\* a descendant did use.
ChainFaithful ==
  /\ Cardinality({i \in DOMAIN sample : sample[i].is_attack}) <= MaxAttack
  /\ \A i \in DOMAIN sample :
       LET w == sample[i]
           marked == \E k \in DOMAIN w.events : Marked(w.events[k])
           below == {j \in DOMAIN raw : /\ Descends(raw[j].pid, w.pid)
                                        /\ \E k \in DOMAIN raw[j].events :
                                             Marked(raw[j].events[k])}
       IN /\ (w.child # "") <=> (below # {} /\ ~marked)
          /\ ~w.is_attack => below = {} /\ ~marked
          /\ w.child # "" =>
               \E j \in below, k \in 1 .. WindowSize : raw[j].events[k].res = w.child
=============================================================================
