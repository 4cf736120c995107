------------------------------ MODULE Detector ------------------------------
(***************************************************************************)
(* DetectorAgent, stage 1 of the pipeline: per-process sliding windows and *)
(* the histograms kept beside them, the triage of every kernel event into  *)
(* "signal" or "skip", the flags the auditor sets, and the eviction of     *)
(* processes that have been silent for too long.                           *)
(*                                                                         *)
(* handle() suspends only in its final put, which the event loop awaits    *)
(* before it hands over the next event: one event is one step.  The two    *)
(* entropy tests are operators of the histograms they read.                *)
(***************************************************************************)
EXTENDS Integers, Sequences, FiniteSets

CONSTANTS
  Pids, NoPid,      \* processes; NoPid stands for a ppid of 0 or 1
  Comms, Types,     \* command names and syscall types (below SC_TYPES)
  NoType,           \* "no syscall type yet"
  Events,           \* the kernel events that may arrive
  WinSize, EntWin,  \* maxlen of the event window and of the entropy windows
  MarkovGate,       \* markov_gate: FALSE is the legacy marginal gate
  EvictTtl,         \* events before a silent process is forgotten
  EvictInterval,    \* events between two eviction passes
  MaxEvents,        \* bound on the number of events
  Flat(_),          \* _entropy(hist) < entropy_low
  MarkovFlat(_)     \* _markov_entropy(trans_hist) < entropy_low

Event == [pid : Pids, ppid : Pids \cup {NoPid}, comm : Comms, sc : Types,
          hot : BOOLEAN,    \* the resource matches a hard-trigger pattern
          alien : BOOLEAN]  \* the caller's address is not in the call-site map

ASSUME DetectorAssumption ==
  /\ NoPid \notin Pids /\ NoType \notin Types
  /\ Events \subseteq Event
  /\ {WinSize, EntWin, EvictTtl, EvictInterval} \subseteq Nat \ {0}
  /\ MaxEvents \in Nat /\ MarkovGate \in BOOLEAN

VARIABLES
  events,     \* stats["events"]
  ppidMap,    \* _ppid_map, NoPid where there is no entry
  lastSeen,   \* _pid_last_seen, 0 where there is no entry
  window,     \* _windows: the last events of each process
  entWin,     \* _ent_wins: the last syscall types
  hist,       \* _hists: how often each type is in entWin
  transWin,   \* _trans_wins: the last pairs of consecutive types
  transHist,  \* _trans_hist: how often each pair is in transWin
  prevSc,     \* _prev_sc
  flagged,    \* _flagged: processes whose flag has not expired
  seenEdges,  \* _seen_edges
  seenTrans,  \* _seen_transitions
  last,       \* history: the last event and what triage said of it
  trace,      \* history: each process's events since it was last forgotten
  parents,    \* history: the last real parent each process ever had
  announced,  \* history: the edges and transitions that came with a signal
  reported    \* history: the processes that have raised a signal

windows == <<ppidMap, lastSeen, window, entWin, hist, transWin, transHist, prevSc>>
seen    == <<seenEdges, seenTrans>>
ghosts  == <<last, trace, parents, announced, reported>>
vars    == <<events, windows, flagged, seen, ghosts>>

Pairs == Types \X Types
Skip  == "skip"

NoEvent == [pid |-> NoPid, trigger |-> Skip]

Init ==
  /\ events = 0
  /\ ppidMap = [p \in Pids |-> NoPid]
  /\ lastSeen = [p \in Pids |-> 0]
  /\ window = [p \in Pids |-> <<>>]
  /\ entWin = [p \in Pids |-> <<>>]
  /\ hist = [p \in Pids |-> [t \in Types |-> 0]]
  /\ transWin = [p \in Pids |-> <<>>]
  /\ transHist = [p \in Pids |-> [b \in Pairs |-> 0]]
  /\ prevSc = [p \in Pids |-> NoType]
  /\ flagged = {}
  /\ seenEdges = {} /\ seenTrans = {}
  /\ last = NoEvent
  /\ trace = [p \in Pids |-> <<>>]
  /\ parents = [p \in Pids |-> NoPid]
  /\ announced = {} /\ reported = {}

-----------------------------------------------------------------------------
(* Sliding windows: a deque(maxlen=n) and the counts kept beside it.        *)

\* Mutant of Slide: off by one, the window keeps n+1 elements.
SlideLate(q, x, n) == Append(IF Len(q) > n THEN Tail(q) ELSE q, x)

Slide(q, x, n) == Append(IF Len(q) = n THEN Tail(q) ELSE q, x)

\* Mutant of Recount: the type that arrives is taken for the one that leaves.
RecountWrong(h, q, x, n) == IF Len(q) = n THEN [h EXCEPT ![x] = @ - 1]
                            ELSE [h EXCEPT ![x] = @ + 1]

\* the guards max(0, ...) and get(old, 0) <= 1 of the code are not needed:
\* what leaves the window has been counted (Statistics)
Recount(h, q, x, n) ==
  LET kept == IF Len(q) = n THEN [h EXCEPT ![Head(q)] = @ - 1] ELSE h
  IN [kept EXCEPT ![x] = @ + 1]

\* the transition an event makes, as a set: empty for a process's first one
Trans(e) == IF prevSc[e.pid] = NoType THEN {} ELSE {<<prevSc[e.pid], e.sc>>}

\* _update_entropy for the process of the event
EntWinAfter(e)    == Slide(entWin[e.pid], e.sc, EntWin)
HistAfter(e)      == Recount(hist[e.pid], entWin[e.pid], e.sc, EntWin)
TransWinAfter(e)  == IF Trans(e) = {} THEN transWin[e.pid]
                     ELSE Slide(transWin[e.pid], <<prevSc[e.pid], e.sc>>, EntWin)
TransHistAfter(e) == IF Trans(e) = {} THEN transHist[e.pid]
                     ELSE Recount(transHist[e.pid], transWin[e.pid],
                                  <<prevSc[e.pid], e.sc>>, EntWin)
PpidAfter(e)      == IF e.ppid = NoPid THEN ppidMap[e.pid] ELSE e.ppid

-----------------------------------------------------------------------------
(* Triage: the layers in order; only the last one learns what it has seen.  *)

Edge(e)       == {<<e.comm, e.sc>>}
TransKeys(e)  == {<<e.comm, b[1], b[2]>> : b \in Trans(e)}
NewEdge(e)    == Edge(e) \ seenEdges
NewTrans(e)   == IF MarkovGate THEN TransKeys(e) \ seenTrans ELSE {}
Full(e)       == Len(Slide(window[e.pid], e, WinSize)) >= WinSize
Bypass(e)     == e.alien \/ e.hot \/ e.pid \in flagged \/ PpidAfter(e) \in flagged

\* Mutant of Gated: the gate learns before the minimum-window guard.
GatedEarly(e) == ~Bypass(e)

Gated(e) == ~Bypass(e) /\ Full(e)

Repetitive(e) ==
  /\ Flat(HistAfter(e))
  /\ MarkovGate => MarkovFlat(TransHistAfter(e))
  /\ NewEdge(e) = {} /\ NewTrans(e) = {}

Trigger(e) ==
  CASE e.alien -> "pcabp_static_violation"
    [] ~e.alien /\ e.hot -> "hard_trigger"
    [] ~e.alien /\ ~e.hot /\ Bypass(e) -> "flagged_parent"
    [] ~Bypass(e) /\ (~Full(e) \/ Repetitive(e)) -> Skip
    [] OTHER -> "anomaly"    \* novel_transition, novel_edge, markov, entropy

-----------------------------------------------------------------------------
(* _maybe_evict_pids after n events.                                        *)

Silent(seenAt, n) ==
  IF n % EvictInterval # 0 THEN {}
  ELSE {p \in Pids : 0 < seenAt[p] /\ seenAt[p] + EvictTtl < n}

\* f with the event's process updated to v and the forgotten ones reset
Kept(f, p, v, dead, none) ==
  [q \in Pids |-> IF q \in dead THEN none ELSE IF q = p THEN v ELSE f[q]]

Handle(e) ==
  LET n    == events + 1
      dead == Silent([lastSeen EXCEPT ![e.pid] = n], n)
  IN /\ events < MaxEvents
     /\ events' = n
     /\ ppidMap' = Kept(ppidMap, e.pid, PpidAfter(e), dead, NoPid)
     /\ lastSeen' = Kept(lastSeen, e.pid, n, dead, 0)
     /\ window' = Kept(window, e.pid, Slide(window[e.pid], e, WinSize), dead, <<>>)
     /\ entWin' = Kept(entWin, e.pid, EntWinAfter(e), dead, <<>>)
     /\ hist' = Kept(hist, e.pid, HistAfter(e), dead, [t \in Types |-> 0])
     /\ transWin' = Kept(transWin, e.pid, TransWinAfter(e), dead, <<>>)
     /\ transHist' = Kept(transHist, e.pid, TransHistAfter(e), dead,
                          [b \in Pairs |-> 0])
     /\ prevSc' = Kept(prevSc, e.pid, e.sc, dead, NoType)
     /\ seenEdges' = IF Gated(e) THEN seenEdges \cup Edge(e) ELSE seenEdges
     /\ seenTrans' = IF Gated(e) /\ MarkovGate THEN seenTrans \cup TransKeys(e)
                     ELSE seenTrans
     /\ last' = [pid |-> e.pid, trigger |-> Trigger(e)]
     /\ trace' = Kept(trace, e.pid, Append(trace[e.pid], e), dead, <<>>)
     /\ parents' = [parents EXCEPT ![e.pid] = IF e.ppid = NoPid THEN @ ELSE e.ppid]
     /\ announced' = IF Trigger(e) = Skip THEN announced
                     ELSE announced \cup Edge(e) \cup TransKeys(e)
     /\ reported' = IF Trigger(e) = Skip THEN reported ELSE reported \cup {e.pid}
     /\ UNCHANGED flagged

\* flag_pid: the auditor's callback, some time after a signal of p
FlagPid(p) ==
  /\ p \in reported
  /\ flagged' = flagged \cup {p}
  /\ UNCHANGED <<events, windows, seen, ghosts>>

\* the flag's 120 s are over; _triage drops it before it looks at the flags
Expire(p) ==
  /\ p \in flagged
  /\ flagged' = flagged \ {p}
  /\ UNCHANGED <<events, windows, seen, ghosts>>

Next == \/ \E e \in Events : Handle(e)
        \/ \E p \in Pids : FlagPid(p) \/ Expire(p)

Spec == Init /\ [][Next]_vars
-----------------------------------------------------------------------------
(* Properties.                                                              *)

\* Types of the detector's state; that no count is negative is what the
\* max(0, ...) of the code guards against.
TypeOK ==
  /\ events \in 0..MaxEvents
  /\ ppidMap \in [Pids -> Pids \cup {NoPid}]
  /\ lastSeen \in [Pids -> 0..MaxEvents]
  /\ window \in [Pids -> Seq(Events)]
  /\ entWin \in [Pids -> Seq(Types)]
  /\ hist \in [Pids -> [Types -> Nat]]
  /\ transWin \in [Pids -> Seq(Pairs)]
  /\ transHist \in [Pids -> [Pairs -> Nat]]
  /\ prevSc \in [Pids -> Types \cup {NoType}]
  /\ flagged \subseteq Pids
  /\ seenEdges \subseteq Comms \X Types
  /\ seenTrans \subseteq Comms \X Types \X Types

Count(q, x) == Cardinality({i \in DOMAIN q : q[i] = x})

\* The counts updated event by event are those of the windows: the entropies
\* are never computed from events that have slid out, or twice from one.
Statistics ==
  \A p \in Pids :
    /\ \A t \in Types : hist[p][t] = Count(entWin[p], t)
    /\ \A b \in Pairs : transHist[p][b] = Count(transWin[p], b)

LastOf(q, n) == IF Len(q) <= n THEN q ELSE SubSeq(q, Len(q) - n + 1, Len(q))
TypesOf(q)   == [i \in DOMAIN q |-> q[i].sc]
Bigrams(q)   == [i \in 1..(Len(q) - 1) |-> <<q[i], q[i + 1]>>]

\* Through eviction and return, the windows of a process are the ends of its
\* own event sequence since it was last forgotten: no transition is counted
\* across a gap, and none between events of two processes.
Windows ==
  \A p \in Pids :
    LET ts == TypesOf(trace[p]) IN
      /\ window[p] = LastOf(trace[p], WinSize)
      /\ entWin[p] = LastOf(ts, EntWin)
      /\ transWin[p] = LastOf(Bigrams(ts), EntWin)
      /\ prevSc[p] = IF ts = <<>> THEN NoType ELSE ts[Len(ts)]
      /\ (lastSeen[p] = 0) = (ts = <<>>)

\* The detector's incremental state is a function of what each process did.
StateFaithful == Statistics /\ Windows

\* Nothing becomes "seen", and so silent from then on, without a signal: every
\* edge and transition the gate has learnt was reported when it was learnt,
\* whatever bypasses, warm-up windows and evictions came before.
NoveltyReported == seenEdges \cup seenTrans \subseteq announced

=============================================================================
