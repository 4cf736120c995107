------------------------------ MODULE Guardian ------------------------------
(***************************************************************************)
(* SymbolicGuardian, the temporal axioms of the auditor.  Tier 1           *)
(* (RuntimeMonitor) is fed one event at a time and keeps a table of armed  *)
(* watches; tier 2 (BuchiMonitor) replays a finished window of events and  *)
(* keeps nothing, so it is an operator, checked on every stream tier 1 can *)
(* be fed.  A predicate on events is the set of the kinds that satisfy it. *)
(***************************************************************************)
EXTENDS Integers, Sequences, FiniteSets

CONSTANTS
  Pids, Kinds,
  SimpleAxioms,    \* tier 1: "no forbidden event within window of a trigger"
  TemporalAxioms,  \* tier 2: "trigger, then (not) consequence within window"
  WinSize,         \* the events the detector keeps of a process
  MaxEvents        \* bound on the number of events between two resets

Event == [pid : Pids, kind : Kinds]

SimpleAxiom == [id : STRING, trigger : SUBSET Kinds, forbidden : SUBSET Kinds,
                window : Nat,    \* 0 is unbounded
                self : BOOLEAN]  \* one event may be trigger and forbidden

TemporalAxiom == [id : STRING, trigger : SUBSET Kinds,
                  consequence : SUBSET Kinds, window : Nat,
                  negate : BOOLEAN]  \* the consequence is what is reported

ASSUME GuardianAssumption ==
  /\ \A ax \in SimpleAxioms :
       /\ {ax.trigger, ax.forbidden} \subseteq SUBSET Kinds
       /\ ax.window \in Nat /\ ax.self \in BOOLEAN
  /\ \A ax \in TemporalAxioms :
       /\ {ax.trigger, ax.consequence} \subseteq SUBSET Kinds
       /\ ax.window \in Nat /\ ax.negate \in BOOLEAN
  /\ WinSize \in Nat \ {0} /\ MaxEvents \in Nat

VARIABLES
  count,    \* _event_count: the events of all processes
  watches,  \* _watches: the armed axioms of each process
  stream,   \* history: the events since the last reset
  raised    \* history: the violations returned since the last reset

vars == <<count, watches, stream, raised>>

Watch     == [axiom : SimpleAxioms, armed : Nat]
Violation == [axiom : SimpleAxioms, armed : Nat, at : Nat]

Init ==
  /\ count = 0 /\ watches = [p \in Pids |-> {}]
  /\ stream = <<>> /\ raised = {}

-----------------------------------------------------------------------------
(* Tier 1.  An axiom's same_pid is not here: the watches of one process are *)
(* only ever compared with events of that process, whatever it says.        *)

\* the watches of the event's process that have not expired at event n
Alive(e, n) ==
  {w \in watches[e.pid] : w.axiom.window = 0 \/ n - w.armed <= w.axiom.window}

Fired(e, n) == {w \in Alive(e, n) : e.kind \in w.axiom.forbidden}

\* Mutants of Armed: an axiom that is already watched is not armed again;
\* the watch is entered under the number of the next event.
ArmedOnce(e, n) ==
  {[axiom |-> ax, armed |-> n] :
     ax \in {a \in SimpleAxioms : /\ e.kind \in a.trigger
                                  /\ \A w \in watches[e.pid] : w.axiom # a}}

ArmedNext(e, n) ==
  {[axiom |-> ax, armed |-> n + 1] :
     ax \in {a \in SimpleAxioms : e.kind \in a.trigger}}

Armed(e, n) ==
  {[axiom |-> ax, armed |-> n] : ax \in {a \in SimpleAxioms : e.kind \in a.trigger}}

\* violated by the event that arms them
Immediate(e, n) ==
  {w \in Armed(e, n) : w.axiom.self /\ e.kind \in w.axiom.forbidden}

\* Mutant of Keep: a fired watch is not consumed.
KeepFired(e, n) == (Alive(e, n) \cup Armed(e, n)) \ Immediate(e, n)

Keep(e, n) == (Alive(e, n) \ Fired(e, n)) \cup (Armed(e, n) \ Immediate(e, n))

Feed(e) ==
  LET n == count + 1 IN
    /\ count < MaxEvents
    /\ count' = n
    /\ watches' = [watches EXCEPT ![e.pid] = Keep(e, n)]
    /\ stream' = Append(stream, e)
    /\ raised' = raised \cup {[axiom |-> w.axiom, armed |-> w.armed, at |-> n] :
                                w \in Fired(e, n) \cup Immediate(e, n)}

Reset ==
  /\ count' = 0 /\ watches' = [p \in Pids |-> {}]
  /\ stream' = <<>> /\ raised' = {}

Next == Reset \/ \E e \in Event : Feed(e)

Spec == Init /\ [][Next]_vars

-----------------------------------------------------------------------------
(* Tier 2: the replay of a window q for one axiom.  Its state is the set of *)
(* its watches: where the trigger was, whose, and whether the consequence   *)
(* has been seen since.                                                     *)

Observe(ax, open, e) ==
  {[w EXCEPT !.seen = @ \/ (w.pid = e.pid /\ e.kind \in ax.consequence)] : w \in open}

\* Mutant of Replay: only the first trigger is watched.
ReplayFirst(ax, q) ==
  LET after[i \in 0..Len(q)] ==
        IF i = 0 THEN {}
        ELSE Observe(ax, after[i - 1], q[i]) \cup
             IF q[i].kind \in ax.trigger /\ after[i - 1] = {}
             THEN {[pid |-> q[i].pid, at |-> i, seen |-> FALSE]} ELSE {}
  IN after[Len(q)]

Replay(ax, q) ==
  LET after[i \in 0..Len(q)] ==
        IF i = 0 THEN {}
        ELSE Observe(ax, after[i - 1], q[i]) \cup
             IF q[i].kind \in ax.trigger
             THEN {[pid |-> q[i].pid, at |-> i, seen |-> FALSE]} ELSE {}
  IN after[Len(q)]

\* Mutant of Report: the deadline is taken one event too early.
ReportEarly(ax, q) ==
  {w.at : w \in {v \in Replay(ax, q) :
     \/ ax.negate /\ v.seen
     \/ ~ax.negate /\ ~v.seen /\ Len(q) - (v.at - 1) >= ax.window}}

\* The triggers reported (the code counts positions from 0).
Report(ax, q) ==
  {w.at : w \in {v \in Replay(ax, q) :
     \/ ax.negate /\ v.seen
     \/ ~ax.negate /\ ~v.seen /\ Len(q) - (v.at - 1) > ax.window}}

-----------------------------------------------------------------------------
(* Properties.                                                              *)

\* Types of the monitor's state; watches and violations point to past events.
TypeOK ==
  /\ count \in 0..MaxEvents
  /\ watches \in [Pids -> SUBSET Watch]
  /\ stream \in Seq(Event) /\ Len(stream) = count
  /\ raised \subseteq Violation
  /\ \A p \in Pids : \A w \in watches[p] : w.armed \in 1..count
  /\ \A v \in raised : v.armed \in 1..v.at /\ v.at \in 1..count

Triggers(ax, i)  == stream[i].kind \in ax.trigger
Hits(ax, i, k)   == /\ stream[k].pid = stream[i].pid /\ stream[k].kind \in ax.forbidden
                    /\ k # i \/ ax.self
InWindow(ax, i, j) == ax.window = 0 \/ j - i <= ax.window

\* The reference definition: j is the first event after the trigger i that
\* the axiom forbids to the trigger's process, and it is in the window.
Violates(ax, i, j) ==
  /\ Triggers(ax, i) /\ Hits(ax, i, j) /\ InWindow(ax, i, j)
  /\ \A k \in i..(j - 1) : ~Hits(ax, i, k)

\* The table of watches, with its expiry at a process's next event, its
\* consumption by a violation and its immediate ones, raises exactly the
\* violations of the reference definition: none is missed when processes
\* interleave, none is raised twice or after its window.
FeedExact ==
  \A ax \in SimpleAxioms, j \in 1..count : \A i \in 1..j :
    [axiom |-> ax, armed |-> i, at |-> j] \in raised <=> Violates(ax, i, j)

\* The watch table holds exactly the triggers that may still be violated, or
\* have expired since their process's last event.
Pending(p, ax, i) ==
  /\ stream[i].pid = p /\ Triggers(ax, i)
  /\ \A k \in i..count : ~Hits(ax, i, k)
  /\ \A k \in i..count : stream[k].pid = p => InWindow(ax, i, k)

WatchesExact ==
  \A p \in Pids, ax \in SimpleAxioms, i \in 1..count :
    [axiom |-> ax, armed |-> i] \in watches[p] <=> Pending(p, ax, i)

\* the events of process p in q
OfPid(q, p) ==
  LET own[i \in 0..Len(q)] ==
        IF i = 0 THEN <<>>
        ELSE IF q[i].pid = p THEN Append(own[i - 1], q[i]) ELSE own[i - 1]
  IN own[Len(q)]

LastOf(q, n) == IF Len(q) <= n THEN q ELSE SubSeq(q, Len(q) - n + 1, Len(q))

\* Does the process of event i do something in ks at one of the next n events?
Follows(i, n, ks) ==
  \E k \in (i + 1)..count :
    k - i <= n /\ stream[k].pid = stream[i].pid /\ stream[k].kind \in ks

\* Tier 2 on a whole stream.  A forbidden consequence in the window of its
\* trigger is reported; a missing one only when the trace goes on for the
\* whole window and it is not there.
TemporalExact ==
  \A ax \in TemporalAxioms, i \in 1..count :
    IF ax.negate
      THEN /\ Triggers(ax, i) /\ Follows(i, ax.window, ax.consequence)
                => i \in Report(ax, stream)
           /\ i \in Report(ax, stream)
                => Triggers(ax, i) /\ Follows(i, count, ax.consequence)
      ELSE i \in Report(ax, stream) =>
             /\ Triggers(ax, i) /\ ~Follows(i, ax.window, ax.consequence)
             /\ i + ax.window <= count

\* The auditor sees only the last WinSize events of the process.  That is
\* enough: when the consequence arrives within an axiom's window, shorter than
\* the detector's, the slice that ends with it still holds the trigger.
SlidingComplete ==
  \A p \in Pids, ax \in TemporalAxioms :
    LET own == OfPid(stream, p)
        q   == LastOf(own, WinSize)
    IN \A i \in 1..(Len(own) - 1) :
         /\ ax.negate /\ ax.window < WinSize /\ Len(own) - i <= ax.window
         /\ own[i].kind \in ax.trigger /\ own[Len(own)].kind \in ax.consequence
         => i - (Len(own) - Len(q)) \in Report(ax, q)
=============================================================================
