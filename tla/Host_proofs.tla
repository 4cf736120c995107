----------------------------- MODULE Host_proofs -----------------------------
(***************************************************************************)
(* Theorems of Host, for any number of processes, lives, records and       *)
(* dispatches and any sizes of ring and queue: types, what marks and       *)
(* signals achieve, what a dry run leaves alone, and that the intake       *)
(* implements LossyChannel.                                                *)
(***************************************************************************)
EXTENDS Host, TLAPS

\* The types of TypeOK, by who changes them.
IntakeType ==
  /\ loaded \in BOOLEAN /\ polling \in BOOLEAN
  /\ slice \in 0 .. Burst
  /\ ring \in Seq(EventRecords) /\ Len(ring) <= RingSize
  /\ queue \in Seq(EventRecords) /\ Len(queue) <= QueueSize
  /\ drain \in {"ready", "checked", "waiting", "woken", "busy"}
  /\ handling \in EventRecords \cup {NoEvent}
  /\ drain = "busy" => handling \in EventRecords

KernelType == proc \in [Pids -> Processes] /\ mark \in [Pids -> Signals]

TaskType ==
  /\ task \in [pc : Steps, pid : Pids \cup {NoEvent}, life : Lives, tier : Tiers]
  /\ task.pc # "idle" => task.pid \in Pids

AgentType ==
  /\ dryRun \in BOOLEAN /\ mapFds \in BOOLEAN
  /\ seen \in [Pids -> SUBSET Lives]
  /\ TaskType
  /\ killed \subseteq Pids \X Lives /\ contained \subseteq Pids \X Lives

WorkBound == sent \in Nat /\ decided \in Nat /\ sent + decided <= MaxWork

Typed == IntakeType /\ KernelType /\ AgentType /\ WorkBound

LEMMA TypedTypeOK == Typed => TypeOK
  BY HostAssumption
     DEF Typed, TypeOK, IntakeType, KernelType, AgentType, TaskType, WorkBound

-----------------------------------------------------------------------------
(* Types.                                                                   *)

LEMMA SubmitType ==
  ASSUME IntakeType, Reserved, NEW e \in EventRecords, Submit(e)
  PROVE  IntakeType'
<1>1. Len(ring') = Len(ring) + 1 /\ Len(ring') <= RingSize
  BY IntakeAssumption DEF IntakeType, Reserved, Submit
<1>2. ring' \in Seq(EventRecords)
  BY DEF IntakeType, Submit
<1>3. QED
  BY <1>1, <1>2 DEF IntakeType, Submit

LEMMA CallbackType ==
  ASSUME IntakeType, Callback
  PROVE  IntakeType'
<1>1. Head(ring) \in EventRecords /\ Tail(ring) \in Seq(EventRecords)
      /\ Len(Tail(ring)) <= RingSize
  BY IntakeAssumption DEF IntakeType, Callback
<1>2. queue' \in Seq(EventRecords) /\ Len(queue') <= QueueSize
  <2>1. CASE Len(queue) < QueueSize
    <3>1. queue' = Append(queue, Head(ring))
      BY <2>1 DEF Callback
    <3>2. /\ Append(queue, Head(ring)) \in Seq(EventRecords)
          /\ Len(Append(queue, Head(ring))) = Len(queue) + 1
      BY <1>1 DEF IntakeType
    <3>3. QED
      BY <2>1, <3>1, <3>2, IntakeAssumption DEF IntakeType
  <2>2. CASE ~(Len(queue) < QueueSize)
    BY <2>2 DEF IntakeType, Callback
  <2>3. QED
    BY <2>1, <2>2
<1>3. slice' \in 0 .. Burst
  BY IntakeAssumption DEF IntakeType, Callback
<1>4. /\ drain' \in {"ready", "checked", "waiting", "woken", "busy"}
      /\ drain' = "busy" => drain = "busy"
  BY DEF IntakeType, Callback
<1>5. QED
  BY <1>1, <1>2, <1>3, <1>4 DEF IntakeType, Callback

LEMMA TakeType ==
  ASSUME IntakeType, Take
  PROVE  IntakeType'
<1>1. Head(queue) \in EventRecords /\ Tail(queue) \in Seq(EventRecords)
      /\ Len(Tail(queue)) <= QueueSize
  BY IntakeAssumption DEF IntakeType, Take
<1>2. QED
  BY <1>1 DEF IntakeType, Take

LEMMA IntakeTypeStep ==
  ASSUME IntakeType, IntakeNext
  PROVE  IntakeType' /\ sent' = sent
<1>1. CASE Callback
  BY <1>1, CallbackType DEF Callback
<1>2. CASE Take
  BY <1>2, TakeType DEF Take
<1>3. CASE Poll \/ PollReturns \/ PollFails \/ SeeEmpty \/ Register \/ Resume \/ Handled
  <2>1. UNCHANGED <<loaded, sent, ring, queue, handling>>
    BY <1>3 DEF Poll, PollReturns, PollFails, PollEnds, SeeEmpty, Register, Resume, Handled
  <2>2. /\ polling' \in BOOLEAN /\ slice' \in 0 .. Burst
        /\ drain' \in {"ready", "checked", "waiting", "woken", "busy"}
        /\ drain' = "busy" => drain = "busy"
    <3>1. CASE Poll \/ PollReturns \/ PollFails
      BY <3>1 DEF IntakeType, Poll, PollReturns, PollFails, PollEnds
    <3>2. CASE SeeEmpty \/ Register
      BY <3>2, IntakeAssumption DEF IntakeType, SeeEmpty, Register
    <3>3. CASE Resume \/ Handled
      BY <3>3 DEF IntakeType, Resume, Handled
    <3>4. QED
      BY <1>3, <3>1, <3>2, <3>3
  <2>3. QED
    BY <2>1, <2>2 DEF IntakeType
<1>4. QED
  BY <1>1, <1>2, <1>3 DEF IntakeNext

LEMMA StrongerType ==
  ASSUME NEW s \in Signals, NEW t \in Signals
  PROVE  /\ Stronger(s, t) \in Signals
         /\ Stronger(s, t) = "SIGKILL" <=> s = "SIGKILL" \/ t = "SIGKILL"
         /\ Stronger(s, t) = "none" <=> s = "none" /\ t = "none"
  BY DEF Stronger, Rank, Signals

\* a step overwrites some of a process's fields
LEMMA FieldsType ==
  ASSUME NEW r \in Processes, NEW st \in States, NEW sig \in Signals,
         NEW doom \in Signals
  PROVE  /\ [r EXCEPT !.st = st] \in Processes
         /\ [r EXCEPT !.sig = sig] \in Processes
         /\ [r EXCEPT !.st = st, !.sig = sig] \in Processes
         /\ [r EXCEPT !.st = st, !.doom = doom] \in Processes
         /\ [r EXCEPT !.st = st, !.sig = sig, !.doom = doom] \in Processes
  BY DEF Processes

LEMMA ProcessType ==
  ASSUME KernelType, NEW p \in Pids
  PROVE  /\ proc[p] \in Processes /\ mark[p] \in Signals
         /\ proc[p].life \in Lives /\ proc[p].st \in States
         /\ proc[p].sig \in Signals /\ proc[p].doom \in Signals
  BY DEF KernelType, Processes

-----------------------------------------------------------------------------
(* What a step makes of a process: the invariants speak of one process each. *)

\* what MarksHold says of a process, and that a stop is also pending in exec
MarkHolds(r) ==
  /\ r.doom = "SIGKILL" => r.st \in {"absent", "zombie"} \/ r.sig = "SIGKILL"
  /\ r.doom = "SIGSTOP" /\ r.st \in {"user", "exec"} => r.sig # "none"

\* life l of the process is over, or about to be
Doomed(r, l) == r.life > l \/ r.st \in {"absent", "zombie"} \/ r.sig = "SIGKILL"

Evolves(r, s) ==
  /\ s \in Processes /\ r.life <= s.life
  /\ MarkHolds(r) => MarkHolds(s)
  /\ \A l \in Lives : l <= r.life /\ Doomed(r, l) => Doomed(s, l)

Untouched(r) == r.sig = "none" /\ r.st # "stopped"

\* The steps of a process that leave the intake alone.
Quiet(p) == Fork(p) \/ Exit(p) \/ Reap(p) \/ Deliver(p) \/ Continue(p) \/ ExecFails(p)

\* The steps that may emit a record.
Loud(p) == ExecEnter(p) \/ ExecCheck(p) \/ Traced(p)

LEMMA QuietEvolves ==
  ASSUME KernelType, NEW p \in Pids, Quiet(p)
  PROVE  \E s \in Processes :
           /\ proc' = [proc EXCEPT ![p] = s]
           /\ Evolves(proc[p], s)
           /\ Untouched(proc[p]) => Untouched(s)
<1> USE ProcessType DEF Set, Evolves, MarkHolds, Doomed, Untouched, Exists
<1>1. CASE Fork(p)
  <2> DEFINE s == [life |-> proc[p].life + 1, st |-> "user", sig |-> "none",
                   doom |-> "none"]
  <2>1. s \in Processes /\ proc[p].life \in Nat
    BY <1>1, HostAssumption DEF Fork, Lives, Processes, States, Signals
  <2>2. Set(p, s)
    BY <1>1 DEF Fork
  <2>3. \A l \in Lives : l <= proc[p].life => s.life > l
    BY <2>1, HostAssumption DEF Lives
  <2>4. Evolves(proc[p], s) /\ Untouched(s)
    BY <2>1, <2>3
  <2>5. QED
    BY <2>1, <2>2, <2>4
<1>2. CASE Exit(p)
  <2> DEFINE s == [proc[p] EXCEPT !.st = "zombie", !.sig = "none"]
  <2>1. s \in Processes /\ Set(p, s)
    BY <1>2, FieldsType DEF Exit, States, Signals
  <2>2. s.life = proc[p].life /\ s.st = "zombie" /\ s.sig = "none" /\ s.life \in Nat
    BY <2>1, HostAssumption DEF Processes, Lives
  <2>3. Evolves(proc[p], s) /\ (Untouched(proc[p]) => Untouched(s))
    BY <2>1, <2>2
  <2>4. QED
    BY <2>1, <2>3
<1>3. CASE Reap(p)
  <2> DEFINE s == [proc[p] EXCEPT !.st = "absent"]
  <2>1. s \in Processes /\ Set(p, s)
    BY <1>3, FieldsType DEF Reap, States, Signals
  <2>2. s.life = proc[p].life /\ s.st = "absent" /\ s.sig = proc[p].sig /\ s.life \in Nat
    BY <2>1, HostAssumption DEF Processes, Lives
  <2>3. Evolves(proc[p], s) /\ (Untouched(proc[p]) => Untouched(s))
    BY <2>1, <2>2
  <2>4. QED
    BY <2>1, <2>3
<1>4. CASE Deliver(p)
  <2>1. CASE proc[p].sig = "SIGKILL"
    <3> DEFINE s == [proc[p] EXCEPT !.st = "zombie", !.sig = "none"]
    <3>1. s \in Processes /\ Set(p, s)
      BY <1>4, <2>1, FieldsType DEF Deliver, States, Signals
    <3>2. s.life = proc[p].life /\ s.st = "zombie" /\ s.sig = "none" /\ s.life \in Nat
      BY <3>1, HostAssumption DEF Processes, Lives
    <3>3. Evolves(proc[p], s) /\ (Untouched(proc[p]) => Untouched(s))
      BY <3>1, <3>2
    <3>4. QED
      BY <3>1, <3>3
  <2>2. CASE proc[p].sig # "SIGKILL"
    <3> DEFINE s == [proc[p] EXCEPT !.st = "stopped", !.sig = "none"]
    <3>1. s \in Processes /\ Set(p, s) /\ proc[p].st = "user" /\ proc[p].sig = "SIGSTOP"
      BY <1>4, <2>2, FieldsType DEF Deliver, States, Signals
    <3>2. /\ s.life = proc[p].life /\ s.st = "stopped" /\ s.doom = proc[p].doom
          /\ s.life \in Nat
      BY <3>1, HostAssumption DEF Processes, Lives
    <3>3. Evolves(proc[p], s) /\ (Untouched(proc[p]) => Untouched(s))
      BY <3>1, <3>2
    <3>4. QED
      BY <3>1, <3>3
  <2>3. QED
    BY <2>1, <2>2
<1>5. CASE Continue(p)
  <2> DEFINE s == [proc[p] EXCEPT !.st = "user", !.doom = "none"]
  <2>1. s \in Processes /\ Set(p, s) /\ proc[p].st = "stopped"
    BY <1>5, FieldsType DEF Continue, States, Signals
  <2>2. /\ s.life = proc[p].life /\ s.sig = proc[p].sig /\ s.doom = "none"
        /\ s.life \in Nat
    BY <2>1, HostAssumption DEF Processes, Lives
  <2>3. Evolves(proc[p], s) /\ (Untouched(proc[p]) => Untouched(s))
    BY <2>1, <2>2
  <2>4. QED
    BY <2>1, <2>3
<1>6. CASE ExecFails(p)
  <2> DEFINE s == [proc[p] EXCEPT !.st = "user"]
  <2>1. s \in Processes /\ Set(p, s) /\ proc[p].st = "exec"
    BY <1>6, FieldsType DEF ExecFails, States, Signals
  <2>2. /\ s.life = proc[p].life /\ s.sig = proc[p].sig /\ s.doom = proc[p].doom
        /\ s.st = "user" /\ s.life \in Nat
    BY <2>1, HostAssumption DEF Processes, Lives
  <2>3. Evolves(proc[p], s) /\ (Untouched(proc[p]) => Untouched(s))
    BY <2>1, <2>2
  <2>4. QED
    BY <2>1, <2>3
<1>7. QED
  BY <1>1, <1>2, <1>3, <1>4, <1>5, <1>6 DEF Quiet

\* The look at enforce_map, on entering exec and at the LSM check.
LEMMA EnforcedEvolves ==
  ASSUME KernelType, NEW p \in Pids, NEW st \in {"user", "exec"},
         \/ proc[p].st = "user" /\ proc[p].sig = "none"
         \/ proc[p].st = "exec"
  PROVE  /\ Evolves(proc[p], Enforced(p, st))
         /\ Untouched(proc[p]) /\ mark[p] = "none" => Untouched(Enforced(p, st))
<1> DEFINE s == Enforced(p, st)
<1>1. /\ proc[p] \in Processes /\ proc[p].life \in Nat
      /\ proc[p].sig \in Signals /\ proc[p].doom \in Signals /\ mark[p] \in Signals
  BY ProcessType, HostAssumption DEF Lives
<1>2. /\ Stronger(proc[p].sig, mark[p]) \in Signals
      /\ Stronger(proc[p].doom, mark[p]) \in Signals
      /\ st \in States
  BY <1>1, StrongerType DEF States
<1>3. s \in Processes
  BY <1>1, <1>2, FieldsType DEF Enforced
<1>4. /\ s.life = proc[p].life /\ s.st = st
      /\ s.sig = Stronger(proc[p].sig, mark[p])
      /\ s.doom = Stronger(proc[p].doom, mark[p])
  BY <1>1 DEF Enforced, Processes
<1>5. MarkHolds(proc[p]) => MarkHolds(s)
  <2> DEFINE m == mark[p]
             d == proc[p].doom
             g == proc[p].sig
  <2>1. /\ s.sig = "SIGKILL" <=> g = "SIGKILL" \/ m = "SIGKILL"
        /\ s.sig = "none" <=> g = "none" /\ m = "none"
        /\ s.doom = "SIGKILL" <=> d = "SIGKILL" \/ m = "SIGKILL"
        /\ s.doom = "none" <=> d = "none" /\ m = "none"
    BY <1>1, <1>4, StrongerType
  <2>2. d \in Signals /\ m \in Signals
    BY <1>1
  <2>3. g = "none" \/ proc[p].st = "exec"
    OBVIOUS
  <2>4. ASSUME MarkHolds(proc[p]), s.doom = "SIGKILL"
        PROVE  s.sig = "SIGKILL"
    BY <2>1, <2>3, <2>4 DEF MarkHolds
  <2>5. ASSUME MarkHolds(proc[p]), s.doom = "SIGSTOP"
        PROVE  s.sig # "none"
    <3>1. d = "SIGSTOP" \/ m = "SIGSTOP"
      BY <2>1, <2>2, <2>5 DEF Signals
    <3>2. QED
      BY <2>1, <2>3, <2>5, <3>1 DEF MarkHolds
  <2>6. QED
    BY <2>4, <2>5 DEF MarkHolds
<1>6. \A l \in Lives : l <= proc[p].life /\ Doomed(proc[p], l) => Doomed(s, l)
  BY <1>1, <1>4, StrongerType DEF Doomed
<1>7. Untouched(proc[p]) /\ mark[p] = "none" => Untouched(s)
  BY <1>1, <1>4, StrongerType DEF Untouched
<1>8. QED
  BY <1>1, <1>3, <1>4, <1>5, <1>6, <1>7 DEF Evolves

\* A signal that is sent.
LEMMA SignalledEvolves ==
  ASSUME KernelType, NEW p \in Pids, NEW sent_signal \in {"SIGSTOP", "SIGKILL"}
  PROVE  /\ Evolves(proc[p], Signalled(p, sent_signal))
         /\ sent_signal = "SIGKILL" => Signalled(p, sent_signal).sig = "SIGKILL"
<1> DEFINE s == Signalled(p, sent_signal)
<1>1. /\ proc[p] \in Processes /\ proc[p].life \in Nat /\ proc[p].sig \in Signals
  BY ProcessType, HostAssumption DEF Lives
<1>2. CASE proc[p].st = "stopped" /\ sent_signal = "SIGSTOP"
  BY <1>1, <1>2 DEF Signalled, Evolves
<1>3. CASE ~(proc[p].st = "stopped" /\ sent_signal = "SIGSTOP")
  <2> DEFINE g == Stronger(proc[p].sig, sent_signal)
  <2>1. s = [proc[p] EXCEPT !.sig = g]
    BY <1>3 DEF Signalled
  <2>2. s \in Processes
    <3>1. g \in Signals
      BY <1>1, StrongerType DEF Signals
    <3>2. [proc[p] EXCEPT !.sig = g] \in Processes
      BY <1>1, <3>1 DEF Processes
    <3>3. QED
      BY <2>1, <3>2
  <2>3. /\ s.life = proc[p].life /\ s.st = proc[p].st /\ s.doom = proc[p].doom
        /\ s.sig = Stronger(proc[p].sig, sent_signal)
    BY <1>1, <2>1 DEF Processes
  <2>4. /\ proc[p].sig = "SIGKILL" \/ sent_signal = "SIGKILL" => s.sig = "SIGKILL"
        /\ s.sig # "none"
    BY <1>1, <2>3, StrongerType DEF Signals
  <2>5. QED
    BY <1>1, <2>2, <2>3, <2>4 DEF Evolves, MarkHolds, Doomed
<1>4. QED
  BY <1>2, <1>3

LEMMA QuietType ==
  ASSUME Typed, NEW p \in Pids, Quiet(p)
  PROVE  Typed'
<1>1. mark' = mark /\ UNCHANGED <<intakeVars, configVars, agentVars>>
  BY DEF Quiet, Fork, Exit, Reap, Deliver, Continue, ExecFails, Kernel
<1>2. KernelType'
  <2>1. KernelType
    BY DEF Typed
  <2>2. PICK s \in Processes : proc' = [proc EXCEPT ![p] = s]
    BY <2>1, QuietEvolves
  <2>3. QED
    BY <1>1, <2>1, <2>2 DEF KernelType
<1>3. QED
  BY <1>1, <1>2 DEF Typed, IntakeType, AgentType, TaskType, WorkBound, intakeVars,
                   configVars, agentVars

LEMMA EmitType ==
  ASSUME Typed, NEW p \in Pids, Reserved, Emit(p)
  PROVE  IntakeType' /\ sent' = sent + 1 /\ sent + decided < MaxWork
<1>1. [n |-> sent + 1, pid |-> p, life |-> proc[p].life] \in EventRecords
  BY ProcessType, HostAssumption DEF Typed, WorkBound, Emit, EventRecords
<1>2. QED
  BY <1>1, SubmitType DEF Typed, Emit, Submit

LEMMA LoudType ==
  ASSUME Typed, NEW p \in Pids, Loud(p)
  PROVE  Typed'
<1>1. KernelType'
  <2>1. CASE Traced(p)
    BY <2>1 DEF Traced, kernelVars, Typed, KernelType
  <2>2. CASE ExecEnter(p)
    BY <2>2, EnforcedEvolves
       DEF ExecEnter, InUserMode, Evolves, Typed, KernelType, Set
  <2>3. CASE ExecCheck(p)
    BY <2>3, EnforcedEvolves DEF ExecCheck, Evolves, Typed, KernelType, Set
  <2>4. QED
    BY <2>1, <2>2, <2>3 DEF Loud
<1>2. (Reserved /\ Emit(p)) \/ UNCHANGED intakeVars
  BY DEF Loud, ExecEnter, ExecCheck, Traced
<1>3. UNCHANGED <<configVars, agentVars>>
  BY DEF Loud, ExecEnter, ExecCheck, Traced, Kernel
<1>4. AgentType' /\ decided' = decided
  BY <1>3 DEF Typed, AgentType, TaskType, configVars, agentVars
<1>5. IntakeType' /\ WorkBound'
  <2>1. CASE Reserved /\ Emit(p)
    BY <1>4, <2>1, EmitType, HostAssumption DEF Typed, WorkBound
  <2>2. CASE UNCHANGED intakeVars
    BY <1>4, <2>2 DEF Typed, IntakeType, WorkBound, intakeVars
  <2>3. QED
    BY <1>2, <2>1, <2>2
<1>6. QED
  BY <1>1, <1>4, <1>5 DEF Typed

LEMMA GoType ==
  ASSUME TaskType, NEW pc \in Steps, task.pc # "idle", Go(pc)
  PROVE  TaskType'
<1>1. CASE pc = "idle"
  BY <1>1, HostAssumption DEF TaskType, Go, Idle, Steps, Tiers, Lives
<1>2. CASE pc # "idle"
  BY <1>2 DEF TaskType, Go
<1>3. QED
  BY <1>1, <1>2

\* The dispatch: what SendSignal, MarkPid and the containment steps change.
Dispatch ==
  (\E permitted \in BOOLEAN : SendSignal(permitted))
  \/ MarkPid \/ DumpProc \/ QuarantineNet \/ FreezeCgroup

LEMMA DispatchEvolves ==
  ASSUME KernelType, TaskType, NEW permitted \in BOOLEAN, SendSignal(permitted)
  PROVE  /\ task.pid \in Pids
         /\ proc' = proc \/ \E s \in Processes :
                              /\ proc' = [proc EXCEPT ![task.pid] = s]
                              /\ Evolves(proc[task.pid], s)
<1>1. task.pid \in Pids
  BY DEF SendSignal, TaskType
<1> DEFINE s == Signalled(task.pid, SignalOf(task.tier))
<1>2. SignalOf(task.tier) \in {"SIGSTOP", "SIGKILL"}
  BY DEF SignalOf
<1>3. s \in Processes /\ Evolves(proc[task.pid], s)
  BY <1>1, <1>2, SignalledEvolves DEF Evolves
<1>4. proc' = proc \/ proc' = [proc EXCEPT ![task.pid] = s]
  BY DEF SendSignal, Set
<1>5. QED
  BY <1>1, <1>3, <1>4

LEMMA DispatchType ==
  ASSUME Typed, Dispatch
  PROVE  Typed'
<1>1. UNCHANGED <<intakeVars, configVars, seen, decided>>
  BY DEF Dispatch, SendSignal, MarkPid, DumpProc, QuarantineNet, FreezeCgroup, kernelVars
<1>2. task.pc # "idle" /\ task.pid \in Pids /\ TaskType
  BY DEF Dispatch, SendSignal, MarkPid, DumpProc, QuarantineNet, FreezeCgroup, Typed,
         AgentType, TaskType
<1>3. TaskType'
  <2>1. CASE \E permitted \in BOOLEAN : SendSignal(permitted)
    BY <1>2, <2>1 DEF SendSignal, TaskType, Steps
  <2>2. CASE MarkPid \/ DumpProc \/ QuarantineNet \/ FreezeCgroup
    BY <1>2, <2>2, GoType DEF MarkPid, DumpProc, QuarantineNet, FreezeCgroup, Steps
  <2>3. QED
    BY <2>1, <2>2 DEF Dispatch
<1>4. KernelType'
  <2>1. CASE \E permitted \in BOOLEAN : SendSignal(permitted)
    <3>1. mark' = mark
      BY <2>1 DEF SendSignal
    <3>2. PICK permitted \in BOOLEAN : SendSignal(permitted)
      BY <2>1
    <3>3. QED
      BY <1>2, <3>1, <3>2, DispatchEvolves DEF Typed, KernelType
  <2>2. CASE MarkPid
    BY <1>2, <2>2 DEF MarkPid, SignalOf, Signals, Typed, KernelType
  <2>3. CASE DumpProc \/ QuarantineNet \/ FreezeCgroup
    BY <2>3 DEF DumpProc, QuarantineNet, FreezeCgroup, kernelVars, Typed, KernelType
  <2>4. QED
    BY <2>1, <2>2, <2>3 DEF Dispatch
<1>5. killed' \subseteq Pids \X Lives
  <2>1. task.life \in Lives
    BY <1>2 DEF TaskType
  <2>2. killed' = killed \/ killed' = killed \cup {<<task.pid, task.life>>}
    BY DEF Dispatch, SendSignal, MarkPid, DumpProc, QuarantineNet, FreezeCgroup
  <2>3. QED
    BY <1>2, <2>1, <2>2 DEF Typed, AgentType
<1>6. contained' \subseteq Pids \X Lives
  <2>1. proc[task.pid].life \in Lives
    BY <1>2, ProcessType DEF Typed
  <2>2. contained' = contained
        \/ contained' = contained \cup {<<task.pid, proc[task.pid].life>>}
    BY DEF Dispatch, SendSignal, MarkPid, DumpProc, QuarantineNet, FreezeCgroup, Contain
  <2>3. QED
    BY <1>2, <2>1, <2>2 DEF Typed, AgentType
<1>7. IntakeType' /\ WorkBound'
  BY <1>1 DEF Typed, IntakeType, WorkBound, intakeVars
<1>8. QED
  BY <1>1, <1>3, <1>4, <1>5, <1>6, <1>7 DEF Typed, AgentType, configVars

\* The agent up to a dispatch.
Observing ==
  Intake \/ Handle \/ (\E p \in Pids : Simulate(p))
  \/ (\E p \in Pids, l \in Lives, t \in Tiers : Decide(p, l, t))

LEMMA ObservingType ==
  ASSUME Typed, Observing
  PROVE  Typed' /\ UNCHANGED kernelVars
<1>1. CASE Intake
  <2>1. IntakeNext /\ UNCHANGED <<configVars, kernelVars, agentVars>>
    BY <1>1 DEF Intake, IntakeNext
  <2>2. IntakeType' /\ sent' = sent
    BY <2>1, IntakeTypeStep DEF Typed
  <2>3. QED
    BY <2>1, <2>2 DEF Typed, KernelType, AgentType, TaskType, WorkBound, configVars,
                     kernelVars, agentVars
<1>2. CASE Handle
  <2>1. /\ IntakeNext /\ Observe(handling.pid, handling.life)
        /\ UNCHANGED <<configVars, kernelVars, task, decided, killed, contained>>
    BY <1>2 DEF Handle, IntakeNext
  <2>2. IntakeType' /\ sent' = sent
    BY <2>1, IntakeTypeStep DEF Typed
  <2>3. handling.pid \in Pids /\ handling.life \in Lives
    BY <1>2 DEF Handle, Handled, Typed, IntakeType, EventRecords
  <2>4. seen' \in [Pids -> SUBSET Lives]
    BY <2>1, <2>3 DEF Observe, Typed, AgentType
  <2>5. QED
    BY <2>1, <2>2, <2>4 DEF Typed, KernelType, AgentType, TaskType, WorkBound,
                           configVars, kernelVars
<1>3. CASE \E p \in Pids : Simulate(p)
  <2>1. seen' \in [Pids -> SUBSET Lives]
    BY <1>3, HostAssumption DEF Simulate, Observe, Typed, AgentType, Lives
  <2>2. UNCHANGED <<intakeVars, configVars, kernelVars, task, decided, killed, contained>>
    BY <1>3 DEF Simulate
  <2>3. QED
    BY <2>1, <2>2 DEF Typed, IntakeType, KernelType, AgentType, TaskType, WorkBound,
                     intakeVars, configVars, kernelVars
<1>4. CASE \E p \in Pids, l \in Lives, t \in Tiers : Decide(p, l, t)
  <2>1. TaskType' /\ WorkBound'
    BY <1>4, HostAssumption DEF Decide, TaskType, Steps, Typed, WorkBound, intakeVars
  <2>2. UNCHANGED <<intakeVars, configVars, kernelVars, seen, killed, contained>>
    BY <1>4 DEF Decide
  <2>3. QED
    BY <2>1, <2>2 DEF Typed, IntakeType, KernelType, AgentType, intakeVars, configVars,
                     kernelVars
<1>5. QED
  BY <1>1, <1>2, <1>3, <1>4 DEF Observing

\* The four ways in which a step comes about.
LEMMA NextCases ==
  ASSUME Next
  PROVE  \/ \E p \in Pids : Quiet(p) \/ Loud(p)
         \/ Dispatch \/ Observing
  BY DEF Next, ProcessNext, AgentNext, Quiet, Loud, Dispatch, Observing

LEMMA TypedInit == Init => Typed
<1> SUFFICES ASSUME Init PROVE Typed
  OBVIOUS
<1>1. IntakeType /\ WorkBound
  <2>1. /\ <<>> \in Seq(EventRecords) /\ Len(<<>>) <= RingSize
        /\ Len(<<>>) <= QueueSize /\ 0 \in 0 .. Burst
    BY IntakeAssumption
  <2>2. IntakeInit /\ decided = 0
    BY DEF Init
  <2>3. loaded \in BOOLEAN /\ polling \in BOOLEAN
    BY <2>2 DEF IntakeInit
  <2>4. WorkBound
    BY <2>2, HostAssumption DEF IntakeInit, WorkBound
  <2>5. QED
    BY <2>1, <2>2, <2>3, <2>4 DEF IntakeInit, IntakeType
<1>2. 0 \in Lives
  BY HostAssumption DEF Lives
<1>3. KernelType
  BY <1>2 DEF Init, KernelType, Processes, States, Signals
<1>4. TaskType
  BY <1>2 DEF Init, TaskType, Idle, Steps, Tiers
<1>5. AgentType
  BY <1>4 DEF Init, AgentType
<1>6. QED
  BY <1>1, <1>3, <1>5 DEF Typed

LEMMA TypedStep == Typed /\ [Next]_vars => Typed'
<1>1. ASSUME Typed, Next PROVE Typed'
  BY <1>1, NextCases, QuietType, LoudType, DispatchType, ObservingType
<1>2. ASSUME Typed, UNCHANGED vars PROVE Typed'
  BY <1>2 DEF vars, intakeVars, configVars, kernelVars, agentVars, Typed, IntakeType,
             KernelType, AgentType, TaskType, WorkBound
<1>3. QED
  BY <1>1, <1>2

\* The state of kernel, intake and dispatch keeps its types, and ring and queue
\* stay within their sizes (sentinel.c:121-127, agent.py:259).
THEOREM TypeCorrect == Spec => []TypeOK
<1>1. Spec => []Typed
  BY TypedInit, TypedStep, PTL DEF Spec
<1>2. QED
  BY <1>1, TypedTypeOK, PTL

-----------------------------------------------------------------------------
(* Safety.                                                                  *)

LEMMA ProcEvolves ==
  ASSUME Typed, [Next]_vars, NEW q \in Pids
  PROVE  Evolves(proc[q], proc'[q])
<1>1. Evolves(proc[q], proc[q])
  BY ProcessType, HostAssumption DEF Typed, Evolves, Lives
<1>2. ASSUME NEW p \in Pids, NEW s \in Processes, Evolves(proc[p], s),
             proc' = [proc EXCEPT ![p] = s]
      PROVE  Evolves(proc[q], proc'[q])
  BY <1>1, <1>2 DEF Typed, KernelType
<1>3. ASSUME NEW p \in Pids, Quiet(p) PROVE Evolves(proc[q], proc'[q])
  BY <1>2, <1>3, QuietEvolves DEF Typed
<1>4. ASSUME NEW p \in Pids, Loud(p) PROVE Evolves(proc[q], proc'[q])
  <2>1. CASE Traced(p)
    BY <1>1, <2>1 DEF Traced, kernelVars
  <2>2. CASE ExecEnter(p)
    BY <1>2, <2>2, EnforcedEvolves DEF ExecEnter, InUserMode, Evolves, Set, Typed
  <2>3. CASE ExecCheck(p)
    BY <1>2, <2>3, EnforcedEvolves DEF ExecCheck, Evolves, Set, Typed
  <2>4. QED
    BY <1>4, <2>1, <2>2, <2>3 DEF Loud
<1>5. CASE Dispatch
  <2>1. CASE \E permitted \in BOOLEAN : SendSignal(permitted)
    <3>1. PICK permitted \in BOOLEAN : SendSignal(permitted)
      BY <2>1
    <3>2. QED
      BY <1>1, <1>2, <3>1, DispatchEvolves DEF Typed, AgentType
  <2>2. CASE MarkPid \/ DumpProc \/ QuarantineNet \/ FreezeCgroup
    BY <1>1, <2>2 DEF MarkPid, DumpProc, QuarantineNet, FreezeCgroup, kernelVars
  <2>3. QED
    BY <1>5, <2>1, <2>2 DEF Dispatch
<1>6. CASE Observing
  BY <1>1, <1>6, ObservingType DEF kernelVars
<1>7. CASE UNCHANGED vars
  BY <1>1, <1>7 DEF vars, kernelVars
<1>8. QED
  BY <1>3, <1>4, <1>5, <1>6, <1>7, NextCases

MarksInv == \A p \in Pids : MarkHolds(proc[p])

\* A process whose pid is marked when its exec enters the kernel or reaches the
\* LSM check (sentinel.c:197-201, 235-275, 474-504) does not go on to the new
\* program, whatever else happens to it.
THEOREM MarksAreEnforced == Spec => []MarksHold
<1>1. Init => MarksInv
  BY DEF Init, MarksInv, MarkHolds
<1>2. Typed /\ MarksInv /\ [Next]_vars => MarksInv'
  BY ProcEvolves DEF MarksInv, Evolves
<1>3. MarksInv => MarksHold
  BY DEF MarksInv, MarkHolds, MarksHold, Exists
<1>4. QED
  BY <1>1, <1>2, <1>3, TypedInit, TypedStep, PTL DEF Spec

(* Whatever the agent knows of a pid, it knows of its present life or of an    *)
(* earlier one.                                                               *)

Known(e, r) == e.life <= r[e.pid].life

Lived ==
  /\ \A i \in 1 .. Len(ring) : Known(ring[i], proc)
  /\ \A i \in 1 .. Len(queue) : Known(queue[i], proc)
  /\ drain = "busy" => Known(handling, proc)
  /\ \A p \in Pids : \A l \in seen[p] : l <= proc[p].life
  /\ task.pc # "idle" => Known(task, proc)

LEMMA LivesGrow ==
  ASSUME Typed, [Next]_vars, NEW p \in Pids, NEW l \in Lives, l <= proc[p].life
  PROVE  l <= proc'[p].life
<1>1. proc[p].life \in Nat /\ proc'[p].life \in Nat /\ l \in Nat
  BY TypedStep, HostAssumption DEF Typed, KernelType, Processes, Lives
<1>2. proc[p].life <= proc'[p].life
  BY ProcEvolves DEF Evolves
<1>3. QED
  BY <1>1, <1>2

LEMMA KnownStays ==
  ASSUME Typed, [Next]_vars, NEW e, e.pid \in Pids, e.life \in Lives, Known(e, proc)
  PROVE  Known(e, proc')
  BY LivesGrow DEF Known

\* Where the records of the ring and the queue come from.
LEMMA RecordsMove ==
  ASSUME Typed, Next
  PROVE  /\ \A i \in 1 .. Len(ring') :
              \/ \E j \in 1 .. Len(ring) : ring'[i] = ring[j]
              \/ ring'[i].pid \in Pids /\ ring'[i].life = proc[ring'[i].pid].life
         /\ \A i \in 1 .. Len(queue') :
              \/ \E j \in 1 .. Len(queue) : queue'[i] = queue[j]
              \/ \E j \in 1 .. Len(ring) : queue'[i] = ring[j]
         /\ drain' = "busy" =>
              \/ drain = "busy" /\ handling' = handling
              \/ \E j \in 1 .. Len(queue) : handling' = queue[j]
<1> DEFINE Moved == /\ \A i \in 1 .. Len(ring') :
                         \/ \E j \in 1 .. Len(ring) : ring'[i] = ring[j]
                         \/ /\ ring'[i].pid \in Pids
                            /\ ring'[i].life = proc[ring'[i].pid].life
                    /\ \A i \in 1 .. Len(queue') :
                         \/ \E j \in 1 .. Len(queue) : queue'[i] = queue[j]
                         \/ \E j \in 1 .. Len(ring) : queue'[i] = ring[j]
                    /\ drain' = "busy" =>
                         \/ drain = "busy" /\ handling' = handling
                         \/ \E j \in 1 .. Len(queue) : handling' = queue[j]
<1>1. ASSUME NEW p \in Pids, Reserved, Emit(p) PROVE Moved
  <2> DEFINE e == [n |-> sent + 1, pid |-> p, life |-> proc[p].life]
  <2>1. ring' = Append(ring, e) /\ UNCHANGED <<queue, drain, handling>>
    BY <1>1 DEF Emit, Submit
  <2>2. ring \in Seq(EventRecords) /\ Len(ring) \in Nat
    BY DEF Typed, IntakeType
  <2>3. \A i \in 1 .. Len(ring') : \/ i \in 1 .. Len(ring) /\ ring'[i] = ring[i]
                                   \/ ring'[i] = e
    BY <2>1, <2>2
  <2>4. e.pid = p /\ e.life = proc[p].life
    OBVIOUS
  <2>5. QED
    BY <2>1, <2>3, <2>4
<1>2. CASE UNCHANGED intakeVars
  BY <1>2 DEF intakeVars
<1>3. CASE Callback
  <2>1. /\ ring \in Seq(EventRecords) /\ Len(ring) \in Nat /\ Len(ring) > 0
        /\ queue \in Seq(EventRecords) /\ Len(queue) \in Nat
    BY <1>3 DEF Typed, IntakeType, Callback
  <2>2. \A i \in 1 .. Len(Tail(ring)) : i + 1 \in 1 .. Len(ring) /\ Tail(ring)[i] = ring[i + 1]
    BY <2>1
  <2>3. Head(ring) = ring[1] /\ 1 \in 1 .. Len(ring)
    BY <2>1
  <2>4. ring' = Tail(ring) /\ handling' = handling
        /\ (queue' = queue \/ queue' = Append(queue, Head(ring)))
        /\ (drain' = "busy" => drain = "busy")
    BY <1>3 DEF Callback
  <2>5. \A i \in 1 .. Len(Append(queue, Head(ring))) :
           \/ i \in 1 .. Len(queue) /\ Append(queue, Head(ring))[i] = queue[i]
           \/ Append(queue, Head(ring))[i] = ring[1]
    BY <2>1, <2>3
  <2>6. QED
    BY <2>2, <2>3, <2>4, <2>5
<1>4. CASE Take
  <2>1. queue \in Seq(EventRecords) /\ Len(queue) \in Nat /\ Len(queue) > 0
    BY <1>4 DEF Typed, IntakeType, Take
  <2>2. \A i \in 1 .. Len(Tail(queue)) :
           i + 1 \in 1 .. Len(queue) /\ Tail(queue)[i] = queue[i + 1]
    BY <2>1
  <2>3. Head(queue) = queue[1] /\ 1 \in 1 .. Len(queue)
    BY <2>1
  <2>4. ring' = ring /\ queue' = Tail(queue) /\ handling' = Head(queue)
    BY <1>4 DEF Take
  <2>5. QED
    BY <2>2, <2>3, <2>4
<1>5. CASE Poll \/ PollReturns \/ PollFails \/ SeeEmpty \/ Register \/ Resume \/ Handled
  <2>1. UNCHANGED <<ring, queue, handling>> /\ (drain' = "busy" => drain = "busy")
    BY <1>5 DEF Poll, PollReturns, PollFails, PollEnds, SeeEmpty, Register, Resume, Handled
  <2>2. QED
    BY <2>1
<1>6. ASSUME NEW p \in Pids, Quiet(p) \/ Loud(p) PROVE Moved
  <2>1. (Reserved /\ Emit(p)) \/ UNCHANGED intakeVars
    BY <1>6 DEF Quiet, Fork, Exit, Reap, Deliver, Continue, ExecFails, Loud, ExecEnter,
                ExecCheck, Traced
  <2>2. QED
    BY <1>1, <1>2, <2>1
<1>7. CASE Dispatch
  <2>1. UNCHANGED intakeVars
    BY <1>7 DEF Dispatch, SendSignal, MarkPid, DumpProc, QuarantineNet, FreezeCgroup
  <2>2. QED
    BY <1>2, <2>1
<1>8. CASE Observing
  <2>1. IntakeNext \/ UNCHANGED intakeVars
    BY <1>8 DEF Observing, Intake, Handle, Simulate, Decide, IntakeNext
  <2>2. QED
    BY <1>2, <1>3, <1>4, <1>5, <2>1 DEF IntakeNext
<1>9. QED
  BY <1>6, <1>7, <1>8, NextCases

\* What else the agent comes to know.
LEMMA AgentLearns ==
  ASSUME Typed, Next
  PROVE  /\ \A p \in Pids : seen'[p] = seen[p] \/ seen'[p] = seen[p] \cup {0}
              \/ (drain = "busy" /\ p = handling.pid
                   /\ seen'[p] = seen[p] \cup {handling.life})
         /\ task'.pc # "idle" =>
              \/ task.pc # "idle" /\ task'.pid = task.pid /\ task'.life = task.life
              \/ task'.pid \in Pids /\ task'.life \in seen[task'.pid]
<1> DEFINE Learnt ==
             /\ \A p \in Pids : seen'[p] = seen[p] \/ seen'[p] = seen[p] \cup {0}
                  \/ (drain = "busy" /\ p = handling.pid
                       /\ seen'[p] = seen[p] \cup {handling.life})
             /\ task'.pc # "idle" =>
                  \/ task.pc # "idle" /\ task'.pid = task.pid /\ task'.life = task.life
                  \/ task'.pid \in Pids /\ task'.life \in seen[task'.pid]
<1>1. CASE UNCHANGED <<seen, task>>
  BY <1>1
<1>2. ASSUME NEW p \in Pids, Quiet(p) \/ Loud(p) PROVE Learnt
  <2>1. UNCHANGED agentVars
    BY <1>2 DEF Quiet, Fork, Exit, Reap, Deliver, Continue, ExecFails, Loud, ExecEnter,
                ExecCheck, Traced, Kernel
  <2>2. QED
    BY <1>1, <2>1 DEF agentVars
<1>3. CASE Intake
  BY <1>1, <1>3 DEF Intake, agentVars
<1>4. CASE Handle
  <2>1. drain = "busy" /\ handling.pid \in Pids /\ task' = task
    BY <1>4 DEF Handle, Handled, Typed, IntakeType, EventRecords
  <2>2. seen' = [seen EXCEPT ![handling.pid] = @ \cup {handling.life}]
    BY <1>4 DEF Handle, Observe
  <2>3. QED
    BY <2>1, <2>2 DEF Typed, AgentType
<1>5. CASE \E p \in Pids : Simulate(p)
  BY <1>5 DEF Simulate, Observe, Typed, AgentType
<1>6. CASE \E p \in Pids, l \in Lives, t \in Tiers : Decide(p, l, t)
  BY <1>6 DEF Decide
<1>7. CASE Dispatch
  <2>1. task.pc # "idle" /\ task \in [pc : Steps, pid : Pids \cup {NoEvent}, life : Lives,
                                   tier : Tiers]
    BY <1>7 DEF Dispatch, SendSignal, MarkPid, DumpProc, QuarantineNet, FreezeCgroup, Typed,
                AgentType, TaskType
  <2>2. task' = Idle \/ \E pc \in Steps : task' = [task EXCEPT !.pc = pc]
    BY <1>7 DEF Dispatch, SendSignal, MarkPid, DumpProc, QuarantineNet, FreezeCgroup, Go, Steps
  <2>3. seen' = seen
    BY <1>7 DEF Dispatch, SendSignal, MarkPid, DumpProc, QuarantineNet, FreezeCgroup
  <2>4. QED
    BY <2>1, <2>2, <2>3 DEF Idle
<1>8. QED
  BY <1>2, <1>3, <1>4, <1>5, <1>6, <1>7, NextCases DEF Observing

LEMMA LivedStep ==
  ASSUME Typed, Lived, Next
  PROVE  Lived'
<1> USE DEF Lived
<1>1. /\ \A i \in 1 .. Len(ring) : ring[i] \in EventRecords
      /\ \A i \in 1 .. Len(queue) : queue[i] \in EventRecords
      /\ drain = "busy" => handling \in EventRecords
  BY DEF Typed, IntakeType
<1>2. \A e \in EventRecords : e.pid \in Pids /\ e.life \in Lives
  BY DEF EventRecords
<1>3. /\ \A i \in 1 .. Len(ring) : Known(ring[i], proc')
      /\ \A i \in 1 .. Len(queue) : Known(queue[i], proc')
      /\ drain = "busy" => Known(handling, proc')
  BY <1>1, <1>2, KnownStays
<1>4. \A p \in Pids : proc[p].life <= proc'[p].life
  BY ProcEvolves DEF Evolves
<1>5. \A i \in 1 .. Len(ring') : Known(ring'[i], proc')
  BY <1>3, <1>4, RecordsMove DEF Known
<1>6. \A i \in 1 .. Len(queue') : Known(queue'[i], proc')
  BY <1>3, RecordsMove
<1>7. drain' = "busy" => Known(handling', proc')
  BY <1>3, RecordsMove
<1>8. \A p \in Pids : \A l \in seen[p] : l \in Lives /\ l <= proc'[p].life
  BY LivesGrow DEF Typed, AgentType
<1>9. \A p \in Pids : \A l \in seen'[p] : l <= proc'[p].life
  <2>1. \A p \in Pids : 0 <= proc'[p].life
    BY TypedStep, HostAssumption DEF Typed, KernelType, Processes, Lives
  <2>2. drain = "busy" => handling.life <= proc'[handling.pid].life
    BY <1>3 DEF Known
  <2>3. QED
    BY <1>8, <2>1, <2>2, AgentLearns
<1>10. task'.pc # "idle" => Known(task', proc')
  <2>1. task.pc # "idle" => Known(task, proc')
    BY KnownStays DEF Typed, AgentType, TaskType
  <2>2. QED
    BY <1>8, <2>1, AgentLearns DEF Known
<1>11. QED
  BY <1>5, <1>6, <1>7, <1>9, <1>10

\* The lives for whose sake SIGKILL was sent are over, or about to be.
Slain == \A k \in killed : k[2] <= proc[k[1]].life /\ Doomed(proc[k[1]], k[2])

LEMMA SlainStep ==
  ASSUME Typed, Lived, Slain, Next
  PROVE  Slain'
<1>1. ASSUME NEW k \in killed
      PROVE  k[2] <= proc'[k[1]].life /\ Doomed(proc'[k[1]], k[2])
  <2>1. k[1] \in Pids /\ k[2] \in Lives
    BY DEF Typed, AgentType
  <2>2. k[2] <= proc[k[1]].life /\ Doomed(proc[k[1]], k[2])
    BY DEF Slain
  <2>3. QED
    BY <2>1, <2>2, ProcEvolves, LivesGrow DEF Evolves
<1>2. CASE killed' = killed
  BY <1>1, <1>2 DEF Slain
<1>3. ASSUME NEW permitted \in BOOLEAN, SendSignal(permitted), killed' # killed
      PROVE  Slain'
  <2> DEFINE p == task.pid
             s == Signalled(p, SignalOf(task.tier))
  <2>1. /\ p \in Pids /\ task.life \in Lives /\ task.life <= proc[p].life
        /\ KernelType
    BY <1>3 DEF SendSignal, Typed, AgentType, TaskType, Lived, Known
  <2>2. killed' = killed \cup {<<p, task.life>>} /\ SignalOf(task.tier) = "SIGKILL"
        /\ ~dryRun /\ permitted
    BY <1>3 DEF SendSignal, SignalOf
  <2>3. CASE Exists(p)
    <3>1. proc' = [proc EXCEPT ![p] = s]
      BY <1>3, <2>2, <2>3 DEF SendSignal, Set
    <3>2. s.sig = "SIGKILL"
      BY <2>1, <2>2, SignalledEvolves
    <3>3. proc'[p] = s
      BY <2>1, <3>1 DEF KernelType
    <3>4. QED
      BY <1>1, <2>1, <2>2, <3>2, <3>3, LivesGrow DEF Slain, Doomed
  <2>4. CASE ~Exists(p)
    <3>1. proc' = proc /\ proc[p].st \in {"absent", "zombie"}
      BY <1>3, <2>4 DEF SendSignal, Exists
    <3>2. QED
      BY <1>1, <2>1, <2>2, <3>1 DEF Slain, Doomed
  <2>5. QED
    BY <2>3, <2>4
<1>4. killed' = killed \/ \E permitted \in BOOLEAN : SendSignal(permitted)
  <2>1. ASSUME NEW p \in Pids, Quiet(p) \/ Loud(p) PROVE killed' = killed
    BY <2>1 DEF Quiet, Fork, Exit, Reap, Deliver, Continue, ExecFails, Loud, ExecEnter,
                ExecCheck, Traced, Kernel, agentVars
  <2>2. Observing => killed' = killed
    BY DEF Observing, Intake, Handle, Simulate, Decide, agentVars
  <2>3. MarkPid \/ DumpProc \/ QuarantineNet \/ FreezeCgroup => killed' = killed
    BY DEF MarkPid, DumpProc, QuarantineNet, FreezeCgroup
  <2>4. QED
    BY <2>1, <2>2, <2>3, NextCases DEF Dispatch
<1>5. QED
  BY <1>2, <1>3, <1>4

\* Once _send_signal has sent SIGKILL for an event's process (enforcement.py:248),
\* that process is dying or gone, although the program knows its pid only.
THEOREM KillsLand == Spec => []KillLands
<1>1. Init => Lived /\ Slain
  BY DEF Init, IntakeInit, Lived, Slain, Idle
<1>2. Typed /\ Lived /\ Slain /\ [Next]_vars => (Lived /\ Slain)'
  <2>1. ASSUME Lived, Slain, UNCHANGED vars PROVE (Lived /\ Slain)'
    BY <2>1 DEF vars, intakeVars, configVars, kernelVars, agentVars, Lived, Slain, Known,
                Doomed
  <2>2. QED
    BY <2>1, LivedStep, SlainStep
<1>3. Slain => KillLands
  BY DEF Slain, KillLands, Doomed
<1>4. QED
  BY <1>1, <1>2, <1>3, TypedInit, TypedStep, PTL DEF Spec

-----------------------------------------------------------------------------
(* The dry run.                                                             *)

Calm ==
  /\ contained = {} /\ killed = {}
  /\ \A p \in Pids : mark[p] = "none" /\ Untouched(proc[p])

LEMMA CalmStep ==
  ASSUME Typed, Next, dryRun, ~mapFds, Calm
  PROVE  Calm'
<1> USE DEF Calm
<1>1. ASSUME UNCHANGED <<proc, mark, killed, contained>> PROVE Calm'
  BY <1>1
<1>2. ASSUME NEW p \in Pids, NEW s \in Processes, proc' = [proc EXCEPT ![p] = s],
             Untouched(s), UNCHANGED <<mark, killed, contained>>
      PROVE  Calm'
  BY <1>2 DEF Typed, KernelType
<1>3. ASSUME NEW p \in Pids, Quiet(p) PROVE Calm'
  <2>1. UNCHANGED <<mark, killed, contained>>
    BY <1>3 DEF Quiet, Fork, Exit, Reap, Deliver, Continue, ExecFails, Kernel, agentVars
  <2>2. QED
    BY <1>2, <1>3, <2>1, QuietEvolves DEF Typed
<1>4. ASSUME NEW p \in Pids, Loud(p) PROVE Calm'
  <2>1. UNCHANGED <<mark, killed, contained>>
    BY <1>4 DEF Loud, ExecEnter, ExecCheck, Traced, Kernel, kernelVars, agentVars
  <2>2. CASE Traced(p)
    BY <1>1, <2>1, <2>2 DEF Traced, kernelVars
  <2>3. CASE ExecEnter(p)
    BY <1>2, <2>1, <2>3, EnforcedEvolves DEF ExecEnter, InUserMode, Evolves, Set, Typed
  <2>4. CASE ExecCheck(p)
    BY <1>2, <2>1, <2>4, EnforcedEvolves DEF ExecCheck, Evolves, Set, Typed
  <2>5. QED
    BY <1>4, <2>2, <2>3, <2>4 DEF Loud
<1>5. CASE Dispatch
  BY <1>1, <1>5 DEF Dispatch, SendSignal, MarkPid, DumpProc, QuarantineNet, FreezeCgroup, kernelVars
<1>6. CASE Observing
  BY <1>1, <1>6 DEF Observing, Intake, Handle, Simulate, Decide, kernelVars, agentVars
<1>7. QED
  BY <1>3, <1>4, <1>5, <1>6, NextCases

LEMMA ConfigStays == [Next]_vars => UNCHANGED configVars
<1>1. ASSUME NEW p \in Pids, Quiet(p) \/ Loud(p) PROVE UNCHANGED configVars
  BY <1>1 DEF Quiet, Fork, Exit, Reap, Deliver, Continue, ExecFails, Loud, ExecEnter,
              ExecCheck, Traced, Kernel
<1>2. Dispatch \/ Observing => UNCHANGED configVars
  BY DEF Dispatch, SendSignal, MarkPid, DumpProc, QuarantineNet, FreezeCgroup, Observing, Intake,
         Handle, Simulate, Decide
<1>3. QED
  BY <1>1, <1>2, NextCases DEF vars

\* A dry run of an engine without map descriptors, the way agent.py:198 builds it,
\* stops, signals, marks and contains nothing (enforcement.py:240-302).
THEOREM DryRun == Spec => []DryRunHarmless
<1> DEFINE CalmInv == dryRun /\ ~mapFds => Calm
<1>1. Init => CalmInv
  BY DEF Init, Calm, Untouched
<1>2. Typed /\ CalmInv /\ [Next]_vars => CalmInv'
  <2>1. ASSUME UNCHANGED vars, CalmInv PROVE CalmInv'
    BY <2>1 DEF vars, configVars, kernelVars, agentVars, Calm
  <2>2. ASSUME Typed, CalmInv, Next PROVE CalmInv'
    BY <2>2, CalmStep, ConfigStays DEF configVars
  <2>3. QED
    BY <2>1, <2>2
<1>3. CalmInv => DryRunHarmless
  BY DEF Calm, Untouched, DryRunHarmless
<1>4. QED
  BY <1>1, <1>2, <1>3, TypedInit, TypedStep, PTL DEF Spec

-----------------------------------------------------------------------------
(* The intake implements the channel.                                       *)

LEMMA SendStep ==
  ASSUME Typed, NEW p \in Pids, Reserved, Emit(p)
  PROVE  Channel!Next
<1> DEFINE e == [n |-> sent + 1, pid |-> p, life |-> proc[p].life]
<1>1. e \in EventRecords
  BY ProcessType, HostAssumption DEF Typed, WorkBound, Emit, EventRecords
<1>2. queue \in Seq(EventRecords) /\ ring \in Seq(EventRecords)
  BY DEF Typed, IntakeType
<1>3. ring' = Append(ring, e) /\ queue' = queue /\ handling' = handling
  BY DEF Emit, Submit
<1>4. queue \o Append(ring, e) = Append(queue \o ring, e)
  BY <1>1, <1>2
<1>5. Channel!Send(e)
  BY <1>3, <1>4 DEF Channel!Send
<1>6. QED
  BY <1>1, <1>5 DEF Channel!Next

LEMMA CallbackStep ==
  ASSUME Typed, Callback
  PROVE  [Channel!Next]_<<queue \o ring, handling>>
<1>1. /\ queue \in Seq(EventRecords) /\ ring \in Seq(EventRecords)
      /\ ring # <<>> /\ Len(queue) <= QueueSize
  BY DEF Typed, IntakeType, Callback
<1>2. ring' = Tail(ring) /\ handling' = handling
  BY DEF Callback
<1>3. CASE Len(queue) < QueueSize
  <2>1. queue' = Append(queue, Head(ring))
    BY <1>3 DEF Callback
  <2>2. Append(queue, Head(ring)) \o Tail(ring) = queue \o ring
    BY <1>1
  <2>3. QED
    BY <1>2, <2>1, <2>2
<1>4. CASE ~(Len(queue) < QueueSize)
  <2>1. queue' = queue /\ Len(queue) = QueueSize
    BY <1>1, <1>4, IntakeAssumption DEF Callback
  <2> DEFINE t == queue \o ring
  <2>2. Len(t) = QueueSize + Len(ring) /\ Len(ring) > 0
    BY <1>1, <2>1
  <2>3. SubSeq(t, 1, QueueSize) = queue
    BY <1>1, <2>1, <2>2, IntakeAssumption
  <2>4. SubSeq(t, QueueSize + 2, Len(t)) = Tail(ring)
    BY <1>1, <2>1, <2>2, IntakeAssumption, SMTT(30)
  <2>5. Channel!Lose
    <3>1. Len(t) > QueueSize
      BY <1>1, <2>2, IntakeAssumption
    <3>2. (queue \o ring)' = queue \o Tail(ring)
      BY <1>2, <2>1
    <3>3. (queue \o ring)' = SubSeq(t, 1, QueueSize) \o SubSeq(t, QueueSize + 2, Len(t))
      BY <2>3, <2>4, <3>2
    <3>4. QED
      BY <1>2, <3>1, <3>3 DEF Channel!Lose
  <2>6. QED
    BY <2>5 DEF Channel!Next
<1>5. QED
  BY <1>3, <1>4

LEMMA TakeStep ==
  ASSUME Typed, Take
  PROVE  Channel!Next
<1>1. /\ queue \in Seq(EventRecords) /\ ring \in Seq(EventRecords) /\ queue # <<>>
  BY DEF Typed, IntakeType, Take
<1>2. /\ queue \o ring # <<>> /\ Head(queue \o ring) = Head(queue)
      /\ Tail(queue \o ring) = Tail(queue) \o ring
  BY <1>1
<1>3. Channel!Receive
  BY <1>2 DEF Channel!Receive, Take
<1>4. QED
  BY <1>3 DEF Channel!Next

\* The intake hands on what the kernel submitted once and in order, and loses a
\* record only behind a full queue (agent.py:272-305).
THEOREM IntakeRefinement == Spec => ImplementsChannel
<1>1. Init => Channel!Init
  BY DEF Init, IntakeInit, Channel!Init
<1>2. Typed /\ [Next]_vars => [Channel!Next]_<<queue \o ring, handling>>
  <2>1. ASSUME UNCHANGED <<queue, ring, handling>>
        PROVE  [Channel!Next]_<<queue \o ring, handling>>
    BY <2>1
  <2>2. ASSUME Typed, NEW p \in Pids, Quiet(p) \/ Loud(p)
        PROVE  [Channel!Next]_<<queue \o ring, handling>>
    <3>1. (Reserved /\ Emit(p)) \/ UNCHANGED intakeVars
      BY <2>2 DEF Quiet, Fork, Exit, Reap, Deliver, Continue, ExecFails, Loud, ExecEnter,
                  ExecCheck, Traced
    <3>2. QED
      BY <2>1, <2>2, <3>1, SendStep DEF intakeVars
  <2>3. ASSUME Dispatch PROVE UNCHANGED <<queue, ring, handling>>
    BY <2>3 DEF Dispatch, SendSignal, MarkPid, DumpProc, QuarantineNet, FreezeCgroup, intakeVars
  <2>4. ASSUME Typed, Observing PROVE [Channel!Next]_<<queue \o ring, handling>>
    <3>1. \/ UNCHANGED <<queue, ring, handling>> \/ Callback \/ Take
      BY <2>4 DEF Observing, Intake, Handle, Simulate, Decide, intakeVars, Poll,
                  PollReturns, PollFails, PollEnds, SeeEmpty, Register, Resume, Handled
    <3>2. QED
      BY <2>1, <2>4, <3>1, CallbackStep, TakeStep
  <2>5. UNCHANGED vars => UNCHANGED <<queue, ring, handling>>
    BY DEF vars, intakeVars
  <2>6. QED
    BY <2>1, <2>2, <2>3, <2>4, <2>5, NextCases
<1>3. QED
  BY <1>1, <1>2, TypedInit, TypedStep, PTL DEF Spec, ImplementsChannel, Channel!Spec
=============================================================================
