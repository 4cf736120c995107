-------------------------------- MODULE Host --------------------------------
(***************************************************************************)
(* The agent on a host: processes that live, exec, rename themselves, die  *)
(* and leave their pid to others; the probes of sentinel.c that see their  *)
(* system calls and enforce the marks of enforce_map at an exec; the       *)
(* intake of events (EventIntake); and CWAEEngine._dispatch, which acts on *)
(* the pid of an event handled some time ago.                              *)
(*                                                                         *)
(* A process is a pid and a life, the number of times the pid has been     *)
(* used; the program only ever sees the pid.  The verdict between an event *)
(* and its dispatch is open here (AgentPipeline, ScoreFusion).             *)
(***************************************************************************)
EXTENDS EventIntake, FiniteSets

CONSTANTS
  Pids,           \* process identifiers
  MaxLife,        \* bound on the uses of a pid
  MaxWork         \* bound on records submitted plus dispatches

ASSUME HostAssumption == {MaxLife, MaxWork} \subseteq Nat

VARIABLES
  dryRun,        \* enforcement.dry_run
  mapFds,        \* does the engine hold valid map descriptors?
  proc,          \* the processes
  mark,          \* enforce_map
  seen,          \* history: lives of each pid an event of which was handled
  task,          \* the dispatch the auditor's worker thread is in
  decided,       \* number of dispatches begun
  killed,        \* history: lives for whose sake SIGKILL was sent
  contained      \* lives whose network or cgroup user space has cut off

configVars == <<dryRun, mapFds>>
kernelVars == <<proc, mark>>
agentVars  == <<seen, task, decided, killed, contained>>
vars == <<intakeVars, configVars, kernelVars, agentVars>>

Lives   == 0 .. MaxLife      \* 0: an event of the simulation, of no process
States  == {"absent", "user", "exec", "stopped", "zombie"}
Signals == {"none", "SIGSTOP", "SIGKILL"}
Tiers   == {"PAUSE", "KILL", "QUARANTINE", "ISOLATE"}
Idle    == [pc |-> "idle", pid |-> NoEvent, life |-> 0, tier |-> "PAUSE"]

Exists(p) == proc[p].st \notin {"absent", "zombie"}
Rank(s)   == CASE s = "none" -> 0 [] s = "SIGSTOP" -> 1 [] s = "SIGKILL" -> 2
Stronger(s, t) == IF Rank(s) < Rank(t) THEN t ELSE s

Init ==
  /\ IntakeInit
  /\ dryRun \in BOOLEAN /\ mapFds \in BOOLEAN
  /\ mapFds => loaded
  /\ proc = [p \in Pids |->
              [life |-> 0, st |-> "absent", sig |-> "none", doom |-> "none"]]
  /\ mark = [p \in Pids |-> "none"]
  /\ seen = [p \in Pids |-> {}]
  /\ task = Idle /\ decided = 0
  /\ killed = {} /\ contained = {}

-----------------------------------------------------------------------------
(* The operating system.                                                    *)

Set(p, r) == proc' = [proc EXCEPT ![p] = r]
Kernel == UNCHANGED <<configVars, agentVars>>

Fork(p) ==
  /\ proc[p].st = "absent" /\ proc[p].life < MaxLife
  /\ Set(p, [life |-> proc[p].life + 1, st |-> "user", sig |-> "none",
             doom |-> "none"])
  /\ UNCHANGED <<intakeVars, mark>> /\ Kernel

Exit(p) ==
  /\ proc[p].st = "user"
  /\ Set(p, [proc[p] EXCEPT !.st = "zombie", !.sig = "none"])
  /\ UNCHANGED <<intakeVars, mark>> /\ Kernel

Reap(p) ==
  /\ proc[p].st = "zombie"
  /\ Set(p, [proc[p] EXCEPT !.st = "absent"])
  /\ UNCHANGED <<intakeVars, mark>> /\ Kernel

\* SIGKILL takes effect anywhere, SIGSTOP on the way back to user space
Deliver(p) ==
  /\ \/ /\ proc[p].sig = "SIGKILL" /\ Exists(p)
        /\ Set(p, [proc[p] EXCEPT !.st = "zombie", !.sig = "none"])
     \/ /\ proc[p].sig = "SIGSTOP" /\ proc[p].st = "user"
        /\ Set(p, [proc[p] EXCEPT !.st = "stopped", !.sig = "none"])
  /\ UNCHANGED <<intakeVars, mark>> /\ Kernel

\* somebody sends SIGCONT
Continue(p) ==
  /\ proc[p].st = "stopped"
  /\ Set(p, [proc[p] EXCEPT !.st = "user", !.doom = "none"])
  /\ UNCHANGED <<intakeVars, mark>> /\ Kernel

-----------------------------------------------------------------------------
(* The probes, as far as pids and marks go; the tables they keep and what   *)
(* else their records carry are in Probes.                                  *)

Emit(p) ==
  /\ sent + decided < MaxWork
  /\ Submit([n |-> sent + 1, pid |-> p, life |-> proc[p].life])

\* user code runs, with the probes attached
InUserMode(p) == loaded /\ proc[p].st = "user" /\ proc[p].sig = "none"

\* _check_enforce and bpf_send_signal; "doom" remembers the mark in force
Enforced(p, st) ==
  [proc[p] EXCEPT !.st = st, !.sig = Stronger(proc[p].sig, mark[p]),
                  !.doom = Stronger(proc[p].doom, mark[p])]

\* Mutant of ExecEnter: the record is reserved before the mark is looked up.
ExecEnterLate(p) ==
  /\ InUserMode(p)
  /\ IF Reserved
     THEN Emit(p) /\ Set(p, Enforced(p, "exec"))
     ELSE /\ Set(p, [Enforced(p, "exec") EXCEPT !.sig = "none"])
          /\ UNCHANGED intakeVars
  /\ UNCHANGED mark /\ Kernel

\* trace_execve
ExecEnter(p) ==
  /\ InUserMode(p)
  /\ Set(p, Enforced(p, "exec"))
  /\ IF Reserved THEN Emit(p) ELSE UNCHANGED intakeVars
  /\ UNCHANGED mark /\ Kernel

\* lsm_bprm_check; the exec then succeeds
ExecCheck(p) ==
  /\ proc[p].st = "exec"
  /\ Set(p, Enforced(p, "user"))
  /\ IF Reserved THEN Emit(p) ELSE UNCHANGED intakeVars
  /\ UNCHANGED mark /\ Kernel

\* no such file: the check is not reached
ExecFails(p) ==
  /\ proc[p].st = "exec"
  /\ Set(p, [proc[p] EXCEPT !.st = "user"])
  /\ UNCHANGED <<intakeVars, mark>> /\ Kernel

\* every other probe: openat, connect, write, setuid, ptrace, prctl and the
\* LSM hooks of open and connect
Traced(p) ==
  /\ InUserMode(p) /\ Reserved
  /\ Emit(p)
  /\ UNCHANGED kernelVars /\ Kernel

-----------------------------------------------------------------------------
(* The agent.                                                               *)

Intake ==
  /\ \/ Poll \/ Callback \/ PollReturns \/ PollFails
     \/ SeeEmpty \/ Register \/ Resume \/ Take
  /\ UNCHANGED <<configVars, kernelVars, agentVars>>

Observe(p, l) == seen' = [seen EXCEPT ![p] = @ \cup {l}]

Handle ==
  /\ Handled
  /\ Observe(handling.pid, handling.life)
  /\ UNCHANGED <<configVars, kernelVars, task, decided, killed, contained>>

\* _simulation_loop, also when the load failed: events with made-up pids
Simulate(p) ==
  /\ ~loaded
  /\ Observe(p, 0)
  /\ UNCHANGED <<intakeVars, configVars, kernelVars, task, decided, killed,
                 contained>>

\* a verdict about an event handled before reaches the engine; LOG_ONLY
\* returns at once and is left out
Decide(p, l, t) ==
  /\ task = Idle /\ sent + decided < MaxWork
  /\ l \in seen[p]
  /\ task' = [pc |-> "signal", pid |-> p, life |-> l, tier |-> t]
  /\ decided' = decided + 1
  /\ UNCHANGED <<intakeVars, configVars, kernelVars, seen, killed, contained>>

-----------------------------------------------------------------------------
(* CWAEEngine._dispatch in its worker thread, one call after the other.     *)

SignalOf(t) == IF t = "PAUSE" THEN "SIGSTOP" ELSE "SIGKILL"

\* what sending s to the process that has pid p now makes of it
Signalled(p, s) ==
  IF proc[p].st = "stopped" /\ s = "SIGSTOP" THEN proc[p]
  ELSE [proc[p] EXCEPT !.sig = Stronger(@, s)]

\* Mutant of SendSignal: only the strictest tier kills.
SendSignalLenient(permitted) ==
  LET p == task.pid
      s == IF task.tier = "ISOLATE" THEN "SIGKILL" ELSE "SIGSTOP" IN
  /\ task.pc = "signal"
  /\ IF dryRun \/ ~permitted \/ ~Exists(p) THEN UNCHANGED proc
     ELSE Set(p, Signalled(p, s))
  /\ killed' = IF ~dryRun /\ permitted /\ task.tier # "PAUSE"
               THEN killed \cup {<<p, task.life>>} ELSE killed
  /\ task' = [task EXCEPT !.pc = "mark"]
  /\ UNCHANGED <<intakeVars, configVars, mark, seen, decided,
                 contained>>

\* _send_signal: a vanished process and a refusal are swallowed
SendSignal(permitted) ==
  LET p == task.pid
      s == SignalOf(task.tier) IN
  /\ task.pc = "signal"
  /\ IF dryRun \/ ~permitted \/ ~Exists(p) THEN UNCHANGED proc
     ELSE Set(p, Signalled(p, s))
  /\ killed' = IF ~dryRun /\ permitted /\ task.tier # "PAUSE"
               THEN killed \cup {<<p, task.life>>} ELSE killed
  /\ task' = [task EXCEPT !.pc = "mark"]
  /\ UNCHANGED <<intakeVars, configVars, mark, seen, decided,
                 contained>>

Go(pc) == task' = IF pc = "idle" THEN Idle ELSE [task EXCEPT !.pc = pc]

\* _bpf_mark, which does not look at dry_run, nor at the outcome of the
\* system call: it may fail
MarkPid ==
  /\ task.pc = "mark"
  /\ \/ mapFds /\ mark' = [mark EXCEPT ![task.pid] = SignalOf(task.tier)]
     \/ UNCHANGED mark
  /\ Go(IF task.tier = "PAUSE" THEN "idle" ELSE "dump")
  /\ UNCHANGED <<intakeVars, configVars, proc, seen, decided,
                 killed, contained>>

\* _dump_proc copies /proc/<pid>/maps, of whatever process is there, to a file
\* nobody reads, and swallows its errors: a step that takes time and no more
DumpProc ==
  /\ task.pc = "dump"
  /\ Go(IF task.tier \in {"QUARANTINE", "ISOLATE"} THEN "netns" ELSE "idle")
  /\ UNCHANGED <<intakeVars, configVars, kernelVars, seen, decided, killed,
                 contained>>

Contain(p) == contained' = contained \cup {<<p, proc[p].life>>}

\* _xdp_quarantine: a zombie has no namespace link any more, and the update
\* of the map may fail
QuarantineNet ==
  /\ task.pc = "netns"
  /\ \/ Exists(task.pid) /\ mapFds /\ ~dryRun /\ Contain(task.pid)
     \/ UNCHANGED contained
  /\ Go(IF task.tier = "ISOLATE" THEN "cgroup" ELSE "idle")
  /\ UNCHANGED <<intakeVars, configVars, kernelVars, seen, decided, killed>>

\* Mutant of FreezeCgroup: freezing is not switched off in a dry run.
FreezeCgroupAlways ==
  /\ task.pc = "cgroup"
  /\ \/ proc[task.pid].st # "absent" /\ Contain(task.pid)
     \/ UNCHANGED contained
  /\ Go("idle")
  /\ UNCHANGED <<intakeVars, configVars, kernelVars, seen, decided, killed>>

\* _cgroup_freeze of whatever group /proc/<pid>/cgroup names now, if the
\* freezer file is there
FreezeCgroup ==
  /\ task.pc = "cgroup"
  /\ \/ ~dryRun /\ proc[task.pid].st # "absent" /\ Contain(task.pid)
     \/ UNCHANGED contained
  /\ Go("idle")
  /\ UNCHANGED <<intakeVars, configVars, kernelVars, seen, decided, killed>>

-----------------------------------------------------------------------------
ProcessNext ==
  \E p \in Pids :
    \/ Fork(p) \/ Exit(p) \/ Reap(p) \/ Deliver(p) \/ Continue(p)
    \/ ExecEnter(p) \/ ExecCheck(p) \/ ExecFails(p)
    \/ Traced(p)

AgentNext ==
  \/ Intake \/ Handle
  \/ \E p \in Pids : Simulate(p)
  \/ \E p \in Pids, l \in Lives, t \in Tiers : Decide(p, l, t)
  \/ \E permitted \in BOOLEAN : SendSignal(permitted)
  \/ MarkPid \/ DumpProc \/ QuarantineNet \/ FreezeCgroup

Next == ProcessNext \/ AgentNext

Spec == Init /\ [][Next]_vars /\ IntakeFairness

-----------------------------------------------------------------------------
(* Properties.                                                              *)

EventRecords ==
  [n : 1 .. MaxWork, pid : Pids, life : Lives]
Processes == [life : Lives, st : States, sig : Signals, doom : Signals]
Steps == {"idle", "signal", "mark", "dump", "netns", "cgroup"}

\* The state of kernel, intake and dispatch keeps its types; queue and ring
\* never exceed their sizes.
TypeOK ==
  /\ {loaded, dryRun, mapFds, polling} \subseteq BOOLEAN
  /\ sent \in 0 .. MaxWork /\ slice \in 0 .. Burst
  /\ ring \in Seq(EventRecords) /\ Len(ring) <= RingSize
  /\ queue \in Seq(EventRecords) /\ Len(queue) <= QueueSize
  /\ drain \in {"ready", "checked", "waiting", "woken", "busy"}
  /\ handling \in EventRecords \cup {NoEvent}
  /\ drain = "busy" => handling \in EventRecords
  /\ proc \in [Pids -> Processes]
  /\ mark \in [Pids -> Signals]
  /\ seen \in [Pids -> SUBSET Lives]
  /\ task \in [pc : Steps, pid : Pids \cup {NoEvent}, life : Lives, tier : Tiers]
  /\ task.pc # "idle" => task.pid \in Pids
  /\ decided \in 0 .. MaxWork
  /\ killed \subseteq Pids \X Lives /\ contained \subseteq Pids \X Lives

\* A process whose pid is marked when its exec enters the kernel or reaches
\* the LSM check never runs the new program: it dies, or stops until somebody
\* continues it, also when the ring is full and the event itself is lost.
MarksHold ==
  \A p \in Pids :
    /\ proc[p].doom = "SIGKILL" => \/ ~Exists(p)
                                  \/ proc[p].sig = "SIGKILL"
    /\ proc[p].doom = "SIGSTOP" /\ proc[p].st = "user" => proc[p].sig # "none"

\* Once SIGKILL was sent for an event's process, that process runs no more:
\* it is dying or gone, or was gone before and its pid may have a new owner.
KillLands ==
  \A k \in killed :
    LET q == proc[k[1]] IN
    q.life > k[2] \/ q.st \in {"absent", "zombie"} \/ q.sig = "SIGKILL"

\* A dry run of an engine without map descriptors, as the agent builds it,
\* touches nothing: no process is stopped, signalled, marked or contained.
DryRunHarmless ==
  dryRun /\ ~mapFds =>
    /\ contained = {} /\ killed = {}
    /\ \A p \in Pids : /\ mark[p] = "none" /\ proc[p].sig = "none"
                       /\ proc[p].st # "stopped"

Channel == INSTANCE LossyChannel WITH
  Events <- EventRecords, Capacity <- QueueSize, None <- NoEvent,
  transit <- queue \o ring, received <- handling

\* The intake hands on the kernel's records once and in order, and drops one
\* only behind a full queue.
ImplementsChannel == Channel!Spec

Queued(n) == \E i \in DOMAIN queue : queue[i].n = n

\* An event that get() missed is handled as soon as another one follows, though
\* polls may fail: unless from some point on every poll does, the lost wake-up
\* delays events, it does not stop the intake.
Unstranded ==
  []<><<PollReturns>>_intakeVars =>
    \A n \in 1 .. MaxWork : (Queued(n) /\ ring # <<>>) ~> ~Queued(n)
=============================================================================
