--------------------------- MODULE AgentPipeline ---------------------------
(***************************************************************************)
(* The three-stage agent pipeline of sentinel/agents/: the detector puts   *)
(* signals on a bounded queue, the analyzer turns every signal into an     *)
(* asyncio task of its own that runs under a semaphore, and a single       *)
(* auditor coroutine verifies, enforces and logs the results one by one,   *)
(* handing each blocking step to a worker thread.                          *)
(*                                                                         *)
(* A step of the model is what one coroutine does between two suspension   *)
(* points of the event loop, or what one worker thread does.  What a       *)
(* signal contains, how it is classified and which tier it gets are left   *)
(* open here (see ScoreFusion): this module is about where signals go.     *)
(***************************************************************************)
EXTENDS Naturals, Sequences, FiniteSets

CONSTANTS
  Signals,        \* detection signals; each is raised at most once (bound)
  Pids,           \* processes the signals are about
  PidOf,          \* the process of each signal
  NoSignal,       \* "no signal here"
  DetCap,         \* maxsize of det_queue
  AnaCap,         \* maxsize of ana_queue
  MaxLLM,         \* max_concurrent_llm, the semaphore's initial value
  Pcabp,          \* TRUE iff a call-site map is loaded (an extra thread hop)
  EvictTtl,       \* analyses before an idle parent-cache entry is stale
  EvictInterval   \* analyses between two eviction passes

ASSUME PipelineAssumption ==
  /\ IsFiniteSet(Signals)
  /\ NoSignal \notin Signals
  /\ PidOf \in [Signals -> Pids]
  /\ {DetCap, AnaCap, MaxLLM, EvictTtl, EvictInterval} \subseteq Nat \ {0}
  /\ Pcabp \in BOOLEAN

VARIABLES
  running,      \* FALSE once _request_shutdown has cancelled every task
  emitted,      \* history: the signals the detector built, in order
  pushing,      \* the signal whose put(sig) the detector is suspended in
  detQueue,     \* detector -> analyzer
  tasks,        \* _analyze tasks waiting for the semaphore, in FIFO order
  phase,        \* where a task that holds the semaphore is suspended
  anaQueue,     \* analyzer -> auditor
  auditSig,     \* the result the auditor is working on
  auditStep,    \* the await the auditor is suspended in
  thread,       \* state of the worker thread that await is for
  enforced,     \* signals _dispatch has acted on
  logged,       \* signals with an auditor entry in audit.jsonl
  lost,         \* signals whose handling ended in an exception
  analyzed,     \* stats["analyzed"]
  parentCache,  \* the analysis whose window _parent_cache[pid] ends with
  cacheSeen     \* _cache_last_seen[pid], 0 where there is no entry

detVars   == <<emitted, pushing>>
cacheVars == <<analyzed, parentCache, cacheSeen>>
auditVars == <<auditSig, auditStep, thread, enforced, logged>>
vars == <<running, detVars, detQueue, tasks, phase, anaQueue, auditVars,
          lost, cacheVars>>

Phases     == {"none", "classify", "pcabp", "put"}
AuditSteps == {"idle", "verify", "dispatch", "record", "write", "down"}

Elems(q) == {q[i] : i \in DOMAIN q}
Holders  == {s \in Signals : phase[s] # "none"}
Cached   == {p \in Pids : parentCache[p] # NoSignal}

AnalyzerInit ==
  /\ tasks = <<>> /\ phase = [s \in Signals |-> "none"]
  /\ lost = {} /\ analyzed = 0
  /\ parentCache = [p \in Pids |-> NoSignal]
  /\ cacheSeen = [p \in Pids |-> 0]

AuditorInit ==
  /\ auditSig = NoSignal /\ auditStep = "idle" /\ thread = "none"
  /\ enforced = {} /\ logged = {}

Init ==
  /\ running = TRUE
  /\ emitted = <<>> /\ pushing = NoSignal
  /\ detQueue = <<>> /\ anaQueue = <<>>
  /\ AnalyzerInit /\ AuditorInit

-----------------------------------------------------------------------------
(* Stage 1: the event loop awaits push_event, which awaits put(sig).        *)

Emit(s) ==
  /\ running /\ pushing = NoSignal
  /\ s \notin Elems(emitted)
  /\ emitted' = Append(emitted, s)
  /\ IF Len(detQueue) < DetCap
     THEN detQueue' = Append(detQueue, s) /\ UNCHANGED pushing
     ELSE pushing' = s /\ UNCHANGED detQueue
  /\ UNCHANGED <<running, tasks, phase, anaQueue, auditVars, lost, cacheVars>>

\* Mutant of Push: the put resumes although none is pending.
PushUnasked ==
  /\ running
  /\ Len(detQueue) < DetCap
  /\ detQueue' = Append(detQueue, pushing)
  /\ pushing' = NoSignal
  /\ UNCHANGED <<running, emitted, tasks, phase, anaQueue, auditVars, lost,
                 cacheVars>>

Push ==
  /\ running /\ pushing # NoSignal
  /\ Len(detQueue) < DetCap
  /\ detQueue' = Append(detQueue, pushing)
  /\ pushing' = NoSignal
  /\ UNCHANGED <<running, emitted, tasks, phase, anaQueue, auditVars, lost,
                 cacheVars>>

-----------------------------------------------------------------------------
(* Stage 2: run() turns every signal into a task; the tasks queue for the   *)
(* semaphore and hold it until their result is on the auditor's queue.      *)

\* Mutant of Spawn: run() is cancelled with the auditor (one TaskGroup).
SpawnWhileAudited ==
  /\ running /\ detQueue # <<>> /\ auditStep # "down"
  /\ tasks' = Append(tasks, Head(detQueue))
  /\ detQueue' = Tail(detQueue)
  /\ UNCHANGED <<running, detVars, phase, anaQueue, auditVars, lost, cacheVars>>

Spawn ==
  /\ running /\ detQueue # <<>>
  /\ tasks' = Append(tasks, Head(detQueue))
  /\ detQueue' = Tail(detQueue)
  /\ UNCHANGED <<running, detVars, phase, anaQueue, auditVars, lost, cacheVars>>

SetPhase(s, p) == phase' = [phase EXCEPT ![s] = p]

\* Mutant of PutResult: the slot is not given back.
PutKeepsSlot(s) ==
  /\ SetPhase(s, "put")
  /\ anaQueue' = IF Len(anaQueue) < AnaCap THEN Append(anaQueue, s) ELSE anaQueue

\* Mutant of PutResult: a full queue drops the result ("flush-or-drop").
PutOrDrop(s) ==
  /\ SetPhase(s, "none")
  /\ anaQueue' = IF Len(anaQueue) < AnaCap THEN Append(anaQueue, s) ELSE anaQueue

\* await self._out.put(result), then release the semaphore
PutResult(s) ==
  IF Len(anaQueue) < AnaCap
  THEN anaQueue' = Append(anaQueue, s) /\ SetPhase(s, "none")
  ELSE SetPhase(s, "put") /\ UNCHANGED anaQueue

\* _maybe_evict_cache after n analyses: entries not refreshed for EvictTtl
Stale(seen, cached, n) ==
  IF n % EvictInterval # 0 THEN {}
  ELSE {p \in cached : seen[p] + EvictTtl < n}

UpdateCache(s) ==
  LET pid  == PidOf[s]
      n    == analyzed + 1
      seen == [cacheSeen EXCEPT ![pid] = analyzed]
      dead == Stale(seen, Cached \cup {pid}, n)
  IN /\ analyzed' = n
     /\ parentCache' = [p \in Pids |-> IF p \in dead THEN NoSignal
                                       ELSE IF p = pid THEN s
                                       ELSE parentCache[p]]
     /\ cacheSeen' = [p \in Pids |-> IF p \in dead THEN 0 ELSE seen[p]]

Finish(s) == UpdateCache(s) /\ PutResult(s)

\* the label is known: PCABP scoring in a thread if it is loaded, then finish
Labelled(s) ==
  IF Pcabp THEN SetPhase(s, "pcabp") /\ UNCHANGED <<anaQueue, cacheVars>>
  ELSE Finish(s)

\* Mutant of Acquire: a semaphore that wakes any of its waiters.
AcquireAny(s) ==
  /\ running /\ s \in Elems(tasks)
  /\ Cardinality(Holders) < MaxLLM
  /\ tasks' = SelectSeq(tasks, LAMBDA t : t # s)
  /\ \/ SetPhase(s, "classify") /\ UNCHANGED <<anaQueue, cacheVars>>
     \/ Labelled(s)
  /\ UNCHANGED <<running, detVars, detQueue, auditVars, lost>>

\* the head of the semaphore's queue builds its graph; a gray-zone score
\* suspends in clf.classify, any other score labels the signal at once
Acquire(s) ==
  /\ running /\ tasks # <<>> /\ s = Head(tasks)
  /\ Cardinality(Holders) < MaxLLM
  /\ tasks' = Tail(tasks)
  /\ \/ SetPhase(s, "classify") /\ UNCHANGED <<anaQueue, cacheVars>>
     \/ Labelled(s)
  /\ UNCHANGED <<running, detVars, detQueue, auditVars, lost>>

Classified(s) ==
  /\ running /\ phase[s] = "classify"
  /\ Labelled(s)
  /\ UNCHANGED <<running, detVars, detQueue, tasks, auditVars, lost>>

\* classify or the PCABP thread raises: the task dies, the semaphore's context
\* manager gives the slot back, and nobody retrieves the exception
AnalyzeFails(s) ==
  /\ running /\ phase[s] \in {"classify", "pcabp"}
  /\ SetPhase(s, "none")
  /\ lost' = lost \cup {s}
  /\ UNCHANGED <<running, detVars, detQueue, tasks, anaQueue, auditVars,
                 cacheVars>>

Scored(s) ==
  /\ running /\ phase[s] = "pcabp"
  /\ Finish(s)
  /\ UNCHANGED <<running, detVars, detQueue, tasks, auditVars, lost>>

ResumePut(s) ==
  /\ running /\ phase[s] = "put"
  /\ Len(anaQueue) < AnaCap
  /\ PutResult(s)
  /\ UNCHANGED <<running, detVars, detQueue, tasks, auditVars, lost, cacheVars>>

-----------------------------------------------------------------------------
(* Stage 3: one coroutine, one result at a time.  Each await hands work to  *)
(* a thread; the thread's effect and the coroutine's resumption are         *)
(* separate steps, and cancelling the coroutine does not stop the thread.   *)

Await(step) == auditStep' = step /\ thread' = "busy"

Elsewhere == UNCHANGED <<running, detVars, detQueue, tasks, phase, cacheVars>>

\* Mutant of AuditGet: an auditor that died is started again.
AuditGetRestarted ==
  /\ running /\ auditStep \in {"idle", "down"} /\ anaQueue # <<>>
  /\ auditSig' = Head(anaQueue)
  /\ anaQueue' = Tail(anaQueue)
  /\ Await("verify")
  /\ UNCHANGED <<enforced, logged, lost>> /\ Elsewhere

AuditGet ==
  /\ running /\ auditStep = "idle" /\ anaQueue # <<>>
  /\ auditSig' = Head(anaQueue)
  /\ anaQueue' = Tail(anaQueue)
  /\ Await("verify")
  /\ UNCHANGED <<enforced, logged, lost>> /\ Elsewhere

\* CoVe and the LTL guardian: nothing the rest of the pipeline can see, but
\* evidence references the model malformed raise in it
VerifyThread ==
  /\ thread = "busy" /\ auditStep = "verify"
  /\ thread' \in {"done", "failed"}
  /\ UNCHANGED <<anaQueue, auditSig, auditStep, enforced, logged, lost>>
  /\ Elsewhere

\* the CWAE row and incident row: their write errors are swallowed
RecordThread ==
  /\ thread = "busy" /\ auditStep = "record"
  /\ thread' = "done"
  /\ UNCHANGED <<anaQueue, auditSig, auditStep, enforced, logged, lost>>
  /\ Elsewhere

DispatchThread ==
  /\ thread = "busy" /\ auditStep = "dispatch"
  /\ thread' = "done"
  /\ enforced' = enforced \cup {auditSig}
  /\ UNCHANGED <<anaQueue, auditSig, auditStep, logged, lost>> /\ Elsewhere

\* _write_audit does not catch OSError: the audit line, then the incident
\* line; a failure may come before or after the audit line is on disk
WriteThread ==
  /\ thread = "busy" /\ auditStep = "write"
  /\ \/ thread' = "done"   /\ logged' = logged \cup {auditSig}
     \/ thread' = "failed" /\ logged' = logged \cup {auditSig}
     \/ thread' = "failed" /\ UNCHANGED logged
  /\ UNCHANGED <<anaQueue, auditSig, auditStep, enforced, lost>> /\ Elsewhere

\* after verification the fused label decides: MALICIOUS is enforced and
\* recorded before the audit entry is written, BENIGN is only written
ResumeVerify ==
  /\ running /\ thread = "done" /\ auditStep = "verify"
  /\ Await("dispatch") \/ Await("write")
  /\ UNCHANGED <<anaQueue, auditSig, enforced, logged, lost>> /\ Elsewhere

ResumeEnforce ==
  /\ running /\ thread = "done"
  /\ \/ auditStep = "dispatch" /\ Await("record")
     \/ auditStep = "record"   /\ Await("write")
  /\ UNCHANGED <<anaQueue, auditSig, enforced, logged, lost>> /\ Elsewhere

ResumeWrite ==
  /\ running /\ thread = "done" /\ auditStep = "write"
  /\ auditStep' = "idle" /\ thread' = "none" /\ auditSig' = NoSignal
  /\ UNCHANGED <<anaQueue, enforced, logged, lost>> /\ Elsewhere

\* Mutant of AuditorDies: run() swallows the exception and goes on.
AuditorSurvives ==
  /\ running /\ thread = "failed"
  /\ auditStep' = "idle" /\ thread' = "none" /\ auditSig' = NoSignal
  /\ lost' = IF auditSig \in logged THEN lost ELSE lost \cup {auditSig}
  /\ UNCHANGED <<anaQueue, enforced, logged>> /\ Elsewhere

\* the exception, of verifying or of writing, leaves _audit and run(): the
\* auditor task is gone for good
AuditorDies ==
  /\ running /\ thread = "failed"
  /\ auditStep' = "down" /\ thread' = "none"
  /\ lost' = IF auditSig \in logged THEN lost ELSE lost \cup {auditSig}
  /\ UNCHANGED <<anaQueue, auditSig, enforced, logged>> /\ Elsewhere

-----------------------------------------------------------------------------
Shutdown ==
  /\ running
  /\ running' = FALSE
  /\ UNCHANGED <<detVars, detQueue, tasks, phase, anaQueue, auditVars, lost,
                 cacheVars>>

Detector == Push \/ \E s \in Signals : Emit(s)
Task(s)  == \/ Acquire(s) \/ Classified(s) \/ AnalyzeFails(s)
            \/ Scored(s) \/ ResumePut(s)
Thread   == VerifyThread \/ DispatchThread \/ RecordThread \/ WriteThread
Auditor  == \/ AuditGet \/ ResumeVerify \/ ResumeEnforce \/ ResumeWrite
            \/ AuditorDies

Next == \/ Detector \/ Spawn \/ (\E s \in Signals : Task(s))
        \/ Thread \/ Auditor \/ Shutdown

Spec == Init /\ [][Next]_vars

\* The event loop runs every ready coroutine, worker threads and LLM calls
\* return; nothing forces a signal to be raised or a shutdown to be requested.
Fairness ==
  /\ WF_vars(Push) /\ WF_vars(Spawn)
  /\ \A s \in Signals : WF_vars(Task(s))
  /\ WF_vars(Thread) /\ WF_vars(Auditor)

FairSpec == Spec /\ Fairness
-----------------------------------------------------------------------------
(* Properties.                                                              *)

\* Types of the pipeline's state (the queues, the tasks, the auditor's
\* coroutine and thread, and the parent cache).
TypeOK ==
  /\ running \in BOOLEAN
  /\ emitted \in Seq(Signals) /\ pushing \in Signals \cup {NoSignal}
  /\ detQueue \in Seq(Signals) /\ tasks \in Seq(Signals)
  /\ phase \in [Signals -> Phases]
  /\ anaQueue \in Seq(Signals)
  /\ auditSig \in Signals \cup {NoSignal} /\ auditStep \in AuditSteps
  /\ thread \in {"none", "busy", "done", "failed"}
  /\ thread # "none" => auditSig # NoSignal
  /\ enforced \subseteq Signals /\ logged \subseteq Signals
  /\ lost \subseteq Signals
  /\ analyzed \in Nat
  /\ parentCache \in [Pids -> Signals \cup {NoSignal}]
  /\ cacheSeen \in [Pids -> Nat]

Pushing == {pushing} \ {NoSignal}
Settled == logged \cup lost
InHand  == {auditSig} \ ({NoSignal} \cup Settled)

Places  == [pushing  |-> Pushing,         detQueue |-> Elems(detQueue),
            tasks    |-> Elems(tasks),    slots    |-> Holders,
            anaQueue |-> Elems(anaQueue), auditor  |-> InHand,
            logged   |-> logged,          lost     |-> lost]

Distinct(q) == \A i, j \in DOMAIN q : q[i] = q[j] => i = j
Apart(P)    == \A i, j \in DOMAIN P : i # j => P[i] \cap P[j] = {}
AllOf(P)    == UNION {P[i] : i \in DOMAIN P}

\* Conservation through all three stages: every signal the detector built is
\* in exactly one place (the suspended put, a queue, a task, the auditor's
\* hands) or settled as logged or lost, never in two and never twice in one.
OnePlace ==
  /\ Elems(emitted) = AllOf(Places)
  /\ Apart(Places)
  /\ \A q \in {detQueue, tasks, anaQueue} : Distinct(q)

Backlog == tasks \o detQueue \o (IF pushing = NoSignal THEN <<>> ELSE <<pushing>>)

\* LLM slots are granted in the order the detector raised the signals: the
\* signals not yet started are, in order, the last ones raised, across the
\* suspended put, the queue and the semaphore's waiters.
FifoStart ==
  /\ Len(Backlog) <= Len(emitted)
  /\ \A i \in 1..Len(Backlog) :
       Backlog[i] = emitted[Len(emitted) - Len(Backlog) + i]

\* Audit trail: through write errors, the auditor's death and a shutdown in
\* the middle of a step, at most one enforcement action has no auditor entry,
\* and it is the one the auditor was working on when it stopped.
EnforcementLogged == enforced \ logged \subseteq {auditSig}

\* Every signal raised is eventually logged or lost to a named failure, unless
\* the auditor died or the agent is shut down.  In particular a full analyzer ->
\* auditor queue is waited for and drops nothing, so what the code does is NOT
\* the "flush-or-drop semantics" that pipeline.py:21 gives that queue.
Settles ==
  \A s \in Signals :
    s \in Elems(emitted) ~> (s \in Settled \/ auditStep = "down" \/ ~running)

\* The detector's put never stalls for good, even behind a dead auditor: run()
\* keeps turning queued signals into tasks.
DetectorResumes ==
  \A s \in Signals : pushing = s ~> (pushing # s \/ ~running)

-----------------------------------------------------------------------------
(* The pipeline implements the audit ledger.                                *)

StatusOf(s) == IF s \in logged THEN "logged"
               ELSE IF s \in lost THEN "lost"
               ELSE IF s \in Elems(emitted) THEN "pending" ELSE "unseen"

Statuses == [s \in Signals |-> StatusOf(s)]
Acting   == IF enforced \subseteq logged THEN NoSignal ELSE auditSig

Ledger == INSTANCE AuditLedger WITH
  None <- NoSignal, status <- Statuses, acting <- Acting

\* Refinement: seen through its history, the pipeline is the serial ledger.
ImplementsLedger == Ledger!Spec
=============================================================================
