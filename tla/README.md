# SENTINEL: a TLA+ verification project

SENTINEL watches Linux processes with eBPF, triages their kernel events, lets a classifier
judge suspicious windows, verifies the judgement and then enforces a tier (`LOG_ONLY`,
`PAUSE`, `KILL`, `QUARANTINE`, `ISOLATE`). This directory holds TLA+ models of the running
agent (`src/src/python/sentinel/`), of the kernel probes (`src/src/bpf/sentinel.c`), of
the evaluation that argues for the agent's quality (red team, rule tables, DARPA traces)
and of the demonstration, the TLC runs that check them and the TLAPS proofs of the
properties that matter most. `PROJECT.json` lists components, runs, mutants, the map from
definitions to source lines, findings, hazards and theorems.

To repeat the checks: `tlc -workers 2 -config MCX_run.cfg MCX` and
`tlapm X_proofs.tla`.

## 1. Inventory

Paths are relative to `src/src/python/sentinel/` unless they say otherwise.

| Part | State | Operations | Interacts with |
|---|---|---|---|
| Kernel probes `src/src/bpf/sentinel.c` | `entropy_map`, `lineage_map` (per CPU), `enforce_map`, ring buffer | tracepoints, LSM hooks | ring buffer to the agent; reads the marks of CWAE |
| Agent `agent.py`, `bpf.py` | 50 000-event intake queue, a poll thread | live loop, drain loop, fallback to simulation | ring buffer; awaits `push_event` for each event |
| Detector `agents/detector.py`, `triggers.py` | per-pid windows, histograms, flags, novelty sets | `handle`, `flag_pid`, eviction | puts signals on `det_queue` (500); called back by the auditor |
| Analyzer `agents/analyzer.py` | semaphore, parent cache, tasks | `run`, `_analyze`, eviction | one task per signal; puts results on `ana_queue` (200) |
| IPG and scorer `ipg.py`, `provenance_ml/scorer.py` | one graph per window | build, analyze, score | called by the analyzer |
| PCABP `pcabp/` | call-site map in a Bloom filter, encoder | build, load, check; divergence | detector (static), analyzer (thread) |
| Classifiers `llm/` | fast-path quantile | `classify`, retries, fallback to the mock | awaited by the analyzer |
| CoVe, evidence `cove.py`, `evidence.py` | none kept | `run`, `verify`, grounding | auditor thread |
| LTL guardian `ltl.py` | watches (tier 1 only) | `feed`, `analyze_window` | auditor thread (tier 2 only) |
| EGTE `egte.py` | calibration quantile | `fit`, `calibrate`, `enforce_tier` | auditor, before fusion |
| Auditor `agents/auditor.py` | statistics | `run`, `_audit` | CoVe, LTL, EGTE, fusion, CWAE, audit log, `flag_pid` |
| CWAE `enforcement.py` | records | `enforce`, `_dispatch` | signals, BPF map, `/proc`, cgroups, logs |
| Simulation, red team `simulation.py`, `../evaluate_red_team.py` | scenarios as data | replay, `evaluate_evasion` | guardian, triggers, classifier |
| Rule tables `baselines/falco_rules.py`, `semantic.py` | none | score, label, risk | scenarios |
| DARPA evaluation `../evaluate_darpa_tc.py`, `../evaluate_darpa_ablation.py`, `../evaluation/cadets_ingestor.py` | entity tables, windows | two-pass reading, labelling, sampling, detector modes | graph, classifier, CoVe, guardian |
| Demonstration `../demo_runner.py` on version 1 of encoder, mock and enforcement | a graph per scenario, results | menu, `run_scenario`, summary | scenarios; a dry run of enforcement |
| API, metrics, configuration, statistics | views | | read-only, not modelled |
| Measurement scripts, legacy v1 agent | | | offline, or unable to start; not modelled |

What is hard, and what makes each part correct:

* **Intake.** A poll thread calls `put_nowait` of an asyncio queue that is not
  thread-safe. Correct when events arrive once and in order, one is dropped only
  behind a full queue, and a lost wake-up delays but does not stop the loop, also
  when polls fail in silence.
* **Pipeline.** Asyncio tasks, a FIFO semaphore, two bounded queues and worker
  threads that outlive a cancelled coroutine; an auditor that dies of an `OSError`, or
  of evidence references that a model malformed.
  Correct when no signal is lost, duplicated or overtaken and no more than one
  action is missing from the audit trail.
* **Detector.** Statistics kept by differences, nine tables evicted together,
  novelty sets written in the middle of triage. Correct when statistics equal those
  of the window and nothing becomes "already seen" without a report.
* **Analysis.** Graph edges merged in place; two models with retries, a mock and a
  calibrated shortcut; claims matched in two passes. Correct when graph and report
  say what the events say, and when the shortcut stays within its error rate.
* **Verdict.** Seven overrides in a row, with the gate computed on another decision
  than the one enforced. Correct when no later override undoes a safety downgrade,
  and when alarms and evidence act monotonically.
* **Enforcement and kernel.** An event, its dispatch and the process it is about are
  far apart: processes exec, exit and leave their pid to others; marks are never
  removed; tables live per CPU, and threads of one process update them on several CPUs
  at once. Correct when a mark or signal takes effect on the process it reaches, a dry
  run has none, and what the CPUs' copies say of a process can be merged.
* **LTL guardian.** A table of watches rewritten by expiry, consumption and arming, with
  windows counted in events of all processes. Correct when what it raises is what the
  axioms mean on the event stream.
* **Evaluation.** Records that refer to later records or hold nulls; gates that decide
  which process a model sees; modes that share intermediate results or those of an earlier
  run. Correct when the reports' sentences are true of the scripts.
* **Demonstration.** A graph that lacks its first event and keeps one resource of several,
  a gate in front of a list of weighted substrings, a dry run with one step that does not
  ask. Correct when each scenario gets the label it announces and nothing is touched.

The full list of hazards, each at its line, is in `PROJECT.json`.

## 2. Modules

| Module | Models | Notes |
|---|---|---|
| `LossyChannel` | abstract: what the agent may assume of its intake | implemented by `EventIntake` within `Host` |
| `EventIntake` | ring buffer, poll thread, intake queue, drain loop | steps inside `asyncio.Queue.get` are separate |
| `Host` | processes and pids, kernel enforcement, `_dispatch`, with `EventIntake` | EXTENDS `EventIntake` |
| `Probes` | the probes' tables and records | with `CallSites` |
| `CallSites` | `pcabp/call_site_map.py` | operators |
| `Detector` | `DetectorAgent` | one event is one step |
| `AuditLedger` | abstract: the audit trail | implemented by `AgentPipeline` |
| `AgentPipeline` | queues, tasks, semaphore, parent cache, auditor and threads, shutdown | a step is what a coroutine does between two awaits, or what a thread does |
| `ProvenanceGraph` | `ipg.py`: build, analyze, score | a step is an iteration of `build` |
| `Evidence` | claim matching | operators |
| `Calibration` | conformal thresholds | operators; used by two components |
| `Analysis` | one signal from window to report | composes the three above |
| `ScoreFusion` | one result from graph score to tier | hundredths; escalation score in millionths |
| `Study` | the detector modes of both trace studies | operators over `ScoreFusion` |
| `Guardian` | `RuntimeMonitor`, `BuchiMonitor` | tier 1 is a state machine, tier 2 an operator |
| `Scenarios` | the scenarios and attacks | data |
| `Baselines` | both rule tables, `SimulationSource` | |
| `Demo` | `demo_runner.py` with `ipg_encoder.py`, the mock of `llm_classifier.py`, `enforcement.py` | |
| `RedTeam` | `evaluate_evasion`; composes the programs that play scenarios | INSTANCE of `Guardian` with the default axioms |
| `CdmParser`, `CadetsIngestor` | the two readers of trace files | |
| `TraceWindows` | `build_labeled_windows` behind the parser | filters are `Only`, which the prover can expand |
| `*_proofs` | theorems of `AgentPipeline`, `Detector`, `Analysis`, `ScoreFusion` with `Study`, `Guardian`, `Host`, `Probes`, `TraceWindows` | |
| `MC*` | constants for TLC | |

How the modules divide the agent: `Host` carries kernel events to the handler, and
enforcement back to processes; `Detector` decides which events become signals;
`AgentPipeline` moves signals without looking into them; `Analysis` and `ScoreFusion`
look into one signal. What one module leaves open (a verdict in `Host`, a
classification in `AgentPipeline`) is a nondeterministic choice over everything the
other can produce.

### EventIntake and Host

`Reserved` is `bpf_ringbuf_reserve` and submit; `Poll`, `Callback` and the end of a poll
are the worker thread in `BPFLoader.poll`. A poll ends when it has consumed what is there
(`PollReturns`) or with records left (`PollFails`): each poll opens the ring buffer anew,
and an exception of that, or of polling, is swallowed. `SeeEmpty` and `Register` are the
two halves of `asyncio.Queue.get`, between which the thread may put; `Resume`, `Take` and
`Handled` the drain loop. A callback that finds a waiter sets its future from the wrong
thread, so the loop only resumes when something else wakes it: the end of the poll
(`Resume` while `polling` has no fairness). `Burst` bounds the callbacks between `get`'s
test and its registration.

A process of `Host` is a pid and a life. It execs in two steps (the tracepoint, then the
LSM check), is stopped, continued, killed, becomes a zombie and leaves its pid to the next
life. Kernel probes read `enforce_map`; `_dispatch` is taken apart at every system call it
makes: signal, map update, `_dump_proc`'s copy of a memory map (a pause without effect,
which the pid may use to change hands), namespace, cgroup. The program holds pids, the
properties speak of lives. `doom`, `seen`, `killed` and `contained` are history. Whether
the engine holds valid map descriptors (`mapFds`) is a start-up choice: `agent.py:198`
reads them before loading, so in the running agent they are never valid.

### Probes and CallSites

`entropy_map` and `lineage_map` have a copy per CPU, of which an update of a new key
zeroes those of the other CPUs, and a bounded number of entries, with LRU eviction for the
first. A CPU runs one probe at a time (`Reserve`), another CPU may run one for another
thread of the same process: the key is the thread group's id. A probe that touches only
its own CPU's copies is one step (`Plain`); `trace_execve` and `trace_prctl`, which may
create a lineage record, look it up in one step (`LookUp`, what they found is in `probe`)
and update it in another (`FinishExecve` with `Trace`, `FinishPrctl` with `Rename`), so
two threads may both find none and both create it. `Pushed` is `_update_entropy_map`,
which stays one step with the end of its probe: two CPUs that both miss the entry write
the same empty histogram, and it is assumed that the LRU list does not recycle an entry
while a probe is working on it. `Leftover` is what a reserved record may hold in a field
its probe does not write: anything once the buffer has come round (`Lap`). `mirror` is
what user space's `EntropyTracker` would hold of the same calls; `first` are the probes
that had looked a lineage record up before it was made. `CallSites` follows each call of
the binary to a PLT stub under every layout of sections, without `.plt` too; `Valid`
includes the false positives of the Bloom filter; the map may have been written before the
field `all` existed. `base` is where a position-independent binary is loaded; `Alarm`
checks the runtime address without it, as detector.py:205 does.

### Detector

`Handle(e)` is all of `handle`: parent, statistics, window, triage, novelty sets and
eviction. `Trigger` is `_triage` layer by layer, and `Gated` says that the last layer,
the only one that learns, was reached. `Flat` and `MarkovFlat` stand for the entropies
being below their threshold: as constants in the module (so that the proofs hold for
any), and for TLC as "one type" and "each type determines the next", which is what
the entropies of windows of two events say. `FlagPid` comes any time after a signal;
`Expire` is a flag's 120 s running out at any time. `trace`, `parents`, `announced`,
`reported` and `last` are history. `events` is bounded by `MaxEvents`.

### AgentPipeline

`Emit` is `handle` building a signal, which is stored in `detQueue` or, if that is
full, suspended in `pushing` until `Push`. `Spawn` is an iteration of the
analyzer's `run`: it never waits for the semaphore, so `tasks`, the tasks waiting
for it, is unbounded. `Acquire`, `Classified`, `Scored` and `ResumePut` are the
segments of `_analyze` between awaits; `phase[s]` says where a task that holds an
LLM slot is suspended. `AnalyzeFails` is an exception in `classify` or in the PCABP
thread, whose only trace in the program is asyncio's warning. `UpdateCache` and
`Stale` are the parent cache and its eviction. The auditor is one coroutine: every
`asyncio.to_thread` is an `Await` that a thread step and then a `Resume` step
complete, separately, because a cancelled coroutine leaves its thread running.
`VerifyThread` stands for CoVe and the guardian, two awaits without an effect visible to
the pipeline but that evidence references a model malformed may raise there (see
`Analysis`); `RecordThread` for the two that write CWAE's own rows and swallow their
errors; `WriteThread` may fail before or after the audit line. `AuditorDies` is an
exception of verifying or writing leaving `run`, whose task nobody watches until
shutdown. `emitted`, `enforced`, `logged` and `lost` are history variables.

### ProvenanceGraph, Evidence, Calibration, Analysis

`Insert` is an iteration of `build`: nodes in order of appearance, and from the second
event on an edge, merged with an equal one (`Merged` keeps the resource the edge had
first). `Before` is the order in which networkx iterates over the edges, which
`exec_after_net` follows instead of time. A claim is what `EvidenceLinker` reads from
its text: a system call or none, a resource or none; `Exact` and `Loose` are the two
passes of `_match_event`, and `Part` says which resource string occurs in which.
`Calibration` is the order statistic that `ConformalFastPath` and `TierCalibrator` share.

`Analysis` follows a signal: `Receive` puts the parent's last events in front of the
window, `Judge` decides outside the gray zone, `ModelAnswers`, `AttemptFails`,
`MockAnswers` and `ModelFails` are `OllamaClassifier`'s attempts for the draft and the
full model, `FastPathOk` the shortcut, `Verify`, `Ground` and `Synthesize` CoVe. Nobody
checks the evidence references of a model's answer (`readable`): `VerifyRaises` is
`verify` meeting one that is a string, or whose contribution is no number, and the
exception ends the auditor's task. The claims are checked against `own`, the signal's
window, although the graph showed `win`.

### ScoreFusion and Study

`Analyze` draws an IPG behaviour, a classifier draft and PCABP inputs; `Ground` is CoVe
and the hallucination guard; `Guard` the LTL boost; `Gate` EGTE on the decision so far;
`Fuse` the fusion; `Enforce` CWAE's table under EGTE's cap; `Archive` the end of `_audit`.
A draft carries the numbers of its claims that match events of the window (`verified`) and
that do not (`unverified`), and the sum of the latter's contributions (`doubt`, possibly
negative). A label may also be one that nobody expects (`OTHER`), because the classifier's
is not validated. `egte` is chosen at start-up; the program's `_load_egte` can only
produce "off" and "unfitted", the class also supports "fitted". `Study` evaluates the
ablation's five modes and the detector modes of the trace script on the same inputs,
beside the agent's own verdict. `Recalled` is the decision that the ablation replays from
an earlier run, if it finds one: label and confidence of whatever detector mode that run
had (evaluate_darpa_ablation.py:136 looks first for a version 4 of the results, which
scripts/run_gcp_eval_chain.sh:133-139 makes with `--detector-mode llm_only`), without
claims, and CoVe's rate over these only if the run recorded it. The study recognises a
window by index and pid (line 181); that the file was made of the same windows is assumed.

### Guardian, Scenarios, Baselines, Demo, RedTeam

`Feed(e)` is `RuntimeMonitor.feed`: `Alive` is the expiry, `Fired` the forbidden event,
`Armed` and `Immediate` the second loop, `Keep` what `_watches[pid]` becomes. The
list of a process is a set: two entries of one axiom differ in where they were armed,
and the order of the list only orders the returned violations. `same_pid` is left out
because the code's test of it is always true. `stream` and `raised` are history.
`Replay` and `Report` are `BuchiMonitor._check_axiom`, in positions counted from 1.
Event predicates are sets of kinds; `MCGuardian` has one kind for each class of events
that the default axioms tell apart.

`Scenarios` is `simulation.py` as data, resources reduced to the classes that triggers,
axioms and rules tell apart. `RedTeam` feeds an attack to the guardian event by event,
then visits its processes in the order of their pids: a gate (hard trigger, flagged
parent, surprise) decides whether the model is asked, the model answers anything, and
a condemned process is flagged. `Surprise` is the entropy in thousandths, from a table of
logarithms. `Baselines` replays the other scenarios and labels every one. `Demo` runs ten
of them from its menu, one or all: `ReadEvent` is an iteration of `build`, `Paths`, `Tagged`
and `Calls` are what `serialize` leaves for the mock to find (an edge is merged with a
parallel one and keeps its first resource), `AttackSignals` and `BenignSignals` the mock's
weighted substrings, `DryRun` what `_dispatch` does without descriptors. Its menu keeps the
results of single choices until a summary; `MaxResults` bounds them. `program` is which of
the three programs is run.

### CdmParser, CadetsIngestor, TraceWindows

A file is a sequence of records; both readers go through it twice (`Pass1` or
`BuildEntities`, then `Yield` or `Stream`), one line per step. A reference may be absent,
null or to a record that follows; a null in a name, an exec, an address or a path stands
for the whole of the `properties`, or the `baseObject`, that would hold it. The parser
takes a null for an absence (`Given`, its "or {}"). The ingestor loses an event to an
exception it swallows (`Raises`), and a process or an object whose description it cannot
read (`Overlooked`): the process has then pid 0, its object no name. Packet sockets are
objects to the parser (evaluate_darpa_tc.py:180) and unknown to the ingestor
(cadets_ingestor.py:75). A null `map` inside `properties`, which neither reader expects
and which ends the parser's whole run, is left out. `StreamFaithful` says of each reader
what it makes of these. `TraceWindows` cuts each process's events into windows, walks from
each marked window up the parents (`Walk`), labels, sorts and samples. The walk goes up
`MaxDepth` generations (8 in the code), and `Descends`, what a parent chain is by
definition, has the same bound. `Files` are the files that may be read, `Texts` what may
stand in a record.

## 3. Runs

| Run | Instance | Shows |
|---|---|---|
| `pipeline_safety` | 3 signals of 2 processes, queues of 1, 2 slots, PCABP thread, eviction age 1, interval 2 | types, conservation, start in order, audit trail, refinement of the ledger; every signal settles, the put resumes |
| `detector_safety` | 4 processes, windows of 2, eviction age 1, interval 2, 5 events | types, statistics and windows, novelty |
| `fusion_safety` | all IPG behaviours with 0 to 3 sensitive reads, drafts on both sides of every threshold, 0 to 2 CRITICAL and 0 or 1 MEDIUM violations | which signal wins; monotonicity; what the studies' modes compare, asked and replayed |
| `fusion_static` (violation) | same | a static violation is masked |
| `guardian_safety` | 2 processes (symmetry), 9 kinds of events, the six default axioms with windows of 1 and 2, streams of 4 events | tier 1 equals its reference definition; deadlines and slices of tier 2 |
| `host_safety` | one pid with 2 lives, ring of 1, queue of 2, burst of 1, 4 records and dispatches | marks and signals take effect, dry run, refinement of the channel, no stranded event unless all polls fail |
| `analysis_safety` | windows of 2 of 7 kinds of events, parent windows of 2 of 3 kinds, 2 attempts, 3 calibration sets, 6 lists of claims, readable or not | graph, report, shortcut; how a signal may end |
| `analysis_parent` (violation) | same | an honest claim about the parent is retracted |
| `kernel_safety` | 2 processes, 2 CPUs, 2 names of threads, windows of 2, maps of 1 entry, 3 records, every PLT layout, load addresses 0 and 4096 (symmetry) | types (no negative count), histograms, lineage merged through races, which own calls alarm |
| `kernel_stale` (violation) | same | a record carries another call's address |
| `redteam_safety` | all 15 attacks, every answer of the model, all replayed scenarios, every choice from the menu | what detects which attack, and that attack 12 has no hard trigger; the labels of the rule tables and of the demonstration |
| `traces_safety` | a chain of 4 processes, marks carried 2 generations up, 5 calls after the descriptions (7 kinds of calls), and all files of 4 records (16 kinds, some with nulls) | both readers attribute events to what they can read; windows are the stream; ancestors carry the edge |

**Why the bounds suffice.** *Pipeline:* queues of one slot are full after one signal, so
with three signals the detector's put, a task's put and the semaphore each block behind
another; the theorems cover every number of signals. Two slots let results overtake. An
eviction age below the interval makes an entry both survive and be removed. *Detector:*
five events fill a window of two, slide it, evict the process and let it come back.
*Guardian:* windows of one and two events are opened, filled and passed within streams of
four, with another process's event inside or outside them. *Fusion:* no unbounded data;
its inputs enumerate both sides of every comparison (0.15/0.55, 0.29/0.30, 0.50, 0.70,
0.85, hallucination 50 %, the quantile). *Host:* one pid used twice is the whole of pid
reuse; `MaxWork` 4 allows an event, its dispatch, and a second event and dispatch for the
successor; `Burst` below `QueueSize` says that the poll thread cannot fill the queue
between two byte codes of `get` (a 5 ms slice against 50 000 slots). *Analysis:* two
events have an edge, four have equal edges to merge, a parent and an own part; all three
outcomes of the graph and both sides of the calibrated quantile occur. *Kernel:* a window
of two wraps with the third record, a map of one entry evicts with the second process;
`Lap` 2 makes the third record reuse the first's memory; two probes under way and one more
are a race and a rename after it. *Red team:* the data are the scripts'; one result may
wait for the demonstration's summary, more would only be repeated choices. *Traces:* with
two generations, four processes are the shortest chain with an ancestor between and one
that the walk must not reach; the short files put descriptions before, between and after
the calls that refer to them.

**Deadlock.** The pipeline stops when all signals are settled or after a shutdown, and
detector, host, analysis, kernel and traces when their bound is used up or their input is
finished, so those runs do not check deadlock. The fusion, guardian and red-team runs do.

**Fairness.** *Pipeline:* weak fairness of each task, of the put, of `run`, of the auditor
and of its thread: asyncio runs every ready callback in FIFO order, the semaphore wakes
its waiters in FIFO order, and `to_thread` work and classifier calls end (timeouts and
bounded retries). None for `Emit` or `Shutdown`. *Host:* the poll thread polls again when
it returns, every poll ends (it has a timeout, and swallows exceptions), the drain loop's
coroutine runs when the loop is awake; a future set from the poll thread does not wake the
loop, so `Resume` is fair only while no poll is running. That a poll ends well is not
assumed: `Unstranded` has as its premise that polls consume the ring again and again,
since `poll` would swallow the same exception for ever. None for processes and the kernel.
*Analysis:* `Progress`, the steps of one `_analyze` and `_audit`, is weakly fair: attempts
time out and are counted.

**Findings.** Each violation run contradicts a sentence of the repository, which
`PROJECT.json` quotes:

* `fusion_static`: a "non-maskable" static call-site violation is only logged when the
  draft is hallucinated.
* `analysis_parent`: a verdict that quotes only edges of the graph the model was shown is
  treated as hallucinated when they are the parent's.
* `kernel_stale`: `user_ip` is "0 if not captured" in the comment; it is what an older
  record left there.

### Observations without a run

*Kernel and host.* In `sentinel.c` uid and gid are swapped (`>> 32` is the gid); O_RDWR
opens count as reads; `lineage_map` is never cleaned, so a reused pid starts with renames,
and a rename while the ring is full is not counted; no user-space code reads `entropy_map`
and `lineage_map`; two threads that first call execve or prctl at once leave two original
names (look-up and update at 216 and 228, 630 and 647, on a map that line 108 calls fit
for "lock-free concurrent updates", with a count that line 592 calls incremented
"atomically"; `LineageMerged`); per-CPU windows split the histogram of a process that
migrates, which agent.py:42 says user space mirrors; tracepoint and LSM hook report one
call twice. `_bpf_mark` ignores `dry_run`; the map descriptors are read before the object
is loaded (agent.py:198) and are -1; `_bpf_map_update` hard-codes the x86-64 number of
`bpf` and ignores its result; a namespace's inode number is written where the kernel looks
up its cookie; after SIGKILL a zombie has no namespace link; `_freeze_cgroup` freezes
whatever cgroup the pid is in. A failed load falls back to simulated events with real
enforcement (agent.py:254-257). An empty call-site map flags every call although
call_site_map.py:102 says "disabled"; a binary without `.plt` gets such a map; the
detector gives `check` no load address (detector.py:205), although call_site_map.py:15 and
135 name position-independent binaries, whose own calls therefore alarm but for a
collision in the filter (`OwnCallAlarms`); stubs within 32 bytes of each other are
confused. The agent never calls `inject_tls_intent`, and feeds tier 2 of the guardian
only.

Each poll opens the ring buffer anew and hides every exception in a debug line
(bpf.py:83-91): an agent whose polls all fail monitors nothing, in silence.

*Detector and pipeline.* pipeline.py:21 gives the analyzer's queue to the auditor
"flush-or-drop semantics"; the code awaits a put into it, so nothing is dropped, and the
waiting task keeps its LLM slot (`Settles`). pipeline.py:19-20 claims back-pressure, but
`run` turns queued signals into unbounded tasks (analyzer.py:111). Eviction forgets a
silent child's parent while the parent's flag is in force (detector.py:188). Renames are
no hard triggers in the running detector (detector.py:216), although agent.py:305-306 says
so.

*Analysis.* Evidence references that are no objects, or with a contribution that is no
number, pass ollama.py:174 and raise at evidence.py:110-115, inside the thread awaited at
auditor.py:96: one malformed answer of the model ends the auditor, and with it all
enforcement (`Concludes`, `AuditorDies`). The first event of a window has no edge; merged
edges keep the first resource; `exec_after_net` follows networkx's order (ipg.py:238).
CoVe's grounding loop never changes anything (lemma `NothingRegrounded`). An event without
a resource backs every claim of its system call. A draft threshold of 0.08 or less (a test
uses 0.01) lets the mock's BENIGN replace the full model; the fallback's reasoning
"Mock[mock/full]: ..." is parsed as a claim about a path. `make_classifier` passes no
calibrated fast path, and `_load_egte` never fits its calibrator. The prefixes "/.ssh/",
".aws/credentials", "id_rsa" and "ssl/private" (ipg.py:97-101) can never be prefixes of a
path.

*Verdict.* config.py:74-75 says that an unfitted calibrator caps every window to LOG_ONLY,
but the LTL floor raises it to PAUSE; the documented SIGSTOP band 0.30 to 0.50 is
unreachable without EGTE (theorem `PauseIsACap`); a graph-only verdict makes no claims, so
EGTE never lets it exceed PAUSE; `fuse_scores` ignores the classifier's BENIGN, so a graph
score of 0.50 to 0.54 enforces KILL against it. A label that is neither BENIGN nor
MALICIOUS lets an unsupported verdict destroy (ollama.py:165, egte.py:45-47).

*Guardian.* `same_pid=False` has no effect, although ltl.py:131 says "any PID firing B is a
violation"; axioms with `negate=True` ignore their window (ltl.py:325, against ltl.py:25);
AX-2b asks for 50 events without a connection, which a window of 20 never has; an exec
from /tmp is reported twice by AX-4 when an event of the same process came just before;
the watches of AX-3 grow with each rename.

*Evaluation.* simulation.py:273 says that EVASION-05 "Evades Falco", but the repository's
table alerts on all 15 evasions; its dampening is dead code, and resource and system call
of a rule are matched in different events. evaluate_red_team.py:374-375 says that the
model detects DNS rebinding, but no gate lets it ask; lines 23 and 371 claim for
EVASION-12 a hard trigger on the "setuid(0) sequence", which `_is_hard_trigger` (103-105)
does not have: only AX-4 detects it (`ClaimsHold`). In the ablation the "hybrid_ltl" label
does not depend on the model and "full" can only lose detections. Replayed from an earlier
run, the decisions carry no claims, so "full" is "hybrid_ltl" unless that run recorded
CoVe's rates; replayed from a run of the model alone with rates, the modes are those of a
live study; from a hybrid run, "llm_only" is "hybrid". The committed
darpa_ablation_gcp.json agrees with a replay of the model alone: in all of its 100 windows
the hallucination rate is 0, "full" is "hybrid_ltl", and that is "graph_only" or a severe
violation; "llm_only" differs from "hybrid" in 8. CoVe's pairs never disagree, so
McNemar's table is empty (`StudyExplained`). The ingestor never finds process names, has
no parents, loses events with null references, the process of a subject with null
properties (cadets_ingestor.py:38-42, 77; evaluate_darpa_tc.py:225 allows for it) and
packet sockets; the parser ignores the last, incomplete window of a process; windows with
a command-server address in attack time count as "hard" although the comment excludes
them; "every window whose PID is an ancestor" (evaluate_darpa_tc.py:368) means up to eight
generations (line 423); the synthetic edge survives `--strip-annotations`. The summary of
all scenarios in the demonstration's menu also counts single runs before it; `_dump_proc`
does not ask for `dry_run`, so a KILL tier would copy the memory map of whatever process
has the scenario's pid (no scenario reaches that tier); a malicious process in T1562 hides
its cron entry, because the edge that carries it is merged with an earlier write.

## 4. Proofs

All for arbitrary constants, under the named assumptions of the modules
(`PipelineAssumption`, `DetectorAssumption`, `FusionAssumption`, `GuardianAssumption`,
`IntakeAssumption`, `HostAssumption`, `GraphAssumption`, `EvidenceAssumption`,
`CalibrationAssumption`, `AnalysisAssumption`, `ProbesAssumption`, `WindowsAssumption`,
`FilesAssumption`). TLC evaluates each of
them. One theorem has a hypothesis of its own, `MaxHal >= 10` in `StudyModes`: the study
gives a report up at a fixed 10 % of unsupported claims, the agent at a configurable share
(50 % by default), and the full system only loses detections against the others where
the agent's share is not the smaller one.

| Theorems | Statement | Argument |
|---|---|---|
| `AgentPipeline_proofs`: `TypeCorrect`, `AuditTrail` | `TypeOK`, `EnforcementLogged` | an action happens only in "dispatch", and the auditor returns to "idle" only through a completed write |
| `Conservation` | `OnePlace` | needs the types, the auditor's invariant and `HandInv` (until its write has returned, the auditor's signal is unsettled); one lemma moves a signal between two places |
| `Fifo` | `FifoStart` | inductive: the backlog over put, queue and waiters is a suffix of what was raised; every step keeps it, appends to both or drops its head |
| `LedgerRefinement` | `ImplementsLedger` | every action maps to `Raise`, `Act`, `Log`, `Lose` or a stutter; uses `Conservation`'s invariant, because the status of a signal is read off the places |
| `Detector_proofs`: `TypeCorrect`, `Faithful` | `TypeOK`, `StateFaithful` | `DetInv`: each window is the end of its process's trace and each histogram counts it; appending adds one to one count and dropping the head subtracts one (`CountAppend`, `CountTail`), so no count gets below zero |
| `Novelty` | `NoveltyReported` | a gated event that is skipped taught the gate nothing |
| `Host_proofs`: `TypeCorrect` | `TypeOK` | types of intake, kernel, agent and task, with the bound on work |
| `MarksAreEnforced`, `KillsLand` | `MarksHold`, `KillLands` | a relation `Evolves` says what any step may do to a process: lives only grow, a pending signal only gets stronger and leaves only by being delivered; the invariants `MarkHolds` and `Slain` are closed under it |
| `DryRun` | `DryRunHarmless` | `Calm`: no mark, signal or containment exists, so none takes effect |
| `IntakeRefinement` | `ImplementsChannel` | the channel's transit is queue and ring; a callback behind a full queue is `Lose`, in front of it a stutter |
| `Analysis_proofs`: `TypeCorrect`, `ClaimsCorrect` | `TypeOK`, `ClaimsFaithful` | `AnalysisInv`; from the first verification on the report is that of the claims (`Reported`), because grounding again looks for what the second pass did not find |
| `GraphCorrect` | `GraphFaithful` | an edge is described by the set of its instances (`Sums`); one more instance joins it or starts a new edge (`JoinedFaithful`) |
| `FastPath` | `FastPathBound` | a fitted calibrator holds the order statistic of its last set (`CalInv`), and at most n - k of n sorted scores are above the k-th (`OrderStatistic`) |
| `Guardian_proofs`: `TypeCorrect`, `WatchTable`, `Monitoring` | `TypeOK`, `WatchesExact`, `FeedExact` | `FeedExact` is not inductive: which violations come depends on the watches, so `WatchesExact` says what the table holds, including the expired watches whose process has had no event since |
| `TemporalReports`, `SlidingWindows` | `TemporalExact`, `SlidingComplete` | what the recursive replay computes for every window (`ReplayValue`): one watch for each trigger, which has seen the consequence if its process did it since; and the slice of a process's own events (`OwnEvents`) is the end of them, shifted |
| `ScoreFusion_proofs`: `TypeCorrect`, `NoActionOnHallucination`, `Grounding`, `CriticalFloor`, `PauseIsACap` | `TypeOK`, `HallucinationNeverActs`, `DestructionGrounded`, `CriticalActs`, `PauseOnlyByGate` | `VerdictInv`: what the gate owes to evidence and axioms (`Gated`), what the fused decision owes to CoVe (`FusedInv`), what the tier is (`Decided`); the properties speak of the last stage only, and the invariant carries there what each earlier one established |
| `TierGrows` | `Monotone` | `Computed`: at every stage the record is a function of the inputs drawn so far, so the tier reached is `Outcome` of them; then each override in turn is monotone |
| `StudyModes` | `StudyExplained` | the same invariant gives the agent's verdict; the modes follow by cases on label, score and evidence, and a replayed decision is read as that of a model without claims, or with the recorded rates (`RecalledFusion`, `RecalledModes`) |
| `Probes_proofs`: `TypeCorrect`, `MirrorsUserSpace` | `TypeOK`, `MirrorsTracker` | on each CPU the ring of types and the counts are those of the tracker's window: the position that `update_entropy` overwrites is the tracker's oldest entry (`OldestMoves`), one count goes up and, in a full window, one down (`PushedMirrors`), so no count gets below zero |
| `LineageSurvivesRaces` | `LineageMerged` | `LineageInv`: a record has the name of a probe in `first` and no name of any other (`Merges`); a probe under way that found none has written nothing on its CPU and, if the record is there by now, is in `first` (`Between`), so its update adds to the copies and overwrites none; the sum of the counts over the CPUs grows with the one copy that is updated (`SumChanges`) |
| `SelfAlarms` | `OwnCallAlarms` | at the linked address: the stub that a call goes to is near its own symbol's, so some symbol whose stub is near gets the call, in every layout with a `.plt` (`CallIsSite`), and a Bloom filter has no false negatives; without a `.plt` the map is empty; elsewhere the alarm is the filter's answer |
| `TraceWindows_proofs`: `FaithfulStream` | `StreamFaithful` | `Inv`: `Known` says that the tables hold the last description of each identifier among the lines seen (`Pass1Known`), so in the second pass, when all have been seen, a table says what the file says to its reader (`SaidIsKnown`, `SaidObject`; a description that the ingestor overlooks leaves its table as it was); one more event extends the records read, the stream, and one process's windows and buffer by the same element (`ResolutionGrows`, `ConsumeCuts`) |
| `FaithfulChain` | `ChainFaithful` | `Labels`: what is labelled and sampled are raw windows with the labels of now, because neither `raw` nor `ppids` changes after the end of the file (`LabelledStays`); the walk from a process meets its ancestors within `MaxDepth` and no other process, also where parents form a cycle (`WalkAncestors`), and `c2_resource` has a window of each process with a marked one (`C2WindowsElements`) |

**Induction without the library's induction theorems.** Those take an operator as a
parameter and cannot be cited here. The proofs that need induction over the naturals
(what `Replay` and `OfPid` return for every stream, what `FlattenSeq` contains, where
`Walk` leads, sums over CPUs, the existence of the recursive functions) take the smallest
counterexample, which exists because `<` is well founded on `Nat` (`NatMinimum`). A
recursive function is shown to exist by extending the functions defined up to n.

**What the proof of `Monotone` found.** A classifier's confidence is not validated
(ollama.py:165). If it exceeds 1.00 and the decision has no claims, the LTL boost cuts it
to 1.00, so one more violation lowers the escalation score. The tier never falls:
without a verified claim the evidence cap is PAUSE, which both scores reach. The
theorem therefore rests on the cap, not on the score.

**Only model-checked.** Liveness (`Settles`, `DetectorResumes`, `Concludes`,
`Unstranded`): the prover does not handle fairness and ENABLED. `ClaimsHold`,
`MissedOnlyByModel` of `RedTeam`: statements about one set of concrete data, which TLC
enumerates completely, so a proof would add nothing. No module uses RECURSIVE.

## 5. Not modelled, and why

* The bytes: resource names, prompts, IPG text, MITRE labels, log rows.
* Numerical code (encoder, entropies of long windows): represented by the outcome the
  control flow depends on. Floating-point rounding is not represented.
* Wall-clock time: a flag may expire at any moment, a thread may take any time.
* System calls above `SC_TYPES`, which the probes do not produce.
* `sentinel_tls.c`: copies plaintext into records that the running agent never reads.
* API, metrics, configuration, schemas, statistics: read-only views, parsing, formulas.
* `provenance_ml/features.py`, `provenance_ml/detector.py`, `provenance.py`: not on the
  path from event to tier. Temperature scaling only changes confidences, which are free.
* Measurement scripts (`benchmark_overhead.py`, `evaluation/benchmark.py`): timings and
  printed tables.
* The legacy v1 agent (`sentinel_agent.py`, `agents/`, the models of `llm_classifier.py`),
  documented at README.md:131: its pipeline passes arguments its auditor does not take, so
  it cannot start.
* Dynamic loading in PCABP's encoder and the training of any model.

## 6. What could follow

1. The packet filter and `xdp_quarantine_map` of `sentinel.c` with the containment of
   `Host`, down to packets.
2. A composition of `Detector` with `Host`, in which pids are reused under the detector's
   tables.
