------------------------ MODULE AgentPipeline_proofs ------------------------
(***************************************************************************)
(* Proofs about AgentPipeline for every set of signals and processes and   *)
(* every capacity: type correctness, that at most one enforcement action   *)
(* is missing from the audit trail, that no signal is duplicated or        *)
(* dropped on its way through the stages, that signals start in order, and *)
(* that the pipeline implements the audit ledger.                          *)
(***************************************************************************)
EXTENDS AgentPipeline, SequenceTheorems, TLAPS

-----------------------------------------------------------------------------
(* Lemmas about the queues.                                                 *)

\* Taking the head off a non-empty queue: both parts keep their type.
LEMMA HeadTail ==
  ASSUME NEW S, NEW q \in Seq(S), q # <<>>
  PROVE  Head(q) \in S /\ Tail(q) \in Seq(S)
BY HeadTailProperties

\* Appending an element of the queue's type keeps the type.
LEMMA AppendType ==
  ASSUME NEW S, NEW q \in Seq(S), NEW x \in S
  PROVE  Append(q, x) \in Seq(S)
BY AppendProperties

\* Updating the parent cache keeps its three variables well typed.
LEMMA CacheType ==
  ASSUME TypeOK, NEW s \in Signals, UpdateCache(s)
  PROVE  /\ analyzed' \in Nat
         /\ parentCache' \in [Pids -> Signals \cup {NoSignal}]
         /\ cacheSeen' \in [Pids -> Nat]
<1>1. analyzed \in Nat /\ cacheSeen \in [Pids -> Nat]
      /\ parentCache \in [Pids -> Signals \cup {NoSignal}]
  BY DEF TypeOK
<1>2. [cacheSeen EXCEPT ![PidOf[s]] = analyzed] \in [Pids -> Nat]
  BY <1>1
<1>3. QED
  BY <1>1, <1>2 DEF UpdateCache

\* Handing a result over keeps the queue and the tasks well typed.
LEMMA PutType ==
  ASSUME TypeOK, NEW s \in Signals, PutResult(s)
  PROVE  anaQueue' \in Seq(Signals) /\ phase' \in [Signals -> Phases]
<1>1. Append(anaQueue, s) \in Seq(Signals)
  BY AppendType DEF TypeOK
<1>2. QED
  BY <1>1 DEF TypeOK, PutResult, SetPhase, Phases

\* So does labelling a signal, whichever way it goes on.
LEMMA LabelledType ==
  ASSUME TypeOK, NEW s \in Signals, Labelled(s)
  PROVE  /\ anaQueue' \in Seq(Signals) /\ phase' \in [Signals -> Phases]
         /\ analyzed' \in Nat
         /\ parentCache' \in [Pids -> Signals \cup {NoSignal}]
         /\ cacheSeen' \in [Pids -> Nat]
<1>1. CASE Pcabp
  BY <1>1 DEF Labelled, TypeOK, SetPhase, Phases, cacheVars
<1>2. CASE ~Pcabp
  BY <1>2, CacheType, PutType DEF Labelled, Finish
<1>3. QED
  BY <1>1, <1>2

-----------------------------------------------------------------------------
(* Type correctness, one lemma per stage.                                   *)

LEMMA DetectorType == TypeOK /\ (Detector \/ Spawn) => TypeOK'
<1>1. ASSUME TypeOK, NEW s \in Signals, Emit(s)  PROVE TypeOK'
  <2>1. Append(emitted, s) \in Seq(Signals) /\ Append(detQueue, s) \in Seq(Signals)
    BY <1>1, AppendType DEF TypeOK
  <2>2. QED
    BY <1>1, <2>1 DEF Emit, TypeOK, auditVars, cacheVars
<1>2. ASSUME TypeOK, Push  PROVE TypeOK'
  BY <1>2, AppendType DEF Push, TypeOK, auditVars, cacheVars
<1>3. ASSUME TypeOK, Spawn  PROVE TypeOK'
  BY <1>3, HeadTail, AppendType
     DEF Spawn, TypeOK, detVars, auditVars, cacheVars
<1>4. QED
  BY <1>1, <1>2, <1>3 DEF Detector

LEMMA TaskType == ASSUME TypeOK, NEW s \in Signals, Task(s)  PROVE TypeOK'
<1>1. CASE Acquire(s)
  <2>1. tasks' \in Seq(Signals)
    BY <1>1, HeadTail DEF Acquire, TypeOK
  <2>2. CASE SetPhase(s, "classify") /\ UNCHANGED <<anaQueue, cacheVars>>
    BY <1>1, <2>1, <2>2
       DEF Acquire, SetPhase, Phases, TypeOK, detVars, auditVars, cacheVars
  <2>3. CASE Labelled(s)
    BY <1>1, <2>1, <2>3, LabelledType DEF Acquire, TypeOK, detVars, auditVars
  <2>4. QED
    BY <1>1, <2>2, <2>3 DEF Acquire
<1>2. CASE Classified(s)
  BY <1>2, LabelledType DEF Classified, TypeOK, detVars, auditVars
<1>3. CASE AnalyzeFails(s)
  BY <1>3 DEF AnalyzeFails, SetPhase, Phases, TypeOK, detVars, auditVars,
              cacheVars
<1>4. CASE Scored(s)
  BY <1>4, CacheType, PutType DEF Scored, Finish, TypeOK, detVars, auditVars
<1>5. CASE ResumePut(s)
  BY <1>5, PutType DEF ResumePut, TypeOK, detVars, auditVars, cacheVars
<1>6. QED
  BY <1>1, <1>2, <1>3, <1>4, <1>5 DEF Task

LEMMA ThreadType == TypeOK /\ Thread => TypeOK'
<1>1. ASSUME TypeOK, VerifyThread \/ RecordThread  PROVE TypeOK'
  BY <1>1 DEF VerifyThread, RecordThread, Elsewhere, TypeOK, detVars, cacheVars
<1>3. ASSUME TypeOK, DispatchThread  PROVE TypeOK'
  BY <1>3 DEF DispatchThread, Elsewhere, TypeOK, detVars, cacheVars
<1>4. ASSUME TypeOK, WriteThread  PROVE TypeOK'
  BY <1>4 DEF WriteThread, Elsewhere, TypeOK, detVars, cacheVars
<1>5. QED
  BY <1>1, <1>3, <1>4 DEF Thread

LEMMA AuditorType == TypeOK /\ Auditor => TypeOK'
<1>1. ASSUME TypeOK, AuditGet  PROVE TypeOK'
  <2>1. Head(anaQueue) \in Signals /\ Tail(anaQueue) \in Seq(Signals)
    BY <1>1, HeadTail DEF AuditGet, TypeOK
  <2>2. Head(anaQueue) # NoSignal
    BY <2>1, PipelineAssumption
  <2>3. QED
    BY <1>1, <2>1, <2>2
       DEF AuditGet, Await, Elsewhere, AuditSteps, TypeOK, detVars, cacheVars
<1>2. ASSUME TypeOK, ResumeVerify \/ ResumeEnforce  PROVE TypeOK'
  BY <1>2 DEF ResumeVerify, ResumeEnforce, Await, Elsewhere, AuditSteps,
              TypeOK, detVars, cacheVars
<1>3. ASSUME TypeOK, ResumeWrite \/ AuditorDies  PROVE TypeOK'
  BY <1>3 DEF ResumeWrite, AuditorDies, Elsewhere, AuditSteps, TypeOK,
              detVars, cacheVars
<1>4. QED
  BY <1>1, <1>2, <1>3 DEF Auditor

\* Every reachable state of the pipeline is well typed, whatever the queue
\* sizes, the number of slots and the signals.
THEOREM TypeCorrect == Spec => []TypeOK
<1>1. Init => TypeOK
  BY DEF Init, AnalyzerInit, AuditorInit, TypeOK, Phases, AuditSteps
<1>2. TypeOK /\ [Next]_vars => TypeOK'
  <2>1. TypeOK /\ Shutdown => TypeOK'
    BY DEF Shutdown, TypeOK, detVars, auditVars, cacheVars
  <2>2. TypeOK /\ UNCHANGED vars => TypeOK'
    BY DEF TypeOK, vars, detVars, auditVars, cacheVars
  <2>3. QED
    BY <2>1, <2>2, DetectorType, TaskType, ThreadType, AuditorType DEF Next
<1>3. QED
  BY <1>1, <1>2, PTL DEF Spec

-----------------------------------------------------------------------------
(* The audit trail.                                                         *)

\* What the auditor's coroutine knows at each await; without it a new result
\* could be taken while an unlogged action is outstanding.
AuditorInv ==
  /\ EnforcementLogged
  /\ auditStep = "idle" => auditSig = NoSignal
  /\ auditStep = "write" /\ thread = "done" => auditSig \in logged
  /\ thread = "failed" => auditStep \in {"verify", "write"}

\* The detector, the tasks and a shutdown do not touch the auditor.
LEMMA AuditorAlone ==
  ASSUME NEW s \in Signals, Detector \/ Spawn \/ Task(s) \/ Shutdown
  PROVE  UNCHANGED auditVars
<1>1. ASSUME NEW t \in Signals, Emit(t)  PROVE UNCHANGED auditVars
  BY <1>1 DEF Emit
<1>2. CASE Push \/ Spawn \/ Shutdown
  BY <1>2 DEF Push, Spawn, Shutdown
<1>3. CASE Task(s)
  BY <1>3 DEF Task, Acquire, Classified, AnalyzeFails, Scored, ResumePut
<1>4. QED
  BY <1>1, <1>2, <1>3 DEF Detector

\* A thread acts only for the signal the auditor holds.
LEMMA ThreadAudit == TypeOK /\ AuditorInv /\ Thread => AuditorInv'
<1>1. ASSUME AuditorInv, VerifyThread \/ RecordThread  PROVE AuditorInv'
  BY <1>1 DEF VerifyThread, RecordThread, AuditorInv, EnforcementLogged
<1>2. ASSUME AuditorInv, DispatchThread  PROVE AuditorInv'
  BY <1>2 DEF DispatchThread, AuditorInv, EnforcementLogged
<1>3. ASSUME AuditorInv, WriteThread  PROVE AuditorInv'
  BY <1>3 DEF WriteThread, AuditorInv, EnforcementLogged
<1>4. QED
  BY <1>1, <1>2, <1>3 DEF Thread

LEMMA CoroutineAudit == TypeOK /\ AuditorInv /\ Auditor => AuditorInv'
<1>1. ASSUME TypeOK, AuditorInv, AuditGet  PROVE AuditorInv'
  <2>1. enforced \subseteq logged
    BY <1>1, PipelineAssumption DEF AuditGet, AuditorInv, EnforcementLogged, TypeOK
  <2>2. QED
    BY <1>1, <2>1 DEF AuditGet, Await, AuditorInv, EnforcementLogged
<1>2. ASSUME AuditorInv, ResumeVerify \/ ResumeEnforce  PROVE AuditorInv'
  BY <1>2 DEF ResumeVerify, ResumeEnforce, Await, AuditorInv, EnforcementLogged
<1>3. ASSUME AuditorInv, ResumeWrite  PROVE AuditorInv'
  BY <1>3 DEF ResumeWrite, AuditorInv, EnforcementLogged
<1>4. ASSUME AuditorInv, AuditorDies  PROVE AuditorInv'
  BY <1>4 DEF AuditorDies, AuditorInv, EnforcementLogged
<1>5. QED
  BY <1>1, <1>2, <1>3, <1>4 DEF Auditor

\* AuditorInv is kept by every step of the pipeline.
LEMMA AuditorStep == TypeOK /\ AuditorInv /\ [Next]_vars => AuditorInv'
<1>1. AuditorInv /\ UNCHANGED auditVars => AuditorInv'
  BY DEF AuditorInv, EnforcementLogged, auditVars
<1>2. UNCHANGED vars => UNCHANGED auditVars
  BY DEF vars
<1>3. ASSUME Detector \/ Spawn \/ Shutdown  PROVE UNCHANGED auditVars
  BY <1>3 DEF Detector, Emit, Push, Spawn, Shutdown
<1>4. ASSUME NEW s \in Signals, Task(s)  PROVE UNCHANGED auditVars
  BY <1>4, AuditorAlone
<1>5. QED
  BY <1>1, <1>2, <1>3, <1>4, ThreadAudit, CoroutineAudit DEF Next

\* At most one enforcement action is ever missing from the audit trail: the
\* one the auditor was working on.
THEOREM AuditTrail == Spec => []EnforcementLogged
<1>1. Init => AuditorInv
  BY DEF Init, AnalyzerInit, AuditorInit, AuditorInv, EnforcementLogged
<1>2. AuditorInv => EnforcementLogged
  BY DEF AuditorInv
<1>3. QED
  BY <1>1, <1>2, AuditorStep, TypeCorrect, PTL DEF Spec
-----------------------------------------------------------------------------
(* Conservation: every signal raised is in exactly one place.               *)

\* An element moved from one place to another leaves the places apart and
\* holding the same elements.
LEMMA Moved ==
  ASSUME NEW P, NEW Q, DOMAIN Q = DOMAIN P,
         NEW a \in DOMAIN P, NEW b \in DOMAIN P, a # b,
         NEW x, x \in P[a], Apart(P),
         Q[a] = P[a] \ {x}, Q[b] = P[b] \cup {x},
         \A n \in DOMAIN P \ {a, b} : Q[n] = P[n]
  PROVE  Apart(Q) /\ AllOf(Q) = AllOf(P)
<1>1. Apart(Q)
  <2>1. SUFFICES ASSUME NEW i \in DOMAIN P, NEW j \in DOMAIN P, i # j,
                        NEW y, y \in Q[i], y \in Q[j]
                 PROVE  FALSE
    BY DEF Apart
  <2>2. \A n \in DOMAIN P : y \in Q[n] => y \in P[n] \/ (n = b /\ y = x)
    OBVIOUS
  <2>3. \A n \in DOMAIN P : x \in P[n] => n = a
    BY DEF Apart
  <2>4. QED
    BY <2>1, <2>2, <2>3 DEF Apart
<1>2. AllOf(Q) \subseteq AllOf(P)
  <2>1. SUFFICES ASSUME NEW n \in DOMAIN P, NEW y \in Q[n]
                 PROVE  \E m \in DOMAIN P : y \in P[m]
    BY DEF AllOf
  <2>2. QED
    OBVIOUS
<1>3. AllOf(P) \subseteq AllOf(Q)
  <2>1. SUFFICES ASSUME NEW n \in DOMAIN P, NEW y \in P[n]
                 PROVE  \E m \in DOMAIN P : y \in Q[m]
    BY DEF AllOf
  <2>2. CASE y = x
    BY <2>2
  <2>3. CASE y # x
    BY <2>3
  <2>4. QED
    BY <2>2, <2>3
<1>4. QED
  BY <1>1, <1>2, <1>3

\* An element from outside that enters one place leaves them apart.
LEMMA Entered ==
  ASSUME NEW P, NEW Q, DOMAIN Q = DOMAIN P,
         NEW b \in DOMAIN P, NEW x, x \notin AllOf(P), Apart(P),
         Q[b] = P[b] \cup {x},
         \A n \in DOMAIN P \ {b} : Q[n] = P[n]
  PROVE  Apart(Q) /\ AllOf(Q) = AllOf(P) \cup {x}
<1>1. \A n \in DOMAIN P : x \notin P[n]
  BY DEF AllOf
<1>2. Apart(Q)
  BY <1>1 DEF Apart
<1>3. \A y : y \in AllOf(Q) <=> y \in AllOf(P) \/ y = x
  BY DEF AllOf
<1>4. QED
  BY <1>2, <1>3

\* Appending: one more element, still without duplicates if it is new.
LEMMA Appended ==
  ASSUME NEW S, NEW q \in Seq(S), NEW x \in S
  PROVE  /\ Elems(Append(q, x)) = Elems(q) \cup {x}
         /\ Distinct(q) /\ x \notin Elems(q) => Distinct(Append(q, x))
<1>1. /\ DOMAIN q = 1..Len(q) /\ Len(q) \in Nat
      /\ DOMAIN Append(q, x) = 1..(Len(q) + 1)
      /\ \A i \in 1..Len(q) : Append(q, x)[i] = q[i]
      /\ Append(q, x)[Len(q) + 1] = x
  BY AppendProperties, LenProperties
<1>2. \A y : y \in Elems(Append(q, x)) <=> y \in Elems(q) \/ y = x
  <2>1. Len(q) + 1 \in 1..(Len(q) + 1) /\ 1..Len(q) \subseteq 1..(Len(q) + 1)
    BY <1>1
  <2>2. \A i \in 1..(Len(q) + 1) : i \in 1..Len(q) \/ i = Len(q) + 1
    BY <1>1
  <2>3. QED
    BY <1>1, <2>1, <2>2 DEF Elems
<1>3. Distinct(q) /\ x \notin Elems(q) => Distinct(Append(q, x))
  BY <1>1 DEF Distinct, Elems
<1>4. QED
  BY <1>2, <1>3

\* Removing the head of a queue without duplicates removes that element.
LEMMA Removed ==
  ASSUME NEW S, NEW q \in Seq(S), q # <<>>, Distinct(q)
  PROVE  /\ Head(q) \in Elems(q)
         /\ Elems(Tail(q)) = Elems(q) \ {Head(q)}
         /\ Distinct(Tail(q))
<1>1. /\ Len(q) \in Nat \ {0} /\ DOMAIN q = 1..Len(q)
      /\ Head(q) = q[1] /\ DOMAIN Tail(q) = 1..(Len(q) - 1)
      /\ \A i \in 1..(Len(q) - 1) : Tail(q)[i] = q[i + 1]
  BY HeadTailProperties, LenProperties, EmptySeq
<1>2. Head(q) \in Elems(q)
  BY <1>1 DEF Elems
<1>3. Distinct(Tail(q))
  BY <1>1 DEF Distinct
<1>4. \A i \in 1..Len(q) : i # 1 => i - 1 \in 1..(Len(q) - 1) /\ q[i] = Tail(q)[i - 1]
  BY <1>1
<1>5. \A i \in 1..(Len(q) - 1) : i + 1 \in 1..Len(q) /\ i + 1 # 1
  BY <1>1
<1>6. ASSUME NEW y \in Elems(Tail(q))  PROVE y \in Elems(q) /\ y # Head(q)
  <2>1. PICK i \in 1..(Len(q) - 1) : y = q[i + 1]
    BY <1>1, <1>6 DEF Elems
  <2>2. i + 1 \in DOMAIN q /\ 1 \in DOMAIN q /\ i + 1 # 1
    BY <1>1, <1>5
  <2>3. QED
    BY <1>1, <2>1, <2>2 DEF Elems, Distinct
<1>7. ASSUME NEW y \in Elems(q), y # Head(q)  PROVE y \in Elems(Tail(q))
  <2>1. PICK i \in 1..Len(q) : y = q[i]
    BY <1>1, <1>7 DEF Elems
  <2>2. i # 1
    BY <1>1, <1>7, <2>1
  <2>3. QED
    BY <1>1, <1>4, <2>1, <2>2 DEF Elems
<1>8. QED
  BY <1>2, <1>3, <1>6, <1>7

\* What the auditor's coroutine and its thread know about the result in hand.
HandInv ==
  /\ AuditorInv
  /\ thread = "busy" => auditSig \notin Settled
  /\ thread = "done" /\ auditStep # "write" => auditSig \notin Settled
  /\ thread = "failed" => auditSig \notin lost

PlaceInv == TypeOK /\ HandInv /\ OnePlace

\* The three queues hold distinct signals and hand out what Removed says.
LEMMA Queues ==
  ASSUME TypeOK, OnePlace, NEW q \in {detQueue, tasks, anaQueue}
  PROVE  /\ q \in Seq(Signals) /\ Distinct(q)
         /\ q # <<>> => /\ Head(q) \in Elems(q) /\ Head(q) \in Signals
                        /\ Elems(Tail(q)) = Elems(q) \ {Head(q)}
                        /\ Distinct(Tail(q))
<1>1. q \in Seq(Signals) /\ Distinct(q)
  BY DEF TypeOK, OnePlace
<1>2. QED
  BY <1>1, Removed, HeadTail

\* A signal moves from one place to another: what is left to show of OnePlace.
LEMMA MoveOne ==
  ASSUME OnePlace, UNCHANGED emitted,
         NEW a \in DOMAIN Places, NEW b \in DOMAIN Places, a # b,
         NEW s, s \in Places[a],
         Places'[a] = Places[a] \ {s}, Places'[b] = Places[b] \cup {s},
         \A n \in DOMAIN Places \ {a, b} : Places'[n] = Places[n],
         \A q \in {detQueue, tasks, anaQueue}' : Distinct(q)
  PROVE  OnePlace'
<1>1. DOMAIN Places' = DOMAIN Places
  BY DEF Places
<1>2. Apart(Places') /\ AllOf(Places') = AllOf(Places)
  BY <1>1, Moved DEF OnePlace
<1>3. Elems(emitted)' = Elems(emitted)
  BY DEF Elems
<1>4. QED
  BY <1>2, <1>3 DEF OnePlace, Apart, AllOf, Distinct

\* Nothing moves.
LEMMA MoveNone ==
  ASSUME OnePlace, UNCHANGED <<emitted, detQueue, tasks, anaQueue>>,
         Places' = Places
  PROVE  OnePlace'
BY DEF OnePlace, Apart, AllOf, Distinct, Elems

\* A phase other than "none" means the signal holds a slot.
LEMMA Slots ==
  ASSUME TypeOK, NEW s \in Signals, NEW p \in Phases, SetPhase(s, p)
  PROVE  Holders' = IF p = "none" THEN Holders \ {s} ELSE Holders \cup {s}
BY DEF TypeOK, SetPhase, Holders

\* A signal put towards the auditor keeps its slot or reaches the queue.
LEMMA PutPlaces ==
  ASSUME TypeOK, NEW s \in Signals, PutResult(s)
  PROVE  \/ UNCHANGED anaQueue /\ Holders' = Holders \cup {s}
         \/ anaQueue' = Append(anaQueue, s) /\ Holders' = Holders \ {s}
<1>1. CASE Len(anaQueue) < AnaCap
  BY <1>1, Slots DEF PutResult, Phases
<1>2. CASE ~(Len(anaQueue) < AnaCap)
  BY <1>2, Slots DEF PutResult, Phases
<1>3. QED
  BY <1>1, <1>2

LEMMA LabelledPlaces ==
  ASSUME TypeOK, NEW s \in Signals, Labelled(s)
  PROVE  \/ UNCHANGED anaQueue /\ Holders' = Holders \cup {s}
         \/ anaQueue' = Append(anaQueue, s) /\ Holders' = Holders \ {s}
<1>1. CASE Pcabp
  BY <1>1, Slots DEF Labelled, Phases
<1>2. CASE ~Pcabp
  BY <1>2, PutPlaces DEF Labelled, Finish
<1>3. QED
  BY <1>1, <1>2

\* A signal that holds a slot stays there or moves to the auditor's queue.
LEMMA HolderMoves ==
  ASSUME TypeOK, OnePlace, NEW s \in Signals, s \in Holders,
         UNCHANGED <<running, detVars, detQueue, tasks, auditVars, lost>>,
         \/ UNCHANGED anaQueue /\ Holders' = Holders \cup {s}
         \/ anaQueue' = Append(anaQueue, s) /\ Holders' = Holders \ {s}
  PROVE  OnePlace'
<1>1. /\ Pushing' = Pushing /\ InHand' = InHand
      /\ Elems(detQueue)' = Elems(detQueue) /\ Elems(tasks)' = Elems(tasks)
      /\ UNCHANGED <<emitted, logged, lost>>
  BY DEF detVars, auditVars, Pushing, InHand, Settled, Elems
<1>2. CASE UNCHANGED anaQueue /\ Holders' = Holders \cup {s}
  <2>1. Places' = Places
    BY <1>1, <1>2 DEF Places, Elems
  <2>2. QED
    BY <1>1, <1>2, <2>1, MoveNone
<1>3. CASE anaQueue' = Append(anaQueue, s) /\ Holders' = Holders \ {s}
  <2>1. s \notin Elems(anaQueue)
    BY DEF OnePlace, Apart, Places
  <2>2. Elems(anaQueue)' = Elems(anaQueue) \cup {s} /\ Distinct(anaQueue')
    <3>1. anaQueue \in Seq(Signals) /\ Distinct(anaQueue)
      BY Queues
    <3>2. /\ Elems(Append(anaQueue, s)) = Elems(anaQueue) \cup {s}
          /\ Distinct(Append(anaQueue, s))
      BY <2>1, <3>1, Appended
    <3>3. QED
      BY <1>3, <3>2 DEF Elems
  <2>3. \A q \in {detQueue, tasks, anaQueue}' : Distinct(q)
    BY <2>2, Queues
  <2>4. /\ "slots" \in DOMAIN Places /\ "anaQueue" \in DOMAIN Places
        /\ s \in Places["slots"]
        /\ Places'["slots"] = Places["slots"] \ {s}
        /\ Places'["anaQueue"] = Places["anaQueue"] \cup {s}
        /\ \A n \in DOMAIN Places \ {"slots", "anaQueue"} : Places'[n] = Places[n]
    BY <1>1, <1>3, <2>2 DEF Places
  <2>5. QED
    BY <1>1, <2>3, <2>4, MoveOne
<1>4. QED
  BY <1>2, <1>3

\* The detector raises a signal nobody has: it enters the queue or the put.
LEMMA EmitPlaces ==
  ASSUME TypeOK, OnePlace, NEW s \in Signals, Emit(s)
  PROVE  OnePlace'
<1>1. s \notin AllOf(Places) /\ Apart(Places)
  BY DEF Emit, OnePlace
<1>2. Elems(emitted') = AllOf(Places) \cup {s}
  BY Appended DEF Emit, OnePlace, TypeOK
<1>3. /\ Elems(tasks)' = Elems(tasks) /\ Elems(anaQueue)' = Elems(anaQueue)
      /\ Holders' = Holders /\ InHand' = InHand /\ UNCHANGED <<logged, lost>>
      /\ UNCHANGED <<tasks, anaQueue>>
  BY DEF Emit, auditVars, Elems, Holders, InHand, Settled
<1>4. CASE Len(detQueue) < DetCap
  <2>1. detQueue' = Append(detQueue, s) /\ Pushing' = Pushing
    BY <1>4 DEF Emit, Pushing
  <2>2. s \notin Elems(detQueue)
    BY <1>1 DEF AllOf, Places
  <2>3. Elems(detQueue)' = Elems(detQueue) \cup {s} /\ Distinct(detQueue')
    <3>1. /\ Elems(Append(detQueue, s)) = Elems(detQueue) \cup {s}
          /\ Distinct(Append(detQueue, s))
      BY <2>2, Appended, Queues
    <3>2. QED
      BY <2>1, <3>1 DEF Elems
  <2>4. Apart(Places') /\ AllOf(Places') = AllOf(Places) \cup {s}
    <3>1. /\ DOMAIN Places' = DOMAIN Places /\ "detQueue" \in DOMAIN Places
          /\ Places'["detQueue"] = Places["detQueue"] \cup {s}
          /\ \A n \in DOMAIN Places \ {"detQueue"} : Places'[n] = Places[n]
      BY <1>3, <2>1, <2>3 DEF Places
    <3>2. QED
      BY <1>1, <3>1, Entered
  <2>5. \A q \in {detQueue, tasks, anaQueue}' : Distinct(q)
    BY <1>3, <2>3, Queues
  <2>6. QED
    BY <1>2, <2>4, <2>5 DEF OnePlace, Apart, AllOf, Distinct, Elems
<1>5. CASE ~(Len(detQueue) < DetCap)
  <2>1. pushing' = s /\ pushing = NoSignal /\ UNCHANGED detQueue
    BY <1>5 DEF Emit
  <2>2. Pushing' = Pushing \cup {s} /\ Elems(detQueue)' = Elems(detQueue)
    BY <2>1, PipelineAssumption DEF Pushing, Elems
  <2>3. Apart(Places') /\ AllOf(Places') = AllOf(Places) \cup {s}
    <3>1. /\ DOMAIN Places' = DOMAIN Places /\ "pushing" \in DOMAIN Places
          /\ Places'["pushing"] = Places["pushing"] \cup {s}
          /\ \A n \in DOMAIN Places \ {"pushing"} : Places'[n] = Places[n]
      BY <1>3, <2>2 DEF Places
    <3>2. QED
      BY <1>1, <3>1, Entered
  <2>4. \A q \in {detQueue, tasks, anaQueue}' : Distinct(q)
    BY <1>3, <2>1, Queues
  <2>5. QED
    BY <1>2, <2>3, <2>4 DEF OnePlace, Apart, AllOf, Distinct, Elems
<1>6. QED
  BY <1>4, <1>5

\* The suspended put and run() move one signal each to the next place.
LEMMA PushSpawnPlaces ==
  ASSUME TypeOK, OnePlace, Push \/ Spawn
  PROVE  OnePlace'
<1>1. /\ Elems(anaQueue)' = Elems(anaQueue)
      /\ Holders' = Holders /\ InHand' = InHand
      /\ UNCHANGED <<emitted, anaQueue, logged, lost>>
  BY DEF Push, Spawn, detVars, auditVars, Elems, Holders, InHand, Settled
<1>2. CASE Push
  <2>1. /\ pushing \in Signals /\ Pushing = {pushing} /\ Pushing' = {}
        /\ UNCHANGED tasks /\ Elems(tasks)' = Elems(tasks)
    BY <1>2 DEF Push, Pushing, TypeOK, Elems
  <2>2. pushing \notin Elems(detQueue)
    BY <2>1 DEF OnePlace, Apart, Places
  <2>3. Elems(detQueue)' = Elems(detQueue) \cup {pushing} /\ Distinct(detQueue')
    <3>1. /\ Elems(Append(detQueue, pushing)) = Elems(detQueue) \cup {pushing}
          /\ Distinct(Append(detQueue, pushing))
      BY <2>1, <2>2, Appended, Queues
    <3>2. QED
      BY <1>2, <3>1 DEF Push, Elems
  <2>4. /\ "pushing" \in DOMAIN Places /\ "detQueue" \in DOMAIN Places
        /\ pushing \in Places["pushing"]
        /\ Places'["pushing"] = Places["pushing"] \ {pushing}
        /\ Places'["detQueue"] = Places["detQueue"] \cup {pushing}
        /\ \A n \in DOMAIN Places \ {"pushing", "detQueue"} : Places'[n] = Places[n]
    BY <1>1, <2>1, <2>3 DEF Places
  <2>5. \A q \in {detQueue, tasks, anaQueue}' : Distinct(q)
    BY <1>1, <2>1, <2>3, Queues
  <2>6. QED
    BY <1>1, <2>4, <2>5, MoveOne
<1>3. CASE Spawn
  <2> DEFINE s == Head(detQueue)
  <2>1. detQueue # <<>> /\ tasks' = Append(tasks, s) /\ detQueue' = Tail(detQueue)
    BY <1>3 DEF Spawn
  <2>2. /\ s \in Elems(detQueue) /\ s \in Signals
        /\ Elems(detQueue)' = Elems(detQueue) \ {s} /\ Distinct(detQueue')
    <3>1. /\ Elems(Tail(detQueue)) = Elems(detQueue) \ {s}
          /\ Distinct(Tail(detQueue)) /\ s \in Elems(detQueue) /\ s \in Signals
      BY <2>1, Queues
    <3>2. QED
      BY <2>1, <3>1 DEF Elems
  <2>3. s \notin Elems(tasks)
    BY <2>2 DEF OnePlace, Apart, Places
  <2>4. Elems(tasks)' = Elems(tasks) \cup {s} /\ Distinct(tasks')
    <3>1. /\ Elems(Append(tasks, s)) = Elems(tasks) \cup {s}
          /\ Distinct(Append(tasks, s))
      BY <2>2, <2>3, Appended, Queues
    <3>2. QED
      BY <2>1, <3>1 DEF Elems
  <2>5. Pushing' = Pushing
    BY <1>3 DEF Spawn, detVars, Pushing
  <2>6. /\ "detQueue" \in DOMAIN Places /\ "tasks" \in DOMAIN Places
        /\ s \in Places["detQueue"]
        /\ Places'["detQueue"] = Places["detQueue"] \ {s}
        /\ Places'["tasks"] = Places["tasks"] \cup {s}
        /\ \A n \in DOMAIN Places \ {"detQueue", "tasks"} : Places'[n] = Places[n]
    BY <1>1, <2>2, <2>4, <2>5 DEF Places
  <2>7. \A q \in {detQueue, tasks, anaQueue}' : Distinct(q)
    BY <1>1, <2>2, <2>4, Queues
  <2>8. QED
    BY <1>1, <2>6, <2>7, MoveOne
<1>4. QED
  BY <1>2, <1>3

\* A task gets a slot: it moves from the waiters to the slots, or, if its
\* label is known at once, straight to the auditor's queue.
LEMMA AcquirePlaces ==
  ASSUME TypeOK, OnePlace, NEW s \in Signals, Acquire(s)
  PROVE  OnePlace'
<1>1. /\ Pushing' = Pushing /\ InHand' = InHand
      /\ Elems(detQueue)' = Elems(detQueue)
      /\ UNCHANGED <<emitted, detQueue, logged, lost>>
  BY DEF Acquire, detVars, auditVars, Pushing, InHand, Settled, Elems
<1>2. /\ s \in Elems(tasks) /\ Elems(tasks)' = Elems(tasks) \ {s}
      /\ Distinct(tasks')
  <2>1. tasks # <<>> /\ s = Head(tasks) /\ tasks' = Tail(tasks)
    BY DEF Acquire
  <2>2. /\ Elems(Tail(tasks)) = Elems(tasks) \ {s}
        /\ Distinct(Tail(tasks)) /\ s \in Elems(tasks)
    BY <2>1, Queues
  <2>3. QED
    BY <2>1, <2>2 DEF Elems
<1>3. s \notin Holders /\ s \notin Elems(anaQueue)
  BY <1>2 DEF OnePlace, Apart, Places
<1>4. \/ UNCHANGED anaQueue /\ Holders' = Holders \cup {s}
      \/ anaQueue' = Append(anaQueue, s) /\ Holders' = Holders \ {s}
  <2>1. CASE SetPhase(s, "classify") /\ UNCHANGED <<anaQueue, cacheVars>>
    BY <2>1, Slots DEF Phases
  <2>2. CASE Labelled(s)
    BY <2>2, LabelledPlaces
  <2>3. QED
    BY <2>1, <2>2 DEF Acquire
<1>5. CASE UNCHANGED anaQueue /\ Holders' = Holders \cup {s}
  <2>1. Elems(anaQueue)' = Elems(anaQueue)
    BY <1>5 DEF Elems
  <2>2. /\ "tasks" \in DOMAIN Places /\ "slots" \in DOMAIN Places
        /\ s \in Places["tasks"]
        /\ Places'["tasks"] = Places["tasks"] \ {s}
        /\ Places'["slots"] = Places["slots"] \cup {s}
        /\ \A n \in DOMAIN Places \ {"tasks", "slots"} : Places'[n] = Places[n]
    BY <1>1, <1>2, <1>5, <2>1 DEF Places
  <2>3. \A q \in {detQueue, tasks, anaQueue}' : Distinct(q)
    BY <1>1, <1>2, <1>5, Queues
  <2>4. QED
    BY <1>1, <2>2, <2>3, MoveOne
<1>6. CASE anaQueue' = Append(anaQueue, s) /\ Holders' = Holders \ {s}
  <2>1. /\ Holders' = Holders
        /\ Elems(anaQueue)' = Elems(anaQueue) \cup {s} /\ Distinct(anaQueue')
    <3>1. /\ Elems(Append(anaQueue, s)) = Elems(anaQueue) \cup {s}
          /\ Distinct(Append(anaQueue, s))
      BY <1>3, Appended, Queues
    <3>2. QED
      BY <1>3, <1>6, <3>1 DEF Elems
  <2>2. /\ "tasks" \in DOMAIN Places /\ "anaQueue" \in DOMAIN Places
        /\ s \in Places["tasks"]
        /\ Places'["tasks"] = Places["tasks"] \ {s}
        /\ Places'["anaQueue"] = Places["anaQueue"] \cup {s}
        /\ \A n \in DOMAIN Places \ {"tasks", "anaQueue"} : Places'[n] = Places[n]
    BY <1>1, <1>2, <2>1 DEF Places
  <2>3. \A q \in {detQueue, tasks, anaQueue}' : Distinct(q)
    BY <1>1, <1>2, <2>1, Queues
  <2>4. QED
    BY <1>1, <2>2, <2>3, MoveOne
<1>7. QED
  BY <1>4, <1>5, <1>6

\* An analysis that fails moves its signal from the slots to the lost.
LEMMA FailPlaces ==
  ASSUME TypeOK, OnePlace, NEW s \in Signals, AnalyzeFails(s)
  PROVE  OnePlace'
<1>1. /\ s \in Holders /\ Holders' = Holders \ {s}
      /\ lost' = lost \cup {s} /\ UNCHANGED logged
  BY Slots DEF AnalyzeFails, Holders, Phases, auditVars
<1>2. /\ Pushing' = Pushing
      /\ Elems(detQueue)' = Elems(detQueue) /\ Elems(tasks)' = Elems(tasks)
      /\ Elems(anaQueue)' = Elems(anaQueue)
      /\ UNCHANGED <<emitted, detQueue, tasks, anaQueue, auditSig>>
  BY DEF AnalyzeFails, detVars, auditVars, Pushing, Elems
<1>3. s \notin InHand /\ s \notin Settled
  BY <1>1 DEF OnePlace, Apart, Places, Settled
<1>4. InHand' = InHand
  BY <1>1, <1>2, <1>3 DEF InHand, Settled
<1>5. /\ "slots" \in DOMAIN Places /\ "lost" \in DOMAIN Places
      /\ s \in Places["slots"]
      /\ Places'["slots"] = Places["slots"] \ {s}
      /\ Places'["lost"] = Places["lost"] \cup {s}
      /\ \A n \in DOMAIN Places \ {"slots", "lost"} : Places'[n] = Places[n]
  BY <1>1, <1>2, <1>4 DEF Places
<1>6. \A q \in {detQueue, tasks, anaQueue}' : Distinct(q)
  BY <1>2, Queues
<1>7. QED
  BY <1>2, <1>5, <1>6, MoveOne

\* Whatever a task does, its signal stays in one place.
LEMMA TaskPlaces ==
  ASSUME TypeOK, OnePlace, NEW s \in Signals, Task(s)
  PROVE  OnePlace'
<1>1. CASE Classified(s)
  <2>1. s \in Holders
    BY <1>1 DEF Classified, Holders
  <2>2. QED
    BY <1>1, <2>1, LabelledPlaces, HolderMoves DEF Classified
<1>2. CASE Scored(s)
  <2>1. s \in Holders /\ PutResult(s)
    BY <1>2 DEF Scored, Finish, Holders
  <2>2. QED
    BY <1>2, <2>1, PutPlaces, HolderMoves DEF Scored
<1>3. CASE ResumePut(s)
  <2>1. s \in Holders /\ PutResult(s)
    BY <1>3 DEF ResumePut, Holders
  <2>2. QED
    BY <1>3, <2>1, PutPlaces, HolderMoves DEF ResumePut
<1>4. QED
  BY <1>1, <1>2, <1>3, AcquirePlaces, FailPlaces DEF Task

\* The auditor's hands are empty or hold one unsettled signal.
LEMMA Hand ==
  ASSUME TypeOK, HandInv
  PROVE  /\ thread \in {"busy", "failed"} /\ auditSig \notin logged
              => auditSig \in Signals /\ InHand = {auditSig}
         /\ auditStep = "idle" => InHand = {}
         /\ thread = "done" /\ auditStep = "write" => InHand = {}
BY PipelineAssumption DEF TypeOK, HandInv, AuditorInv, InHand, Settled

\* The auditor's thread moves nothing, or the signal in hand to the log.
LEMMA ThreadPlaces == TypeOK /\ HandInv /\ OnePlace /\ Thread => OnePlace'
<1>1. ASSUME Thread
      PROVE  /\ Pushing' = Pushing /\ Holders' = Holders
             /\ Elems(detQueue)' = Elems(detQueue) /\ Elems(tasks)' = Elems(tasks)
             /\ Elems(anaQueue)' = Elems(anaQueue)
             /\ UNCHANGED <<emitted, detQueue, tasks, anaQueue, lost, auditSig>>
  BY <1>1 DEF Thread, VerifyThread, RecordThread, DispatchThread, WriteThread, Elsewhere,
              detVars, Pushing, Holders, Elems
<1>2. ASSUME OnePlace, Thread, UNCHANGED logged  PROVE OnePlace'
  <2>1. InHand' = InHand
    BY <1>1, <1>2 DEF InHand, Settled
  <2>2. Places' = Places
    BY <1>1, <1>2, <2>1 DEF Places
  <2>3. QED
    BY <1>1, <1>2, <2>2, MoveNone
<1>3. ASSUME TypeOK, HandInv, OnePlace, WriteThread,
             logged' = logged \cup {auditSig}, auditSig \notin logged
      PROVE  OnePlace'
  <2>1. Thread /\ thread = "busy"
    BY <1>3 DEF Thread, WriteThread
  <2>2. auditSig \in InHand /\ InHand = {auditSig}
    BY <1>3, <2>1, Hand
  <2>3. InHand' = {}
    BY <1>1, <1>3, <2>1 DEF InHand, Settled
  <2>4. /\ "auditor" \in DOMAIN Places /\ "logged" \in DOMAIN Places
        /\ auditSig \in Places["auditor"]
        /\ Places'["auditor"] = Places["auditor"] \ {auditSig}
        /\ Places'["logged"] = Places["logged"] \cup {auditSig}
        /\ \A n \in DOMAIN Places \ {"auditor", "logged"} : Places'[n] = Places[n]
    BY <1>1, <1>3, <2>1, <2>2, <2>3 DEF Places
  <2>5. \A q \in {detQueue, tasks, anaQueue}' : Distinct(q)
    BY <1>1, <1>3, <2>1, Queues
  <2>6. QED
    BY <1>1, <1>3, <2>1, <2>4, <2>5, MoveOne
<1>4. QED
  <2>1. Thread => UNCHANGED logged \/ (WriteThread /\ logged' = logged \cup {auditSig})
    BY DEF Thread, VerifyThread, RecordThread, DispatchThread, WriteThread
  <2>2. auditSig \in logged /\ logged' = logged \cup {auditSig} => UNCHANGED logged
    OBVIOUS
  <2>3. QED
    BY <1>2, <1>3, <2>1, <2>2

\* The auditor takes a signal from its queue, and loses it when it dies
\* before the entry is written.
LEMMA AuditorPlaces == TypeOK /\ HandInv /\ OnePlace /\ Auditor => OnePlace'
<1>1. ASSUME Auditor
      PROVE  /\ Pushing' = Pushing /\ Holders' = Holders
             /\ Elems(detQueue)' = Elems(detQueue) /\ Elems(tasks)' = Elems(tasks)
             /\ UNCHANGED <<emitted, detQueue, tasks, logged>>
  BY <1>1 DEF Auditor, AuditGet, ResumeVerify, ResumeEnforce, ResumeWrite,
              AuditorDies, Elsewhere, detVars, Pushing, Holders, Elems
<1>2. ASSUME TypeOK, HandInv, OnePlace, AuditGet  PROVE OnePlace'
  <2> DEFINE s == Head(anaQueue)
  <2>1. /\ Auditor /\ anaQueue # <<>> /\ anaQueue' = Tail(anaQueue)
        /\ auditSig' = s /\ auditStep = "idle" /\ UNCHANGED lost
    BY <1>2 DEF Auditor, AuditGet
  <2>2. /\ s \in Elems(anaQueue) /\ s \in Signals
        /\ Elems(anaQueue)' = Elems(anaQueue) \ {s} /\ Distinct(anaQueue')
    <3>1. /\ Elems(Tail(anaQueue)) = Elems(anaQueue) \ {s}
          /\ Distinct(Tail(anaQueue)) /\ s \in Elems(anaQueue) /\ s \in Signals
      BY <1>2, <2>1, Queues
    <3>2. QED
      BY <2>1, <3>1 DEF Elems
  <2>3. s \notin Settled /\ s # NoSignal
    BY <1>2, <2>2, PipelineAssumption DEF OnePlace, Apart, Places, Settled
  <2>4. InHand = {} /\ InHand' = {s}
    <3>1. InHand = {}
      BY <1>2, <2>1, Hand
    <3>2. Settled' = Settled
      BY <1>1, <2>1 DEF Settled
    <3>3. InHand' = {s}
      BY <2>1, <2>3, <3>2 DEF InHand
    <3>4. QED
      BY <3>1, <3>3
  <2>5. /\ "anaQueue" \in DOMAIN Places /\ "auditor" \in DOMAIN Places
        /\ s \in Places["anaQueue"]
        /\ Places'["anaQueue"] = Places["anaQueue"] \ {s}
        /\ Places'["auditor"] = Places["auditor"] \cup {s}
        /\ \A n \in DOMAIN Places \ {"anaQueue", "auditor"} : Places'[n] = Places[n]
    BY <1>1, <2>1, <2>2, <2>4 DEF Places
  <2>6. \A q \in {detQueue, tasks, anaQueue}' : Distinct(q)
    BY <1>1, <1>2, <2>1, <2>2, Queues
  <2>7. QED
    BY <1>1, <1>2, <2>1, <2>5, <2>6, MoveOne
<1>3. ASSUME OnePlace, Auditor, UNCHANGED <<anaQueue, lost>>, InHand' = InHand
      PROVE  OnePlace'
  <2>1. Elems(anaQueue)' = Elems(anaQueue)
    BY <1>3 DEF Elems
  <2>2. Places' = Places
    BY <1>1, <1>3, <2>1 DEF Places
  <2>3. QED
    BY <1>1, <1>3, <2>2, MoveNone
<1>4. ASSUME OnePlace, ResumeVerify \/ ResumeEnforce  PROVE OnePlace'
  <2>1. Auditor /\ UNCHANGED <<anaQueue, lost, auditSig>>
    BY <1>4 DEF Auditor, ResumeVerify, ResumeEnforce
  <2>2. InHand' = InHand
    BY <1>1, <2>1 DEF InHand, Settled
  <2>3. QED
    BY <1>3, <1>4, <2>1, <2>2
<1>5. ASSUME TypeOK, HandInv, OnePlace, ResumeWrite  PROVE OnePlace'
  <2>1. Auditor /\ UNCHANGED <<anaQueue, lost>>
    BY <1>5 DEF Auditor, ResumeWrite
  <2>2. InHand' = {}
    BY <1>5 DEF ResumeWrite, InHand
  <2>3. InHand = {}
    BY <1>5, Hand DEF ResumeWrite
  <2>4. QED
    BY <1>3, <1>5, <2>1, <2>2, <2>3
<1>6. ASSUME TypeOK, HandInv, OnePlace, AuditorDies  PROVE OnePlace'
  <2>1. Auditor /\ UNCHANGED <<anaQueue, auditSig>> /\ thread = "failed"
    BY <1>6 DEF Auditor, AuditorDies
  <2>2. CASE auditSig \in logged
    <3>1. UNCHANGED lost
      BY <1>6, <2>2 DEF AuditorDies
    <3>2. InHand' = InHand
      BY <1>1, <2>1, <3>1 DEF InHand, Settled
    <3>3. QED
      BY <1>3, <1>6, <2>1, <3>1, <3>2
  <2>3. CASE auditSig \notin logged
    <3>1. lost' = lost \cup {auditSig} /\ Elems(anaQueue)' = Elems(anaQueue)
      BY <1>6, <2>1, <2>3 DEF AuditorDies, Elems
    <3>2. auditSig \in InHand /\ InHand = {auditSig}
      BY <1>6, <2>1, <2>3, Hand
    <3>3. InHand' = {}
      BY <2>1, <3>1 DEF InHand, Settled
    <3>4. /\ "auditor" \in DOMAIN Places /\ "lost" \in DOMAIN Places
          /\ auditSig \in Places["auditor"]
          /\ Places'["auditor"] = Places["auditor"] \ {auditSig}
          /\ Places'["lost"] = Places["lost"] \cup {auditSig}
          /\ \A n \in DOMAIN Places \ {"auditor", "lost"} : Places'[n] = Places[n]
      BY <1>1, <2>1, <3>1, <3>2, <3>3 DEF Places
    <3>5. \A q \in {detQueue, tasks, anaQueue}' : Distinct(q)
      BY <1>1, <1>6, <2>1, Queues
    <3>6. QED
      BY <1>1, <1>6, <2>1, <3>4, <3>5, MoveOne
  <2>4. QED
    BY <2>2, <2>3
<1>7. QED
  BY <1>2, <1>4, <1>5, <1>6 DEF Auditor

\* No other part of the pipeline settles the signal in the auditor's hands: a
\* task that fails holds a slot, and the signal in hand is elsewhere.
LEMMA HandKept ==
  ASSUME PlaceInv, [Next]_vars
  PROVE  HandInv'
<1>1. AuditorInv'
  BY AuditorStep DEF PlaceInv, HandInv
<1>2. ASSUME UNCHANGED <<thread, auditStep, auditSig, logged, lost>>
      PROVE  HandInv'
  BY <1>1, <1>2 DEF PlaceInv, HandInv, Settled
<1>3. ASSUME NEW s \in Signals, AnalyzeFails(s)  PROVE HandInv'
  <2>1. /\ UNCHANGED <<thread, auditStep, auditSig, logged>>
        /\ lost' = lost \cup {s} /\ s \in Holders
    BY <1>3 DEF AnalyzeFails, auditVars, Holders
  <2>2. s \notin InHand /\ s \notin logged
    BY <2>1 DEF PlaceInv, OnePlace, Apart, Places
  <2>3. s # auditSig \/ auditSig \in lost
    BY <2>2, PipelineAssumption DEF InHand, Settled
  <2>4. QED
    BY <1>1, <2>1, <2>3 DEF PlaceInv, HandInv, Settled
<1>4. ASSUME NEW s \in Signals, Task(s), ~AnalyzeFails(s)  PROVE HandInv'
  <2>1. UNCHANGED <<thread, auditStep, auditSig, logged, lost>>
    BY <1>4 DEF Task, Acquire, Classified, Scored, ResumePut, auditVars
  <2>2. QED
    BY <1>2, <2>1
<1>5. CASE Detector \/ Spawn \/ Shutdown \/ UNCHANGED vars
  <2>1. UNCHANGED <<thread, auditStep, auditSig, logged, lost>>
    BY <1>5 DEF Detector, Emit, Push, Spawn, Shutdown, vars, auditVars
  <2>2. QED
    BY <1>2, <2>1
<1>6. CASE Thread
  BY <1>1, <1>6 DEF Thread, VerifyThread, RecordThread, DispatchThread, WriteThread, PlaceInv,
                    HandInv, Settled
<1>7. CASE AuditGet
  <2>1. Head(anaQueue) \in Elems(anaQueue)
    BY <1>7, Queues DEF AuditGet, PlaceInv
  <2>2. Head(anaQueue) \notin logged \cup lost
    BY <2>1 DEF PlaceInv, OnePlace, Apart, Places
  <2>3. QED
    BY <1>1, <1>7, <2>2 DEF AuditGet, Await, HandInv, Settled
<1>8. CASE ResumeVerify \/ ResumeEnforce \/ ResumeWrite \/ AuditorDies
  BY <1>1, <1>8 DEF ResumeVerify, ResumeEnforce, ResumeWrite, AuditorDies, Await,
                    PlaceInv, HandInv, Settled
<1>9. QED
  BY <1>3, <1>4, <1>5, <1>6, <1>7, <1>8 DEF Next, Auditor


LEMMA PlaceInit == Init => PlaceInv
<1>1. ASSUME Init  PROVE TypeOK /\ HandInv
  BY <1>1 DEF Init, AnalyzerInit, AuditorInit, TypeOK, Phases, AuditSteps, HandInv, AuditorInv,
              EnforcementLogged
<1>2. ASSUME Init  PROVE OnePlace
  <2>1. \A n \in DOMAIN Places : Places[n] = {}
    BY <1>2 DEF Init, AnalyzerInit, AuditorInit, Places, Pushing, Holders, InHand, Elems, Settled
  <2>2. Elems(emitted) = {}
    BY <1>2 DEF Init, AnalyzerInit, AuditorInit, Elems
  <2>3. \A q \in {detQueue, tasks, anaQueue} : Distinct(q)
    BY <1>2 DEF Init, AnalyzerInit, AuditorInit, Distinct
  <2>4. QED
    BY <2>1, <2>2, <2>3 DEF OnePlace, Apart, AllOf
<1>3. QED
  BY <1>1, <1>2 DEF PlaceInv

LEMMA PlaceStep ==
  ASSUME PlaceInv, [Next]_vars
  PROVE  PlaceInv'
<1>1. TypeOK'
  <2>1. TypeOK /\ (Shutdown \/ UNCHANGED vars) => TypeOK'
    BY DEF Shutdown, TypeOK, vars, detVars, auditVars, cacheVars
  <2>2. QED
    BY <2>1, DetectorType, TaskType, ThreadType, AuditorType DEF Next, PlaceInv
<1>2. CASE Shutdown \/ UNCHANGED vars
  <2>1. UNCHANGED <<pushing, emitted, detQueue, tasks, anaQueue, phase,
                    auditSig, logged, lost>>
    BY <1>2 DEF Shutdown, vars, detVars, auditVars
  <2>2. Places' = Places
    BY <2>1 DEF Places, Pushing, Elems, Holders, InHand, Settled
  <2>3. QED
    BY <1>1, <2>1, <2>2, MoveNone, HandKept DEF PlaceInv
<1>3. ASSUME Detector \/ Spawn  PROVE OnePlace'
  BY <1>3, EmitPlaces, PushSpawnPlaces DEF Detector, PlaceInv
<1>4. QED
  BY <1>1, <1>2, <1>3, TaskPlaces, ThreadPlaces, AuditorPlaces, HandKept
     DEF Next, PlaceInv

\* Conservation: however the stages interleave, fail or are cancelled, every
\* signal the detector raised is in exactly one place.
THEOREM Conservation == Spec => []OnePlace
<1>1. PlaceInv => OnePlace
  BY DEF PlaceInv
<1>2. QED
  BY <1>1, PlaceInit, PlaceStep, PTL DEF Spec

-----------------------------------------------------------------------------
(* The pipeline implements the audit ledger.                                *)

\* A step that moves no signal into or out of the history and leaves the
\* enforced ones and the auditor's signal alone is a stutter of the ledger.
LEMMA Stutter ==
  ASSUME UNCHANGED <<emitted, logged, lost, enforced, auditSig>>
  PROVE  UNCHANGED <<Statuses, Acting>>
BY DEF Statuses, StatusOf, Acting, Elems

\* One signal changes its status and no other does.
LEMMA OneStatus ==
  ASSUME NEW s \in Signals, NEW to, StatusOf(s)' = to,
         \A t \in Signals : t # s => StatusOf(t)' = StatusOf(t)
  PROVE  Statuses' = [Statuses EXCEPT ![s] = to]
BY DEF Statuses

\* What the auditor's thread does to the signal in hand is one ledger step.
LEMMA ThreadLedger ==
  ASSUME PlaceInv, Thread
  PROVE  [Ledger!Next]_(Ledger!ledger)
<1> DEFINE s == auditSig
<1>1. UNCHANGED <<emitted, lost, auditSig>>
  BY DEF Thread, VerifyThread, RecordThread, DispatchThread, WriteThread, Elsewhere, detVars
<1>2. /\ thread = "busy" /\ s \in Signals /\ s \notin logged /\ s \notin lost
      /\ s \in Elems(emitted)
  <2>1. thread = "busy"
    BY DEF Thread, VerifyThread, RecordThread, DispatchThread, WriteThread
  <2>2. s \in Signals /\ s \notin logged /\ s \notin lost
    BY <2>1 DEF PlaceInv, HandInv, TypeOK, Settled
  <2>3. s \in InHand
    BY <2>1, <2>2, Hand DEF PlaceInv
  <2>4. QED
    BY <2>1, <2>2, <2>3 DEF PlaceInv, OnePlace, AllOf, Places
<1>3. StatusOf(s) = "pending" /\ Statuses[s] = "pending"
  BY <1>2 DEF StatusOf, Statuses
<1>4. enforced \ logged \subseteq {s}
  BY DEF PlaceInv, HandInv, AuditorInv, EnforcementLogged
<1>5. CASE UNCHANGED <<enforced, logged>>
  BY <1>1, <1>5, Stutter DEF Ledger!ledger
<1>6. CASE DispatchThread
  <2>1. enforced' = enforced \cup {s} /\ UNCHANGED logged
    BY <1>6 DEF DispatchThread
  <2>2. UNCHANGED Statuses
    BY <1>1, <2>1 DEF Statuses, StatusOf, Elems
  <2>3. Acting' = s
    BY <1>1, <1>2, <2>1 DEF Acting
  <2>4. Acting \in {NoSignal, s}
    BY DEF Acting
  <2>5. QED
    BY <1>2, <1>3, <2>2, <2>3, <2>4 DEF Ledger!Next, Ledger!Act, Ledger!ledger
<1>7. CASE WriteThread /\ logged' = logged \cup {s}
  <2>1. UNCHANGED enforced
    BY <1>7 DEF WriteThread
  <2>2. Statuses' = [Statuses EXCEPT ![s] = "logged"]
    BY <1>1, <1>2, <1>7, OneStatus DEF StatusOf, Elems
  <2>3. Acting' = NoSignal /\ Acting \in {NoSignal, s}
    BY <1>4, <1>7, <2>1 DEF Acting
  <2>4. QED
    BY <1>2, <1>3, <2>2, <2>3 DEF Ledger!Next, Ledger!Log, Ledger!Move
<1>8. QED
  BY <1>5, <1>6, <1>7 DEF Thread, VerifyThread, RecordThread, WriteThread

\* Losing a pending signal, with the acting one left alone, is a ledger step.
LEMMA LoseLedger ==
  ASSUME PlaceInv, NEW s \in Signals, s \in Elems(emitted) \ Settled,
         lost' = lost \cup {s},
         UNCHANGED <<emitted, logged, enforced, auditSig>>
  PROVE  [Ledger!Next]_(Ledger!ledger)
<1>1. StatusOf(s) = "pending" /\ Statuses[s] = "pending"
  BY DEF StatusOf, Statuses, Settled
<1>2. Statuses' = [Statuses EXCEPT ![s] = "lost"]
  BY OneStatus DEF StatusOf, Elems, Settled
<1>3. UNCHANGED Acting
  BY DEF Acting
<1>4. QED
  BY <1>1, <1>2, <1>3 DEF Ledger!Next, Ledger!Lose, Ledger!Move

LEMMA AuditorLedger ==
  ASSUME PlaceInv, Auditor
  PROVE  [Ledger!Next]_(Ledger!ledger)
<1>1. UNCHANGED <<emitted, enforced, logged>>
  BY DEF Auditor, AuditGet, ResumeVerify, ResumeEnforce, ResumeWrite,
         AuditorDies, Elsewhere, detVars
<1>2. enforced \ logged \subseteq {auditSig}
  BY DEF PlaceInv, HandInv, AuditorInv, EnforcementLogged
<1>3. CASE ResumeVerify \/ ResumeEnforce
  <2>1. UNCHANGED <<lost, auditSig>>
    BY <1>3 DEF ResumeVerify, ResumeEnforce
  <2>2. QED
    BY <1>1, <2>1, Stutter DEF Ledger!ledger
<1>4. CASE AuditGet \/ ResumeWrite
  <2>1. UNCHANGED lost
    BY <1>4 DEF AuditGet, ResumeWrite
  <2>2. auditSig = NoSignal \/ auditSig \in logged
    BY <1>4 DEF AuditGet, ResumeWrite, PlaceInv, HandInv, AuditorInv
  <2>3. enforced \subseteq logged
    <3>1. NoSignal \notin enforced
      BY PipelineAssumption DEF PlaceInv, TypeOK
    <3>2. QED
      BY <1>2, <2>2, <3>1
  <2>4. UNCHANGED <<Statuses, Acting>>
    BY <1>1, <2>1, <2>3 DEF Statuses, StatusOf, Acting, Elems
  <2>5. QED
    BY <2>4 DEF Ledger!ledger
<1>5. CASE AuditorDies
  <2>1. thread = "failed" /\ UNCHANGED auditSig
    BY <1>5 DEF AuditorDies
  <2>2. CASE auditSig \in logged
    BY <1>1, <1>5, <2>1, <2>2, Stutter DEF AuditorDies, Ledger!ledger
  <2>3. CASE auditSig \notin logged
    <3>1. auditSig \in Signals /\ auditSig \in InHand
      BY <2>1, <2>3, Hand DEF PlaceInv
    <3>2. auditSig \in Elems(emitted) \ Settled
      BY <3>1 DEF PlaceInv, OnePlace, AllOf, Places, InHand
    <3>3. lost' = lost \cup {auditSig}
      BY <1>5, <2>3 DEF AuditorDies
    <3>4. QED
      BY <1>1, <2>1, <3>1, <3>2, <3>3, LoseLedger
  <2>4. QED
    BY <2>2, <2>3
<1>6. QED
  BY <1>3, <1>4, <1>5 DEF Auditor

LEMMA TaskLedger ==
  ASSUME PlaceInv, NEW s \in Signals, Task(s)
  PROVE  [Ledger!Next]_(Ledger!ledger)
<1>1. CASE AnalyzeFails(s)
  <2>1. /\ s \in Holders /\ lost' = lost \cup {s}
        /\ UNCHANGED <<emitted, logged, enforced, auditSig>>
    BY <1>1 DEF AnalyzeFails, Holders, detVars, auditVars
  <2>2. s \in Elems(emitted) \ Settled
    BY <2>1 DEF PlaceInv, OnePlace, AllOf, Apart, Places, Settled
  <2>3. QED
    BY <2>1, <2>2, LoseLedger
<1>2. CASE ~AnalyzeFails(s)
  <2>1. UNCHANGED <<emitted, logged, lost, enforced, auditSig>>
    BY <1>2 DEF Task, Acquire, Classified, Scored, ResumePut, detVars, auditVars
  <2>2. QED
    BY <2>1, Stutter DEF Ledger!ledger
<1>3. QED
  BY <1>1, <1>2

\* Raising a signal is the ledger's Raise.
LEMMA EmitLedger ==
  ASSUME PlaceInv, NEW s \in Signals, Emit(s)
  PROVE  [Ledger!Next]_(Ledger!ledger)
<1>1. UNCHANGED <<logged, lost, enforced, auditSig>>
  BY DEF Emit, auditVars
<1>2. s \notin Elems(emitted) /\ s \notin logged /\ s \notin lost
  <2>1. s \notin Elems(emitted)
    BY DEF Emit
  <2>2. QED
    BY <2>1 DEF PlaceInv, OnePlace, AllOf, Places
<1>3. Elems(emitted)' = Elems(emitted) \cup {s}
  <2>1. Elems(Append(emitted, s)) = Elems(emitted) \cup {s}
    BY Appended DEF PlaceInv, TypeOK
  <2>2. QED
    BY <2>1 DEF Emit, Elems
<1>4. Statuses' = [Statuses EXCEPT ![s] = "pending"]
  BY <1>1, <1>2, <1>3, OneStatus DEF StatusOf
<1>5. Statuses[s] = "unseen" /\ UNCHANGED Acting
  BY <1>1, <1>2 DEF Statuses, StatusOf, Acting
<1>6. QED
  BY <1>4, <1>5 DEF Ledger!Next, Ledger!Raise, Ledger!Move

\* The pipeline implements the audit ledger: seen through its history it
\* settles every signal at most once and enforces serially.
THEOREM LedgerRefinement == Spec => ImplementsLedger
<1>1. Init => Ledger!Init
  BY DEF Init, AnalyzerInit, AuditorInit, Ledger!Init, Statuses, StatusOf, Acting, Elems
<1>2. PlaceInv /\ [Next]_vars => [Ledger!Next]_(Ledger!ledger)
  <2>1. Push \/ Spawn \/ Shutdown \/ UNCHANGED vars =>
          UNCHANGED <<emitted, logged, lost, enforced, auditSig>>
    BY DEF Push, Spawn, Shutdown, vars, detVars, auditVars
  <2>2. Push \/ Spawn \/ Shutdown \/ UNCHANGED vars =>
          [Ledger!Next]_(Ledger!ledger)
    BY <2>1, Stutter DEF Ledger!ledger
  <2>3. QED
    BY <2>2, EmitLedger, TaskLedger, ThreadLedger, AuditorLedger
       DEF Next, Detector
<1>3. QED
  BY <1>1, <1>2, PlaceInit, PlaceStep, PTL DEF Spec, ImplementsLedger, Ledger!Spec

-----------------------------------------------------------------------------
(* The order in which tasks start.                                          *)

Suffix(a, b) ==
  /\ Len(a) <= Len(b)
  /\ \A i \in 1 .. Len(a) : a[i] = b[Len(b) - Len(a) + i]

Pending(x) == IF x = NoSignal THEN <<>> ELSE <<x>>

LEMMA SuffixDrop ==
  ASSUME NEW S, NEW h \in S, NEW r \in Seq(S), NEW b \in Seq(S), Suffix(<<h>> \o r, b)
  PROVE  Suffix(r, b)
<1> DEFINE a == <<h>> \o r
           n == Len(r)
           m == Len(b)
<1>1. n \in Nat /\ m \in Nat /\ Len(a) = n + 1
  BY ConcatProperties
<1>2. \A i \in 1 .. n : a[i + 1] = r[i]
  BY ConcatProperties
<1>3. n + 1 <= m /\ \A i \in 1 .. n + 1 : a[i] = b[m - (n + 1) + i]
  BY <1>1 DEF Suffix
<1> HIDE DEF a, n, m
<1>4. ASSUME NEW i \in 1 .. n PROVE r[i] = b[m - n + i]
  <2>1. i + 1 \in 1 .. n + 1 /\ m - (n + 1) + (i + 1) = m - n + i
    BY <1>1
  <2>2. r[i] = a[i + 1] /\ a[i + 1] = b[m - (n + 1) + (i + 1)]
    BY <1>2, <1>3, <2>1
  <2>3. QED
    BY <2>1, <2>2
<1>5. QED
  BY <1>1, <1>3, <1>4 DEF Suffix, n, m

LEMMA SuffixAppend ==
  ASSUME NEW S, NEW a \in Seq(S), NEW b \in Seq(S), NEW x \in S, Suffix(a, b)
  PROVE  Suffix(Append(a, x), Append(b, x))
<1> DEFINE n == Len(a)
           m == Len(b)
           a2 == Append(a, x)
           b2 == Append(b, x)
<1>1. /\ n \in Nat /\ m \in Nat /\ n <= m /\ Len(a2) = n + 1 /\ Len(b2) = m + 1
      /\ \A i \in 1 .. n : a2[i] = a[i] /\ a[i] = b[m - n + i]
      /\ \A i \in 1 .. m : b2[i] = b[i]
      /\ a2[n + 1] = x /\ b2[m + 1] = x
  BY AppendProperties DEF Suffix
<1> HIDE DEF n, m, a2, b2
<1>2. ASSUME NEW i \in 1 .. n + 1 PROVE a2[i] = b2[(m + 1) - (n + 1) + i]
  <2>1. CASE i = n + 1
    BY <1>1, <2>1
  <2>2. CASE i # n + 1
    <3>1. i \in 1 .. n /\ m - n + i \in 1 .. m /\ (m + 1) - (n + 1) + i = m - n + i
      BY <1>1, <2>2
    <3>2. QED
      BY <1>1, <3>1
  <2>3. QED
    BY <2>1, <2>2
<1>3. /\ Len(a2) <= Len(b2)
      /\ \A i \in 1 .. Len(a2) : a2[i] = b2[Len(b2) - Len(a2) + i]
  BY <1>1, <1>2
<1>4. Suffix(a2, b2)
  BY <1>3 DEF Suffix
<1>5. QED
  BY <1>4 DEF a2, b2

LEMMA Split ==
  ASSUME NEW S, NEW q \in Seq(S), q # <<>>
  PROVE  q = <<Head(q)>> \o Tail(q) /\ Head(q) \in S /\ Tail(q) \in Seq(S)
         /\ <<Head(q)>> \in Seq(S)
<1> DEFINE h == Head(q)
           t == Tail(q)
<1>1. /\ h \in S /\ t \in Seq(S) /\ Len(t) = Len(q) - 1 /\ h = q[1]
      /\ \A i \in 1 .. Len(t) : t[i] = q[i + 1]
      /\ Len(q) \in Nat \ {0}
  BY HeadTailProperties, EmptySeq
<1> HIDE DEF h, t
<1>2. <<h>> \in Seq(S) /\ Len(<<h>>) = 1 /\ <<h>>[1] = h
  BY <1>1
<1> DEFINE c == <<h>> \o t
<1>3. /\ c \in Seq(S) /\ Len(c) = 1 + Len(t)
      /\ \A i \in 1 .. 1 + Len(t) : c[i] = IF i <= 1 THEN <<h>>[i] ELSE t[i - 1]
  BY <1>1, <1>2, ConcatProperties
<1> HIDE DEF c
<1>4. Len(c) = Len(q) /\ \A i \in 1 .. Len(q) : c[i] = q[i]
  BY <1>1, <1>2, <1>3
<1>5. c = q
  BY <1>3, <1>4, SeqEqual
<1>6. QED
  BY <1>1, <1>2, <1>5 DEF c, h, t

LEMMA AppendOuter ==
  ASSUME NEW S, NEW t \in Seq(S), NEW q \in Seq(S), NEW x \in S
  PROVE  t \o Append(q, x) = (t \o q) \o <<x>> /\ Append(t \o q, x) = (t \o q) \o <<x>>
<1> DEFINE one == <<x>>
<1>1. one \in Seq(S) /\ t \o q \in Seq(S)
  BY ConcatProperties
<1>2. Append(q, x) = q \o one /\ Append(t \o q, x) = (t \o q) \o one
  BY <1>1, AppendIsConcat
<1> HIDE DEF one
<1>3. (t \o q) \o one = t \o (q \o one)
  BY <1>1, ConcatAssociative
<1>4. QED
  BY <1>2, <1>3 DEF one

\* Between two stages a signal keeps its place in the backlog.
LEMMA HandedOn ==
  ASSUME NEW S, NEW t \in Seq(S), NEW q \in Seq(S), q # <<>>
  PROVE  Append(t, Head(q)) \o Tail(q) = t \o q
<1> DEFINE h == Head(q)
           r == Tail(q)
<1>1. q = <<h>> \o r /\ h \in S /\ r \in Seq(S) /\ <<h>> \in Seq(S)
  BY Split
<1> HIDE DEF h, r
<1>2. Append(t, h) = t \o <<h>>
  BY <1>1, AppendIsConcat
<1>3. (t \o <<h>>) \o r = t \o (<<h>> \o r)
  BY <1>1, ConcatAssociative
<1>4. QED
  BY <1>1, <1>2, <1>3 DEF h, r

LEMMA BacklogType ==
  ASSUME TypeOK
  PROVE  /\ tasks \in Seq(Signals) /\ detQueue \in Seq(Signals)
         /\ emitted \in Seq(Signals) /\ Pending(pushing) \in Seq(Signals)
         /\ tasks \o detQueue \in Seq(Signals)
         /\ Backlog = (tasks \o detQueue) \o Pending(pushing)
         /\ Backlog \in Seq(Signals)
         /\ FifoStart <=> Suffix(Backlog, emitted)
<1>1. Pending(pushing) \in Seq(Signals)
  BY DEF TypeOK, Pending
<1>2. tasks \o detQueue \in Seq(Signals)
  BY ConcatProperties DEF TypeOK
<1>3. Backlog = (tasks \o detQueue) \o Pending(pushing)
  BY DEF Backlog, Pending
<1>4. Backlog \in Seq(Signals)
  BY <1>1, <1>2, <1>3, ConcatProperties
<1>5. QED
  BY <1>1, <1>2, <1>3, <1>4 DEF TypeOK, FifoStart, Suffix

LEMMA EmitOrder ==
  ASSUME TypeOK, FifoStart, NEW s \in Signals, Emit(s)
  PROVE  FifoStart'
<1> DEFINE w == tasks \o detQueue
<1>1. /\ pushing = NoSignal /\ tasks' = tasks /\ emitted' = Append(emitted, s)
      /\ \/ detQueue' = Append(detQueue, s) /\ pushing' = NoSignal
         \/ detQueue' = detQueue /\ pushing' = s
  BY DEF Emit
<1>2. w \in Seq(Signals) /\ <<s>> \in Seq(Signals) /\ s # NoSignal
  BY BacklogType, PipelineAssumption
<1>3. Backlog = w
  BY <1>1, <1>2, BacklogType, ConcatEmptySeq DEF Pending
<1>4. Backlog' = Append(w, s)
  <2>1. Append(w, s) = w \o <<s>> /\ tasks \o Append(detQueue, s) = w \o <<s>>
    <3>1. tasks \in Seq(Signals) /\ detQueue \in Seq(Signals)
      BY BacklogType
    <3>2. /\ tasks \o Append(detQueue, s) = (tasks \o detQueue) \o <<s>>
          /\ Append(tasks \o detQueue, s) = (tasks \o detQueue) \o <<s>>
      BY <3>1, AppendOuter
    <3>3. QED
      BY <3>2
  <2>2. CASE detQueue' = Append(detQueue, s) /\ pushing' = NoSignal
    <3>1. Backlog' = (tasks \o Append(detQueue, s)) \o <<>>
      BY <1>1, <2>2 DEF Backlog
    <3>2. Backlog' = Append(w, s) \o <<>>
      BY <2>1, <3>1
    <3>3. Append(w, s) \in Seq(Signals)
      BY <1>2, AppendProperties
    <3>4. QED
      BY <3>2, <3>3, ConcatEmptySeq
  <2>3. CASE detQueue' = detQueue /\ pushing' = s
    <3>1. Backlog' = (tasks \o detQueue) \o <<s>>
      BY <1>1, <1>2, <2>3 DEF Backlog
    <3>2. QED
      BY <2>1, <3>1
  <2>4. QED
    BY <1>1, <2>2, <2>3
<1>5. Suffix(Append(w, s), Append(emitted, s))
  BY <1>2, <1>3, BacklogType, SuffixAppend
<1> HIDE DEF w
<1>6. QED
  BY <1>1, <1>4, <1>5 DEF FifoStart, Suffix

LEMMA PushSpawnOrder ==
  ASSUME TypeOK, FifoStart, Push \/ Spawn
  PROVE  FifoStart'
<1>1. CASE Push
  <2>1. /\ pushing # NoSignal /\ pushing' = NoSignal /\ tasks' = tasks
        /\ detQueue' = Append(detQueue, pushing) /\ emitted' = emitted
    BY <1>1 DEF Push
  <2>2. pushing \in Signals
    BY <2>1 DEF TypeOK
  <2>3. tasks \o Append(detQueue, pushing) = (tasks \o detQueue) \o <<pushing>>
    <3>1. tasks \in Seq(Signals) /\ detQueue \in Seq(Signals)
      BY BacklogType
    <3>2. QED
      BY <2>2, <3>1, AppendOuter
  <2>4. Backlog = tasks \o Append(detQueue, pushing)
    BY <2>1, <2>3 DEF Backlog
  <2>5. Backlog' = Backlog \o <<>>
    BY <2>1, <2>4 DEF Backlog
  <2>6. Backlog' = Backlog
    BY <2>5, BacklogType, ConcatEmptySeq
  <2>7. QED
    BY <2>1, <2>6 DEF FifoStart
<1>2. CASE Spawn
  <2>1. /\ detQueue # <<>> /\ tasks' = Append(tasks, Head(detQueue))
        /\ detQueue' = Tail(detQueue) /\ emitted' = emitted /\ pushing' = pushing
    BY <1>2 DEF Spawn, detVars
  <2>2. tasks' \o detQueue' = tasks \o detQueue
    BY <2>1, BacklogType, HandedOn
  <2>3. Backlog' = Backlog
    BY <2>1, <2>2 DEF Backlog
  <2>4. QED
    BY <2>1, <2>3 DEF FifoStart
<1>3. QED
  BY <1>1, <1>2

LEMMA AcquireOrder ==
  ASSUME TypeOK, FifoStart, NEW s \in Signals, Acquire(s)
  PROVE  FifoStart'
<1> DEFINE h == Head(tasks)
           r == Tail(tasks)
           P == Pending(pushing)
<1>1. /\ tasks # <<>> /\ tasks' = Tail(tasks) /\ detQueue' = detQueue
      /\ pushing' = pushing /\ emitted' = emitted
  BY DEF Acquire, detVars
<1>2. /\ tasks = <<h>> \o r /\ h \in Signals /\ r \in Seq(Signals) /\ <<h>> \in Seq(Signals)
      /\ P \in Seq(Signals) /\ detQueue \in Seq(Signals) /\ emitted \in Seq(Signals)
  BY <1>1, BacklogType, Split
<1>3. Backlog' = (r \o detQueue) \o P
  BY <1>1 DEF Backlog, Pending
<1>4. Backlog = (tasks \o detQueue) \o P
  BY BacklogType
<1> HIDE DEF h, r, P
<1>5. (<<h>> \o r) \o detQueue = <<h>> \o (r \o detQueue) /\ r \o detQueue \in Seq(Signals)
  BY <1>2, ConcatAssociative, ConcatProperties
<1>6. /\ (<<h>> \o (r \o detQueue)) \o P = <<h>> \o ((r \o detQueue) \o P)
      /\ (r \o detQueue) \o P \in Seq(Signals)
  BY <1>2, <1>5, ConcatAssociative, ConcatProperties
<1> DEFINE rest == (r \o detQueue) \o P
<1>7. Suffix(<<h>> \o rest, emitted)
  BY <1>2, <1>4, <1>5, <1>6, BacklogType
<1> HIDE DEF rest
<1>8. Suffix(rest, emitted)
  BY <1>2, <1>6, <1>7, SuffixDrop DEF rest
<1>9. QED
  BY <1>1, <1>3, <1>8 DEF FifoStart, Suffix, rest

\* For every number of signals, queue size and number of slots, the LLM slots
\* are granted in the order the detector raised the signals, also around a full
\* queue: the suspended put, the queue and the semaphore's waiters are one line
\* (detector.py:164-165, analyzer.py:107-126).
THEOREM Fifo == Spec => []FifoStart
<1>1. Init => FifoStart
  BY DEF Init, AnalyzerInit, FifoStart, Backlog
<1>2. TypeOK /\ FifoStart /\ [Next]_vars => FifoStart'
  <2> SUFFICES ASSUME TypeOK, FifoStart, [Next]_vars PROVE FifoStart'
    OBVIOUS
  <2>1. CASE Detector \/ Spawn
    BY <2>1, EmitOrder, PushSpawnOrder DEF Detector
  <2>2. ASSUME NEW s \in Signals, Acquire(s) PROVE FifoStart'
    BY <2>2, AcquireOrder
  <2>3. CASE \/ \E s \in Signals : \/ Classified(s) \/ AnalyzeFails(s)
                                  \/ Scored(s) \/ ResumePut(s)
             \/ Thread \/ Auditor \/ Shutdown \/ UNCHANGED vars
    <3>1. UNCHANGED <<emitted, pushing, detQueue, tasks>>
      BY <2>3 DEF Classified, AnalyzeFails, Scored, ResumePut, Thread, VerifyThread, RecordThread,
                  DispatchThread, WriteThread, Auditor, AuditGet, ResumeVerify,
                  ResumeEnforce, ResumeWrite, AuditorDies, Elsewhere, Shutdown,
                  vars, detVars
    <3>2. Backlog' = Backlog
      BY <3>1 DEF Backlog
    <3>3. QED
      BY <3>1, <3>2 DEF FifoStart
  <2>4. QED
    BY <2>1, <2>2, <2>3 DEF Next, Task
<1>3. QED
  BY <1>1, <1>2, TypeCorrect, PTL DEF Spec
=============================================================================
