------------------------------ MODULE Analysis ------------------------------
(***************************************************************************)
(* One signal from its window to the claims that are left of its verdict:  *)
(* the analyzer puts the parent's events in front of the window, builds    *)
(* and scores the graph and, in the gray zone, asks the two tiers of the   *)
(* classifier; the auditor then grounds the classifier's claims (CoVe), in *)
(* the window alone.                                                       *)
(*                                                                         *)
(* How signals overlap is AgentPipeline; what becomes of the confidence is *)
(* ScoreFusion.  Confidences and scores are hundredths.                    *)
(***************************************************************************)
EXTENDS ProvenanceGraph, Evidence, Calibration

CONSTANTS
  Windows,         \* windows a signal may carry
  ParentWindows,   \* what the parent cache may hold for its parent
  Samples,         \* calibration sets: sorted sequences of confidences
  ModelDecisions,  \* what a model may answer
  MockDecisions,   \* what MockClassifier may answer for a model that failed
  DraftThreshold,  \* draft_conf_threshold
  Retries,         \* max_retries
  MaxParent,       \* events taken from the parent
  MaxIter,         \* max_grounding_iterations
  MaxHal           \* hallucination_threshold in percent

Labels == {"BENIGN", "MALICIOUS"}
\* readable: are the evidence references objects with numbers, as the prompt
\* asks for?  Nobody checks before they are verified.
Answer == [label : Labels, conf : 0 .. 100, claims : Seq(Claim), readable : BOOLEAN]

ASSUME AnalysisAssumption ==
  /\ Windows \subseteq Seq(Kinds) \ {<<>>} /\ ParentWindows \subseteq Seq(Kinds)
  /\ \A e \in Kinds : e.res \in Resources
  /\ \A s \in Samples : s \in Seq(0 .. 100) /\ Sorted(s)
  /\ ModelDecisions \subseteq Answer /\ MockDecisions \subseteq Answer
  /\ \A d \in MockDecisions : d.readable /\ (d.label = "BENIGN" => d.conf <= 8)
  /\ DraftThreshold \in 0 .. 100 /\ Retries \in Nat \ {0}
  /\ MaxParent \in Nat /\ MaxIter \in Nat /\ MaxHal \in 0 .. 100

VARIABLES
  conformal,   \* is the fast path given a calibrator?
  allowMock,   \* SENTINEL__LLM__ALLOW_MOCK_FALLBACK
  cal,         \* the calibrator
  own,         \* signal.window
  calm,        \* is the signal's entropy below entropy_high?
  stage,       \* how far the signal has come
  tries,       \* failed attempts of the model call that is running
  decision,    \* the verdict, and the tier that gave it
  marks,       \* for each claim the event that backs it, or 0
  counted,     \* report.verified_claims
  rounds       \* iterations of the grounding loop

configVars  == <<conformal, allowMock>>
verdictVars == <<tries, decision>>
claimVars   == <<marks, counted, rounds>>
vars == <<graphVars, configVars, cal, own, calm, stage, verdictVars, claimVars>>

Verdict(tier, mock, d) ==
  [by |-> tier, mock |-> mock, label |-> d.label, conf |-> d.conf,
   claims |-> d.claims, readable |-> d.readable]
Unclaimed(label, conf) ==
  [label |-> label, conf |-> conf, claims |-> <<>>, readable |-> TRUE]
NoDecision == Verdict("none", FALSE, Unclaimed("BENIGN", 0))

Init ==
  /\ conformal \in BOOLEAN /\ allowMock \in BOOLEAN
  /\ cal = Unfitted
  /\ win = <<>> /\ pos = 0 /\ nodes = <<>> /\ edges = <<>>
  /\ own = <<>> /\ calm = FALSE
  /\ stage = "idle"
  /\ tries = 0 /\ decision = NoDecision
  /\ marks = <<>> /\ counted = 0 /\ rounds = 0

\* a calibration set is fitted, or fitted again
Calibrate(s) ==
  /\ stage = "idle" /\ conformal
  /\ cal' = Fit(cal, s)
  /\ UNCHANGED <<graphVars, configVars, own, calm, stage, verdictVars, claimVars>>

-----------------------------------------------------------------------------
(* AnalyzerAgent._analyze.                                                  *)

LastOf(s, n) == IF Len(s) <= n THEN s ELSE SubSeq(s, Len(s) - n + 1, Len(s))

\* inject_parent_events
Receive(w, p, low) ==
  /\ stage = "idle"
  /\ own' = w /\ win' = LastOf(p, MaxParent) \o w
  /\ calm' = low
  /\ stage' = "build"
  /\ UNCHANGED <<pos, nodes, edges, configVars, cal, verdictVars, claimVars>>

Build ==
  /\ stage = "build"
  /\ Insert
  /\ UNCHANGED <<configVars, cal, own, calm, stage, verdictVars, claimVars>>

Judged(label, conf) ==
  /\ decision' = Verdict("graph", FALSE, Unclaimed(label, conf))
  /\ stage' = "verify"

\* the graph decides outside the gray zone, without a claim
Judge ==
  LET score == Score(Meta) IN
  /\ stage = "build" /\ pos = Len(win)
  /\ CASE score >= 55 -> Judged("MALICIOUS", score)
       [] score <= 15 -> Judged("BENIGN", 100 - score)
       [] OTHER -> /\ stage' = IF calm THEN "draft" ELSE "full"
                   /\ UNCHANGED decision
  /\ UNCHANGED <<graphVars, configVars, cal, own, calm, tries, claimVars>>

-----------------------------------------------------------------------------
(* DualTierClassifier.classify over two OllamaClassifiers.                  *)

\* Mutant of FastPathOk: a calibrator without enough samples falls back to the
\* hand-set threshold.
FastPathOkLegacy(d) ==
  /\ d.label = "BENIGN"
  /\ IF conformal /\ cal.fitted THEN Above(cal, d.conf) ELSE d.conf >= DraftThreshold

FastPathOk(d) ==
  /\ d.label = "BENIGN"
  /\ IF conformal THEN Above(cal, d.conf) ELSE d.conf >= DraftThreshold

\* a tier has answered: the draft's verdict is taken or dropped for the full
\* model's
Answered(mock, d) ==
  /\ IF stage = "draft" /\ ~FastPathOk(d)
     THEN stage' = "full" /\ UNCHANGED decision
     ELSE stage' = "verify" /\ decision' = Verdict(stage, mock, d)
  /\ tries' = 0

ModelAnswers(d) ==
  /\ stage \in {"draft", "full"}
  /\ Answered(FALSE, d)
  /\ UNCHANGED <<graphVars, configVars, cal, own, calm, claimVars>>

\* Mutant of AttemptFails: one attempt too many.
AttemptFailsLate ==
  /\ stage \in {"draft", "full"} /\ tries <= Retries - 1
  /\ tries' = tries + 1
  /\ UNCHANGED <<graphVars, configVars, cal, own, calm, stage, decision, claimVars>>

\* Mutant of AttemptFails: the attempts are counted anew.
AttemptFailsAnew ==
  /\ stage \in {"draft", "full"}
  /\ tries' = (tries + 1) % Retries
  /\ UNCHANGED <<graphVars, configVars, cal, own, calm, stage, decision, claimVars>>

\* an attempt fails, and another one follows after a pause
AttemptFails ==
  /\ stage \in {"draft", "full"} /\ tries < Retries - 1
  /\ tries' = tries + 1
  /\ UNCHANGED <<graphVars, configVars, cal, own, calm, stage, decision, claimVars>>

\* the last attempt fails: the mock answers if it may ...
MockAnswers(d) ==
  /\ stage \in {"draft", "full"} /\ tries = Retries - 1 /\ allowMock
  /\ Answered(TRUE, d)
  /\ UNCHANGED <<graphVars, configVars, cal, own, calm, claimVars>>

\* ... and otherwise the exception ends the task
ModelFails ==
  /\ stage \in {"draft", "full"} /\ tries = Retries - 1 /\ ~allowMock
  /\ stage' = "failed"
  /\ UNCHANGED <<graphVars, configVars, cal, own, calm, verdictVars, claimVars>>

-----------------------------------------------------------------------------
(* CoVeLoop.run.                                                            *)

Backed(m) == {i \in DOMAIN m : m[i] # 0}
Report(m) == marks' = m /\ counted' = Cardinality(Backed(m))

\* step 2, in the signal's own window
Verify ==
  /\ stage = "verify" /\ decision.readable
  /\ Report(Matches(decision.claims, own))
  /\ stage' = "ground"
  /\ UNCHANGED <<graphVars, configVars, cal, own, calm, verdictVars, rounds>>

\* a reference that is no object, or whose contribution is no number, raises in
\* the thread the auditor awaits, and takes the auditor's task with it
VerifyRaises ==
  /\ stage = "verify" /\ ~decision.readable
  /\ stage' = "crashed"
  /\ UNCHANGED <<graphVars, configVars, cal, own, calm, verdictVars, claimVars>>

\* step 3: claims are marked in place; then everything is verified again,
\* unless the number of new marks is the number of old ones
Ground ==
  LET new == Regrounded(decision.claims, marks, own) IN
  /\ stage = "ground" /\ rounds < MaxIter /\ counted < Len(marks)
  /\ rounds' = rounds + 1
  /\ IF Cardinality(new) = counted
     THEN /\ marks' = Remarked(decision.claims, marks, own)
          /\ stage' = "synthesize"
          /\ UNCHANGED counted
     ELSE /\ Report(Matches(decision.claims, own))
          /\ UNCHANGED stage
  /\ UNCHANGED <<graphVars, configVars, cal, own, calm, verdictVars>>

Synthesize ==
  /\ \/ stage = "synthesize"
     \/ stage = "ground" /\ (rounds = MaxIter \/ counted = Len(marks))
  /\ stage' = "done"
  /\ UNCHANGED <<graphVars, configVars, cal, own, calm, verdictVars, claimVars>>

\* the hallucination rate is above its limit
Hallucinated ==
  /\ decision.label = "MALICIOUS"
  /\ 100 * (Len(marks) - counted) > MaxHal * Len(marks)

-----------------------------------------------------------------------------
Progress ==
  \/ Build \/ Judge
  \/ \E d \in ModelDecisions : ModelAnswers(d)
  \/ \E d \in MockDecisions : MockAnswers(d)
  \/ AttemptFails \/ ModelFails
  \/ Verify \/ VerifyRaises \/ Ground \/ Synthesize

Next ==
  \/ \E s \in Samples : Calibrate(s)
  \/ \E w \in Windows, p \in ParentWindows, low \in BOOLEAN : Receive(w, p, low)
  \/ Progress

Spec == Init /\ [][Next]_vars /\ WF_vars(Progress)

-----------------------------------------------------------------------------
(* Properties.                                                              *)

Stages == {"idle", "build", "draft", "full", "verify", "ground", "synthesize",
           "done", "failed", "crashed"}
Vertex == [comm : {e.comm : e \in Kinds},
          rtype : {"EXEC", "FILE", "NET", "MEM", "SYS", "UNK"}]
Edge == [link : [src : Vertex, dst : Vertex, label : Calls],
         min : Int, max : Int, count : Nat \ {0}, first : Nat \ {0, 1},
         res : Resources]

\* Graph, verdict and claims keep their types at every stage.
TypeOK ==
  /\ conformal \in BOOLEAN /\ allowMock \in BOOLEAN /\ calm \in BOOLEAN
  /\ cal.fitted \in BOOLEAN /\ cal.qhat \in 0 .. 100 /\ cal.scores \in Seq(0 .. 100)
  /\ stage \in Stages
  /\ win \in Seq(Kinds) /\ own \in Seq(Kinds) /\ pos \in 0 .. Len(win)
  /\ nodes \in Seq(Vertex) /\ edges \in Seq(Edge)
  /\ tries \in 0 .. Retries - 1
  /\ decision \in [by : {"none", "graph", "draft", "full"}, mock : BOOLEAN,
                  label : Labels, conf : 0 .. 100, claims : Seq(Claim), readable : BOOLEAN]
  /\ marks \in Seq(0 .. Len(own)) /\ counted \in 0 .. Len(marks)
  /\ rounds \in 0 .. MaxIter

\* The hallucination rate that guards enforcement is that of the claims in the
\* report, each of which cites an event of the window that matches it; the
\* grounding loop neither adds nor retracts one.
ReportConsistent ==
  stage \in {"ground", "synthesize", "done"} =>
    /\ counted = Cardinality(Backed(marks))
    /\ marks = Matches(decision.claims, own)
    /\ \A i \in Backed(marks) :
         \/ Exact(decision.claims[i], own[marks[i]])
         \/ Loose(decision.claims[i], own[marks[i]])

\* claim c quotes an edge of the graph: its resource and, unless that is enough
\* to go by, its system call
Quotes(c) ==
  \E i \in DOMAIN edges :
    /\ c.res = edges[i].res
    /\ \/ c.sc = edges[i].link.label \/ c.sc = "none"
       \/ c.res # NoRes

Honest == \A i \in DOMAIN decision.claims : Quotes(decision.claims[i])

\* When the graph shows the signal's own window only, no claim that quotes it
\* is retracted.
HonestAlone ==
  stage = "done" /\ win = own /\ Honest =>
    \A i \in DOMAIN marks : marks[i] # 0

\* The report and the claims agree, in both directions.
ClaimsFaithful == ReportConsistent /\ HonestAlone

\* What cove.py promises of every graph: a verdict that quotes only edges of
\* the graph it was shown is never treated as hallucinated.
HonestClaimsStand == stage = "done" /\ Honest => ~Hallucinated

\* A draft verdict that replaced the full model's is BENIGN and, with a
\* hand-set threshold that the mock cannot reach, not the mock's; with a
\* calibrator the last calibration set was large enough, and none of its attacks
\* was called BENIGN with as much confidence, or they and this window are at
\* most a share Alpha of all.
FastPathBound ==
  decision.by = "draft" =>
    /\ decision.label = "BENIGN"
    /\ ~conformal /\ DraftThreshold > 8 => ~decision.mock
    /\ conformal =>
         LET n == Len(cal.scores)
             m == Cardinality({i \in 1 .. n : cal.scores[i] >= decision.conf}) IN
         /\ n >= MinSamples
         /\ m = 0 \/ 100 * (m + 1) <= Alpha * (n + 1)

\* However attempts fail, every signal gets its verified verdict, or ends with
\* the model's failure where no mock may stand in, or takes the auditor down:
\* which a verdict of a model may do, never one of the graph or of the mock.
Concludes ==
  (stage = "build") ~> \/ stage = "done"
                       \/ stage = "failed" /\ ~allowMock
                       \/ /\ stage = "crashed"
                          /\ decision.by \in {"draft", "full"} /\ ~decision.mock
=============================================================================
