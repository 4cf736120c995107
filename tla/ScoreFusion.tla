---------------------------- MODULE ScoreFusion ----------------------------
(***************************************************************************)
(* How one analysis result becomes an enforcement tier: the analyzer's     *)
(* graph score, label and PCABP score; the auditor's CoVe grounding, LTL   *)
(* boost, EGTE gate and score fusion; and CWAE's tier table.               *)
(*                                                                         *)
(* Every step overwrites or caps what the steps before it computed, and    *)
(* the gate runs on the decision BEFORE fusion, so that no single function *)
(* shows which signal wins.  Confidences and contributions are hundredths; *)
(* the escalation score is in millionths.                                  *)
(***************************************************************************)
EXTENDS Integers

CONSTANTS
  Metas,        \* behaviours an IPG may show (see GraphScore)
  LlmDrafts,    \* decisions the classifier may return, with their claims
  Divergences,  \* scores of the behavioural encoder
  Violations,   \* what the LTL guardian may find: CRITICAL and MEDIUM counts
  Extras,       \* IPG-density and entropy terms of the escalation score
  MaxHal,       \* max_hallucination of the auditor and of CoVe, in percent
  EgteMaxHal,   \* cove_hal_threshold of EGTE, in percent
  Quantile      \* conformal quantile of a fitted calibrator, in millionths

Labels   == {"BENIGN", "MALICIOUS", "OTHER"}  \* the classifier's is unchecked
LOG_ONLY == 0   PAUSE == 1   KILL == 2   QUARANTINE == 3   ISOLATE == 4
Tiers    == LOG_ONLY..ISOLATE

\* verified and unverified count the claims that match an event of the window
\* and those that do not; doubt is the sum of the latter's contributions
Draft == [label : Labels, conf : Nat, verified : Nat, unverified : Nat, doubt : Int]

ASSUME FusionAssumption ==
  /\ Metas \subseteq [tmpExec : BOOLEAN, outbound : BOOLEAN, reads : Nat,
                      execAfterNet : BOOLEAN, unusual : BOOLEAN]
  /\ LlmDrafts \subseteq Draft
  /\ \A d \in LlmDrafts : d.unverified = 0 => d.doubt = 0
  /\ Divergences \subseteq 0..100 /\ Extras \subseteq 0..15
  /\ Violations \subseteq [critical : Nat, medium : Nat]
  /\ MaxHal \in 0..100 /\ EgteMaxHal \in 0..100 /\ Quantile \in Nat

VARIABLES
  egte,        \* the gate: "off", "unfitted" or "fitted"; set at start-up
  stage,       \* how far the result has come
  graph,       \* result.graph_score
  static,      \* a call-site violation was confirmed in the window
  pcabp,       \* result.pcabp_score
  draft,       \* the analyzer's decision
  decision,    \* [label, conf], rebuilt by every step of the auditor
  violations,  \* the guardian's findings
  extra,       \* the window's term of the escalation score
  maxTier,     \* egte_max_tier (ISOLATE, which caps nothing, for None)
  tier         \* the tier CWAE dispatched

vars == <<egte, stage, graph, static, pcabp, draft, decision, violations,
          extra, maxTier, tier>>

Lo(a, b) == IF a < b THEN a ELSE b
Hi(a, b) == IF a < b THEN b ELSE a
Clamp(c) == Lo(Hi(c, 0), 100)

NoDraft == [label |-> "BENIGN", conf |-> 0, verified |-> 0, unverified |-> 0,
            doubt |-> 0]
Quiet   == [critical |-> 0, medium |-> 0]

-----------------------------------------------------------------------------
(* Analyzer: deterministic graph score, model escalation, PCABP consensus.  *)

Points(shown, n) == IF shown THEN n ELSE 0

GraphScore(m) ==
  Lo(100, Points(m.tmpExec, 75) + Points(m.outbound, 80) + Lo(20 * m.reads, 45)
          + Points(m.execAfterNet, 30) + Points(m.unusual, 15))

\* only the gray zone asks the classifier; the graph's own decisions make no
\* claims, and their reasoning text names no resource to parse one from
DraftOf(g, llm) ==
  IF g >= 55 THEN [NoDraft EXCEPT !.label = "MALICIOUS", !.conf = g]
  ELSE IF g <= 15 THEN [NoDraft EXCEPT !.conf = 100 - g]
  ELSE llm

\* max(0.4*static + 0.6*ai, 0.55*static)
PcabpScore(st, ai) == Hi(Points(st, 40) + (60 * ai) \div 100, Points(st, 55))

-----------------------------------------------------------------------------
(* Auditor: CoVe, LTL, EGTE, fusion; then CWAE.                             *)

HalRate(d) == IF d.verified + d.unverified = 0 THEN 0
              ELSE (100 * d.unverified) \div (d.verified + d.unverified)

Hallucinated(d) == d.label = "MALICIOUS" /\ HalRate(d) > MaxHal

\* Mutant of Grounded: the verified confidence is not clamped.
GroundedUnclamped(d) ==
  [label |-> d.label,
   conf  |-> IF Hallucinated(d) THEN Lo(d.conf - d.doubt, 29)
             ELSE Lo(d.conf - d.doubt, d.conf)]

\* CoVe's final confidence; the auditor takes it if it is lower or the
\* hallucination guard fired
Grounded(d) ==
  LET sound == IF d.verified + d.unverified = 0 THEN d.conf
               ELSE Clamp(d.conf - d.doubt)
  IN [label |-> d.label,
      conf  |-> IF Hallucinated(d) THEN Lo(sound, 29) ELSE Lo(sound, d.conf)]

Boosted(dec, v) ==
  IF dec.label = "MALICIOUS" /\ v.critical + v.medium > 0
  THEN [dec EXCEPT !.conf = Lo(100, @ + Lo(20, 10 * (v.critical + v.medium)))]
  ELSE dec

CwaeTier(dec) ==
  CASE dec.label = "BENIGN" \/ dec.conf < 30 -> LOG_ONLY
    [] dec.label # "BENIGN" /\ dec.conf \in 30..49 -> PAUSE
    [] dec.label # "BENIGN" /\ dec.conf \in 50..69 -> KILL
    [] dec.label # "BENIGN" /\ dec.conf \in 70..84 -> QUARANTINE
    [] OTHER -> ISOLATE

\* EscalationScorer, clamped to [0, 1]
EscalationScore(dec, d, v, x) ==
  LET signed == IF dec.label = "MALICIOUS" THEN dec.conf ELSE 100 - dec.conf
      raw    == 4000 * signed + 25 * signed * (100 - HalRate(d))
                + 2000 * Lo(25 * v.critical, 100) + 10000 * x
  IN Lo(Hi(raw, 0), 1000000)

\* Mutants of CoveCap: no evidence check; the check reads the retracted claims.
CoveCapNoIds(dec, d) ==
  IF dec.label = "MALICIOUS" /\ HalRate(d) > EgteMaxHal THEN LOG_ONLY ELSE ISOLATE

CoveCapRetracted(dec, d) ==
  CASE dec.label # "MALICIOUS" -> ISOLATE
    [] dec.label = "MALICIOUS" /\ HalRate(d) > EgteMaxHal -> LOG_ONLY
    [] OTHER -> IF d.unverified = 0 THEN PAUSE ELSE ISOLATE

\* apply_gates: evidence cap and LTL floor
CoveCap(dec, d) ==
  CASE dec.label # "MALICIOUS" -> ISOLATE
    [] dec.label = "MALICIOUS" /\ HalRate(d) > EgteMaxHal -> LOG_ONLY
    [] OTHER -> IF d.verified = 0 THEN PAUSE ELSE ISOLATE

LtlFloor(d, v) ==
  IF v.critical > 0 /\ HalRate(d) <= EgteMaxHal THEN PAUSE ELSE LOG_ONLY

CalibrationCap(mode, score) ==
  CASE mode = "unfitted" -> LOG_ONLY
    [] mode = "fitted"   -> IF score <= Quantile THEN PAUSE ELSE ISOLATE

\* Mutant of EgteTier: the calibration cap is applied after the LTL floor.
EgteTierCapLast(mode, dec, d, v, x) ==
  IF mode = "off" THEN ISOLATE
  ELSE Lo(CalibrationCap(mode, EscalationScore(dec, d, v, x)),
          Lo(Hi(CwaeTier(dec), LtlFloor(d, v)), CoveCap(dec, d)))

\* enforce_tier: caps, then the floor, then the evidence cap again
EgteTier(mode, dec, d, v, x) ==
  IF mode = "off" THEN ISOLATE
  ELSE LET calibrated == CalibrationCap(mode, EscalationScore(dec, d, v, x))
           capped     == Lo(CwaeTier(dec), Lo(CoveCap(dec, d), calibrated))
       IN Lo(Hi(capped, LtlFloor(d, v)), CoveCap(dec, d))

Severity(v) == CASE v.critical > 0 -> 95
                 [] v.critical = 0 /\ v.medium > 0 -> 65
                 [] OTHER -> 0

Axes(dec, v, g, p) ==
  Hi(Hi(g, p), Hi(IF Severity(v) >= 70 THEN Severity(v) ELSE 0,
                  IF dec.label = "MALICIOUS" THEN dec.conf ELSE 0))

Verdict(c) == [label |-> IF c >= 50 THEN "MALICIOUS" ELSE "BENIGN", conf |-> c]

\* Mutant of Fused: the CoVe cap is applied before the other axes.
FusedCapFirst(dec, d, v, g, p) ==
  IF Hallucinated(d) THEN Verdict(Axes([dec EXCEPT !.conf = Lo(@, 29)], v, g, p))
  ELSE Verdict(Axes(dec, v, g, p))

\* fuse_scores: the maximum of the axes, then the CoVe cap
Fused(dec, d, v, g, p) ==
  Verdict(IF Hallucinated(d) THEN Lo(29, Axes(dec, v, g, p)) ELSE Axes(dec, v, g, p))

\* enforce with pcabp_score = 0; a BENIGN verdict is not enforced at all
Enforced(dec, cap) == Lo(CwaeTier(dec), cap)

-----------------------------------------------------------------------------
Init ==
  /\ egte \in {"off", "unfitted", "fitted"}
  /\ stage = "analyze"
  /\ graph = 0 /\ static = FALSE /\ pcabp = 0
  /\ draft = NoDraft /\ decision = Grounded(NoDraft)
  /\ violations = Quiet /\ extra = 0
  /\ maxTier = ISOLATE /\ tier = LOG_ONLY

Step(from, to) == stage = from /\ stage' = to

Analyze ==
  /\ Step("analyze", "cove")
  /\ \E m \in Metas, llm \in LlmDrafts : /\ graph' = GraphScore(m)
                                       /\ draft' = DraftOf(GraphScore(m), llm)
  /\ \E st \in BOOLEAN, ai \in Divergences : /\ static' = st
                                           /\ pcabp' = PcabpScore(st, ai)
  /\ UNCHANGED <<egte, decision, violations, extra, maxTier, tier>>

Ground ==
  /\ Step("cove", "ltl")
  /\ decision' = Grounded(draft)
  /\ UNCHANGED <<egte, graph, static, pcabp, draft, violations, extra, maxTier, tier>>

Guard(v) ==
  /\ Step("ltl", "egte")
  /\ violations' = v
  /\ decision' = Boosted(decision, v)
  /\ UNCHANGED <<egte, graph, static, pcabp, draft, extra, maxTier, tier>>

Gate(x) ==
  /\ Step("egte", "fuse")
  /\ extra' = x
  /\ maxTier' = EgteTier(egte, decision, draft, violations, x)
  /\ UNCHANGED <<egte, graph, static, pcabp, draft, decision, violations, tier>>

Fuse ==
  /\ Step("fuse", "enforce")
  /\ decision' = Fused(decision, draft, violations, graph, pcabp)
  /\ UNCHANGED <<egte, graph, static, pcabp, draft, violations, extra, maxTier, tier>>

Enforce ==
  /\ Step("enforce", "done")
  /\ tier' = Enforced(decision, maxTier)
  /\ UNCHANGED <<egte, graph, static, pcabp, draft, decision, violations, extra, maxTier>>

\* the audit entry is written and the auditor takes the next result
Archive ==
  /\ Step("done", "analyze")
  /\ graph' = 0 /\ static' = FALSE /\ pcabp' = 0
  /\ draft' = NoDraft /\ decision' = Grounded(NoDraft)
  /\ violations' = Quiet /\ extra' = 0
  /\ maxTier' = ISOLATE /\ tier' = LOG_ONLY
  /\ UNCHANGED egte

Next ==
  \/ Analyze \/ Ground
  \/ \E v \in Violations : Guard(v)
  \/ \E x \in Extras : Gate(x)
  \/ Fuse \/ Enforce \/ Archive

Spec == Init /\ [][Next]_vars
-----------------------------------------------------------------------------
(* Properties.  Each speaks of a finished result.                           *)

Stages == {"analyze", "cove", "ltl", "egte", "fuse", "enforce", "done"}

\* Types of the state; a confidence the classifier puts above 1 stays a number.
TypeOK ==
  /\ egte \in {"off", "unfitted", "fitted"} /\ stage \in Stages
  /\ graph \in 0..100 /\ static \in BOOLEAN /\ pcabp \in 0..100
  /\ draft \in Draft
  /\ decision \in [label : Labels, conf : Nat]
  /\ violations \in [critical : Nat, medium : Nat] /\ extra \in 0..15
  /\ maxTier \in Tiers /\ tier \in Tiers

Done == stage = "done"

\* auditor.py:9 "If hallucination_rate > threshold -> downgrade to LOG_ONLY
\* regardless of raw conf": no boost, floor or other axis applied after the
\* downgrade brings a hallucinated MALICIOUS draft back to an action.
HallucinationNeverActs == Done /\ Hallucinated(draft) => tier = LOG_ONLY

\* egte.py:45-47: with EGTE, no destructive tier unless the classifier's claims
\* include a verified event and the score is above the benign quantile,
\* although the tier is computed from a fused confidence EGTE never saw.
\* (For the two labels the classifier is asked for.)
DestructionGrounded ==
  Done /\ egte # "off" /\ draft.label # "OTHER" /\ tier >= KILL =>
    /\ egte = "fitted" /\ draft.label = "MALICIOUS"
    /\ draft.verified > 0 /\ HalRate(draft) <= EgteMaxHal

\* A CRITICAL axiom violation leads to PAUSE at least, through the calibration
\* cap, a BENIGN label and the fusion, unless the claims are hallucinated.
CriticalActs ==
  Done /\ violations.critical > 0 /\ HalRate(draft) <= Lo(MaxHal, EgteMaxHal) =>
    tier >= PAUSE

\* The tier of a draft, from its grounding to its enforcement.
Outcome(d, v, p) ==
  LET dec == Boosted(Grounded(d), v)
  IN Enforced(Fused(dec, d, v, graph, p), EgteTier(egte, dec, d, v, extra))

\* More alarms never lower the tier: not another LTL violation, not a higher
\* PCABP score, whatever caps and floors they meet on the way.
AlarmsMonotone ==
  Done =>
    /\ Outcome(draft, [violations EXCEPT !.critical = @ + 1], pcabp) >= tier
    /\ Outcome(draft, [violations EXCEPT !.medium = @ + 1], pcabp) >= tier
    /\ Outcome(draft, violations, PcabpScore(TRUE, 0)) >= tier \/ pcabp > 55

\* Evidence never lowers the tier: were one of the unmatched claims (of a
\* contribution w >= 0) found in the window, the tier would be at least as high.
\* (For the two labels the classifier is asked for.)
EvidenceMonotone ==
  Done /\ draft.label # "OTHER" /\ draft.unverified > 0 =>
    \A w \in (IF draft.unverified = 1 THEN {draft.doubt} ELSE 0..draft.doubt) :
      w >= 0 =>
        Outcome([draft EXCEPT !.verified = @ + 1, !.unverified = @ - 1,
                              !.doubt = @ - w], violations, pcabp) >= tier

\* A tier grows with the alarms and with the evidence.
Monotone == AlarmsMonotone /\ EvidenceMonotone

\* PAUSE is never the tier of a confidence (fusion calls everything below 0.50
\* BENIGN): a process is only ever stopped when EGTE capped a stronger action.
PauseOnlyByGate == Done /\ tier = PAUSE => maxTier = PAUSE /\ CwaeTier(decision) >= KILL

\* enforcement.py:163-165 "a confirmed static call-site violation is
\* non-maskable and floors at the KILL tier": without EGTE's upper bound.
StaticFloor == Done /\ egte = "off" /\ static => tier >= KILL

=============================================================================
