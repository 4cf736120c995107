------------------------- MODULE ScoreFusion_proofs -------------------------
(***************************************************************************)
(* ScoreFusion for every set of drafts, thresholds and quantile: the types *)
(* of the state, the properties of one finished result, that results grow  *)
(* with alarms and evidence, and what the trace studies make of a result.  *)
(*                                                                         *)
(* A property of the tier depends on what the gate allowed and on what the *)
(* fusion decided, which happened at different stages on different         *)
(* decisions.  The inductive invariant records, for each stage, what the   *)
(* draft implies about the two values the tier will be computed from.      *)
(* Comparing two results needs more: that the tier is a function of the    *)
(* inputs (Computed), followed through its stages, each of which grows.    *)
(***************************************************************************)
EXTENDS Study, TLAPS

-----------------------------------------------------------------------------
(* What the operators return.                                               *)

LEMMA LoHi ==
  ASSUME NEW a \in Int, NEW b \in Int
  PROVE  /\ Lo(a, b) \in {a, b} /\ Lo(a, b) <= a /\ Lo(a, b) <= b
         /\ Hi(a, b) \in {a, b} /\ Hi(a, b) >= a /\ Hi(a, b) >= b
  BY DEF Lo, Hi

LEMMA HalRateType == ASSUME NEW d \in Draft PROVE HalRate(d) \in Int
  BY DEF HalRate, Draft

LEMMA GraphScoreType == \A m \in Metas : GraphScore(m) \in 0..100
  <1> SUFFICES ASSUME NEW m \in Metas PROVE GraphScore(m) \in 0..100
    OBVIOUS
  <1>1. m.reads \in Nat
    BY FusionAssumption
  <1>2. Lo(20 * m.reads, 45) \in 0..45
    BY <1>1 DEF Lo
  <1> QED
    BY <1>2 DEF GraphScore, Points, Lo

LEMMA PcabpScoreType ==
  ASSUME NEW st \in BOOLEAN, NEW ai \in Divergences
  PROVE  PcabpScore(st, ai) \in 0..100
  <1>1. ai \in 0..100
    BY FusionAssumption
  <1>2. (60 * ai) \div 100 \in 0..60
    BY <1>1
  <1> QED
    BY <1>2 DEF PcabpScore, Points, Hi

LEMMA DraftOfType ==
  ASSUME NEW g \in 0..100, NEW llm \in LlmDrafts
  PROVE  DraftOf(g, llm) \in Draft
  <1>1. llm \in Draft
    BY FusionAssumption
  <1>2. g <= 15 => 100 - g \in Nat
    OBVIOUS
  <1>3. [NoDraft EXCEPT !.label = "MALICIOUS", !.conf = g] \in Draft
    <2> DEFINE n == [NoDraft EXCEPT !.label = "MALICIOUS"]
    <2>1. n \in Draft
      BY DEF NoDraft, Draft, Labels
    <2>2. [n EXCEPT !.conf = g] \in Draft
      <3> HIDE DEF n
      <3> QED BY <2>1 DEF Draft
    <2>3. [NoDraft EXCEPT !.label = "MALICIOUS", !.conf = g] = [n EXCEPT !.conf = g]
      OBVIOUS
    <2> QED
      BY <2>2, <2>3
  <1>4. g <= 15 => [NoDraft EXCEPT !.conf = 100 - g] \in Draft
    BY <1>2 DEF NoDraft, Draft, Labels
  <1> QED
    BY <1>1, <1>3, <1>4 DEF DraftOf

Decisions == [label : Labels, conf : Nat]

LEMMA GroundedType ==
  ASSUME NEW d \in Draft
  PROVE  Grounded(d) \in Decisions /\ Grounded(d).label = d.label
  <1>1. d.label \in Labels /\ d.conf \in Nat /\ d.doubt \in Int
        /\ d.verified \in Nat /\ d.unverified \in Nat
    BY DEF Draft
  <1> DEFINE sound == IF d.verified + d.unverified = 0 THEN d.conf
                      ELSE Clamp(d.conf - d.doubt)
  <1>2. sound \in Nat
    BY <1>1 DEF Clamp, Lo, Hi
  <1>3. Lo(sound, 29) \in Nat /\ Lo(sound, d.conf) \in Nat
    BY <1>1, <1>2 DEF Lo
  <1> HIDE DEF sound
  <1>4. Grounded(d) = [label |-> d.label,
                       conf  |-> IF Hallucinated(d) THEN Lo(sound, 29)
                                 ELSE Lo(sound, d.conf)]
    BY DEF Grounded, sound
  <1> QED
    BY <1>1, <1>3, <1>4 DEF Decisions

LEMMA BoostedType ==
  ASSUME NEW dec \in Decisions, NEW v \in Violations
  PROVE  Boosted(dec, v) \in Decisions /\ Boosted(dec, v).label = dec.label
  <1>1. v.critical \in Nat /\ v.medium \in Nat
    BY FusionAssumption
  <1>2. Lo(100, dec.conf + Lo(20, 10 * (v.critical + v.medium))) \in Nat
    BY <1>1 DEF Lo, Decisions
  <1> QED
    BY <1>2 DEF Boosted, Decisions

LEMMA CwaeTierType ==
  ASSUME NEW dec \in Decisions
  PROVE  CwaeTier(dec) \in Tiers
  BY DEF CwaeTier, Tiers, LOG_ONLY, PAUSE, KILL, QUARANTINE, ISOLATE, Decisions

\* A fused decision is MALICIOUS exactly from confidence 0.50 on.
Labelled(dec) == dec.label = IF dec.conf >= 50 THEN "MALICIOUS" ELSE "BENIGN"

LEMMA FusedType ==
  ASSUME NEW dec \in Decisions, NEW d \in Draft, NEW v \in [critical : Nat, medium : Nat],
         NEW g \in 0..100, NEW p \in 0..100
  PROVE  /\ Fused(dec, d, v, g, p) \in Decisions
         /\ Labelled(Fused(dec, d, v, g, p))
         /\ Hallucinated(d) => Fused(dec, d, v, g, p).conf <= 29
         /\ ~Hallucinated(d) /\ v.critical > 0 => Fused(dec, d, v, g, p).conf >= 95
  <1>1. Severity(v) \in Nat /\ (v.critical > 0 => Severity(v) = 95)
    BY DEF Severity
  <1>2. /\ Axes(dec, v, g, p) \in Nat
        /\ v.critical > 0 => Axes(dec, v, g, p) >= 95
    BY <1>1 DEF Axes, Hi, Decisions
  <1> DEFINE c == IF Hallucinated(d) THEN Lo(29, Axes(dec, v, g, p))
                  ELSE Axes(dec, v, g, p)
  <1>3. /\ c \in Nat
        /\ Hallucinated(d) => c <= 29
        /\ ~Hallucinated(d) /\ v.critical > 0 => c >= 95
    BY <1>2 DEF Lo
  <1> HIDE DEF c
  <1>4. Fused(dec, d, v, g, p) = Verdict(c)
    BY DEF Fused, c
  <1> QED
    BY <1>3, <1>4 DEF Verdict, Labelled, Decisions, Labels

GateModes == {"off", "unfitted", "fitted"}

LEMMA EgteTierOff ==
  ASSUME NEW dec, NEW d, NEW v, NEW x
  PROVE  EgteTier("off", dec, d, v, x) = ISOLATE
  BY DEF EgteTier

\* With the gate on, KILL or more needs a fitted calibrator, a tier of KILL or
\* more from CWAE and no evidence cap; the LTL floor holds below that.
LEMMA EgteTierGates ==
  ASSUME NEW mode \in {"unfitted", "fitted"}, NEW dec \in Decisions,
         NEW d \in Draft, NEW v \in [critical : Nat, medium : Nat], NEW x,
         dec.label = d.label
  PROVE  LET t == EgteTier(mode, dec, d, v, x) IN
           /\ t \in Tiers
           /\ t >= KILL /\ d.label # "OTHER" =>
                /\ mode = "fitted" /\ d.label = "MALICIOUS"
                /\ d.verified > 0 /\ HalRate(d) <= EgteMaxHal
           /\ v.critical > 0 /\ HalRate(d) <= EgteMaxHal => t >= PAUSE
  <1> DEFINE cwae  == CwaeTier(dec)
             cove  == CoveCap(dec, d)
             floor == LtlFloor(d, v)
             cal   == CalibrationCap(mode, EscalationScore(dec, d, v, x))
  <1>1. EgteTier(mode, dec, d, v, x) = Lo(Hi(Lo(cwae, Lo(cove, cal)), floor), cove)
    BY DEF EgteTier
  <1>2. HalRate(d) \in Int /\ EgteMaxHal \in Int
    BY HalRateType, FusionAssumption
  <1>3. cwae \in Tiers /\ (dec.label = "BENIGN" => cwae = LOG_ONLY)
    BY CwaeTierType DEF CwaeTier
  <1>4. /\ cove \in {LOG_ONLY, PAUSE, ISOLATE}
        /\ d.label = "MALICIOUS" /\ cove >= KILL =>
             d.verified > 0 /\ HalRate(d) <= EgteMaxHal
        /\ HalRate(d) <= EgteMaxHal => cove >= PAUSE
    <2>1. d.verified \in Nat /\ d.label \in Labels
      BY DEF Draft
    <2> QED
      BY <1>2, <2>1 DEF CoveCap, LOG_ONLY, PAUSE, KILL, ISOLATE, Labels
  <1>5. /\ floor \in {LOG_ONLY, PAUSE}
        /\ v.critical > 0 /\ HalRate(d) <= EgteMaxHal => floor = PAUSE
    BY DEF LtlFloor
  <1>6. cal \in {LOG_ONLY, PAUSE, ISOLATE} /\ (mode = "unfitted" => cal = LOG_ONLY)
    BY DEF CalibrationCap
  <1> HIDE DEF cwae, cove, floor, cal
  <1>7. d.label \in Labels
    BY DEF Draft
  <1> DEFINE t == Lo(Hi(Lo(cwae, Lo(cove, cal)), floor), cove)
  <1>8. /\ t \in Tiers
        /\ t >= KILL => cwae >= KILL /\ cove >= KILL /\ cal >= KILL
        /\ floor = PAUSE /\ cove >= PAUSE => t >= PAUSE
    BY <1>3, <1>4, <1>5, <1>6
       DEF Lo, Hi, Tiers, LOG_ONLY, PAUSE, KILL, QUARANTINE, ISOLATE
  <1> HIDE DEF t
  <1>9. EgteTier(mode, dec, d, v, x) = t
    BY <1>1 DEF t
  <1>10. t >= KILL /\ d.label # "OTHER" =>
           /\ mode = "fitted" /\ d.label = "MALICIOUS"
           /\ d.verified > 0 /\ HalRate(d) <= EgteMaxHal
    BY <1>3, <1>4, <1>6, <1>7, <1>8 DEF Labels, KILL, LOG_ONLY
  <1> QED
    BY <1>4, <1>5, <1>8, <1>9, <1>10

-----------------------------------------------------------------------------
(* Type correctness.                                                        *)

LEMMA EgteTierType ==
  ASSUME NEW mode \in GateModes, NEW dec \in Decisions, NEW d \in Draft,
         NEW v \in [critical : Nat, medium : Nat], NEW x, dec.label = d.label
  PROVE  EgteTier(mode, dec, d, v, x) \in Tiers
  <1>1. CASE mode = "off"
    BY <1>1, EgteTierOff DEF Tiers, LOG_ONLY, ISOLATE
  <1>2. CASE mode # "off"
    BY <1>2, EgteTierGates DEF GateModes
  <1> QED
    BY <1>1, <1>2

\* The labels agree until the fusion writes its own.
SameLabel == stage \in {"ltl", "egte"} => decision.label = draft.label

Typed == TypeOK /\ SameLabel

LEMMA QuietType == NoDraft \in Draft /\ Quiet \in [critical : Nat, medium : Nat]
  BY DEF NoDraft, Draft, Labels, Quiet

LEMMA TierValues == LOG_ONLY \in Tiers /\ PAUSE \in Tiers /\ ISOLATE \in Tiers
  BY DEF Tiers, LOG_ONLY, PAUSE, ISOLATE

LEMMA TypedInit == Init => Typed
  <1> SUFFICES ASSUME Init PROVE Typed
    OBVIOUS
  <1>1. Grounded(NoDraft) \in Decisions
    BY QuietType, GroundedType
  <1>2. stage = "analyze" /\ decision \in Decisions
    BY <1>1 DEF Init
  <1>3. /\ draft \in Draft /\ violations \in [critical : Nat, medium : Nat]
        /\ maxTier \in Tiers /\ tier \in Tiers
    BY QuietType, TierValues DEF Init
  <1>4. graph \in 0..100 /\ pcabp \in 0..100 /\ extra \in 0..15
    BY DEF Init
  <1>5. egte \in GateModes
    BY DEF Init, GateModes
  <1>6. static \in BOOLEAN
    BY DEF Init
  <1> QED
    BY <1>2, <1>3, <1>4, <1>5, <1>6 DEF Typed, TypeOK, SameLabel, Decisions, Stages, GateModes

LEMMA TypedStep == Typed /\ [Next]_vars => Typed'
  <1> SUFFICES ASSUME Typed, [Next]_vars PROVE Typed'
    OBVIOUS
  <1> USE DEF Typed, TypeOK, SameLabel
  <1>1. CASE Analyze
    <2>1. /\ graph' \in 0..100 /\ draft' \in Draft
      BY <1>1, GraphScoreType, DraftOfType DEF Analyze
    <2>2. static' \in BOOLEAN /\ pcabp' \in 0..100
      BY <1>1, PcabpScoreType DEF Analyze
    <2> QED
      BY <1>1, <2>1, <2>2 DEF Analyze, Step, Stages
  <1>2. CASE Ground
    <2>1. decision' \in Decisions /\ decision'.label = draft.label
      BY <1>2, GroundedType DEF Ground
    <2> QED
      BY <1>2, <2>1 DEF Ground, Step, Stages, Decisions
  <1>3. ASSUME NEW v \in Violations, Guard(v) PROVE Typed'
    <2>1. decision \in Decisions /\ v \in [critical : Nat, medium : Nat]
      BY FusionAssumption DEF Decisions
    <2>2. decision' \in Decisions /\ decision'.label = decision.label
      BY <1>3, <2>1, BoostedType DEF Guard
    <2> QED
      BY <1>3, <2>1, <2>2 DEF Guard, Step, Stages, Decisions
  <1>4. ASSUME NEW x \in Extras, Gate(x) PROVE Typed'
    <2>1. decision \in Decisions /\ egte \in GateModes /\ decision.label = draft.label
      BY <1>4 DEF Decisions, GateModes, Gate, Step
    <2>2. maxTier' \in Tiers
      BY <1>4, <2>1, EgteTierType DEF Gate
    <2>3. x \in 0..15
      BY FusionAssumption
    <2> QED
      BY <1>4, <2>2, <2>3 DEF Gate, Step, Stages
  <1>5. CASE Fuse
    <2>1. decision' \in Decisions
      BY <1>5, FusedType DEF Fuse, Decisions
    <2> QED
      BY <1>5, <2>1 DEF Fuse, Step, Stages, Decisions
  <1>6. CASE Enforce
    <2>1. CwaeTier(decision) \in Tiers
      BY CwaeTierType DEF Decisions
    <2>2. tier' \in Tiers
      BY <1>6, <2>1 DEF Enforce, Enforced, Lo
    <2> QED
      BY <1>6, <2>2 DEF Enforce, Step, Stages
  <1>7. CASE Archive
    <2>1. Grounded(NoDraft) \in Decisions
      BY QuietType, GroundedType
    <2>2. stage' = "analyze" /\ decision' \in Decisions
      BY <1>7, <2>1 DEF Archive, Step
    <2>3. /\ draft' \in Draft /\ violations' \in [critical : Nat, medium : Nat]
          /\ maxTier' \in Tiers /\ tier' \in Tiers
      BY <1>7, QuietType, TierValues DEF Archive
    <2>4. graph' \in 0..100 /\ pcabp' \in 0..100 /\ extra' \in 0..15
      BY <1>7 DEF Archive
    <2>5. static' \in BOOLEAN
      BY <1>7 DEF Archive
    <2>6. egte' \in {"off", "unfitted", "fitted"}
      BY <1>7 DEF Archive
    <2> QED
      BY <2>2, <2>3, <2>4, <2>5, <2>6 DEF Stages, Decisions
  <1>8. CASE UNCHANGED vars
    BY <1>8 DEF vars
  <1> QED
    BY <1>1, <1>2, <1>3, <1>4, <1>5, <1>6, <1>7, <1>8 DEF Next

\* Every step of the verdict keeps the types, for all drafts and thresholds.
THEOREM TypeCorrect == Spec => []TypeOK
  <1>1. Typed => TypeOK
    BY DEF Typed
  <1> QED
    BY TypedInit, TypedStep, <1>1, PTL DEF Spec

-----------------------------------------------------------------------------
(* What each stage has established.                                         *)

\* From the gate on: what maxTier owes to the evidence and to the axioms.
Gated ==
  stage \in {"fuse", "enforce", "done"} =>
    /\ egte = "off" => maxTier = ISOLATE
    /\ egte # "off" /\ draft.label # "OTHER" /\ maxTier >= KILL =>
         /\ egte = "fitted" /\ draft.label = "MALICIOUS"
         /\ draft.verified > 0 /\ HalRate(draft) <= EgteMaxHal
    /\ violations.critical > 0 /\ HalRate(draft) <= EgteMaxHal => maxTier >= PAUSE

\* From the fusion on: what the fused decision owes to CoVe and to the axioms.
FusedInv ==
  stage \in {"enforce", "done"} =>
    /\ Labelled(decision)
    /\ Hallucinated(draft) => decision.conf <= 29
    /\ ~Hallucinated(draft) /\ violations.critical > 0 => decision.conf >= 95

Decided == stage = "done" => tier = Enforced(decision, maxTier)

VerdictInv == Typed /\ Gated /\ FusedInv /\ Decided

LEMMA VerdictInit == Init => VerdictInv
  BY TypedInit DEF Init, VerdictInv, Gated, FusedInv, Decided

LEMMA VerdictStep == VerdictInv /\ [Next]_vars => VerdictInv'
  <1> SUFFICES ASSUME VerdictInv, [Next]_vars PROVE VerdictInv'
    OBVIOUS
  <1>1. Typed /\ Typed'
    BY TypedStep DEF VerdictInv
  <1>2. ASSUME stage' \in {"analyze", "cove", "ltl", "egte"} PROVE VerdictInv'
    BY <1>1, <1>2 DEF VerdictInv, Gated, FusedInv, Decided
  <1>3. CASE Analyze \/ Ground \/ (\E v \in Violations : Guard(v)) \/ Archive
    BY <1>2, <1>3 DEF Analyze, Ground, Guard, Archive, Step
  <1>4. ASSUME NEW x \in Extras, Gate(x) PROVE VerdictInv'
    <2>1. /\ decision \in Decisions /\ decision.label = draft.label
          /\ draft \in Draft /\ violations \in [critical : Nat, medium : Nat]
          /\ egte \in GateModes
      BY <1>1, <1>4 DEF Typed, TypeOK, SameLabel, Decisions, Gate, Step, GateModes
    <2>2. CASE egte = "off"
      <3>1. maxTier' = ISOLATE
        BY <1>4, <2>2, EgteTierOff DEF Gate
      <3> QED
        BY <1>1, <1>4, <2>2, <3>1
           DEF VerdictInv, Gated, FusedInv, Decided, Gate, Step, ISOLATE, PAUSE
    <2>3. CASE egte # "off"
      <3>1. egte \in {"unfitted", "fitted"}
        BY <2>1, <2>3 DEF GateModes
      <3>2. /\ maxTier' >= KILL /\ draft.label # "OTHER" =>
                /\ egte = "fitted" /\ draft.label = "MALICIOUS"
                /\ draft.verified > 0 /\ HalRate(draft) <= EgteMaxHal
            /\ violations.critical > 0 /\ HalRate(draft) <= EgteMaxHal =>
                maxTier' >= PAUSE
        BY <1>4, <2>1, <3>1, EgteTierGates DEF Gate
      <3>3. Gated'
        BY <1>4, <2>3, <3>2 DEF Gated, Gate, HalRate
      <3> QED
        BY <1>1, <1>4, <3>3 DEF VerdictInv, FusedInv, Decided, Gate, Step
    <2> QED
      BY <2>2, <2>3
  <1>5. CASE Fuse
    <2>1. /\ decision \in Decisions /\ draft \in Draft
          /\ violations \in [critical : Nat, medium : Nat]
          /\ graph \in 0..100 /\ pcabp \in 0..100
      BY <1>1 DEF Typed, TypeOK, Decisions
    <2>2. FusedInv'
      <3> DEFINE f == Fused(decision, draft, violations, graph, pcabp)
      <3>1. /\ Labelled(f)
            /\ Hallucinated(draft) => f.conf <= 29
            /\ ~Hallucinated(draft) /\ violations.critical > 0 => f.conf >= 95
        BY <2>1, FusedType
      <3>2. draft' = draft /\ violations' = violations
        BY <1>5 DEF Fuse
      <3>3. Hallucinated(draft)' <=> Hallucinated(draft)
        BY <3>2
      <3>4. decision' = f
        BY <1>5 DEF Fuse
      <3>5. Labelled(decision)'
        BY <3>1, <3>4 DEF Labelled
      <3> HIDE DEF f
      <3> QED
        BY <3>1, <3>2, <3>3, <3>4, <3>5 DEF FusedInv
    <2>3. Gated'
      BY <1>5 DEF VerdictInv, Gated, Fuse, Step, HalRate
    <2> QED
      BY <1>1, <1>5, <2>2, <2>3 DEF VerdictInv, Decided, Fuse, Step
  <1>6. CASE Enforce
    BY <1>1, <1>6 DEF VerdictInv, Gated, FusedInv, Decided, Enforce, Step,
                      Hallucinated, HalRate, Enforced, CwaeTier
  <1>7. CASE UNCHANGED vars
    BY <1>1, <1>7 DEF VerdictInv, Gated, FusedInv, Decided, vars,
                      Hallucinated, HalRate, Enforced, CwaeTier
  <1> QED
    BY <1>3, <1>4, <1>5, <1>6, <1>7 DEF Next

LEMMA Verdicts == Spec => []VerdictInv
  BY VerdictInit, VerdictStep, PTL DEF Spec

\* CWAE's table, read backwards.
LEMMA TierOfConf ==
  ASSUME NEW dec \in Decisions,
         Labelled(dec)
  PROVE  /\ dec.conf < 50 => CwaeTier(dec) = LOG_ONLY
         /\ dec.conf >= 50 => CwaeTier(dec) >= KILL
         /\ dec.conf >= 95 => CwaeTier(dec) = ISOLATE
  BY DEF Labelled, CwaeTier, Decisions, LOG_ONLY, PAUSE, KILL, QUARANTINE, ISOLATE

LEMMA DoneTier ==
  ASSUME VerdictInv, Done
  PROVE  /\ tier = Lo(CwaeTier(decision), maxTier)
         /\ CwaeTier(decision) \in Tiers /\ maxTier \in Tiers
         /\ decision \in Decisions
         /\ Labelled(decision)
  BY CwaeTierType DEF VerdictInv, Typed, TypeOK, Done, Decided, Enforced,
                      FusedInv, Decisions

-----------------------------------------------------------------------------
(* The theorems.                                                            *)

\* A hallucinated MALICIOUS draft is only logged, whatever boosts, floors and
\* other axes follow the downgrade.
THEOREM NoActionOnHallucination == Spec => []HallucinationNeverActs
  <1>1. VerdictInv => HallucinationNeverActs
    <2> SUFFICES ASSUME VerdictInv, Done, Hallucinated(draft)
                 PROVE  tier = LOG_ONLY
      BY DEF HallucinationNeverActs
    <2>1. decision.conf <= 29
      BY DEF VerdictInv, FusedInv, Done
    <2>2. CwaeTier(decision) = LOG_ONLY
      BY <2>1, DoneTier, TierOfConf DEF Decisions
    <2> QED
      BY <2>2, DoneTier DEF Lo, Tiers, LOG_ONLY, ISOLATE
  <1> QED
    BY Verdicts, <1>1, PTL

\* With EGTE, a destructive tier rests on a verified event of a MALICIOUS draft
\* and on a fitted calibrator, although EGTE never saw the fused confidence.
THEOREM Grounding == Spec => []DestructionGrounded
  <1>1. VerdictInv => DestructionGrounded
    <2> SUFFICES ASSUME VerdictInv, Done, egte # "off", draft.label # "OTHER",
                        tier >= KILL
                 PROVE  /\ egte = "fitted" /\ draft.label = "MALICIOUS"
                        /\ draft.verified > 0 /\ HalRate(draft) <= EgteMaxHal
      BY DEF DestructionGrounded
    <2>1. maxTier >= KILL
      BY DoneTier DEF Lo, Tiers, LOG_ONLY, ISOLATE, KILL
    <2> QED
      BY <2>1 DEF VerdictInv, Gated, Done
  <1> QED
    BY Verdicts, <1>1, PTL

\* A CRITICAL axiom violation stops the process at least, through every cap,
\* unless the claims are hallucinated.
THEOREM CriticalFloor == Spec => []CriticalActs
  <1>1. VerdictInv => CriticalActs
    <2> SUFFICES ASSUME VerdictInv, Done, violations.critical > 0,
                        HalRate(draft) <= Lo(MaxHal, EgteMaxHal)
                 PROVE  tier >= PAUSE
      BY DEF CriticalActs
    <2>1. HalRate(draft) <= MaxHal /\ HalRate(draft) <= EgteMaxHal
      <3>1. HalRate(draft) \in Int
        BY HalRateType DEF VerdictInv, Typed, TypeOK
      <3> QED
        BY <3>1, FusionAssumption DEF Lo
    <2>2. ~Hallucinated(draft)
      <3>1. HalRate(draft) \in Int
        BY HalRateType DEF VerdictInv, Typed, TypeOK
      <3> QED
        BY <2>1, <3>1, FusionAssumption DEF Hallucinated
    <2>3. decision.conf >= 95 /\ maxTier >= PAUSE
      BY <2>1, <2>2 DEF VerdictInv, FusedInv, Gated, Done
    <2>4. CwaeTier(decision) = ISOLATE
      BY <2>3, DoneTier, TierOfConf
    <2> QED
      BY <2>3, <2>4, DoneTier DEF Lo, Tiers, LOG_ONLY, ISOLATE, PAUSE
  <1> QED
    BY Verdicts, <1>1, PTL

\* SIGSTOP is only ever EGTE's doing: fusion leaves no confidence that CWAE's
\* table maps to PAUSE.
THEOREM PauseIsACap == Spec => []PauseOnlyByGate
  <1>1. VerdictInv => PauseOnlyByGate
    <2> SUFFICES ASSUME VerdictInv, Done, tier = PAUSE
                 PROVE  maxTier = PAUSE /\ CwaeTier(decision) >= KILL
      BY DEF PauseOnlyByGate
    <2>1. decision.conf >= 50
      BY DoneTier, TierOfConf DEF Lo, Tiers, LOG_ONLY, ISOLATE, PAUSE, Decisions
    <2>2. CwaeTier(decision) >= KILL
      BY <2>1, DoneTier, TierOfConf
    <2> QED
      BY <2>2, DoneTier DEF Lo, Tiers, LOG_ONLY, ISOLATE, PAUSE, KILL
  <1> QED
    BY Verdicts, <1>1, PTL

-----------------------------------------------------------------------------
(* Monotonicity.  A finished result's tier is the outcome of its own draft,  *)
(* violations and PCABP score; the outcome is built from operators each of   *)
(* which is monotone, or constant, in what the alarms and the evidence       *)
(* change.                                                                   *)

Ungated == Boosted(Grounded(draft), violations)

\* Each stage computed what the outcome is made of.
Computed ==
  /\ stage = "ltl" => decision = Grounded(draft)
  /\ stage \in {"egte", "fuse"} => decision = Ungated
  /\ stage \in {"fuse", "enforce", "done"} =>
       maxTier = EgteTier(egte, Ungated, draft, violations, extra)
  /\ stage \in {"enforce", "done"} =>
       decision = Fused(Ungated, draft, violations, graph, pcabp)
  /\ stage = "done" => tier = Enforced(decision, maxTier)

LEMMA ComputedStep == Computed /\ [Next]_vars => Computed'
  <1> SUFFICES ASSUME Computed, [Next]_vars PROVE Computed'
    OBVIOUS
  <1>1. CASE Analyze
    BY <1>1 DEF Analyze, Step, Computed
  <1>2. CASE Ground
    BY <1>2 DEF Ground, Step, Computed
  <1>3. ASSUME NEW v \in Violations, Guard(v) PROVE Computed'
    BY <1>3 DEF Guard, Step, Computed, Ungated
  <1>4. ASSUME NEW x \in Extras, Gate(x) PROVE Computed'
    BY <1>4 DEF Gate, Step, Computed, Ungated
  <1>5. CASE Fuse
    BY <1>5 DEF Fuse, Step, Computed, Ungated
  <1>6. CASE Enforce
    BY <1>6 DEF Enforce, Step, Computed, Ungated
  <1>7. CASE Archive
    BY <1>7 DEF Archive, Step, Computed
  <1>8. CASE UNCHANGED vars
    BY <1>8 DEF vars, Computed, Ungated
  <1> QED
    BY <1>1, <1>2, <1>3, <1>4, <1>5, <1>6, <1>7, <1>8 DEF Next

LEMMA Computations == Spec => [](Typed /\ Computed)
  <1>1. Init => Computed
    BY DEF Init, Computed
  <1> QED
    BY TypedInit, TypedStep, <1>1, ComputedStep, PTL DEF Spec

LEMMA TimesMonotone ==
  ASSUME NEW a \in Int, NEW b \in Int, a <= b, NEW c \in Nat
  PROVE  c * a <= c * b
  <1>1. c * (b - a) >= 0
    BY SMT
  <1>2. c * (b - a) = c * b - c * a
    BY SMT
  <1> QED
    BY <1>1, <1>2, SMT

LEMMA DivBounds ==
  ASSUME NEW a \in Int, NEW n \in Nat \ {0}
  PROVE  /\ a \div n \in Int
         /\ n * (a \div n) <= a /\ a < n * (a \div n) + n
  BY SMT

LEMMA DivMonotone ==
  ASSUME NEW a \in Int, NEW b \in Int, a <= b, NEW n \in Nat \ {0}
  PROVE  a \div n <= b \div n
  <1> DEFINE q == a \div n
             r == b \div n
  <1>1. q \in Int /\ r \in Int /\ n * q <= a /\ b < n * r + n
    BY DivBounds
  <1> HIDE DEF q, r
  <1>2. ASSUME ~(q <= r) PROVE FALSE
    <2>1. n * (r + 1) <= n * q
      BY <1>1, <1>2, TimesMonotone
    <2>2. n * (r + 1) = n * r + n
      BY <1>1
    <2>3. n * r \in Int /\ n * q \in Int
      BY <1>1
    <2> QED
      BY <1>1, <2>1, <2>2, <2>3
  <1>3. q <= r
    BY <1>2
  <1> QED
    BY <1>3 DEF q, r

\* A hallucination rate is a percentage.
LEMMA HalRateRange == ASSUME NEW d \in Draft PROVE HalRate(d) \in 0..100
  <1> DEFINE n == d.verified + d.unverified
             q == (100 * d.unverified) \div n
  <1>1. d.verified \in Nat /\ d.unverified \in Nat
    BY DEF Draft
  <1>2. CASE n = 0
    BY <1>2 DEF HalRate
  <1>3. CASE n # 0
    <2>1. n \in Nat \ {0} /\ d.unverified <= n
      BY <1>1, <1>3
    <2>2. HalRate(d) = q
      BY <1>3 DEF HalRate
    <2> HIDE DEF n
    <2>3. q \in Int /\ n * q <= 100 * d.unverified /\ 100 * d.unverified < n * q + n
      <3>1. 100 * d.unverified \in Int
        BY <1>1
      <3> QED
        BY <2>1, <3>1, DivBounds
    <2> HIDE DEF q
    <2>4. n * q <= n * 100 /\ n * 0 < n * (q + 1)
      BY <1>1, <2>1, <2>3
    <2>5. ASSUME q > 100 PROVE FALSE
      BY <2>1, <2>3, <2>4, <2>5, TimesMonotone
    <2>6. ASSUME q < 0 PROVE FALSE
      <3>1. q + 1 \in Int /\ q + 1 <= 0
        BY <2>3, <2>6
      <3>2. n * (q + 1) <= n * 0
        BY <2>1, <3>1, TimesMonotone
      <3> QED
        BY <2>1, <2>3, <2>4, <3>1, <3>2
    <2> QED
      BY <2>2, <2>3, <2>5, <2>6
  <1> QED
    BY <1>2, <1>3

\* A decision that is no weaker: the same label, at least the confidence.  The
\* classifier's confidence is unchecked, and a boost cuts it to 1.00: above that
\* it does not count.
Stronger(a, b) == a.label = b.label /\ Lo(100, a.conf) >= Lo(100, b.conf)

LEMMA LoHiMonotone ==
  ASSUME NEW a \in Int, NEW b \in Int, NEW c \in Int, NEW d \in Int, a <= c, b <= d
  PROVE  Lo(a, b) <= Lo(c, d) /\ Hi(a, b) <= Hi(c, d)
  BY DEF Lo, Hi

\* the same below 1.00
LEMMA TruncatedHi ==
  ASSUME NEW a \in Nat, NEW b \in Nat, NEW c \in Nat, NEW d \in Nat,
         Lo(100, a) >= Lo(100, c), Lo(100, b) >= Lo(100, d)
  PROVE  /\ Hi(a, b) \in Nat /\ Hi(c, d) \in Nat
         /\ Lo(100, Hi(a, b)) >= Lo(100, Hi(c, d))
  BY DEF Lo, Hi

LEMMA CwaeTierMonotone ==
  ASSUME NEW a \in Decisions, NEW b \in Decisions, Stronger(a, b)
  PROVE  CwaeTier(a) >= CwaeTier(b)
  BY DEF Stronger, Lo, Decisions, CwaeTier, LOG_ONLY, PAUSE, KILL, QUARANTINE, ISOLATE

LEMMA VerdictMonotone ==
  ASSUME NEW a \in Nat, NEW b \in Nat, Lo(100, a) <= Lo(100, b)
  PROVE  CwaeTier(Verdict(a)) <= CwaeTier(Verdict(b))
  <1>1. ASSUME NEW c \in Nat
        PROVE  CwaeTier(Verdict(c)) = IF c < 50 THEN LOG_ONLY
                                      ELSE IF c <= 69 THEN KILL
                                      ELSE IF c <= 84 THEN QUARANTINE ELSE ISOLATE
    BY DEF Verdict, CwaeTier
  <1> QED
    BY <1>1 DEF Lo, LOG_ONLY, KILL, QUARANTINE, ISOLATE

Findings == [critical : Nat, medium : Nat]

More(w, v) == w.critical >= v.critical /\ w.medium >= v.medium

\* The number of violations adds at most 20 points, and never takes one away.
LEMMA BoostedMonotone ==
  ASSUME NEW a \in Decisions, NEW b \in Decisions, Stronger(a, b),
         NEW w \in Findings, NEW v \in Findings, More(w, v)
  PROVE  /\ Boosted(a, w) \in Decisions /\ Boosted(b, v) \in Decisions
         /\ Stronger(Boosted(a, w), Boosted(b, v))
         /\ Boosted(a, w).label = a.label /\ Boosted(b, v).label = b.label
         /\ a.label # "MALICIOUS" => Boosted(a, w) = a /\ Boosted(b, v) = b
         /\ a.conf <= 100 => Boosted(a, w).conf <= 100
         /\ b.conf <= 100 => Boosted(b, v).conf <= 100
  <1> DEFINE m == w.critical + w.medium
             n == v.critical + v.medium
  <1>1. m \in Nat /\ n \in Nat /\ m >= n /\ a.conf \in Nat /\ b.conf \in Nat
    BY DEF Findings, More, Decisions
  <1>2. a.label = b.label /\ Lo(100, a.conf) >= Lo(100, b.conf)
    BY DEF Stronger
  <1> HIDE DEF m, n
  <1>3. CASE a.label # "MALICIOUS"
    <2>1. Boosted(a, w) = a /\ Boosted(b, v) = b
      BY <1>2, <1>3 DEF Boosted
    <2> QED
      BY <1>3, <2>1
  <1>4. CASE a.label = "MALICIOUS"
    <2> DEFINE A == IF m > 0 THEN Lo(100, a.conf + Lo(20, 10 * m)) ELSE a.conf
               B == IF n > 0 THEN Lo(100, b.conf + Lo(20, 10 * n)) ELSE b.conf
    <2>1. /\ Boosted(a, w) = [a EXCEPT !.conf = A]
          /\ Boosted(b, v) = [b EXCEPT !.conf = B]
      BY <1>2, <1>4 DEF Boosted, m, n, Decisions
    <2>2. /\ A \in Nat /\ B \in Nat /\ Lo(100, A) >= Lo(100, B)
          /\ a.conf <= 100 => A <= 100
          /\ b.conf <= 100 => B <= 100
      BY <1>1, <1>2 DEF Lo
    <2> HIDE DEF A, B
    <2>3. /\ Boosted(a, w).conf = A /\ Boosted(b, v).conf = B
          /\ Boosted(a, w).label = a.label /\ Boosted(b, v).label = b.label
          /\ Boosted(a, w) \in Decisions /\ Boosted(b, v) \in Decisions
      BY <2>1, <2>2 DEF Decisions
    <2> QED
      BY <1>2, <1>4, <2>2, <2>3 DEF Stronger
  <1> QED
    BY <1>3, <1>4

\* Another axis, or a higher one, never lowers the fused verdict.
LEMMA FusedMonotone ==
  ASSUME NEW a \in Decisions, NEW b \in Decisions, Stronger(a, b),
         NEW w \in Findings, NEW v \in Findings, More(w, v),
         NEW d, NEW e, ~Hallucinated(d), ~Hallucinated(e),
         NEW g \in 0..100, NEW p \in 0..100, NEW r \in 0..100, p >= r
  PROVE  CwaeTier(Fused(a, d, w, g, p)) >= CwaeTier(Fused(b, e, v, g, r))
  <1>1. Severity(w) \in 0..95 /\ Severity(v) \in 0..95 /\ Severity(w) >= Severity(v)
    BY DEF Severity, Findings, More
  <1>2. a.label = b.label /\ Lo(100, a.conf) >= Lo(100, b.conf)
        /\ a.conf \in Nat /\ b.conf \in Nat
    BY DEF Stronger, Decisions
  <1>3. /\ Axes(a, w, g, p) \in Nat /\ Axes(b, v, g, r) \in Nat
        /\ Lo(100, Axes(a, w, g, p)) >= Lo(100, Axes(b, v, g, r))
    <2> DEFINE A == IF a.label = "MALICIOUS" THEN a.conf ELSE 0
               B == IF b.label = "MALICIOUS" THEN b.conf ELSE 0
               S == IF Severity(w) >= 70 THEN Severity(w) ELSE 0
               T == IF Severity(v) >= 70 THEN Severity(v) ELSE 0
    <2>1. A \in Nat /\ B \in Nat /\ Lo(100, A) >= Lo(100, B)
      BY <1>2 DEF Lo
    <2>2. S \in 0..95 /\ T \in 0..95 /\ S >= T
      BY <1>1
    <2>3. Axes(a, w, g, p) = Hi(Hi(g, p), Hi(S, A)) /\ Axes(b, v, g, r) = Hi(Hi(g, r), Hi(T, B))
      BY DEF Axes
    <2> HIDE DEF A, B, S, T
    <2>4. /\ Hi(g, p) \in Nat /\ Hi(g, r) \in Nat
          /\ Lo(100, Hi(g, p)) >= Lo(100, Hi(g, r))
      BY DEF Lo, Hi
    <2>5. /\ Hi(S, A) \in Nat /\ Hi(T, B) \in Nat
          /\ Lo(100, Hi(S, A)) >= Lo(100, Hi(T, B))
      <3>1. S \in Nat /\ T \in Nat /\ Lo(100, S) >= Lo(100, T)
        BY <2>2 DEF Lo
      <3> QED
        BY <2>1, <3>1, TruncatedHi
    <2> QED
      BY <2>3, <2>4, <2>5, TruncatedHi
  <1>4. /\ Fused(a, d, w, g, p) = Verdict(Axes(a, w, g, p))
        /\ Fused(b, e, v, g, r) = Verdict(Axes(b, v, g, r))
    BY DEF Fused
  <1>5. CwaeTier(Verdict(Axes(b, v, g, r))) <= CwaeTier(Verdict(Axes(a, w, g, p)))
    BY <1>3, VerdictMonotone
  <1>6. /\ CwaeTier(Verdict(Axes(b, v, g, r))) \in Int
        /\ CwaeTier(Verdict(Axes(a, w, g, p))) \in Int
    BY DEF CwaeTier, LOG_ONLY, PAUSE, KILL, QUARANTINE, ISOLATE
  <1> QED
    BY <1>4, <1>5, <1>6

\* The gate: CWAE's tier under the evidence cap and the calibration cap, raised
\* to the LTL floor, under the evidence cap again.
GateOf(cw, co, ca, fl) == Lo(Hi(Lo(cw, Lo(co, ca)), fl), co)

LEMMA GateMonotone ==
  ASSUME NEW cw \in Tiers, NEW co \in Tiers, NEW ca \in Tiers, NEW fl \in Tiers,
         NEW cx \in Tiers, NEW cp \in Tiers, NEW cb \in Tiers, NEW fm \in Tiers,
         cw >= cx, co >= cp, ca >= cb, fl >= fm
  PROVE  GateOf(cw, co, ca, fl) >= GateOf(cx, cp, cb, fm)
  BY DEF GateOf, Lo, Hi, Tiers, LOG_ONLY, ISOLATE

LEMMA GateTypes ==
  ASSUME NEW mode \in {"unfitted", "fitted"}, NEW dec, NEW d, NEW v, NEW n
  PROVE  /\ CoveCap(dec, d) \in Tiers /\ LtlFloor(d, v) \in Tiers
         /\ CalibrationCap(mode, n) \in Tiers
  BY DEF CoveCap, LtlFloor, CalibrationCap, Tiers, LOG_ONLY, PAUSE, ISOLATE

\* A better draft: as MALICIOUS, and no more of its claims unverified.
Better(d, e) ==
  /\ d.label = e.label /\ HalRate(d) <= HalRate(e)
  /\ e.verified > 0 => d.verified > 0

LEMMA CapsMonotone ==
  ASSUME NEW d \in Draft, NEW e \in Draft, Better(d, e),
         NEW a \in Decisions, NEW b \in Decisions, a.label = d.label, b.label = e.label,
         NEW w \in Findings, NEW v \in Findings, More(w, v)
  PROVE  CoveCap(a, d) >= CoveCap(b, e) /\ LtlFloor(d, w) >= LtlFloor(e, v)
  <1>1. /\ HalRate(d) \in Int /\ HalRate(e) \in Int /\ HalRate(d) <= HalRate(e)
        /\ EgteMaxHal \in Int /\ d.verified \in Nat /\ e.verified \in Nat
        /\ e.verified > 0 => d.verified > 0
    BY HalRateType, FusionAssumption DEF Better, Draft
  <1>2. a.label = b.label
    BY DEF Better
  <1>3. CoveCap(a, d) >= CoveCap(b, e)
    BY <1>1, <1>2 DEF CoveCap, LOG_ONLY, PAUSE, ISOLATE
  <1>4. LtlFloor(d, w) >= LtlFloor(e, v)
    BY <1>1 DEF LtlFloor, LOG_ONLY, PAUSE, More, Findings
  <1> QED
    BY <1>3, <1>4

\* The escalation score of a MALICIOUS decision grows with its confidence, its
\* evidence and the violations, as long as the confidences are probabilities.
LEMMA ScoreMonotone ==
  ASSUME NEW d \in Draft, NEW e \in Draft, HalRate(d) <= HalRate(e),
         NEW a \in Decisions, NEW b \in Decisions, a.conf >= b.conf,
         a.label = "MALICIOUS", b.label = "MALICIOUS",
         NEW w \in Findings, NEW v \in Findings, More(w, v), NEW x \in Int
  PROVE  EscalationScore(a, d, w, x) >= EscalationScore(b, e, v, x)
  <1> DEFINE h == 100 - HalRate(d)
             k == 100 - HalRate(e)
             A == 4000 * a.conf + 25 * a.conf * h + 2000 * Lo(25 * w.critical, 100) + 10000 * x
             B == 4000 * b.conf + 25 * b.conf * k + 2000 * Lo(25 * v.critical, 100) + 10000 * x
  <1>1. h \in Nat /\ k \in Nat /\ h >= k
    BY HalRateRange
  <1>2. a.conf \in Nat /\ b.conf \in Nat
    BY DEF Decisions
  <1>3. /\ EscalationScore(a, d, w, x) = Lo(Hi(A, 0), 1000000)
        /\ EscalationScore(b, e, v, x) = Lo(Hi(B, 0), 1000000)
    BY DEF EscalationScore
  <1> HIDE DEF h, k
  <1>4. /\ Lo(25 * w.critical, 100) \in Nat /\ Lo(25 * v.critical, 100) \in Nat
        /\ Lo(25 * w.critical, 100) >= Lo(25 * v.critical, 100)
    BY DEF Lo, Findings, More
  <1>5. 25 * a.conf * h >= 25 * b.conf * k
    <2>1. 25 * b.conf \in Nat /\ 25 * a.conf \in Nat /\ 25 * b.conf <= 25 * a.conf
      BY <1>2
    <2> DEFINE P == 25 * a.conf
               Q == 25 * b.conf
    <2> HIDE DEF P, Q
    <2>2. P \in Nat /\ Q \in Nat /\ Q <= P
      BY <2>1 DEF P, Q
    <2>3. Q * k <= Q * h
      BY <1>1, <2>2, TimesMonotone
    <2>4. h * Q <= h * P
      BY <1>1, <2>2, TimesMonotone
    <2>5. P * h >= Q * k
      BY <1>1, <2>2, <2>3, <2>4
    <2> QED
      BY <2>5 DEF P, Q
  <1>6. A \in Int /\ B \in Int /\ A >= B
    BY <1>1, <1>2, <1>4, <1>5
  <1> HIDE DEF A, B
  <1>7. Lo(Hi(A, 0), 1000000) >= Lo(Hi(B, 0), 1000000)
    BY <1>6 DEF Lo, Hi
  <1> QED
    BY <1>3, <1>7

LEMMA ScoreType ==
  ASSUME NEW d \in Draft, NEW a \in Decisions, NEW v \in Findings, NEW x \in Int
  PROVE  EscalationScore(a, d, v, x) \in Int
  <1> DEFINE signed == IF a.label = "MALICIOUS" THEN a.conf ELSE 100 - a.conf
             raw == 4000 * signed + 25 * signed * (100 - HalRate(d))
                    + 2000 * Lo(25 * v.critical, 100) + 10000 * x
  <1>1. signed \in Int /\ HalRate(d) \in Int
    BY HalRateType DEF Decisions
  <1>2. Lo(25 * v.critical, 100) \in Int
    BY DEF Findings, Lo
  <1>3. EscalationScore(a, d, v, x) = Lo(Hi(raw, 0), 1000000)
    BY DEF EscalationScore
  <1> HIDE DEF signed
  <1>4. raw \in Int
    BY <1>1, <1>2
  <1> HIDE DEF raw
  <1> QED
    BY <1>3, <1>4 DEF Lo, Hi

\* The same decision on the same draft: more violations, a higher score.
LEMMA ScoreOfViolations ==
  ASSUME NEW d \in Draft, NEW a \in Decisions,
         NEW w \in Findings, NEW v \in Findings, More(w, v), NEW x \in Int
  PROVE  EscalationScore(a, d, w, x) >= EscalationScore(a, d, v, x)
  <1> DEFINE signed == IF a.label = "MALICIOUS" THEN a.conf ELSE 100 - a.conf
             base == 4000 * signed + 25 * signed * (100 - HalRate(d))
             W == Lo(25 * w.critical, 100)
             V == Lo(25 * v.critical, 100)
  <1>1. signed \in Int /\ HalRate(d) \in Int
    BY HalRateType DEF Decisions
  <1>2. W \in Int /\ V \in Int /\ W >= V
    BY DEF Findings, Lo, More
  <1>3. /\ EscalationScore(a, d, w, x) = Lo(Hi(base + 2000 * W + 10000 * x, 0), 1000000)
        /\ EscalationScore(a, d, v, x) = Lo(Hi(base + 2000 * V + 10000 * x, 0), 1000000)
    BY DEF EscalationScore
  <1> HIDE DEF signed, W, V
  <1>4. base \in Int
    BY <1>1
  <1> HIDE DEF base
  <1> QED
    BY <1>2, <1>3, <1>4 DEF Lo, Hi

LEMMA CalibrationCapMonotone ==
  ASSUME NEW mode \in {"unfitted", "fitted"}, NEW m \in Int, NEW n \in Int, m >= n
  PROVE  /\ CalibrationCap(mode, m) >= CalibrationCap(mode, n)
         /\ mode = "fitted" =>
              CalibrationCap(mode, m) >= PAUSE /\ CalibrationCap(mode, n) >= PAUSE
         /\ mode = "unfitted" =>
              CalibrationCap(mode, m) = LOG_ONLY /\ CalibrationCap(mode, n) = LOG_ONLY
  BY FusionAssumption DEF CalibrationCap, LOG_ONLY, PAUSE, ISOLATE

\* The gate never turns a better case into a lower tier.  Where the classifier
\* made no claim, its confidence may be above 1.00 and the score may fall; then
\* nothing is verified, and the evidence cap is PAUSE whatever the score.
LEMMA EgteTierMonotone ==
  ASSUME NEW mode \in GateModes, NEW d \in Draft, NEW e \in Draft, Better(d, e),
         NEW a \in Decisions, NEW b \in Decisions, Stronger(a, b),
         a.label = d.label, b.label = e.label,
         a.label = "OTHER" => a = b /\ d = e,
         e.verified > 0 => a.conf <= 100 /\ b.conf <= 100,
         NEW w \in Findings, NEW v \in Findings, More(w, v), NEW x \in Int
  PROVE  EgteTier(mode, a, d, w, x) >= EgteTier(mode, b, e, v, x)
  <1>1. CASE mode = "off"
    BY <1>1, EgteTierOff DEF ISOLATE
  <1>2. CASE mode # "off"
    <2> DEFINE m == EscalationScore(a, d, w, x)   n == EscalationScore(b, e, v, x)
               cw == CwaeTier(a)   cx == CwaeTier(b)
               co == CoveCap(a, d) cp == CoveCap(b, e)
               fl == LtlFloor(d, w) fm == LtlFloor(e, v)
               ca == CalibrationCap(mode, m) cb == CalibrationCap(mode, n)
    <2>1. mode \in {"unfitted", "fitted"}
      BY <1>2 DEF GateModes
    <2>2. m \in Int /\ n \in Int
      BY ScoreType
    <2>3. /\ EgteTier(mode, a, d, w, x) = GateOf(cw, co, ca, fl)
          /\ EgteTier(mode, b, e, v, x) = GateOf(cx, cp, cb, fm)
      BY <1>2 DEF EgteTier, GateOf
    <2>4. cw \in Tiers /\ cx \in Tiers /\ cw >= cx
      BY CwaeTierType, CwaeTierMonotone
    <2>5. /\ co \in Tiers /\ cp \in Tiers /\ ca \in Tiers /\ cb \in Tiers
          /\ fl \in Tiers /\ fm \in Tiers
      BY <2>1, GateTypes
    <2>6. co >= cp /\ fl >= fm
      BY CapsMonotone
    <2>7. a.label = b.label /\ a.label \in Labels
      BY DEF Stronger, Decisions
    <2>8. m >= n => ca >= cb
      BY <2>1, <2>2, CalibrationCapMonotone
    <2>9. CASE a.label = "BENIGN"
      <3>1. cx = LOG_ONLY
        BY <2>7, <2>9 DEF CwaeTier
      <3>2. Lo(cx, Lo(cp, cb)) = Lo(cx, Lo(cp, LOG_ONLY)) /\ LOG_ONLY \in Tiers
        BY <2>5, <3>1 DEF Lo, Tiers, LOG_ONLY, ISOLATE
      <3>3. ca >= LOG_ONLY
        BY <2>5 DEF Tiers
      <3>4. GateOf(cx, cp, cb, fm) = GateOf(cx, cp, LOG_ONLY, fm)
        BY <3>2 DEF GateOf
      <3> HIDE DEF cw, cx, co, cp, ca, cb, fl, fm
      <3>5. GateOf(cw, co, ca, fl) >= GateOf(cx, cp, LOG_ONLY, fm)
        BY <2>4, <2>5, <2>6, <3>2, <3>3, GateMonotone
      <3> QED
        BY <2>3, <3>4, <3>5
    <2>10. CASE a.label = "OTHER"
      <3>1. m >= n
        BY <2>10, ScoreOfViolations
      <3>2. ca >= cb
        BY <2>8, <3>1
      <3> HIDE DEF m, n, cw, cx, co, cp, ca, cb, fl, fm
      <3>3. GateOf(cw, co, ca, fl) >= GateOf(cx, cp, cb, fm)
        BY <2>4, <2>5, <2>6, <3>2, GateMonotone
      <3> QED
        BY <2>3, <3>3
    <2>11. CASE a.label = "MALICIOUS" /\ e.verified > 0
      <3>1. a.conf >= b.conf
        BY <2>11 DEF Stronger, Lo, Decisions
      <3>2. m >= n
        BY <2>7, <2>11, <3>1, ScoreMonotone DEF Better
      <3> HIDE DEF m, n, cw, cx, co, cp, ca, cb, fl, fm
      <3>3. ca >= cb
        BY <2>8, <3>2
      <3>4. GateOf(cw, co, ca, fl) >= GateOf(cx, cp, cb, fm)
        BY <2>4, <2>5, <2>6, <3>3, GateMonotone
      <3> QED
        BY <2>3, <3>4
    <2>12. CASE a.label = "MALICIOUS" /\ ~(e.verified > 0)
      <3>1. cp \in {LOG_ONLY, PAUSE}
        <4>1. e.verified = 0
          BY <2>12 DEF Draft
        <4> QED
          BY <2>7, <2>12, <4>1 DEF CoveCap
      <3>2. CASE mode = "unfitted"
        <4>1. ca >= cb
          BY <2>1, <2>2, <2>5, <3>2, CalibrationCapMonotone DEF CalibrationCap, LOG_ONLY
        <4> HIDE DEF m, n, cw, cx, co, cp, ca, cb, fl, fm
        <4>2. GateOf(cw, co, ca, fl) >= GateOf(cx, cp, cb, fm)
          BY <2>4, <2>5, <2>6, <4>1, GateMonotone
        <4> QED
          BY <2>3, <4>2
      <3>3. CASE mode = "fitted"
        <4>1. ca >= PAUSE /\ cb >= PAUSE
          BY <2>2, <3>3, FusionAssumption DEF CalibrationCap, PAUSE, ISOLATE
        <4> HIDE DEF m, n, cw, cx, co, cp, ca, cb, fl, fm
        <4>2. Lo(cp, cb) = Lo(cp, PAUSE) /\ PAUSE \in Tiers
          BY <2>5, <3>1, <4>1 DEF Lo, Tiers, LOG_ONLY, PAUSE, ISOLATE
        <4>3. GateOf(cx, cp, cb, fm) = GateOf(cx, cp, PAUSE, fm)
          BY <4>2 DEF GateOf
        <4>4. GateOf(cw, co, ca, fl) >= GateOf(cx, cp, PAUSE, fm)
          BY <2>4, <2>5, <2>6, <4>1, <4>2, GateMonotone
        <4> QED
          BY <2>3, <4>3, <4>4
      <3> QED
        BY <2>1, <3>2, <3>3
    <2> QED
      BY <2>7, <2>9, <2>10, <2>11, <2>12 DEF Labels
  <1> QED
    BY <1>1, <1>2

\* The outcome of a better case, unless the worse one is hallucinated and only
\* logged.
LEMMA OutcomeMonotone ==
  ASSUME Typed, NEW d \in Draft, NEW e \in Draft, Better(d, e),
         Stronger(Grounded(d), Grounded(e)),
         d.label = "OTHER" => d = e,
         e.verified > 0 => Grounded(d).conf <= 100 /\ Grounded(e).conf <= 100,
         ~Hallucinated(d), ~Hallucinated(e),
         NEW w \in Findings, NEW v \in Findings, More(w, v),
         NEW p \in 0..100, NEW r \in 0..100, p >= r
  PROVE  Outcome(d, w, p) >= Outcome(e, v, r)
  <1> DEFINE a == Boosted(Grounded(d), w)
             b == Boosted(Grounded(e), v)
             F == CwaeTier(Fused(a, d, w, graph, p))
             G == CwaeTier(Fused(b, e, v, graph, r))
             S == EgteTier(egte, a, d, w, extra)
             T == EgteTier(egte, b, e, v, extra)
  <1>1. /\ Grounded(d) \in Decisions /\ Grounded(e) \in Decisions
        /\ Grounded(d).label = d.label /\ Grounded(e).label = e.label
    BY GroundedType
  <1>2. /\ a \in Decisions /\ b \in Decisions /\ Stronger(a, b)
        /\ a.label = d.label /\ b.label = e.label
        /\ d.label # "MALICIOUS" => a = Grounded(d) /\ b = Grounded(e)
        /\ Grounded(d).conf <= 100 => a.conf <= 100
        /\ Grounded(e).conf <= 100 => b.conf <= 100
    BY <1>1, BoostedMonotone
  <1>3. egte \in GateModes /\ graph \in 0..100 /\ extra \in Int
    BY DEF Typed, TypeOK, GateModes
  <1>4. a.label = "OTHER" => a = b /\ d = e
    BY <1>2
  <1>5. Outcome(d, w, p) = Lo(F, S) /\ Outcome(e, v, r) = Lo(G, T)
    BY DEF Outcome, Enforced
  <1> HIDE DEF a, b
  <1>6. F >= G
    BY <1>2, <1>3, FusedMonotone, ZenonT(30)
  <1>7. S >= T
    BY <1>2, <1>3, <1>4, EgteTierMonotone
  <1>8. S \in Tiers /\ T \in Tiers
    BY <1>2, <1>3, EgteTierType DEF Findings
  <1>9. F \in Tiers /\ G \in Tiers
    BY <1>2, <1>3, FusedType, CwaeTierType, ZenonT(30) DEF Findings
  <1> HIDE DEF F, G, S, T
  <1> QED
    BY <1>5, <1>6, <1>7, <1>8, <1>9, LoHiMonotone DEF Tiers, LOG_ONLY, ISOLATE

LEMMA OutcomeType ==
  ASSUME Typed, NEW d \in Draft, NEW v \in Findings, NEW p \in 0..100
  PROVE  Outcome(d, v, p) \in Tiers
  <1> DEFINE b == Boosted(Grounded(d), v)
  <1>1. Grounded(d) \in Decisions /\ Grounded(d).label = d.label
    BY GroundedType
  <1>2. Stronger(Grounded(d), Grounded(d)) /\ More(v, v)
    BY <1>1 DEF Stronger, More, Decisions, Findings, Lo
  <1>3. b \in Decisions /\ b.label = d.label
    BY <1>1, <1>2, BoostedMonotone
  <1> HIDE DEF b
  <1>4. egte \in GateModes /\ graph \in 0..100
    BY DEF Typed, TypeOK, GateModes
  <1>5. EgteTier(egte, b, d, v, extra) \in Tiers
    BY <1>3, <1>4, EgteTierType DEF Findings
  <1>6. CwaeTier(Fused(b, d, v, graph, p)) \in Tiers
    BY <1>3, <1>4, FusedType, CwaeTierType DEF Findings
  <1>7. Outcome(d, v, p) = Lo(CwaeTier(Fused(b, d, v, graph, p)), EgteTier(egte, b, d, v, extra))
    BY DEF Outcome, Enforced, b
  <1> QED
    BY <1>5, <1>6, <1>7 DEF Lo

\* With a claim, CoVe brings any confidence into 0..100.
LEMMA GroundedRange ==
  ASSUME NEW d \in Draft, d.verified + d.unverified # 0
  PROVE  Grounded(d).conf <= 100
  <1>1. d.conf \in Nat /\ d.doubt \in Int
    BY DEF Draft
  <1>2. Clamp(d.conf - d.doubt) \in 0..100
    BY <1>1 DEF Clamp, Lo, Hi
  <1> QED
    BY <1>1, <1>2 DEF Grounded, Lo

\* The claims of a draft, rewritten.
Reclaim(e, m, n, k) == [e EXCEPT !.verified = m, !.unverified = n, !.doubt = k]

LEMMA Reclaimed ==
  ASSUME NEW e \in Draft, NEW m \in Nat, NEW n \in Nat, NEW k \in Int
  PROVE  /\ Reclaim(e, m, n, k) \in Draft
         /\ Reclaim(e, m, n, k).label = e.label /\ Reclaim(e, m, n, k).conf = e.conf
         /\ Reclaim(e, m, n, k).verified = m /\ Reclaim(e, m, n, k).unverified = n
         /\ Reclaim(e, m, n, k).doubt = k
  <1> DEFINE a == [e EXCEPT !.verified = m]
             b == [a EXCEPT !.unverified = n]
             c == [b EXCEPT !.doubt = k]
  <1>1. Reclaim(e, m, n, k) = c
    BY DEF Reclaim
  <1>2. /\ a \in Draft /\ a.label = e.label /\ a.conf = e.conf /\ a.verified = m
    BY DEF Draft
  <1> HIDE DEF a
  <1>3. /\ b \in Draft /\ b.label = e.label /\ b.conf = e.conf /\ b.verified = m
        /\ b.unverified = n
    BY <1>2 DEF Draft
  <1> HIDE DEF b
  <1>4. /\ c \in Draft /\ c.label = e.label /\ c.conf = e.conf /\ c.verified = m
        /\ c.unverified = n /\ c.doubt = k
    BY <1>3 DEF Draft
  <1> HIDE DEF c
  <1> QED
    BY <1>1, <1>4

\* One of the unmatched claims found in the window makes a better draft.
LEMMA Confirmed ==
  ASSUME NEW e \in Draft, e.unverified > 0, NEW w \in Nat, ~Hallucinated(e),
         NEW d, d = Reclaim(e, e.verified + 1, e.unverified - 1, e.doubt - w)
  PROVE  /\ d \in Draft /\ Better(d, e) /\ d.label = e.label /\ ~Hallucinated(d)
         /\ Grounded(d).conf <= 100 /\ Grounded(e).conf <= 100
         /\ Stronger(Grounded(d), Grounded(e))
  <1> DEFINE n == e.verified + e.unverified
  <1>1. /\ e.verified \in Nat /\ e.unverified \in Nat /\ e.conf \in Nat
        /\ e.doubt \in Int /\ e.label \in Labels
    BY DEF Draft
  <1>2. /\ d.verified = e.verified + 1 /\ d.unverified = e.unverified - 1
        /\ d.doubt = e.doubt - w /\ d.conf = e.conf /\ d.label = e.label
        /\ d \in Draft
    <2>1. e.verified + 1 \in Nat /\ e.unverified - 1 \in Nat /\ e.doubt - w \in Int
      BY <1>1
    <2> DEFINE v == e.verified + 1
               u == e.unverified - 1
               k == e.doubt - w
    <2> HIDE DEF v, u, k
    <2>2. d = Reclaim(e, v, u, k)
      BY DEF v, u, k
    <2>3. v \in Nat /\ u \in Nat /\ k \in Int
      BY <2>1 DEF v, u, k
    <2> DEFINE r == Reclaim(e, v, u, k)
    <2>4. r \in Draft
      BY <2>3, Reclaimed
    <2>5. r.label = e.label
      BY <2>3, Reclaimed
    <2>9. r.conf = e.conf
      BY <2>3, Reclaimed
    <2>6. r.verified = v
      BY <2>3, Reclaimed
    <2>7. r.unverified = u
      BY <2>3, Reclaimed
    <2>8. r.doubt = k
      BY <2>3, Reclaimed
    <2> QED
      BY <2>2, <2>4, <2>5, <2>6, <2>7, <2>8, <2>9 DEF v, u, k
  <1>3. n \in Nat \ {0} /\ d.verified + d.unverified = n
    BY <1>1, <1>2
  <1>4. HalRate(d) <= HalRate(e)
    <2>1. /\ 100 * d.unverified \in Int /\ 100 * e.unverified \in Int
          /\ 100 * d.unverified <= 100 * e.unverified
      BY <1>1, <1>2
    <2>2. /\ HalRate(d) = (100 * d.unverified) \div n
          /\ HalRate(e) = (100 * e.unverified) \div n
      BY <1>3 DEF HalRate
    <2> HIDE DEF n
    <2> QED
      BY <1>3, <2>1, <2>2, DivMonotone
  <1>5. Better(d, e)
    BY <1>1, <1>2, <1>4 DEF Better
  <1>6. ~Hallucinated(d)
    <2>1. HalRate(d) \in Int /\ HalRate(e) \in Int /\ MaxHal \in Int
      BY <1>2, HalRateType, FusionAssumption
    <2> QED
      BY <1>2, <1>4, <2>1 DEF Hallucinated
  <1>7. Grounded(d).conf <= 100 /\ Grounded(e).conf <= 100
    BY <1>2, <1>3, GroundedRange
  <1>8. Stronger(Grounded(d), Grounded(e))
    <2> DEFINE P == Clamp(d.conf - d.doubt)
               Q == Clamp(e.conf - e.doubt)
    <2>1. P \in 0..100 /\ Q \in 0..100 /\ P >= Q
      BY <1>1, <1>2 DEF Clamp, Lo, Hi
    <2>2. /\ Grounded(d) = [label |-> e.label, conf |-> Lo(P, e.conf)]
          /\ Grounded(e) = [label |-> e.label, conf |-> Lo(Q, e.conf)]
      BY <1>2, <1>3, <1>6 DEF Grounded
    <2> HIDE DEF P, Q
    <2>3. Lo(100, Lo(P, e.conf)) >= Lo(100, Lo(Q, e.conf))
      BY <1>1, <2>1 DEF Lo
    <2> QED
      BY <2>2, <2>3 DEF Stronger
  <1> QED
    BY <1>2, <1>5, <1>6, <1>7, <1>8

LEMMA SameDraft ==
  ASSUME NEW d \in Draft
  PROVE  /\ Better(d, d) /\ Stronger(Grounded(d), Grounded(d))
         /\ d.verified > 0 => Grounded(d).conf <= 100
  <1>1. HalRate(d) \in Int /\ Grounded(d) \in Decisions
    BY HalRateType, GroundedType
  <1>2. d.verified > 0 => Grounded(d).conf <= 100
    BY GroundedRange DEF Draft
  <1> QED
    BY <1>1, <1>2 DEF Better, Stronger, Decisions, Lo

\* More alarms and more evidence never lower the tier, through every cap,
\* floor and boost they meet: for all drafts, thresholds and quantiles.
THEOREM TierGrows == Spec => []Monotone
  <1>1. ASSUME Typed, Computed, HallucinationNeverActs PROVE Monotone
    <2> SUFFICES ASSUME Done PROVE Monotone
      BY DEF Monotone, AlarmsMonotone, EvidenceMonotone
    <2>1. /\ draft \in Draft /\ violations \in Findings /\ pcabp \in 0..100
      BY <1>1 DEF Typed, TypeOK, Findings
    <2>2. tier = Outcome(draft, violations, pcabp)
      BY <1>1 DEF Computed, Done, Outcome, Ungated
    <2>3. ASSUME NEW d \in Draft, NEW v \in Findings, NEW p \in 0..100,
                 Hallucinated(draft)
          PROVE  Outcome(d, v, p) >= tier
      <3>1. tier = LOG_ONLY
        BY <1>1, <2>3 DEF HallucinationNeverActs
      <3>2. Outcome(d, v, p) \in Tiers
        BY <1>1, OutcomeType
      <3> QED
        BY <3>1, <3>2 DEF Tiers, LOG_ONLY, ISOLATE
    <2>4. ASSUME NEW v \in Findings, NEW p \in 0..100, More(v, violations), p >= pcabp
          PROVE  Outcome(draft, v, p) >= tier
      <3>1. CASE Hallucinated(draft)
        BY <2>1, <2>3, <3>1
      <3>2. CASE ~Hallucinated(draft)
        BY <1>1, <2>1, <2>2, <2>4, <3>2, SameDraft, OutcomeMonotone
      <3> QED
        BY <3>1, <3>2
    <2>5. AlarmsMonotone
      <3>1. /\ violations.critical \in Nat /\ violations.medium \in Nat
        BY <2>1 DEF Findings
      <3>2. More(violations, violations)
        BY <3>1 DEF More
      <3>3. /\ [violations EXCEPT !.critical = @ + 1] \in Findings
            /\ More([violations EXCEPT !.critical = @ + 1], violations)
        BY <2>1, <3>1 DEF Findings, More
      <3>4. /\ [violations EXCEPT !.medium = @ + 1] \in Findings
            /\ More([violations EXCEPT !.medium = @ + 1], violations)
        BY <2>1, <3>1 DEF Findings, More
      <3>5. PcabpScore(TRUE, 0) = 55
        BY DEF PcabpScore, Points, Hi
      <3>6. /\ Outcome(draft, [violations EXCEPT !.critical = @ + 1], pcabp) >= tier
            /\ Outcome(draft, [violations EXCEPT !.medium = @ + 1], pcabp) >= tier
        BY <2>1, <2>4, <3>3, <3>4
      <3>7. Outcome(draft, violations, PcabpScore(TRUE, 0)) >= tier \/ pcabp > 55
        <4>1. CASE pcabp <= 55
          <5>1. 55 \in 0..100 /\ 55 >= pcabp
            BY <2>1, <4>1
          <5> QED
            BY <2>1, <2>4, <3>2, <3>5, <5>1
        <4>2. CASE ~(pcabp <= 55)
          <5>1. pcabp > 55
            BY <2>1, <4>2
          <5> QED
            BY <5>1
        <4> QED
          BY <4>1, <4>2
      <3> QED
        BY <3>6, <3>7 DEF AlarmsMonotone
    <2>6. EvidenceMonotone
      <3> SUFFICES ASSUME draft.label # "OTHER", draft.unverified > 0,
                          NEW w \in (IF draft.unverified = 1 THEN {draft.doubt}
                                     ELSE 0..draft.doubt),
                          w >= 0
                   PROVE  Outcome([draft EXCEPT !.verified = @ + 1, !.unverified = @ - 1,
                                                !.doubt = @ - w], violations, pcabp) >= tier
        BY DEF EvidenceMonotone
      <3> DEFINE d == [draft EXCEPT !.verified = @ + 1, !.unverified = @ - 1,
                                    !.doubt = @ - w]
      <3>1. w \in Nat
        BY <2>1 DEF Draft
      <3>2. CASE Hallucinated(draft)
        <4>1. d \in Draft
          <5>1. /\ draft.verified + 1 \in Nat /\ draft.unverified - 1 \in Nat
                /\ draft.doubt - w \in Int
            BY <2>1, <3>1 DEF Draft
          <5> DEFINE v == draft.verified + 1
                     u == draft.unverified - 1
                     k == draft.doubt - w
          <5>2. d = Reclaim(draft, v, u, k)
            BY DEF Reclaim
          <5> HIDE DEF d, v, u, k
          <5>3. v \in Nat /\ u \in Nat /\ k \in Int
            BY <5>1 DEF v, u, k
          <5> QED
            BY <2>1, <5>2, <5>3, Reclaimed
        <4> QED
          BY <2>1, <2>3, <3>2, <4>1
      <3>3. CASE ~Hallucinated(draft)
        <4> HIDE DEF d
        <4>1. d = Reclaim(draft, draft.verified + 1, draft.unverified - 1, draft.doubt - w)
          BY DEF d, Reclaim
        <4>2. /\ d \in Draft /\ Better(d, draft) /\ d.label = draft.label /\ ~Hallucinated(d)
              /\ Grounded(d).conf <= 100 /\ Grounded(draft).conf <= 100
              /\ Stronger(Grounded(d), Grounded(draft))
          BY <2>1, <3>1, <3>3, <4>1, Confirmed
        <4>3. More(violations, violations)
          BY <2>1 DEF More, Findings
        <4>4. Outcome(d, violations, pcabp) >= Outcome(draft, violations, pcabp)
          BY <1>1, <2>1, <3>3, <4>2, <4>3, OutcomeMonotone, SMTT(30)
        <4> QED
          BY <2>2, <4>4 DEF d
      <3> QED
        BY <3>2, <3>3
    <2> QED
      BY <2>5, <2>6 DEF Monotone
  <1> QED
    BY <1>1, Computations, NoActionOnHallucination, PTL

-----------------------------------------------------------------------------
(* The studies.                                                             *)

LEMMA VerdictLabel ==
  ASSUME NEW c \in Nat
  PROVE  (Verdict(c).label = "MALICIOUS") <=> c >= 50
  BY DEF Verdict

LEMMA AxesDetect ==
  ASSUME NEW dec \in Decisions, NEW v \in Findings, NEW g \in 0..100
  PROVE  /\ Axes(dec, v, g, 0) \in Nat
         /\ Axes(dec, v, g, 0) >= 50 <=>
              \/ g >= 50 \/ Severity(v) >= 70
              \/ dec.label = "MALICIOUS" /\ dec.conf >= 50
  <1>1. Severity(v) \in 0..95 /\ dec.conf \in Nat
    BY DEF Severity, Decisions, Findings
  <1> QED
    BY <1>1 DEF Axes, Hi

\* The draft of the graph's own decisions makes no claims.
LEMMA DraftCases ==
  ASSUME NEW g \in 0..100, NEW llm \in LlmDrafts
  PROVE  LET d == DraftOf(g, llm) IN
         /\ d \in Draft
         /\ g >= 55 => d.label = "MALICIOUS" /\ HalRate(d) = 0
         /\ g <= 15 => d.label = "BENIGN" /\ HalRate(d) = 0
         /\ g \in 16..54 => d = llm
  <1>1. DraftOf(g, llm) \in Draft
    BY DraftOfType
  <1>2. CASE g >= 55
    BY <1>1, <1>2 DEF DraftOf, NoDraft, HalRate
  <1>3. CASE g <= 15
    BY <1>1, <1>3 DEF DraftOf, NoDraft, HalRate
  <1>4. CASE g \in 16..54
    BY <1>1, <1>4 DEF DraftOf
  <1> QED
    BY <1>2, <1>3, <1>4

LEMMA StudyDecision ==
  ASSUME NEW g \in 0..100, NEW llm, Hybrid(g, llm).label \in Labels
  PROVE  /\ HybridDecision(g, llm) \in Decisions
         /\ HybridDecision(g, llm).label = Hybrid(g, llm).label
         /\ HybridDecision(g, llm).label = "MALICIOUS" => HybridDecision(g, llm).conf = g
  <1>1. g \in Nat /\ 100 - g \in Nat
    OBVIOUS
  <1> QED
    BY <1>1 DEF HybridDecision, Decisions

LEMMA HybridLtlDetects ==
  ASSUME NEW g \in 0..100, NEW llm, NEW v \in Findings, Hybrid(g, llm).label \in Labels
  PROVE  /\ HybridLtl(g, llm, v).conf \in Nat
         /\ HybridLtl(g, llm, v).label = "MALICIOUS" <=> g >= 50 \/ Severity(v) >= 70
  <1> DEFINE dec == HybridDecision(g, llm)
             c == Axes(dec, v, g, 0)
  <1>1. dec \in Decisions /\ (dec.label = "MALICIOUS" => dec.conf = g)
    BY StudyDecision
  <1> HIDE DEF dec
  <1>2. c \in Nat /\ (c >= 50 <=> \/ g >= 50 \/ Severity(v) >= 70
                                  \/ dec.label = "MALICIOUS" /\ dec.conf >= 50)
    BY <1>1, AxesDetect
  <1>3. HybridLtl(g, llm, v) = Verdict(c)
    BY DEF HybridLtl, dec
  <1> HIDE DEF c
  <1>4. Verdict(c).conf = c
    BY DEF Verdict
  <1> QED
    BY <1>1, <1>2, <1>3, <1>4, VerdictLabel

LEMMA FullDetects ==
  ASSUME NEW g \in 0..100, NEW llm, NEW v \in Findings, Hybrid(g, llm).label \in Labels
  PROVE  Full(g, llm, v).label = "MALICIOUS" <=>
           ~Capped(g, llm) /\ HybridLtl(g, llm, v).label = "MALICIOUS"
  <1>1. HybridLtl(g, llm, v).conf \in Nat
    BY HybridLtlDetects
  <1>2. Lo(29, HybridLtl(g, llm, v).conf) \in 0..29
    BY <1>1 DEF Lo
  <1>3. ASSUME Capped(g, llm) PROVE Full(g, llm, v).label # "MALICIOUS"
    <2>1. Full(g, llm, v) = Verdict(Lo(29, HybridLtl(g, llm, v).conf))
      BY <1>3 DEF Full
    <2> QED
      BY <1>2, <2>1, VerdictLabel
  <1>4. ASSUME ~Capped(g, llm) PROVE Full(g, llm, v) = HybridLtl(g, llm, v)
    BY <1>4 DEF Full
  <1> QED
    BY <1>3, <1>4

LEMMA LiveDetects ==
  ASSUME NEW dec \in Decisions, NEW d, NEW v \in Findings, NEW g \in 0..100
  PROVE  Fused(dec, d, v, g, 0).label = "MALICIOUS" <=>
           /\ ~Hallucinated(d)
           /\ \/ g >= 50 \/ Severity(v) >= 70
              \/ dec.label = "MALICIOUS" /\ dec.conf >= 50
  <1> DEFINE c == Axes(dec, v, g, 0)
  <1>1. /\ c \in Nat
        /\ c >= 50 <=> \/ g >= 50 \/ Severity(v) >= 70
                       \/ dec.label = "MALICIOUS" /\ dec.conf >= 50
    BY AxesDetect
  <1>2. Fused(dec, d, v, g, 0) = Verdict(IF Hallucinated(d) THEN Lo(29, c) ELSE c)
    BY DEF Fused
  <1> HIDE DEF c
  <1>3. Lo(29, c) \in 0..29
    BY <1>1 DEF Lo
  <1>4. Verdict(Lo(29, c)).label # "MALICIOUS"
    BY <1>3, VerdictLabel
  <1>5. Verdict(c).label = "MALICIOUS" <=> c >= 50
    BY <1>1, VerdictLabel
  <1> QED
    BY <1>1, <1>2, <1>4, <1>5

\* Without CoVe's rate a recalled decision is as good as grounded; with it, it is
\* the decision.
LEMMA RecalledType ==
  ASSUME NEW dec, NEW cove \in BOOLEAN, dec \in Draft
  PROVE  /\ Recalled(dec, cove).label = dec.label
         /\ cove => Recalled(dec, cove) = dec
         /\ ~cove => HalRate(Recalled(dec, cove)) = 0
  BY DEF Recalled, Draft, HalRate

LEMMA DecisionTypes ==
  ASSUME NEW g \in 0..100, NEW llm \in LlmDrafts, NEW dec \in DecisionsOf(g, llm)
  PROVE  dec \in Draft /\ dec.label \in Labels
  <1>1. llm \in Draft /\ DraftOf(g, llm) \in Draft
    BY DraftOfType, FusionAssumption
  <1>2. GraphOnly(g, llm) \in Draft
    <2>1. g \in Nat /\ 100 - g \in Nat
      OBVIOUS
    <2> DEFINE l == IF g >= 50 THEN "MALICIOUS" ELSE "BENIGN"
               c == IF g >= 50 THEN g ELSE 100 - g
               n == [NoDraft EXCEPT !.label = l]
    <2>2. l \in Labels /\ c \in Nat
      BY <2>1 DEF Labels
    <2>3. GraphOnly(g, llm) = [NoDraft EXCEPT !.label = l, !.conf = c]
      BY DEF GraphOnly
    <2> HIDE DEF l, c
    <2>4. n \in Draft
      BY <2>2 DEF NoDraft, Draft, Labels
    <2>5. GraphOnly(g, llm) = [n EXCEPT !.conf = c]
      BY <2>3
    <2> HIDE DEF n
    <2> QED
      BY <2>2, <2>4, <2>5 DEF Draft
  <1> QED
    BY <1>1, <1>2 DEF DecisionsOf, LlmOnly, Hybrid, Draft

\* The hybrid mode over any recorded decision.
LEMMA RecalledHybrid ==
  ASSUME NEW g \in 0..100, NEW r
  PROVE  Hybrid(g, r).label = IF g >= 55 THEN "MALICIOUS"
                              ELSE IF g <= 15 THEN "BENIGN" ELSE r.label
  BY DEF Hybrid, DraftOf, NoDraft

\* What a replay makes of the last two modes, whatever run it replays.
LEMMA RecalledFusion ==
  ASSUME NEW g \in 0..100, NEW llm \in LlmDrafts, NEW v \in Findings,
         NEW dec \in DecisionsOf(g, llm), NEW cove \in BOOLEAN
  PROVE  /\ HybridLtl(g, Recalled(dec, cove), v).label = HybridLtl(g, llm, v).label
         /\ ~cove => Full(g, Recalled(dec, cove), v).label = HybridLtl(g, llm, v).label
  <1> DEFINE r == Recalled(dec, cove)
  <1>1. /\ r.label \in Labels
        /\ ~cove => HalRate(r) = 0
    BY DecisionTypes, RecalledType
  <1> HIDE DEF r
  <1>2. Hybrid(g, r).label \in Labels
    BY <1>1, RecalledHybrid DEF Labels
  <1>3. Hybrid(g, llm).label \in Labels
    BY DraftCases DEF Hybrid, Draft
  <1>4. /\ HybridLtl(g, r, v).label = "MALICIOUS" <=> g >= 50 \/ Severity(v) >= 70
        /\ HybridLtl(g, llm, v).label = "MALICIOUS" <=> g >= 50 \/ Severity(v) >= 70
    BY <1>2, <1>3, HybridLtlDetects
  <1>5. /\ HybridLtl(g, r, v).label \in {"MALICIOUS", "BENIGN"}
        /\ HybridLtl(g, llm, v).label \in {"MALICIOUS", "BENIGN"}
    BY DEF HybridLtl, Verdict
  <1>6. HybridLtl(g, r, v).label = HybridLtl(g, llm, v).label
    BY <1>4, <1>5
  <1>7. ~cove => Full(g, r, v) = HybridLtl(g, r, v)
    BY <1>1 DEF Full, Capped
  <1> QED
    BY <1>6, <1>7 DEF r

\* What a replay makes of the first three modes.
LEMMA RecalledModes ==
  ASSUME NEW g \in 0..100, NEW llm \in LlmDrafts, NEW v \in Findings,
         NEW cove \in BOOLEAN
  PROVE  LET hybrid == Modes(g, Recalled(Hybrid(g, llm), cove), v)
             alone  == Modes(g, Recalled(GraphOnly(g, llm), cove), v)
             only   == GraphOnly(g, llm).label IN
         /\ hybrid.llm_only = Hybrid(g, llm).label
         /\ hybrid.hybrid = Hybrid(g, llm).label
         /\ alone.llm_only = only /\ alone.hybrid = only
  <1> DEFINE h == Recalled(Hybrid(g, llm), cove)
             a == Recalled(GraphOnly(g, llm), cove)
  <1>1. h.label = Hybrid(g, llm).label /\ a.label = GraphOnly(g, llm).label
    BY DecisionTypes, RecalledType DEF DecisionsOf
  <1>2. GraphOnly(g, llm).label = IF g >= 50 THEN "MALICIOUS" ELSE "BENIGN"
    BY DEF GraphOnly, NoDraft
  <1>3. /\ g >= 55 => Hybrid(g, llm).label = "MALICIOUS"
        /\ g <= 15 => Hybrid(g, llm).label = "BENIGN"
    BY DraftCases DEF Hybrid
  <1> HIDE DEF h, a
  <1>4. Hybrid(g, h).label = h.label
    BY <1>1, <1>3, RecalledHybrid
  <1>5. Hybrid(g, a).label = a.label
    BY <1>1, <1>2, RecalledHybrid
  <1>6. ASSUME NEW r
        PROVE  Modes(g, r, v).llm_only = r.label /\ Modes(g, r, v).hybrid = Hybrid(g, r).label
    BY DEF Modes, LlmOnly
  <1>7. /\ Modes(g, h, v).llm_only = h.label /\ Modes(g, h, v).hybrid = h.label
        /\ Modes(g, a, v).llm_only = a.label /\ Modes(g, a, v).hybrid = a.label
    BY <1>4, <1>5, <1>6
  <1> QED
    BY <1>1, <1>7 DEF h, a

\* CoVe never touches a label, so its pairs never disagree.
LEMMA NeverDiscordant ==
  ASSUME NEW b \in BOOLEAN, NEW dec
  PROVE  Discordant(b, dec) = <<FALSE, FALSE>>
  <1>1. Verified(dec).label = dec.label
    BY DEF Verified, Grounded
  <1>2. Correct(b, Verified(dec)) = Correct(b, dec)
    BY <1>1 DEF Correct
  <1> QED
    BY <1>2 DEF Discordant

\* What the five modes of the study owe to the model, and its replay of recorded
\* results to the detector mode that recorded them: for all drafts and findings, if the agent's threshold of
\* hallucination is not below the study's fixed one.
THEOREM StudyModes ==
  ASSUME MaxHal >= 10
  PROVE  Spec => []StudyExplained
  <1>1. ASSUME Typed, Computed PROVE StudyExplained
    <2> SUFFICES ASSUME stage = "egte", NEW llm \in LlmDrafts,
                        DraftOf(graph, llm) = draft
        PROVE
          LET live == Fused(decision, draft, violations, graph, 0).label
              m == Modes(graph, llm, violations)
              Again(dec, cove) == Modes(graph, Recalled(dec, cove), violations)
              Detects(label) == label = "MALICIOUS" IN
          /\ Detects(m.hybrid_ltl) <=> Detects(m.graph_only) \/ Severity(violations) >= 70
          /\ Detects(m.full) => Detects(m.hybrid_ltl) /\ Detects(live)
          /\ Detects(live) /\ ~Detects(m.full) =>
               \/ graph \in 16 .. 54 /\ llm.label = "MALICIOUS"
               \/ graph >= 55 /\ HalRate(llm) > 10
          /\ \A dec \in DecisionsOf(graph, llm), b \in BOOLEAN :
               Discordant(b, dec) = <<FALSE, FALSE>>
          /\ \A dec \in DecisionsOf(graph, llm) :
               /\ \A cove \in BOOLEAN : Again(dec, cove).hybrid_ltl = m.hybrid_ltl
               /\ Again(dec, FALSE).full = m.hybrid_ltl
          /\ Again(LlmOnly(graph, llm), TRUE) = m
          /\ \A cove \in BOOLEAN :
               LET hybrid == Again(Hybrid(graph, llm), cove)
                   alone  == Again(GraphOnly(graph, llm), cove) IN
               /\ hybrid.llm_only = m.hybrid /\ hybrid.hybrid = m.hybrid
               /\ alone.llm_only = m.graph_only /\ alone.hybrid = m.graph_only
      BY DEF StudyExplained
    <2> DEFINE live == Fused(decision, draft, violations, graph, 0).label
               m == Modes(graph, llm, violations)
               Again(dec, cove) == Modes(graph, Recalled(dec, cove), violations)
               Severe == Severity(violations) >= 70
    <2>1. /\ graph \in 0..100 /\ draft \in Draft /\ decision \in Decisions
          /\ violations \in Findings /\ decision.label = draft.label
      BY <1>1 DEF Typed, TypeOK, SameLabel, Decisions, Findings
    <2>2. /\ Hybrid(graph, llm) = draft /\ draft.label \in Labels
          /\ HalRate(draft) \in Int /\ HalRate(llm) \in Int /\ MaxHal \in Int
      BY <2>1, HalRateType, FusionAssumption DEF Hybrid, Draft
    <2>3. /\ graph >= 55 => draft.label = "MALICIOUS" /\ HalRate(draft) = 0
          /\ graph <= 15 => draft.label = "BENIGN" /\ HalRate(draft) = 0
          /\ graph \in 16..54 => draft = llm
      BY <2>1, DraftCases
    <2>4. /\ m.hybrid_ltl = HybridLtl(graph, llm, violations).label
          /\ m.full = Full(graph, llm, violations).label
          /\ m.graph_only = IF graph >= 50 THEN "MALICIOUS" ELSE "BENIGN"
      BY DEF Modes, GraphOnly, NoDraft
    <2> HIDE DEF m
    <2>5. m.hybrid_ltl = "MALICIOUS" <=> graph >= 50 \/ Severe
      BY <2>1, <2>2, <2>4, HybridLtlDetects
    <2>6. m.full = "MALICIOUS" <=>
            (graph >= 50 \/ Severe) /\ ~(draft.label = "MALICIOUS" /\ HalRate(llm) > 10)
      BY <2>1, <2>2, <2>4, <2>5, FullDetects DEF Capped
    <2>7. live = "MALICIOUS" <=>
            /\ ~(draft.label = "MALICIOUS" /\ HalRate(draft) > MaxHal)
            /\ \/ graph >= 50 \/ Severe
               \/ draft.label = "MALICIOUS" /\ decision.conf >= 50
      <3>1. Fused(decision, draft, violations, graph, 0).label = "MALICIOUS" <=>
              /\ ~Hallucinated(draft)
              /\ \/ graph >= 50 \/ Severity(violations) >= 70
                 \/ decision.label = "MALICIOUS" /\ decision.conf >= 50
        BY <2>1, LiveDetects, ZenonT(30)
      <3> HIDE DEF live
      <3>2. QED
        BY <2>1, <3>1, ZenonT(30) DEF live, Hallucinated
    <2> HIDE DEF live, Severe
    <2>8. m.hybrid_ltl = "MALICIOUS" <=> m.graph_only = "MALICIOUS" \/ Severe
      BY <2>4, <2>5
    <2>9. draft.label = "MALICIOUS" /\ HalRate(draft) > MaxHal => HalRate(llm) > 10
      BY <2>1, <2>2, <2>3
    <2>10. m.full = "MALICIOUS" => m.hybrid_ltl = "MALICIOUS" /\ live = "MALICIOUS"
      BY <2>5, <2>6, <2>7, <2>9
    <2>11. live = "MALICIOUS" /\ m.full # "MALICIOUS" =>
             \/ graph \in 16 .. 54 /\ llm.label = "MALICIOUS"
             \/ graph >= 55 /\ HalRate(llm) > 10
      <3> SUFFICES ASSUME live = "MALICIOUS", m.full # "MALICIOUS"
                   PROVE  \/ graph \in 16 .. 54 /\ llm.label = "MALICIOUS"
                          \/ graph >= 55 /\ HalRate(llm) > 10
        OBVIOUS
      <3>1. draft.label = "MALICIOUS" /\ (graph < 50 \/ HalRate(llm) > 10)
        BY <2>1, <2>6, <2>7
      <3>2. ~(graph <= 15)
        BY <2>3, <3>1
      <3>3. CASE graph >= 55
        BY <2>1, <3>1, <3>3
      <3>4. CASE ~(graph >= 55)
        <4>1. graph \in 16..54
          BY <2>1, <3>2, <3>4
        <4> QED
          BY <2>3, <3>1, <4>1
      <3> QED
        BY <3>3, <3>4
    <2>12. ASSUME NEW dec \in DecisionsOf(graph, llm), NEW cove \in BOOLEAN
           PROVE  /\ Again(dec, cove).hybrid_ltl = m.hybrid_ltl
                  /\ ~cove => Again(dec, cove).full = m.hybrid_ltl
      <3>1. /\ Again(dec, cove).hybrid_ltl =
                 HybridLtl(graph, Recalled(dec, cove), violations).label
            /\ Again(dec, cove).full = Full(graph, Recalled(dec, cove), violations).label
        BY DEF Modes
      <3>2. /\ HybridLtl(graph, Recalled(dec, cove), violations).label =
                 HybridLtl(graph, llm, violations).label
            /\ ~cove => Full(graph, Recalled(dec, cove), violations).label =
                         HybridLtl(graph, llm, violations).label
        BY <2>1, RecalledFusion
      <3> QED
        BY <2>4, <3>1, <3>2
    <2>13. Again(LlmOnly(graph, llm), TRUE) = m
      BY DEF LlmOnly, Recalled, m
    <2>14. m.hybrid = Hybrid(graph, llm).label /\ m.graph_only = GraphOnly(graph, llm).label
      BY DEF Modes, m
    <2>15. ASSUME NEW cove \in BOOLEAN
           PROVE  LET hybrid == Again(Hybrid(graph, llm), cove)
                      alone  == Again(GraphOnly(graph, llm), cove) IN
                  /\ hybrid.llm_only = m.hybrid /\ hybrid.hybrid = m.hybrid
                  /\ alone.llm_only = m.graph_only /\ alone.hybrid = m.graph_only
      BY <2>1, <2>14, RecalledModes
    <2>16. \A dec \in DecisionsOf(graph, llm) :
             /\ \A cove \in BOOLEAN : Again(dec, cove).hybrid_ltl = m.hybrid_ltl
             /\ Again(dec, FALSE).full = m.hybrid_ltl
      BY <2>12
    <2>17. \A dec \in DecisionsOf(graph, llm), b \in BOOLEAN :
             Discordant(b, dec) = <<FALSE, FALSE>>
      BY NeverDiscordant
    <2> QED
      BY <2>8, <2>10, <2>11, <2>13, <2>15, <2>16, <2>17 DEF live, m, Severe
  <1> QED
    BY <1>1, Computations, PTL
=============================================================================
