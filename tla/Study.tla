------------------------------- MODULE Study -------------------------------
(***************************************************************************)
(* What the two studies over trace windows make of a graph score, a        *)
(* model's draft and the guardian's findings: the detector modes of        *)
(* evaluate_darpa_tc.py and the five modes of evaluate_darpa_ablation.py,  *)
(* beside the verdict of the running agent (ScoreFusion).                  *)
(***************************************************************************)
EXTENDS ScoreFusion

\* the count of evaluate(), or of a mode of the ablation, that a window goes to
Counted(isAttack, label) ==
  LET positive == label = "MALICIOUS" IN
  CASE isAttack /\ positive   -> "tp" [] ~isAttack /\ positive  -> "fp"
    [] isAttack /\ ~positive  -> "fn" [] ~isAttack /\ ~positive -> "tn"

-----------------------------------------------------------------------------
(* evaluate_darpa_tc.py.                                                    *)

\* the decision of a detector mode; the model is asked in the first, and in the
\* last between the thresholds
LlmOnly(g, llm)   == llm
GraphOnly(g, llm) == [NoDraft EXCEPT !.label = IF g >= 50 THEN "MALICIOUS" ELSE "BENIGN",
                                     !.conf = IF g >= 50 THEN g ELSE 100 - g]
Hybrid(g, llm)    == DraftOf(g, llm)

DecisionsOf(g, llm) == {LlmOnly(g, llm), GraphOnly(g, llm), Hybrid(g, llm)}

Correct(isAttack, dec) == Counted(isAttack, dec.label) \in {"tp", "tn"}

\* what CoVe makes of the decision, whatever mode it comes from
Verified(dec) == Grounded(dec)

\* the two counts of McNemar's test: a window only one of the decisions gets right
Discordant(isAttack, dec) ==
  <<Correct(isAttack, dec) /\ ~Correct(isAttack, Verified(dec)),
    ~Correct(isAttack, dec) /\ Correct(isAttack, Verified(dec))>>

-----------------------------------------------------------------------------
(* evaluate_darpa_ablation.py.                                              *)

\* Mutant of HybridDecision: the model's own confidence.
HybridDecisionOfModel(g, llm) ==
  [label |-> Hybrid(g, llm).label, conf |-> Hybrid(g, llm).conf]

\* the graph's confidence, also when the model decided
HybridDecision(g, llm) ==
  LET label == Hybrid(g, llm).label
  IN [label |-> label, conf |-> IF label = "MALICIOUS" THEN g ELSE 100 - g]

HybridLtl(g, llm, v) == Verdict(Axes(HybridDecision(g, llm), v, g, 0))

\* cove_cap: the hallucination rate is that of the model's draft, asked or not
Capped(g, llm) == Hybrid(g, llm).label = "MALICIOUS" /\ HalRate(llm) > 10

Full(g, llm, v) ==
  IF Capped(g, llm) THEN Verdict(Lo(29, HybridLtl(g, llm, v).conf))
  ELSE HybridLtl(g, llm, v)

\* the model's "decision" if the results of an earlier run are found, whichever
\* detector mode that had: its label and confidence without their claims, and
\* CoVe's rate over these, which only a run with --cove-ablation records
Recalled(dec, cove) ==
  IF cove THEN dec ELSE [dec EXCEPT !.verified = 0, !.unverified = 0]

-----------------------------------------------------------------------------
\* the record of a window: the label of each mode
Modes(g, llm, v) ==
  [llm_only |-> LlmOnly(g, llm).label, graph_only |-> GraphOnly(g, llm).label,
   hybrid |-> Hybrid(g, llm).label, hybrid_ltl |-> HybridLtl(g, llm, v).label,
   full |-> Full(g, llm, v).label]

\* The five modes, asked and replayed.  The study's label of the "hybrid_ltl"
\* mode does not depend on the model: it is the "graph_only" label or that of a
\* severe violation.  In the "full" mode the model can only take a detection
\* away, and a "full" detection is one of the running agent's; the agent's
\* verdict (without PCABP) differs where the model decided in the gray zone, and
\* where its unasked draft was capped.  CoVe's pairs never disagree, in any
\* detector mode.  With recorded results "hybrid_ltl" stays what it is, whatever
\* run they are from, and "full" is no more than that unless CoVe's rates are
\* recorded.  A run of the model alone that has them replays all five modes; a
\* hybrid run makes "llm_only" the "hybrid" mode, and a run of the graph alone
\* makes both of them "graph_only".
StudyExplained ==
  stage = "egte" =>
    LET live == Fused(decision, draft, violations, graph, 0).label
        Detects(label) == label = "MALICIOUS" IN
    \A llm \in {d \in LlmDrafts : DraftOf(graph, d) = draft} :
      LET m == Modes(graph, llm, violations)
          Again(dec, cove) == Modes(graph, Recalled(dec, cove), violations) IN
      /\ Detects(m.hybrid_ltl) <=> Detects(m.graph_only) \/ Severity(violations) >= 70
      /\ Detects(m.full) => Detects(m.hybrid_ltl) /\ Detects(live)
      /\ Detects(live) /\ ~Detects(m.full) =>
           \/ graph \in 16 .. 54 /\ llm.label = "MALICIOUS"
           \/ graph >= 55 /\ HalRate(llm) > 10
      /\ \A dec \in DecisionsOf(graph, llm), b \in BOOLEAN :
           Discordant(b, dec) = <<FALSE, FALSE>>
      /\ \A dec \in DecisionsOf(graph, llm) :
           /\ \A cove \in BOOLEAN : Again(dec, cove).hybrid_ltl = m.hybrid_ltl
           /\ Again(dec, FALSE).full = m.hybrid_ltl
      /\ Again(LlmOnly(graph, llm), TRUE) = m
      /\ \A cove \in BOOLEAN :
           LET hybrid == Again(Hybrid(graph, llm), cove)
               alone  == Again(GraphOnly(graph, llm), cove) IN
           /\ hybrid.llm_only = m.hybrid /\ hybrid.hybrid = m.hybrid
           /\ alone.llm_only = m.graph_only /\ alone.hybrid = m.graph_only
=============================================================================
