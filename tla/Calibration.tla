---------------------------- MODULE Calibration ----------------------------
(***************************************************************************)
(* Split-conformal thresholds: ConformalFastPath.fit and .accepts, and the *)
(* same order statistic in TierCalibrator.fit and .calibrate.  The scores  *)
(* of a fit are those of one class only (attacks that the draft model      *)
(* calls BENIGN; benign windows), sorted; alpha is in hundredths.          *)
(***************************************************************************)
EXTENDS Integers, Sequences

CONSTANTS
  Alpha,        \* accepted error rate in hundredths
  MinSamples    \* MIN_CAL_SAMPLES

ASSUME CalibrationAssumption == Alpha \in 1..99 /\ MinSamples \in Nat \ {0}

\* Before the first fit.  "scores" is history: what the last fit was given.
Unfitted == [fitted |-> FALSE, qhat |-> 0, scores |-> <<>>]

\* k = min(ceil((n+1)(1-alpha)), n)
Rank(n) ==
  LET k == -((-((n + 1) * (100 - Alpha))) \div 100)
  IN IF k < n THEN k ELSE n

\* with too few samples the old quantile stays, but is not used
Fit(cal, scores) ==
  IF Len(scores) < MinSamples
  THEN [cal EXCEPT !.fitted = FALSE, !.scores = scores]
  ELSE [fitted |-> TRUE, qhat |-> scores[Rank(Len(scores))], scores |-> scores]

\* accepts(); for TierCalibrator, "above the benign quantile"
Above(cal, c) == cal.fitted /\ c > cal.qhat

Sorted(s) == \A i, j \in DOMAIN s : i < j => s[i] <= s[j]
=============================================================================
