----------------------------- MODULE MCRedTeam -----------------------------
(* RedTeam for TLC: all fifteen attacks, with every answer of the model.      *)
EXTENDS RedTeam, TLC
=============================================================================
