------------------------------- MODULE MCHost -------------------------------
(* Instances of Host for TLC: a pid that is used twice, a ring of one record *)
(* and a queue of two.                                                       *)
EXTENDS Host, TLC

CONSTANTS p1, p2
=============================================================================
