--------------------------- MODULE MCScoreFusion ---------------------------
(* An instance of ScoreFusion and Study for TLC: every behaviour of an IPG    *)
(* with up to three sensitive reads, and classifier drafts on both sides of   *)
(* every threshold.                                                           *)
EXTENDS Study

MetaSet == [tmpExec : BOOLEAN, outbound : BOOLEAN, reads : 0..3,
            execAfterNet : BOOLEAN, unusual : BOOLEAN]

\* with no claim, one or two matched, and up to two that match nothing
Claims == {<<0, 0, 0>>, <<2, 0, 0>>}
            \cup {<<n, 1, w>> : n \in 0..1, w \in {-20, 15, 50}}
            \cup {<<n, 2, w>> : n \in 0..1, w \in {0, 40}}

DraftSet == {[label |-> l, conf |-> c, verified |-> k[1], unverified |-> k[2],
              doubt |-> k[3]] :
             l \in Labels, c \in {10, 45, 60, 95, 120}, k \in Claims}

Found == [critical : 0..2, medium : 0..1]
=============================================================================
