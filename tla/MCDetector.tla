----------------------------- MODULE MCDetector -----------------------------
(* An instance of Detector for TLC: four processes, of which p1 and its       *)
(* child p2 run the same command and may be renamed; p3 and p4 only keep the  *)
(* eviction busy.                                                             *)
EXTENDS Detector

CONSTANTS p1, p2, p3, p4, sh, ls

SyscallTypes == {"READ", "WRITE", "PRCTL"}

Evt(p, parent, c, t, isHot) ==
  [pid |-> p, ppid |-> parent, comm |-> c, sc |-> t, hot |-> isHot,
   alien |-> FALSE]

\* p2 keeps running after p1 has exited: its parent is then init.
EventSet ==
  {Evt(p1, NoPid, sh, t, FALSE) : t \in {"READ", "WRITE"}}
    \cup {Evt(p1, NoPid, sh, "READ", TRUE)}
    \cup {Evt(p2, p1, sh, t, FALSE) : t \in {"READ", "PRCTL"}}
    \cup {Evt(p2, NoPid, c, "READ", FALSE) : c \in {sh, ls}}
    \cup {[Evt(p3, NoPid, ls, "READ", FALSE) EXCEPT !.alien = TRUE]}
    \cup {Evt(p4, NoPid, ls, "READ", FALSE)}

\* Both entropies are low iff they are zero (a threshold of 0.5 bits on these
\* window sizes): one type only, or a type determined by the one before.
OneType(h) == Cardinality({t \in Types : h[t] > 0}) <= 1
Determined(th) ==
  \A t \in Types : Cardinality({u \in Types : th[<<t, u>>] > 0}) <= 1
=============================================================================
