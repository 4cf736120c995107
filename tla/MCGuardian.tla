----------------------------- MODULE MCGuardian -----------------------------
(* An instance of Guardian for TLC: the axioms of ltl.py with their windows   *)
(* scaled down (AX-1 50, AX-5 5, AX-2 10, AX-2b 50 events), and one kind for  *)
(* every class of events that their predicates tell apart.                    *)
EXTENDS Guardian, TLC

CONSTANTS p1, p2

Symmetry == Permutations({p1, p2})

\* nginx at work and nginx executing bash, another command executing bash; a
\* shadow read by a PAM command and by any other
AllKinds == {"nginx", "nginx_bash", "bash", "tmp", "rename", "shadow",
             "pam_shadow", "connect", "root"}

Simple(id, trigger, forbidden, window, self) ==
  [id |-> id, trigger |-> trigger, forbidden |-> forbidden, window |-> window,
   self |-> self]

DefaultSimple ==
  {Simple("AX-1", {"nginx", "nginx_bash"}, {"nginx_bash", "bash"}, 2, FALSE),
   Simple("AX-3", {"rename"}, {"shadow", "pam_shadow"}, 0, FALSE),
   Simple("AX-4", AllKinds, {"tmp"}, 1, TRUE),
   Simple("AX-5", {"root"}, {"connect"}, 1, FALSE)}

DefaultTemporal ==
  {[id |-> "AX-2", trigger |-> {"shadow"}, consequence |-> {"connect"},
    window |-> 1, negate |-> TRUE],
   [id |-> "AX-2b", trigger |-> {"shadow"}, consequence |-> {"connect"},
    window |-> 2, negate |-> FALSE]}
=============================================================================
