------------------------------ MODULE MCProbes ------------------------------
(* Instances of Probes for TLC: two CPUs, maps of one entry, a window of two  *)
(* calls, and a binary with one call, of connect.                             *)
EXTENDS Probes, TLC

CONSTANTS p1, p2, c1, c2, n1, n2

RelocList == <<"getpid", "free", "strlen", "puts", "connect">>
Layout == "plt" :> 1000 @@ "sec" :> 2000 @@ "got" :> 3000
CallSet == {[ret |-> 505, sym |-> 5]}
Bits(a) == {a % 3, 3 + (a % 5)}

KernelSymmetry == Permutations({p1, p2}) \cup Permutations({c1, c2}) \cup Permutations({n1, n2})
=============================================================================
