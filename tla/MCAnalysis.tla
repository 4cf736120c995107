----------------------------- MODULE MCAnalysis -----------------------------
(* Instances of Analysis for TLC: windows and parent windows of up to two     *)
(* events, claims that are true, half true and made up.                       *)
EXTENDS Analysis, TLC

CONSTANTS none, bin, tmp, shadow, home, ext, int, mock, MaxOwn, MaxCached

E(sc, comm, res, gap) == [sc |-> sc, comm |-> comm, res |-> res, gap |-> gap]

KindSet == {E("execve", "bash", bin, 1), E("execve", "bash", tmp, 1),
            E("openat(R)", "bash", shadow, 1), E("openat(R)", "bash", home, 3),
            E("connect", "bash", ext, 1), E("connect", "bash", int, 2),
            E("setuid", "evil", none, -1)}
FewKinds == {E("execve", "bash", bin, 1), E("openat(R)", "bash", shadow, 1),
             E("connect", "bash", int, 2)}

Upto(n) == UNION {[1 .. k -> KindSet] : k \in 1 .. n}
WindowSet == Upto(MaxOwn)
CachedSet == {<<>>} \cup UNION {[1 .. k -> FewKinds] : k \in 1 .. MaxCached}

ResourceSet == {none, bin, tmp, shadow, home, ext, int, mock}
PartSet == {r \in ResourceSet \X ResourceSet : r[1] = r[2] \/ r[1] = none}

C(sc, res) == [sc |-> sc, res |-> res]
ClaimLists == {<<>>, <<C("connect", int)>>,
               <<C("openat(R)", shadow), C("none", mock)>>,
               <<C("openat(W)", shadow)>>,
               <<C("openat(W)", shadow), C("connect", int)>>,
               <<C("setuid", none), C("execve", tmp)>>}

D(l, c, k) == [label |-> l, conf |-> c, claims |-> k, readable |-> TRUE]
Odd(l, c)  == [D(l, c, <<>>) EXCEPT !.readable = FALSE]
ModelSet == {D("BENIGN", c, <<>>) : c \in {5, 90, 95}}
              \cup {D("MALICIOUS", 80, k) : k \in ClaimLists}
              \cup {Odd("BENIGN", 95), Odd("MALICIOUS", 80)}
MockSet == {D("BENIGN", 8, <<C("none", mock)>>), D("MALICIOUS", 55, <<C("none", mock)>>)}

SampleSet == {<<95>>, <<5, 90>>, <<5, 5, 90>>}
=============================================================================
