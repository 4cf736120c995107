------------------------------ MODULE Evidence ------------------------------
(***************************************************************************)
(* EvidenceLinker: which event of a window, if any, backs a claim of the   *)
(* classifier.  A claim is what is left of its text once the linker has    *)
(* looked for the name of a system call (sc) and for a path or an address  *)
(* (res).                                                                  *)
(***************************************************************************)
EXTENDS Integers, Sequences

CONSTANTS
  Resources,   \* resources of events and claims
  NoRes,       \* the empty resource
  Part         \* pairs of resources, the first of which occurs in the second

ASSUME EvidenceAssumption ==
  /\ NoRes \in Resources
  /\ Part \subseteq Resources \X Resources
  /\ \A r \in Resources : <<r, r>> \in Part /\ <<NoRes, r>> \in Part

\* _SYSCALL_ALIASES; "none" when the text names no system call
Aliases == {"execve", "openat(R)", "openat(W)", "connect", "listen", "fork",
            "clone", "setuid", "mmap", "ptrace"}
Claim == [sc : Aliases \cup {"none"}, res : Resources]

\* the first pass of _match_event: one resource may contain the other, and an
\* event without a resource is contained in every claim
Exact(c, e) ==
  /\ c.sc = "none" \/ e.sc = c.sc
  /\ <<c.res, e.res>> \in Part \/ <<e.res, c.res>> \in Part

\* its second pass, and all of _reground_claims: by resource alone
Loose(c, e) == c.res # NoRes /\ <<c.res, e.res>> \in Part

FirstOf(S) == CHOOSE i \in S : \A j \in S : i <= j

\* Mutant of MatchOf: no second pass.
MatchOfExact(c, evs) ==
  LET exact == {i \in DOMAIN evs : Exact(c, evs[i])}
  IN IF exact # {} THEN FirstOf(exact) ELSE 0

\* _match_event: the position of the event that backs c, or 0
MatchOf(c, evs) ==
  LET exact == {i \in DOMAIN evs : Exact(c, evs[i])}
      loose == {i \in DOMAIN evs : Loose(c, evs[i])}
  IN IF exact # {} THEN FirstOf(exact)
     ELSE IF loose # {} THEN FirstOf(loose) ELSE 0

\* verify(): the matches of all claims
Matches(claims, evs) == [i \in DOMAIN claims |-> MatchOf(claims[i], evs)]

\* _reground_claims: the claims it marks as verified, and with which event
Regrounded(claims, marks, evs) ==
  {i \in DOMAIN claims : marks[i] = 0 /\ \E k \in DOMAIN evs : Loose(claims[i], evs[k])}

Remarked(claims, marks, evs) ==
  [i \in DOMAIN claims |->
     IF i \in Regrounded(claims, marks, evs)
     THEN FirstOf({k \in DOMAIN evs : Loose(claims[i], evs[k])}) ELSE marks[i]]
=============================================================================
