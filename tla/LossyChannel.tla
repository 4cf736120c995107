---------------------------- MODULE LossyChannel ----------------------------
(***************************************************************************)
(* What the agent may assume of its intake of kernel events, with no ring  *)
(* buffer, poll thread or queue: events arrive once and in the order of    *)
(* the kernel, and one that the kernel accepted is lost only while         *)
(* Capacity older ones wait.                                               *)
(***************************************************************************)
EXTENDS Naturals, Sequences

CONSTANTS Events, Capacity, None

VARIABLES
  transit,   \* events accepted and not yet received, oldest first
  received   \* the event received last, or None

Init == transit = <<>> /\ received = None

Send(e) == transit' = Append(transit, e) /\ UNCHANGED received

\* the first event behind a full buffer is dropped
Lose ==
  /\ Len(transit) > Capacity
  /\ transit' = SubSeq(transit, 1, Capacity)
                \o SubSeq(transit, Capacity + 2, Len(transit))
  /\ UNCHANGED received

Receive ==
  /\ transit # <<>>
  /\ received' = Head(transit)
  /\ transit' = Tail(transit)

Next == (\E e \in Events : Send(e)) \/ Lose \/ Receive

Spec == Init /\ [][Next]_<<transit, received>>
=============================================================================
