----------------------------- MODULE AuditLedger -----------------------------
(***************************************************************************)
(* What the agent pipeline promises about its audit trail, with no queues, *)
(* tasks or threads: every raised signal is settled at most once, either   *)
(* logged or lost; and enforcement is serial, so that once an action has   *)
(* been taken for a signal nothing else is acted on or logged before that  *)
(* signal is.                                                              *)
(***************************************************************************)
CONSTANTS Signals, None

VARIABLES
  status,   \* what has become of each signal
  acting    \* the signal acted on whose entry is not in the log yet, or None

ledger == <<status, acting>>

Init ==
  /\ status = [s \in Signals |-> "unseen"]
  /\ acting = None

Move(s, from, to) ==
  /\ status[s] = from
  /\ status' = [status EXCEPT ![s] = to]

Raise(s) == Move(s, "unseen", "pending") /\ UNCHANGED acting

Act(s) ==
  /\ status[s] = "pending" /\ acting = None
  /\ acting' = s
  /\ UNCHANGED status

Log(s) ==
  /\ Move(s, "pending", "logged")
  /\ acting \in {None, s}
  /\ acting' = None

\* a signal acted on and then lost stays the acting one: the log stops
Lose(s) == Move(s, "pending", "lost") /\ UNCHANGED acting

Next == \E s \in Signals : Raise(s) \/ Act(s) \/ Log(s) \/ Lose(s)

Spec == Init /\ [][Next]_ledger
=============================================================================
