--------------------------- MODULE MCAgentPipeline ---------------------------
(* An instance of AgentPipeline for TLC: three signals of two processes.     *)
EXTENDS AgentPipeline, TLC

CONSTANTS s1, s2, s3, p1, p2

AllSignals == {s1, s2, s3}
AllPidOf   == s1 :> p1 @@ s2 :> p2 @@ s3 :> p1
=============================================================================
