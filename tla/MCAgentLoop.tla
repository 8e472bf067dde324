----------------------------- MODULE MCAgentLoop -----------------------------
(* Two modes of which one is deeper, one irreversible target. *)
EXTENDS AgentLoop

TwoModes == {"solve", "find"}
DepthOf  == [m \in TwoModes |-> IF m = "solve" THEN 2 ELSE 0]
=============================================================================
