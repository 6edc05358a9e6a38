--------------------------- MODULE MCAgentRegistry ---------------------------
(* Instances of AgentRegistry for TLC.                                     *)
EXTENDS AgentRegistry, TLC

(* Machines and tokens are interchangeable.  Only for runs without         *)
(* liveness properties.                                                    *)
Symmetry == Permutations(Agent) \cup Permutations(Token)
=============================================================================
