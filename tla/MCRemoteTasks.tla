--------------------------- MODULE MCRemoteTasks ---------------------------
(***************************************************************************)
(* RemoteTasks for TLC.                                                    *)
(***************************************************************************)
EXTENDS RemoteTasks, TLC

(* Agents are interchangeable in every safety property.                    *)
Symmetry == Permutations(Agent)
=============================================================================
