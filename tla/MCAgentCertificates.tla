------------------------ MODULE MCAgentCertificates ------------------------
(* Instance of AgentCertificates for TLC.  Agents do not act on each other *)
(* and act on no file of the panel: one Agent meets every case.            *)
EXTENDS AgentCertificates
CONSTANT a1
MCAgent == {a1}
=============================================================================
