---------------------------- MODULE MCStateDrift ----------------------------
(* StateDrift on a small instance.  Contents of the state file are         *)
(* interchangeable in everything but the liveness property.                *)
EXTENDS StateDrift
=============================================================================
