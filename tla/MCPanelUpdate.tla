--------------------------- MODULE MCPanelUpdate ---------------------------
(* PanelUpdate on a small instance.                                        *)
EXTENDS PanelUpdate
=============================================================================
