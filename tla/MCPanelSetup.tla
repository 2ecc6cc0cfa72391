----------------------------- MODULE MCPanelSetup -----------------------------
(* The panel's settings with one brightness beside the default. *)
EXTENDS PanelSetup
=============================================================================
