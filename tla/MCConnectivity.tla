---------------------------- MODULE MCConnectivity ----------------------------
(* Connectivity as it stands: every variable has a few values. *)
EXTENDS Connectivity
===============================================================================
