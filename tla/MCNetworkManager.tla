-------------------------- MODULE MCNetworkManager --------------------------
(* NetworkManager on one access point and a clock that wraps early. *)
EXTENDS NetworkManager
=============================================================================
