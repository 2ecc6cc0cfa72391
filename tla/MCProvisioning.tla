--------------------------- MODULE MCProvisioning ---------------------------
(* Provisioning with two access points, two pairing tokens and two writes. *)
EXTENDS Provisioning
=============================================================================
