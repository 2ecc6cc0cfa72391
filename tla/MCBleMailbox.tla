---------------------------- MODULE MCBleMailbox ----------------------------
(* BleMailbox with three submissions, so that one take can meet two. *)
EXTENDS BleMailbox
=============================================================================
