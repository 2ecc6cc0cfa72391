----------------------------- MODULE MCStationJoin -----------------------------
(* Sessions of three attempts, with a user name and a password or without. *)
EXTENDS StationJoin
=============================================================================
