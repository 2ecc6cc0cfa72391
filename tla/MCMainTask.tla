------------------------------ MODULE MCMainTask ------------------------------
(* Two chunks of networks, a request during the scan of another, an image of *)
(* two blocks that is read two at a time or less. *)
EXTENDS MainTask
=============================================================================
