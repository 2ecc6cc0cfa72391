------------------------------ MODULE MCWifiScan ------------------------------
(* Two chunks, and a request during the scan of another. *)
EXTENDS WifiScan
=============================================================================
