-------------------------------- MODULE MCRefresh --------------------------------
(* RefreshChains for TLC: the constants are given in MCRefresh.cfg. *)
EXTENDS RefreshChains
=============================================================================
