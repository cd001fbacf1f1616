---------------------------- MODULE MCFrontend ----------------------------
(* Instances of Frontend for TLC: the constants are in the cfgs.           *)
EXTENDS Frontend
=============================================================================
