--------------------------- MODULE MCEnforcement ---------------------------
(* Instances of Enforcement for TLC: the constants are given in the .cfg.   *)
EXTENDS Enforcement
=============================================================================
