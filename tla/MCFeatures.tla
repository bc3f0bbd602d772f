---------------------------- MODULE MCFeatures ----------------------------
(* Instances of Features for TLC, with every width scaled down.            *)
EXTENDS Features
=============================================================================
