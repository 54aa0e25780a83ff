---------------------------- MODULE MCLaggingNodes ----------------------------
(* Instances of LaggingNodes for TLC.                                      *)
EXTENDS LaggingNodes

CONSTANTS n1, n2
=============================================================================
