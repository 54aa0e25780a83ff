------------------------------- MODULE MCHealth -------------------------------
(* Instances of Health for TLC.                                            *)
EXTENDS Health

\* A batch of two transactions in one block.
Blocks11 == <<1, 1>>
=============================================================================
