------------------------------ MODULE MCIngestor ------------------------------
(* Instances of Ingestor for TLC.                                          *)
EXTENDS Ingestor

\* Two transactions in block 3, so that a batch can be dropped between them.
Blocks133 == <<1, 3, 3>>

\* The block of INITIAL_BLOCK, and the one after it, hold a transaction.
Blocks12 == <<1, 2>>

\* A batch of two transactions in one block.
Blocks11 == <<1, 1>>

\* The same in the block after INITIAL_BLOCK.
Blocks22 == <<2, 2>>
=============================================================================
