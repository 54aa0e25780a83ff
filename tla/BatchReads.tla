------------------------------ MODULE BatchReads ------------------------------
(***************************************************************************)
(* How the ingestor goes through the chain, whatever it takes to read a    *)
(* batch: it has one batch at a time, of all the blocks from the next one  *)
(* to one the chain has, and moves on behind it only as a whole.  A batch  *)
(* may be dropped, and is then read again, perhaps with another end.       *)
(***************************************************************************)
EXTENDS Integers

VARIABLES
  chain,   \* the blocks that exist
  next,    \* the first block that is not behind the reader, None without one
  batch    \* the blocks of the batch in hand, {} if there is none

None == -1

Init ==
  /\ chain \subseteq Nat
  /\ next \in Nat \union {None}
  /\ batch = {}

Grow ==
  /\ chain' \subseteq Nat /\ chain \subseteq chain'
  /\ UNCHANGED <<next, batch>>

Start ==
  /\ next = None
  /\ next' \in Nat
  /\ UNCHANGED <<chain, batch>>

Read ==
  /\ next # None /\ batch = {}
  /\ \E last \in chain : next <= last /\ batch' = next .. last
  /\ UNCHANGED <<chain, next>>

Take ==
  /\ \E last \in batch : (\A b \in batch : b <= last) /\ next' = last + 1
  /\ batch' = {}
  /\ UNCHANGED chain

Drop ==
  /\ batch' = {}
  /\ UNCHANGED <<chain, next>>

Stop ==
  /\ next' = None /\ batch' = {}
  /\ UNCHANGED chain

Next == Grow \/ Start \/ Read \/ Take \/ Drop \/ Stop

rvars == <<chain, next, batch>>

Spec == Init /\ [][Next]_rvars
=============================================================================
