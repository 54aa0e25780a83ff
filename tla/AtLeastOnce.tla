----------------------------- MODULE AtLeastOnce -----------------------------
(***************************************************************************)
(* What the ingestor promises, with none of its machinery: messages of     *)
(* blocks the chain already has reach the stream in some order, and the    *)
(* durable cursor may be moved to a block only when every message that is  *)
(* due up to that block is on the stream.                                  *)
(***************************************************************************)
EXTENDS Integers

CONSTANTS BlockOf,       \* the block of every message
          FirstBlock,    \* where the deployment starts
          InitialBlock,  \* the block of the configuration, see Due
          InitialDisk    \* the cursor the deployment starts with

VARIABLES head, delivered, cursor

Msgs == DOMAIN BlockOf

\* The messages the cursor speaks for.  The block named by INITIAL_BLOCK is
\* not one of them: a fresh start writes it to the state file before it is
\* read, so the file says nothing about it.
Due(m) == BlockOf[m] >= FirstBlock /\ BlockOf[m] # InitialBlock

Covered(c) == \A m \in Msgs : Due(m) /\ BlockOf[m] <= c => m \in delivered

Init == /\ head \in Nat
        /\ delivered = {}
        /\ cursor = InitialDisk

Grow == /\ head' > head
        /\ UNCHANGED <<delivered, cursor>>

Deliver(m) == /\ BlockOf[m] <= head
              /\ delivered' = delivered \union {m}
              /\ UNCHANGED <<head, cursor>>

MoveCursor == /\ cursor' \in Nat
              /\ Covered(cursor')
              /\ UNCHANGED <<head, delivered>>

Next == \/ Grow
        \/ \E m \in Msgs : Deliver(m)
        \/ MoveCursor

avars == <<head, delivered, cursor>>

Spec == Init /\ [][Next]_avars
=============================================================================
