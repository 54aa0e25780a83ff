----------------------------- MODULE LaggingNodes -----------------------------
(***************************************************************************)
(* One RPC endpoint, several nodes behind it.  get_latest_block and each   *)
(* call of get_logs may be answered by another node, and the nodes learn   *)
(* of new blocks at different times.  Asked for blocks it does not have, a *)
(* strict node returns an error and a lenient one the logs it has, as if   *)
(* there were no more.  In Ingestor all calls see one chain; here is what  *)
(* that takes.                                                             *)
(***************************************************************************)
EXTENDS Integers

CONSTANTS
  Nodes,
  Lenient,    \* the nodes that answer for blocks they do not have
  Sticky,     \* is a batch read from the node that named its latest block?
  MaxBlock,   \* bound: the chain stops growing here
  BatchSize,  \* config chain.batch_size
  MaxDrops    \* bound on ticks that drop the reader block

ASSUME NodesAssumption ==
  /\ Lenient \subseteq Nodes
  /\ Sticky \in BOOLEAN
  /\ MaxBlock \in Nat /\ MaxDrops \in Nat
  /\ BatchSize \in Nat \ {0}

VARIABLES
  head,       \* head[n]: the last block node n has
  pc,         \* the await the reader block is at
  node,       \* the node that answered get_latest_block
  latest,     \* what it said
  from,       \* the first block of the batch that is not fetched yet
  fetched,    \* blocks whose logs are in the batch
  nextBlock,
  parsed,     \* blocks whose logs were in a finished batch
  drops

reader == <<node, latest, from, fetched>>
vars == <<head, pc, reader, nextBlock, parsed, drops>>

Blocks == 1 .. MaxBlock

-----------------------------------------------------------------------------
(* Faulty variants: the bugs the checked properties are meant to catch.    *)

BehindLatest == latest + 1

CaughtUpOneEarly(next, last) == next >= last

CaughtUpOneLate(next, last) == next > last + 1

-----------------------------------------------------------------------------
\* read_batch: the last block of the batch.
end_block(start, last) ==
  IF start + BatchSize - 1 < last THEN start + BatchSize - 1 ELSE last

EndBlock == end_block(nextBlock, latest)

\* The check after get_latest_block: nothing to read.
CaughtUp(next, last) == next > last

\* The nodes a call of get_logs may reach.
Reached == IF Sticky THEN {node} ELSE Nodes

Answers(n, to) == n \in Lenient \/ to <= head[n]

-----------------------------------------------------------------------------
Init ==
  /\ head \in [Nodes -> Blocks \union {0}]
  /\ pc = "select"
  /\ node \in Nodes /\ latest = 0 /\ from = 1 /\ fetched = {}
  /\ nextBlock = 1 /\ parsed = {} /\ drops = 0

\* A poll that finds nothing new changes nothing: the reader sleeps for
\* poll_delay and asks again.
GetLatest(n) ==
  /\ pc = "select"
  /\ ~CaughtUp(nextBlock, head[n])
  /\ pc' = "read"
  /\ node' = n /\ latest' = head[n]
  /\ from' = nextBlock /\ fetched' = {}
  /\ UNCHANGED <<head, nextBlock, parsed, drops>>

Idle(n) ==
  /\ pc = "select"
  /\ CaughtUp(nextBlock, head[n])
  /\ UNCHANGED vars

\* get_logs for the rest of the batch or, after a bisection, for a part of it.
GetLogs(n, to) ==
  /\ pc = "read" /\ n \in Reached /\ to \in from .. EndBlock
  /\ Answers(n, to)
  /\ fetched' = fetched \union (from .. (IF to <= head[n] THEN to ELSE head[n]))
  /\ from' = to + 1
  /\ UNCHANGED <<head, pc, node, latest, nextBlock, parsed, drops>>

\* The node returns an error: read_batch_with_retry begins the batch again.
GetLogsFails(n, to) ==
  /\ pc = "read" /\ n \in Reached /\ to \in from .. EndBlock
  /\ ~Answers(n, to)
  /\ from' = nextBlock /\ fetched' = {}
  /\ UNCHANGED <<head, pc, node, latest, nextBlock, parsed, drops>>

\* Where the next batch starts.
AfterBatch == EndBlock + 1

EndBatch ==
  /\ pc = "read" /\ from > EndBlock
  /\ pc' = "select"
  /\ parsed' = parsed \union fetched
  /\ nextBlock' = AfterBatch
  /\ UNCHANGED <<head, reader, drops>>

Read ==
  \/ EndBatch
  \/ \E n \in Nodes : \/ GetLatest(n)
                      \/ \E to \in Blocks : GetLogs(n, to) \/ GetLogsFails(n, to)

\* A tick drops the reader block: the next one asks for the latest block again.
Tick ==
  /\ pc = "read" /\ drops < MaxDrops
  /\ drops' = drops + 1
  /\ pc' = "select"
  /\ UNCHANGED <<head, reader, nextBlock, parsed>>

NewBlock(n) ==
  /\ head[n] < MaxBlock
  /\ head' = [head EXCEPT ![n] = @ + 1]
  /\ UNCHANGED <<pc, reader, nextBlock, parsed, drops>>

Next ==
  \/ Read \/ Tick
  \/ \E n \in Nodes : Idle(n) \/ NewBlock(n)

\* The reader goes on asking, and every node learns of every block.
Fairness == WF_vars(Read) /\ \A n \in Nodes : WF_vars(NewBlock(n))

Spec == Init /\ [][Next]_vars /\ Fairness

-----------------------------------------------------------------------------
\* Among the types: a batch is never empty, and ends within the chain of the
\* node that named its latest block.
TypeOK ==
  /\ head \in [Nodes -> Nat]
  /\ pc \in {"select", "read"}
  /\ node \in Nodes /\ latest \in 0 .. head[node] /\ from \in Nat /\ nextBlock \in Nat
  /\ pc = "read" => nextBlock <= EndBlock /\ from \in nextBlock .. EndBlock + 1
  /\ fetched \subseteq Nat /\ parsed \subseteq Nat
  /\ drops \in 0 .. MaxDrops

\* README: every event log is parsed.  What the reader has passed, it has
\* seen, although no two of its calls need be answered by the same node, and
\* although batches are dropped and begun again from another node.
NothingMissed == \A b \in Blocks : b < nextBlock => b \in parsed

\* The reader goes through the chain of all nodes together as if it were one:
\* a batch that is fetched to its end has all its blocks.
Reads ==
  INSTANCE BatchReads
    WITH chain <- UNION {1 .. head[n] : n \in Nodes}, next <- nextBlock,
         batch <- IF pc = "read" /\ from > EndBlock THEN fetched ELSE {}
BatchReadsSpec == Reads!Spec

\* Nodes that are behind when they are asked hold the reader up, not back: in
\* the end it reads the whole chain.
ReadsAll == <>(nextBlock = MaxBlock + 1)
=============================================================================
