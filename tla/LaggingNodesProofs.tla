-------------------------- MODULE LaggingNodesProofs --------------------------
(***************************************************************************)
(* Proofs about LaggingNodes, for any number of nodes, any chain and any   *)
(* batch size.                                                             *)
(***************************************************************************)
EXTENDS LaggingNodes, TLAPS

\* What the reader relies on: a node does not answer for blocks it does not
\* have, or a batch stays with the node that named its latest block.
Reliable == Lenient = {} \/ Sticky

\* The blocks passed are parsed, those of the batch so far are fetched.
SeenInv ==
  /\ TypeOK
  /\ \A b \in 1 .. nextBlock - 1 : b \in parsed
  /\ pc = "read" => \A b \in nextBlock .. from - 1 : b \in fetched

-----------------------------------------------------------------------------
\* A batch ends within the chain it was told of, and is not empty.
LEMMA EndFacts ==
  ASSUME NEW start \in Nat, NEW last \in Nat, start <= last
  PROVE  /\ end_block(start, last) \in Nat
         /\ start <= end_block(start, last) /\ end_block(start, last) <= last
BY NodesAssumption DEF end_block

\* A call that is answered is answered by a node that has the blocks.
LEMMA AnswersHave ==
  ASSUME TypeOK, Reliable, NEW n \in Nodes, NEW to \in Blocks,
         pc = "read", n \in Reached, to \in from .. EndBlock, Answers(n, to)
  PROVE  to <= head[n]
<1>1. CASE Lenient = {}
  BY <1>1 DEF Answers
<1>2. CASE Sticky
  <2>1. n = node
    BY <1>2 DEF Reached
  <2>2. /\ nextBlock \in Nat /\ latest \in Nat /\ latest <= head[node]
        /\ head[node] \in Nat /\ to \in Nat
    BY DEF TypeOK, Blocks
  <2>3. EndBlock <= latest /\ EndBlock \in Int
    BY <2>2, NodesAssumption DEF EndBlock, end_block
  <2>4. to <= EndBlock
    BY <2>3
  <2>5. to <= latest
    BY <2>2, <2>3, <2>4
  <2> QED BY <2>1, <2>2, <2>5
<1> QED BY <1>1, <1>2 DEF Reliable

\* The first batch starts at block 1.
LEMMA SeenInit == Init => SeenInv
<1> SUFFICES ASSUME Init PROVE SeenInv
  OBVIOUS
<1>1. TypeOK
  BY NodesAssumption DEF Init, TypeOK, Blocks
<1> QED BY <1>1 DEF Init, SeenInv

\* Every step keeps the types.
LEMMA TypesKept == TypeOK /\ [Next]_vars => TypeOK'
<1> SUFFICES ASSUME TypeOK, [Next]_vars PROVE TypeOK'
  OBVIOUS
<1> USE NodesAssumption
<1>1. CASE UNCHANGED vars
  BY <1>1 DEF vars, reader, TypeOK, EndBlock, end_block
<1>2. CASE EndBatch
  <2>1. nextBlock <= EndBlock /\ EndBlock \in Int
    BY <1>2 DEF EndBatch, TypeOK, EndBlock, end_block
  <2>2. nextBlock' \in Nat
    BY <1>2, <2>1 DEF EndBatch, TypeOK, AfterBatch
  <2> QED BY <1>2, <2>2 DEF EndBatch, reader, TypeOK
<1>3. ASSUME NEW n \in Nodes, GetLatest(n) PROVE TypeOK'
  <2>1. nextBlock \in Nat /\ head[n] \in Nat /\ nextBlock <= head[n]
    BY <1>3 DEF GetLatest, TypeOK, CaughtUp
  <2>2. /\ EndBlock' = end_block(nextBlock, head[n])
        /\ nextBlock <= EndBlock' /\ EndBlock' \in Nat
    BY <1>3, <2>1, EndFacts DEF GetLatest, EndBlock, end_block
  <2>3. node' = n /\ latest' \in 0 .. head'[node'] /\ from' = nextBlock'
    BY <1>3, <2>1 DEF GetLatest
  <2> QED BY <1>3, <2>1, <2>2, <2>3 DEF GetLatest, TypeOK
<1>4. ASSUME NEW n \in Nodes, NEW to \in Blocks, GetLogs(n, to) PROVE TypeOK'
  <2>1. EndBlock' = EndBlock /\ EndBlock \in Int
    BY <1>4 DEF GetLogs, EndBlock, end_block, TypeOK
  <2>2. from' \in Nat /\ from' \in nextBlock .. EndBlock + 1
    BY <1>4, <2>1 DEF GetLogs, TypeOK, Blocks
  <2>3. fetched' \subseteq Nat
    <3>1. from \in Nat /\ head[n] \in Nat /\ to \in Nat /\ fetched \subseteq Nat
      BY DEF TypeOK, Blocks
    <3>2. \A last \in Nat : from .. last \subseteq Nat
      BY <3>1
    <3>3. (IF to <= head[n] THEN to ELSE head[n]) \in Nat
      BY <3>1
    <3> QED BY <1>4, <3>1, <3>2, <3>3 DEF GetLogs
  <2>4. UNCHANGED <<head, pc, node, latest, nextBlock, parsed, drops>>
    BY <1>4 DEF GetLogs
  <2> QED BY <2>1, <2>2, <2>3, <2>4 DEF TypeOK
<1>5. ASSUME NEW n \in Nodes, NEW to \in Blocks, GetLogsFails(n, to) PROVE TypeOK'
  <2>1. EndBlock' = EndBlock /\ EndBlock \in Int
    BY <1>5 DEF GetLogsFails, EndBlock, end_block, TypeOK
  <2> QED BY <1>5, <2>1 DEF GetLogsFails, TypeOK
<1>6. CASE Tick
  BY <1>6 DEF Tick, reader, TypeOK
<1>7. ASSUME NEW n \in Nodes, Idle(n) PROVE TypeOK'
  BY <1>1, <1>7 DEF Idle
<1>8. ASSUME NEW n \in Nodes, NewBlock(n) PROVE TypeOK'
  <2>1. EndBlock' = EndBlock
    BY <1>8 DEF NewBlock, reader, EndBlock, end_block
  <2>2. head' \in [Nodes -> Nat] /\ head[node] <= head'[node]
    BY <1>8 DEF NewBlock, TypeOK
  <2>3. latest' \in 0 .. head'[node']
    BY <1>8, <2>2 DEF NewBlock, reader, TypeOK
  <2> QED BY <1>8, <2>1, <2>2, <2>3 DEF NewBlock, reader, TypeOK
<1> QED BY <1>1, <1>2, <1>3, <1>4, <1>5, <1>6, <1>7, <1>8 DEF Next, Read

\* Every step keeps the invariant, if the reader can rely on its nodes.
LEMMA SeenNext ==
  ASSUME Reliable PROVE SeenInv /\ [Next]_vars => SeenInv'
<1> SUFFICES ASSUME SeenInv, [Next]_vars PROVE SeenInv'
  OBVIOUS
<1> USE NodesAssumption
<1>1. TypeOK /\ TypeOK'
  BY TypesKept DEF SeenInv
<1> DEFINE Seen == /\ \A b \in 1 .. nextBlock - 1 : b \in parsed
                   /\ pc = "read" => \A b \in nextBlock .. from - 1 : b \in fetched
<1>2. Seen
  BY DEF SeenInv
<1>3. CASE UNCHANGED <<pc, from, fetched, nextBlock, parsed>>
  BY <1>1, <1>2, <1>3 DEF SeenInv
<1>4. CASE EndBatch
  <2>1. nextBlock' = EndBlock + 1 /\ from = EndBlock + 1 /\ pc = "read"
    BY <1>1, <1>4 DEF EndBatch, AfterBatch, TypeOK, EndBlock, end_block
  <2>2. parsed' = parsed \union fetched /\ nextBlock' = from /\ pc' = "select"
    BY <1>4, <2>1 DEF EndBatch
  <2>3. ASSUME NEW b \in 1 .. nextBlock' - 1 PROVE b \in parsed'
    <3>1. b \in 1 .. nextBlock - 1 \/ b \in nextBlock .. from - 1
      BY <1>1, <2>2 DEF TypeOK
    <3> QED BY <1>2, <2>1, <2>2, <3>1
  <2> QED BY <1>1, <2>2, <2>3 DEF SeenInv
<1>5. ASSUME NEW n \in Nodes, GetLatest(n) PROVE SeenInv'
  <2>1. /\ from' = nextBlock /\ nextBlock' = nextBlock /\ parsed' = parsed
        /\ nextBlock \in Nat
    BY <1>1, <1>5 DEF GetLatest, TypeOK
  <2>2. \A b \in nextBlock' .. from' - 1 : b \in fetched'
    BY <2>1
  <2> QED BY <1>1, <1>2, <2>1, <2>2 DEF SeenInv
<1>6. ASSUME NEW n \in Nodes, NEW to \in Blocks, GetLogs(n, to) PROVE SeenInv'
  <2>1. /\ pc = "read" /\ n \in Reached /\ to \in from .. EndBlock /\ Answers(n, to)
        /\ fetched' = fetched \union (from .. (IF to <= head[n] THEN to ELSE head[n]))
        /\ from' = to + 1 /\ nextBlock' = nextBlock /\ parsed' = parsed
    BY <1>6 DEF GetLogs
  <2>2. to <= head[n]
    BY <1>1, <2>1, AnswersHave
  <2>3. fetched' = fetched \union (from .. to)
    BY <2>1, <2>2
  <2>4. ASSUME NEW b \in nextBlock' .. from' - 1 PROVE b \in fetched'
    <3>1. b \in nextBlock .. from - 1 \/ b \in from .. to
      BY <1>1, <2>1 DEF TypeOK, Blocks
    <3> QED BY <1>2, <2>1, <2>3, <3>1
  <2> QED BY <1>1, <1>2, <2>1, <2>4 DEF SeenInv
<1>7. ASSUME NEW n \in Nodes, NEW to \in Blocks, GetLogsFails(n, to) PROVE SeenInv'
  <2>1. /\ from' = nextBlock /\ nextBlock' = nextBlock /\ parsed' = parsed
        /\ nextBlock \in Nat
    BY <1>1, <1>7 DEF GetLogsFails, TypeOK
  <2>2. \A b \in nextBlock' .. from' - 1 : b \in fetched'
    BY <2>1
  <2> QED BY <1>1, <1>2, <2>1, <2>2 DEF SeenInv
<1>8. CASE Tick
  BY <1>1, <1>2, <1>8 DEF Tick, SeenInv
<1>9. ASSUME NEW n \in Nodes, Idle(n) \/ NewBlock(n)
      PROVE  UNCHANGED <<pc, from, fetched, nextBlock, parsed>>
  BY <1>9 DEF Idle, NewBlock, vars, reader
<1>10. UNCHANGED vars => UNCHANGED <<pc, from, fetched, nextBlock, parsed>>
  BY DEF vars, reader
<1> QED BY <1>3, <1>4, <1>5, <1>6, <1>7, <1>8, <1>9, <1>10 DEF Next, Read

-----------------------------------------------------------------------------
\* A batch is never empty and ends within the chain of the node that named its
\* latest block, whatever the other nodes answer.
THEOREM BatchesInChain == Spec => []TypeOK
<1>1. Init => TypeOK
  BY SeenInit DEF SeenInv
<1> QED BY <1>1, TypesKept, PTL DEF Spec

\* Any number of nodes may be behind by any number of blocks, and any call may
\* be answered by any of them: the reader passes no block it has not seen, if
\* nodes refuse the blocks they do not have or a batch stays with one node.
\* Where neither is so it may pass some: TLC finds it with a lenient node.
THEOREM LaggingNodesHideNothing ==
  ASSUME Reliable PROVE Spec => []NothingMissed
<1>1. SeenInv => NothingMissed
  BY DEF SeenInv, NothingMissed, TypeOK, Blocks
<1>2. SeenInv /\ [Next]_vars => SeenInv'
  BY SeenNext
<1> QED BY <1>1, <1>2, SeenInit, PTL DEF Spec
-----------------------------------------------------------------------------
(* The nodes together, as one chain.                                       *)

\* What is fetched of a batch is what lies before from, and no more.
FetchedInv == pc = "read" => fetched = nextBlock .. from - 1

\* Every step keeps it, if the reader can rely on its nodes.
LEMMA FetchedNext ==
  ASSUME Reliable, TypeOK, FetchedInv, [Next]_vars
  PROVE  FetchedInv'
<1> USE DEF FetchedInv
<1>1. CASE \/ UNCHANGED vars \/ EndBatch \/ Tick \/ \E n \in Nodes : Idle(n) \/ NewBlock(n)
  BY <1>1 DEF vars, reader, EndBatch, Tick, Idle, NewBlock
<1>2. ASSUME NEW n \in Nodes, NEW to \in Blocks, GetLogs(n, to) PROVE FetchedInv'
  <2>1. /\ pc = "read" /\ n \in Reached /\ to \in from .. EndBlock /\ Answers(n, to)
        /\ fetched' = fetched \union (from .. (IF to <= head[n] THEN to ELSE head[n]))
        /\ from' = to + 1 /\ nextBlock' = nextBlock
    BY <1>2 DEF GetLogs
  <2>2. to <= head[n]
    BY <2>1, AnswersHave
  <2>3. fetched' = (nextBlock .. from - 1) \union (from .. to)
    BY <2>1, <2>2
  <2>4. nextBlock \in Nat /\ from \in Nat /\ nextBlock <= from /\ to \in Nat /\ from <= to
    BY <2>1 DEF TypeOK, Blocks
  <2>5. (nextBlock .. from - 1) \union (from .. to) = nextBlock .. (to + 1) - 1
    BY <2>4
  <2> QED BY <2>1, <2>3, <2>5
<1>3. ASSUME NEW n \in Nodes, \/ GetLatest(n)
                              \/ \E to \in Blocks : GetLogsFails(n, to)
      PROVE  FetchedInv'
  <2>1. fetched' = {} /\ from' = nextBlock /\ nextBlock' = nextBlock /\ nextBlock \in Nat
    BY <1>3 DEF GetLatest, GetLogsFails, TypeOK
  <2> QED BY <2>1
<1> QED BY <1>1, <1>2, <1>3 DEF Next, Read

\* Nodes that are behind each other, bisections, refusals and dropped batches
\* and all, the reader goes through one chain as BatchReads says: that is why
\* Ingestor may have a batch read in one step, from one chain.
THEOREM NodesMakeOneChain ==
  ASSUME Reliable PROVE Spec => BatchReadsSpec
<1>1. Init => Reads!Init /\ FetchedInv
  <2> SUFFICES ASSUME Init PROVE Reads!Init /\ FetchedInv
    OBVIOUS
  <2>1. \A n \in Nodes : 1 .. head[n] \subseteq Nat
    BY NodesAssumption DEF Init, Blocks
  <2>2. UNION {1 .. head[n] : n \in Nodes} \subseteq Nat
    BY <2>1
  <2> QED BY <2>2 DEF Init, Reads!Init, FetchedInv
<1>2. TypeOK /\ TypeOK' /\ FetchedInv /\ FetchedInv' /\ [Next]_vars
        => [Reads!Next]_(Reads!rvars)
  <2> SUFFICES ASSUME TypeOK, TypeOK', FetchedInv, FetchedInv', [Next]_vars
               PROVE  Reads!Next \/ UNCHANGED Reads!rvars
    OBVIOUS
  <2> DEFINE Whole == pc = "read" /\ from > EndBlock
             Chain == UNION {1 .. head[n] : n \in Nodes}
  <2>0. /\ nextBlock \in Nat /\ from \in Nat /\ latest \in Nat
        /\ EndBlock \in Int /\ latest <= head[node] /\ EndBlock <= latest
        /\ node \in Nodes /\ head[node] \in Nat
        /\ pc = "read" => nextBlock <= EndBlock /\ from <= EndBlock + 1
    <3>1. nextBlock \in Nat /\ from \in Nat /\ latest \in Nat /\ latest <= head[node]
          /\ node \in Nodes /\ head[node] \in Nat
      BY DEF TypeOK
    <3>2. EndBlock \in Int /\ EndBlock <= latest
      BY <3>1, NodesAssumption DEF EndBlock, end_block
    <3> QED BY <3>1, <3>2 DEF TypeOK
  <2>1. ASSUME ~Whole, ~Whole', UNCHANGED <<head, nextBlock>>
        PROVE  UNCHANGED Reads!rvars
    BY <2>1 DEF Reads!rvars
  <2>2. CASE UNCHANGED vars
    BY <2>2 DEF vars, reader, Reads!rvars, EndBlock
  <2>3. ASSUME NEW n \in Nodes, GetLatest(n) PROVE UNCHANGED Reads!rvars
    <3>1. pc = "select" /\ UNCHANGED <<head, nextBlock>> /\ from' = nextBlock' /\ pc' = "read"
      BY <2>3 DEF GetLatest
    <3>2. nextBlock \in Nat /\ head[n] \in Nat /\ nextBlock <= head[n]
      BY <2>3 DEF GetLatest, CaughtUp, TypeOK
    <3>3. EndBlock' = end_block(nextBlock, head[n]) /\ EndBlock' \in Nat /\ nextBlock <= EndBlock'
      BY <2>3, <3>2, EndFacts DEF GetLatest, EndBlock, end_block
    <3>4. ~(from' > EndBlock')
      BY <3>1, <3>2, <3>3
    <3> QED BY <2>1, <3>1, <3>4
  <2>4. ASSUME NEW n \in Nodes, NEW to \in Blocks, GetLogs(n, to)
        PROVE  Reads!Next \/ UNCHANGED Reads!rvars
    <3>1. /\ pc = "read" /\ to \in from .. EndBlock /\ from' = to + 1 /\ pc' = "read"
          /\ UNCHANGED <<head, nextBlock>> /\ EndBlock' = EndBlock /\ to \in Nat \ {0}
      BY <2>4 DEF GetLogs, EndBlock, Blocks
    <3>2. ~Whole
      BY <2>0, <3>1
    <3>3. CASE to # EndBlock
      <4>1. ~(from' > EndBlock')
        BY <2>0, <3>1, <3>3
      <4> QED BY <2>1, <3>1, <3>2, <4>1
    <3>4. CASE to = EndBlock
      <4>1. Whole' /\ fetched' = nextBlock .. EndBlock
        <5>1. from' - 1 = EndBlock /\ from' > EndBlock'
          BY <2>0, <3>1, <3>4
        <5> QED BY <3>1, <5>1 DEF FetchedInv
      <4>2. EndBlock \in 1 .. head[node]
        BY <2>0, <3>1, <3>4
      <4>3. EndBlock \in Chain /\ nextBlock <= EndBlock /\ nextBlock # -1
        BY <2>0, <3>1, <4>2
      <4>4. Reads!Read
        BY <3>1, <3>2, <4>1, <4>3 DEF Reads!Read, Reads!None
      <4> QED BY <4>4 DEF Reads!Next
    <3> QED BY <3>3, <3>4
  <2>5. ASSUME NEW n \in Nodes, NEW to \in Blocks, GetLogsFails(n, to)
        PROVE  UNCHANGED Reads!rvars
    <3>1. /\ pc = "read" /\ to \in from .. EndBlock /\ from' = nextBlock
          /\ UNCHANGED <<head, nextBlock>> /\ EndBlock' = EndBlock
      BY <2>5 DEF GetLogsFails, EndBlock
    <3>2. ~Whole /\ ~(from' > EndBlock')
      BY <2>0, <3>1
    <3> QED BY <2>1, <3>1, <3>2
  <2>6. CASE EndBatch
    <3>1. Whole /\ pc' = "select" /\ nextBlock' = EndBlock + 1 /\ head' = head
      BY <2>6 DEF EndBatch, AfterBatch
    <3>2. fetched = nextBlock .. EndBlock
      <4>1. from - 1 = EndBlock
        BY <2>0, <3>1
      <4> QED BY <3>1, <4>1 DEF FetchedInv
    <3>3. EndBlock \in nextBlock .. EndBlock /\ \A b \in nextBlock .. EndBlock : b <= EndBlock
      BY <2>0, <3>1
    <3>4. Reads!Take
      BY <3>1, <3>2, <3>3 DEF Reads!Take
    <3> QED BY <3>4 DEF Reads!Next
  <2>7. CASE Tick
    <3>1. Reads!Drop
      BY <2>7 DEF Tick, Reads!Drop
    <3> QED BY <3>1 DEF Reads!Next
  <2>8. ASSUME NEW n \in Nodes, NewBlock(n) PROVE Reads!Next
    <3>1. /\ UNCHANGED <<pc, from, fetched, nextBlock, latest>>
          /\ head' = [head EXCEPT ![n] = @ + 1] /\ head \in [Nodes -> Nat]
      BY <2>8 DEF NewBlock, reader, TypeOK
    <3>2. \A k \in Nodes : 1 .. head[k] \subseteq 1 .. head'[k] /\ 1 .. head'[k] \subseteq Nat
      BY <3>1
    <3>3. Chain \subseteq Chain' /\ Chain' \subseteq Nat
      BY <3>2
    <3>4. EndBlock' = EndBlock
      BY <3>1 DEF EndBlock
    <3>5. Reads!Grow
      BY <3>1, <3>3, <3>4 DEF Reads!Grow
    <3> QED BY <3>5 DEF Reads!Next
  <2>9. ASSUME NEW n \in Nodes, Idle(n) PROVE UNCHANGED vars
    BY <2>9 DEF Idle
  <2> QED BY <2>2, <2>3, <2>4, <2>5, <2>6, <2>7, <2>8, <2>9 DEF Next, Read
<1>3. TypeOK /\ FetchedInv /\ [Next]_vars => FetchedInv'
  BY FetchedNext
<1> QED BY <1>1, <1>2, <1>3, BatchesInChain, PTL DEF Spec, BatchReadsSpec, Reads!Spec
=============================================================================
