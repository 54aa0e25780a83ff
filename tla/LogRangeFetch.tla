---------------------------- MODULE LogRangeFetch ----------------------------
(***************************************************************************)
(* How one batch is read: BlockReader::read_batch_with_retry around        *)
(* split_logs_on_error, which bisects a range of blocks for as long as the *)
(* provider rejects it as too large, under the flush tick of the main      *)
(* loop, which drops an unfinished read.  Ingestor has the whole read as   *)
(* one step; here are its calls.                                           *)
(*                                                                         *)
(* A range is a pair <<from, to>>.  The work stack is a sequence with its  *)
(* top at the head.  Time is counted in awaits: each takes one unit, a     *)
(* flush_interval is FlushInterval units, and the tick, which precedes the *)
(* reader in the biased select, is taken when it is due.                   *)
(***************************************************************************)
EXTENDS Integers, Sequences, ErrorClass

CONSTANTS
  LastBlock,      \* latest block of the chain; it does not grow here
  BatchSize,      \* config chain.batch_size
  Providers,      \* the sets of ranges a provider may answer
  Rejections,     \* the errors it rejects the other ranges with
  Transients,     \* the errors any call may fail with
  FlushInterval,  \* config app.flush_interval, in awaits
  MaxFaults       \* bound on transient errors

Ranges == {r \in (1 .. LastBlock) \X (1 .. LastBlock) : r[1] <= r[2]}

ASSUME FetchAssumption ==
  /\ LastBlock \in Nat
  /\ BatchSize \in Nat \ {0}
  /\ Providers \subseteq SUBSET Ranges
  /\ Rejections \subseteq Errors /\ Transients \subseteq Errors
  /\ FlushInterval \in Nat \ {0}
  /\ MaxFaults \in Nat

VARIABLES
  fits,     \* the ranges this provider answers; it rejects the others
  start,    \* next_block
  phase,    \* the await the task is at, or "read" for a batch that is read
  stack,    \* split_logs_on_error: ranges to fetch
  logs,     \* split_logs_on_error: ranges fetched, in the order of their logs
  spent,    \* units since the last tick
  faults    \* transient errors so far

vars == <<fits, start, phase, stack, logs, spent, faults>>

-----------------------------------------------------------------------------
(* Faulty variants: the bugs the checked properties are meant to catch.    *)

HalvesSwapped(r) == <<<<r[1] + (r[2] - r[1]) \div 2 + 1, r[2]>>,
                      <<r[1], r[1] + (r[2] - r[1]) \div 2>>>>

HalvesUneven(r) == <<<<r[1], r[2] - 1>>, <<r[2], r[2]>>>>

UnclampedEndBlock == start + BatchSize - 1

-----------------------------------------------------------------------------
\* read_batch: the last block of the batch.
EndBlock == IF start + BatchSize - 1 < LastBlock THEN start + BatchSize - 1
                                                 ELSE LastBlock

\* The two halves of a range, in the order they are fetched.
Halves(r) == LET mid == r[1] + (r[2] - r[1]) \div 2
             IN <<<<r[1], mid>>, <<mid + 1, r[2]>>>>

\* An await of the reader completes before the tick is due.
Await == spent < FlushInterval /\ spent' = spent + 1

DropFetch == stack' = <<>> /\ logs' = <<>>

-----------------------------------------------------------------------------
Init ==
  /\ fits \in Providers
  /\ start = 1
  /\ phase = "latest" /\ stack = <<>> /\ logs = <<>>
  /\ spent = 0 /\ faults = 0

\* get_latest_block answers and a batch is begun.
BeginBatch ==
  /\ phase = "latest" /\ start <= LastBlock
  /\ Await
  /\ phase' = "fetch"
  /\ stack' = <<<<start, EndBlock>>>>
  /\ logs' = <<>>
  /\ UNCHANGED <<fits, start, faults>>

\* No new block: poll_delay.
Idle ==
  /\ phase = "latest" /\ start > LastBlock
  /\ Await
  /\ UNCHANGED <<fits, start, phase, stack, logs, faults>>

Fetched ==
  /\ phase = "fetch" /\ stack # <<>> /\ Head(stack) \in fits
  /\ Await
  /\ stack' = Tail(stack)
  /\ logs' = Append(logs, Head(stack))
  /\ UNCHANGED <<fits, start, phase, faults>>

\* fetch fails with e: the range is too large for the provider, or it is one
\* of the transient errors, of which there are few.
Fails(e) ==
  /\ phase = "fetch" /\ stack # <<>>
  /\ \/ e \in Rejections /\ Head(stack) \notin fits /\ UNCHANGED faults
     \/ e \in Transients /\ faults < MaxFaults /\ faults' = faults + 1
  /\ Await

\* The error says the range is too large, and it has more than one block.
Split(e) ==
  /\ Fails(e)
  /\ is_log_response_too_large(e) /\ Head(stack)[1] < Head(stack)[2]
  /\ stack' = Halves(Head(stack)) \o Tail(stack)
  /\ UNCHANGED <<fits, start, phase, logs>>

\* Faulty variant: the block that is too large is left out.
SkipIrreducible(e) ==
  /\ Fails(e)
  /\ is_log_response_too_large(e) /\ ~ Head(stack)[1] < Head(stack)[2]
  /\ stack' = Tail(stack)
  /\ logs' = Append(logs, Head(stack))
  /\ UNCHANGED <<fits, start, phase>>

\* One block that is too large: a retry of the whole batch after retry_delay.
Irreducible(e) ==
  /\ Fails(e)
  /\ is_log_response_too_large(e) /\ ~ Head(stack)[1] < Head(stack)[2]
  /\ phase' = "sleep"
  /\ DropFetch
  /\ UNCHANGED <<fits, start>>

\* Faulty variant: an error ends the batch with the logs it has so far.
ReturnPartial(e) ==
  /\ Fails(e)
  /\ ~ is_log_response_too_large(e)
  /\ phase' = "read"
  /\ stack' = <<>>
  /\ UNCHANGED <<fits, start, logs>>

\* Any other error, a rate limit among them: the same.
FetchError(e) ==
  /\ Fails(e)
  /\ ~ is_log_response_too_large(e)
  /\ phase' = "sleep"
  /\ DropFetch
  /\ UNCHANGED <<fits, start>>

\* retry_delay has passed: read_batch_with_retry begins the batch again, up
\* to the block it was told was the latest.
Retry ==
  /\ phase = "sleep"
  /\ Await
  /\ phase' = "fetch"
  /\ stack' = <<<<start, EndBlock>>>>
  /\ UNCHANGED <<fits, start, logs, faults>>

\* The stack is empty: the batch is returned.
Return ==
  /\ phase = "fetch" /\ stack = <<>>
  /\ phase' = "read"
  /\ UNCHANGED <<fits, start, stack, logs, spent, faults>>

\* The batch is published and next_block moves behind it.
NextBatch ==
  /\ phase = "read"
  /\ start' = EndBlock + 1
  /\ phase' = "latest"
  /\ DropFetch
  /\ UNCHANGED <<fits, spent, faults>>

\* The tick drops the reader block: the next one begins with its first await
\* and an empty stack.
Tick ==
  /\ spent = FlushInterval /\ phase \in {"latest", "fetch", "sleep"}
  /\ phase = "fetch" => stack # <<>>
  /\ phase' = "latest"
  /\ DropFetch
  /\ spent' = 0
  /\ UNCHANGED <<fits, start, faults>>

Next ==
  \/ BeginBatch \/ Idle \/ Fetched
  \/ \E e \in Rejections \union Transients :
       Split(e) \/ Irreducible(e) \/ FetchError(e)
  \/ Retry \/ Return \/ NextBatch \/ Tick

Spec == Init /\ [][Next]_vars

\* One task runs all of it and is never blocked: some step is always taken.
FairSpec == Spec /\ WF_vars(Next)

-----------------------------------------------------------------------------
(* Properties.                                                             *)

\* What is fetched are ranges of blocks the chain has: a batch ends at its head.
TypeOK ==
  /\ fits \subseteq Ranges
  /\ start \in Nat \ {0}
  /\ phase \in {"latest", "fetch", "sleep", "read"}
  /\ stack \in Seq(Ranges) /\ logs \in Seq(Ranges)
  /\ spent \in 0 .. FlushInterval
  /\ faults \in 0 .. MaxFaults

\* The ranges rs follow each other without gap or overlap.
Consecutive(rs) ==
  /\ \A i \in 1 .. Len(rs) : rs[i][1] <= rs[i][2]
  /\ \A i \in 1 .. Len(rs) - 1 : rs[i + 1][1] = rs[i][2] + 1

Tiles(rs, first, last) ==
  /\ rs # <<>>
  /\ Consecutive(rs)
  /\ rs[1][1] = first /\ rs[Len(rs)][2] = last

\* At every moment what is fetched, followed by what is left to fetch, is the
\* whole range of the batch, in block order: bisection neither skips a block,
\* nor reads one twice, nor changes the order of the logs.
WholeRange ==
  phase \in {"fetch", "read"} => Tiles(logs \o stack, start, EndBlock)

\* A batch is returned only when the provider has answered for each part of
\* it: a block it cannot answer for is not dropped.
OnlyAnswered == \A i \in 1 .. Len(logs) : logs[i] \in fits

PowerOfTwo[n \in Nat] == IF n = 0 THEN 1 ELSE 2 * PowerOfTwo[n - 1]

\* Bisection halves: the stack stays logarithmic in the size of the batch.
StackIsSmall == Len(stack) <= 1 \/ PowerOfTwo[Len(stack) - 2] < BatchSize

\* Only a range that is too large is bisected: a rate limit, whatever its
\* wording, does not make the ingestor send two calls for one.
BisectsOnlyRefused ==
  [][phase = "fetch" /\ phase' = "fetch" /\ Len(stack') > Len(stack) =>
       Head(stack) \notin fits]_vars

\* All these calls amount to one step: the batch that is returned covers all
\* blocks from next_block to its end, and next_block moves behind it.
BlocksOf(rs) == UNION {rs[i][1] .. rs[i][2] : i \in 1 .. Len(rs)}

Reads ==
  INSTANCE BatchReads
    WITH chain <- 1 .. LastBlock, next <- start,
         batch <- IF phase = "read" THEN BlocksOf(logs) ELSE {}
BatchReadsSpec == Reads!Spec

\* The whole chain is read, if the provider can answer for single blocks.
ReadsAll == (\A b \in 1 .. LastBlock : <<b, b>> \in fits) ~> start > LastBlock
=============================================================================
