----------------------------- MODULE BlockReader -----------------------------
(***************************************************************************)
(* What BlockReader::read_batch makes of the logs of a batch: it parses    *)
(* them, sorts the events by block and log index, groups them by           *)
(* transaction and sorts the groups.  JetStream keeps the first message it *)
(* sees of a transaction, so a message built from a part of the logs of    *)
(* its transaction would hide the rest for ever: the module reads a chain  *)
(* batch by batch, from any restart, with logs and hash map in any order.  *)
(*                                                                         *)
(* A log is a record: its block, its index in the block, its transaction,  *)
(* the event its signature names, whether its data decodes, and whether it *)
(* is placed, that is, returned with block, index and transaction.         *)
(***************************************************************************)
EXTENDS Integers, Sequences, SequencesExt, FiniteSets

CONSTANTS
  LastBlock,   \* bound: the latest block of the chain
  BatchSize,   \* config chain.batch_size
  Chains       \* the chains to read; a chain is a set of logs

ASSUME ReaderAssumption ==
  /\ LastBlock \in Nat /\ BatchSize \in Nat \ {0}
  /\ \A logs \in Chains :
       /\ IsFiniteSet(logs)
       /\ \A l, k \in logs :
            /\ l.block \in 1 .. LastBlock /\ l.idx \in Nat
            /\ l.block = k.block /\ l.idx = k.idx => l = k
            /\ l.tx = k.tx => l.block = k.block

VARIABLES
  chain,     \* the logs of the contract
  next,      \* start_block of the next batch
  read,      \* last block that was ever in a batch
  batch,     \* transactions of the last batch, in the order they are published
  stored     \* transaction |-> the message the stream has of it

vars == <<chain, next, read, batch, stored>>

-----------------------------------------------------------------------------
(* Faulty variants: the bugs the checked properties are meant to catch.    *)

EventsAsReturned(events) == events

NoBurn ==
  {"WrapAsPublicHandle", "Add", "Sub", "Mul", "Div",
   "SafeAdd", "SafeSub", "SafeMul", "SafeDiv",
   "Eq", "Ne", "Ge", "Gt", "Le", "Lt",
   "Select", "Transfer", "Mint"}

MessagesAsHashed(messages) == messages

-----------------------------------------------------------------------------
(* The code lists the events three times, and nothing in it ties the lists *)
(* together.                                                               *)

\* The enum: the events there are to publish.
NoxEvent ==
  {"WrapAsPublicHandle", "Add", "Sub", "Mul", "Div",
   "SafeAdd", "SafeSub", "SafeMul", "SafeDiv",
   "Eq", "Ne", "Ge", "Gt", "Le", "Lt",
   "Select", "Transfer", "Mint", "Burn"}

\* Those the provider is asked for.
event_signatures ==
  {"WrapAsPublicHandle", "Add", "Sub", "Mul", "Div",
   "SafeAdd", "SafeSub", "SafeMul", "SafeDiv",
   "Eq", "Ne", "Ge", "Gt", "Le", "Lt",
   "Select", "Transfer", "Mint", "Burn"}

\* The arms of parse.
Arms ==
  {"WrapAsPublicHandle", "Add", "Sub", "Mul", "Div",
   "SafeAdd", "SafeSub", "SafeMul", "SafeDiv",
   "Eq", "Ne", "Ge", "Gt", "Le", "Lt",
   "Select", "Transfer", "Mint", "Burn"}

end_block(start, latest) ==
  IF start + BatchSize - 1 < latest THEN start + BatchSize - 1 ELSE latest

\* What the provider returns for a range.
Logs(start, last) ==
  {l \in chain : /\ start <= l.block /\ l.block <= last
                 /\ l.event \in event_signatures}

\* The elements of a finite set in an order, where before[e] are those that
\* come before e.  (sort_by and filter_map are stated by their result.)
InOrder(before) ==
  [i \in 1 .. Cardinality(DOMAIN before) |->
     CHOOSE e \in DOMAIN before : Cardinality(before[e]) = i - 1]

\* The elements of the sequence s that are in S, in the order of s.
Kept(s, S) ==
  LET kept == {i \in DOMAIN s : s[i] \in S}
      at == InOrder([i \in kept |-> {j \in kept : j < i}])
  IN [k \in DOMAIN at |-> s[at[k]]]

parse(logs) == Kept(logs, {l \in Range(logs) : l.event \in Arms /\ l.decodes})

to_transaction_event(logs) == Kept(logs, {l \in Range(logs) : l.placed})

sort_events(events) ==
  InOrder([b \in Range(events) |->
    {a \in Range(events) : a.block < b.block \/ (a.block = b.block /\ a.idx < b.idx)}])

\* The value of the hash map at tx, in the order of insertion.
EventsOf(events, tx) == Kept(events, {e \in Range(events) : e.tx = tx})

TransactionMessage(events, tx) ==
  LET own == EventsOf(events, tx)
  IN [tx |-> tx, block_number |-> Head(own).block,
      first_log_index |-> Head(own).idx, events |-> own]

Messages(events) == {TransactionMessage(events, e.tx) : e \in Range(events)}

sort_messages(messages) ==
  InOrder([b \in Range(messages) |->
    {a \in Range(messages) : \/ a.block_number < b.block_number
                             \/ /\ a.block_number = b.block_number
                                /\ a.first_log_index < b.first_log_index}])

-----------------------------------------------------------------------------
Init ==
  /\ chain \in Chains
  /\ next = 1 /\ read = 0
  /\ batch = <<>> /\ stored = <<>>

\* A batch is read and published; the stream keeps the first message of a
\* transaction.  Logs come in any order, and so do the values of a HashMap.
read_batch(latest) ==
  /\ next <= latest
  /\ LET end == end_block(next, latest)
     IN /\ \E logs \in SetToSeqs(Logs(next, end)) :
             LET events == sort_events(to_transaction_event(parse(logs)))
             IN \E hashed \in SetToSeqs(Messages(events)) :
                  batch' = sort_messages(hashed)
        /\ next' = end + 1
        /\ read' = IF end > read THEN end ELSE read
  /\ stored' = [tx \in DOMAIN stored \union {b.tx : b \in Range(batch')} |->
                  IF tx \in DOMAIN stored THEN stored[tx]
                  ELSE CHOOSE b \in Range(batch') : b.tx = tx]
  /\ UNCHANGED chain

\* A restart resumes at the persisted cursor, which may be further back, so
\* that the batches of the second reading begin at other blocks.
Restart ==
  /\ next' \in 1 .. next
  /\ UNCHANGED <<chain, read, batch, stored>>

Next == (\E latest \in 1 .. LastBlock : read_batch(latest)) \/ Restart

Spec == Init /\ [][Next]_vars

-----------------------------------------------------------------------------
(* Properties.                                                             *)

\* The logs that can be published at all.
Publishable == {l \in chain : l.event \in NoxEvent /\ l.decodes /\ l.placed}

EventsOn(tx) == {l \in Publishable : l.tx = tx}

\* The message the stream has of a transaction holds every event of it, once
\* and in log order, whatever the order the logs came in, whichever batch the
\* transaction was first read in.
StoredWhole ==
  \A tx \in DOMAIN stored :
    /\ Range(stored[tx].events) = EventsOn(tx)
    /\ \A i, j \in DOMAIN stored[tx].events :
         i < j => stored[tx].events[i].idx < stored[tx].events[j].idx

\* The messages of a batch are published in the order of the chain: by block
\* and by the first event of the transaction.
BatchOrdered ==
  \A i, j \in DOMAIN batch : i < j =>
    \A e \in EventsOn(batch[i].tx) :
      (\A f \in EventsOn(batch[i].tx) : e.idx <= f.idx) =>
        \A f \in EventsOn(batch[j].tx) :
          e.block < f.block \/ (e.block = f.block /\ e.idx < f.idx)

\* Every event of a block that was read is in a message of the stream: whatever
\* there is to publish, the provider is asked for and parse has an arm for.
NothingMissed ==
  \A l \in Publishable :
    l.block <= read => l.tx \in DOMAIN stored /\ l \in Range(stored[l.tx].events)
=============================================================================
