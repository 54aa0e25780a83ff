------------------------------- MODULE Ingestor -------------------------------
(***************************************************************************)
(* The main task of the ingestor, Application::run, with everything it     *)
(* drives: block reader, publisher and its buffer, pause signal, cursor,   *)
(* shutdown, crash and restart; and the environment it runs in: the chain, *)
(* the NATS connection and the JetStream server.                           *)
(*                                                                         *)
(* The task runs one biased tokio::select! after another.  Its last branch *)
(* is the reader block (wait for unpause, read a batch, publish it); when  *)
(* another branch is ready first, that block is dropped at the await it    *)
(* has reached, its local variables are lost and what it did to the        *)
(* publisher and to next_block stays.  pc names the await, or the handler, *)
(* the task is at; the code between two awaits is one action.  The bias of *)
(* the select is not a guard: the other branches become ready on other     *)
(* threads, so "just after they were polled" is always possible.  It       *)
(* appears where it matters, as fairness.                                  *)
(***************************************************************************)
EXTENDS MessageBuffer, JetStream

CONSTANTS
  BlockOf,          \* messages are 1..N in the order read_batch returns
                    \* them; BlockOf[m] is the block of message m
  MaxBlock,         \* bound: the chain stops growing here
  InitialBlock,     \* config chain.initial_block, 0 for none
  InitialDisk,      \* cursor in the state file the deployment starts with
  BatchSize,        \* config chain.batch_size
  StepsPerFlush,    \* awaits the reader can complete in one flush_interval;
                    \* 0 lets the tick fire at any time
  MaxFaults,        \* bound on crashes, shutdowns, disconnections, failed
                    \* publishes, failed persists and forgotten ids
  UnreadableStarts  \* may a start fail to read or parse the state file?

NoFile == -1

ASSUME IngestorAssumption ==
  /\ BlockOf \in Seq(Nat)
  /\ \A m, n \in DOMAIN BlockOf : m <= n => BlockOf[m] <= BlockOf[n]
  /\ MaxBlock \in Nat
  /\ InitialBlock \in Nat
  /\ InitialDisk \in Nat \union {NoFile}
  /\ InitialDisk # NoFile => InitialBlock <= InitialDisk + 1
  /\ BatchSize \in Nat \ {0}
  /\ StepsPerFlush \in Nat
  /\ MaxFaults \in Nat
  /\ UnreadableStarts \in BOOLEAN

VARIABLES
  \* the environment
  head,        \* latest block of the chain
  conn,        \* ConnectionState in the watch channel
  changed,     \* does nats_state_rx hold a version the loop has not seen?
  faults,      \* how many faults have happened
  \* the task
  pc,
  shutdown,    \* is shutdown_token cancelled?
  elapsed,     \* awaits completed since the last tick, up to StepsPerFlush
  \* locals of the reader block
  latest,      \* latest block it was told
  batch,       \* messages of the batch it has not published yet
  batchEnd,    \* batch.end_block
  \* publisher
  buffer, paused,
  flushing,    \* messages flush_buffer drained and has not published yet
  \* progress
  nextBlock,   \* next_block
  lastSynced,  \* StateStore.last_synced
  disk         \* last_block in the state file, NoFile if there is none

readerVars == <<latest, batch, batchEnd>>
pubVars    == <<buffer, paused, flushing>>
curVars    == <<nextBlock, lastSynced, disk>>
envVars    == <<head, conn, changed>>
vars == <<jsVars, envVars, faults, pc, shutdown, elapsed,
          readerVars, pubVars, curVars>>

Msgs == DOMAIN BlockOf

\* The block the deployment starts with.
FirstBlock == IF InitialDisk = NoFile THEN InitialBlock ELSE InitialDisk + 1

\* The awaits of the reader block: there, and only there, another branch of
\* the select can drop it.
AtAwait == {"select", "read", "full", "ack"}

Flushing == {"flushOnChange", "flushOnTick"}

Pcs == AtAwait \union Flushing
         \union {"down", "publish", "delay", "change", "tick", "final"}

-----------------------------------------------------------------------------
(* Faulty variants: the bugs the checked properties are meant to catch.    *)

AlwaysEmpty == TRUE

NeverCaughtUp == lastSynced

UnclampedEnd(start, last) == start + BatchSize - 1

ResumeAfterNext == disk + 2

PausedUnlessOnChange(at, flushed) ==
  IF at = "flushOnChange" THEN FALSE ELSE paused

StartedAtInitialBlock(last, next) ==
  /\ pc' = "select"
  /\ lastSynced' = InitialBlock
  /\ nextBlock' = next
  /\ UNCHANGED <<jsVars, envVars, shutdown, elapsed, readerVars, pubVars, disk>>

NoPeriodicResume ==
  /\ pc = "tick"
  /\ pc' = "select"
  /\ UNCHANGED <<jsVars, envVars, faults, shutdown, elapsed, readerVars,
                 pubVars, curVars>>

-----------------------------------------------------------------------------
(* Helpers.                                                                *)

Fault == faults < MaxFaults /\ faults' = faults + 1
NoFault == faults' = faults

\* An await of the reader has completed.
Step == elapsed' = IF elapsed < StepsPerFlush THEN elapsed + 1 ELSE elapsed

\* StateStore::update is a fetch_max.
update(current, block) == IF block > current THEN block ELSE current

is_buffer_empty == buffer = <<>>

\* After a state change or a drained buffer: what is behind next_block is
\* confirmed by NATS.
CaughtUp == IF nextBlock > 0 THEN update(lastSynced, nextBlock - 1)
                             ELSE lastSynced

\* read_batch: the last block of the batch starting at start.
end_block(start, last) ==
  IF start + BatchSize - 1 < last THEN start + BatchSize - 1 ELSE last

\* The next transaction of the for loop: batches are sorted by block and log
\* index, which is the order of the messages.
IsNext(m) == m \in batch /\ \A n \in batch : m <= n

DropReader == latest' = 0 /\ batch' = {} /\ batchEnd' = 0

\* determine_start_block, for a cursor loaded from the file.
ResumeAt == disk + 1

\* How the process ends: whatever is in memory is gone, a message a flush was
\* publishing may still arrive, and the next process starts with a new NATS
\* client, whose watch channel says Disconnected.
Exit ==
  /\ pc' = "down"
  /\ shutdown' = FALSE
  /\ elapsed' = 0
  /\ DropReader
  /\ buffer' = <<>>
  /\ flushing' = <<>>
  /\ paused' = FALSE
  /\ nextBlock' = 0
  /\ lastSynced' = 0
  /\ conn' = "Disconnected"
  /\ changed' = FALSE
  /\ wire' = IF flushing = <<>> THEN wire ELSE wire \union {Head(flushing)}
  /\ UNCHANGED <<stream, window, head>>

-----------------------------------------------------------------------------
Init ==
  /\ stream = <<>> /\ window = {} /\ wire = {}
  /\ head \in 0 .. MaxBlock
  /\ conn = "Disconnected" /\ changed = FALSE
  /\ faults = 0
  /\ pc = "down" /\ shutdown = FALSE /\ elapsed = 0
  /\ latest = 0 /\ batch = {} /\ batchEnd = 0
  /\ buffer = <<>> /\ paused = FALSE /\ flushing = <<>>
  /\ nextBlock = 0 /\ lastSynced = 0 /\ disk = InitialDisk

-----------------------------------------------------------------------------
(* Start: StateStore::load and determine_start_block.                      *)

Started(last, next) ==
  /\ pc' = "select"
  /\ lastSynced' = last
  /\ nextBlock' = next
  /\ UNCHANGED <<jsVars, envVars, shutdown, elapsed, readerVars, pubVars, disk>>

StartResume ==
  /\ pc = "down"
  /\ disk # NoFile
  /\ Started(disk, ResumeAt)
  /\ NoFault

\* No file, or one that cannot be read or parsed.  Without INITIAL_BLOCK the
\* process refuses to start.
StartFresh ==
  /\ pc = "down"
  /\ InitialBlock > 0
  /\ \/ disk = NoFile /\ NoFault
     \/ disk # NoFile /\ UnreadableStarts /\ Fault
  /\ Started(InitialBlock, InitialBlock)

-----------------------------------------------------------------------------
(* The reader block.                                                       *)

\* wait_until_unpaused and get_latest_block.  The latter asks until it gets
\* an answer.
GetLatest ==
  /\ pc = "select" /\ ~paused
  /\ IF nextBlock > head
     THEN /\ pc' = "delay"
          /\ UNCHANGED latest
     ELSE /\ pc' = "read"
          /\ latest' = head
  /\ Step
  /\ NoFault
  /\ UNCHANGED <<jsVars, envVars, shutdown, batch, batchEnd, pubVars, curVars>>

\* read_batch_with_retry returns.
ReadBatch ==
  /\ pc = "read"
  /\ pc' = "publish"
  /\ batchEnd' = end_block(nextBlock, latest)
  /\ batch' = {m \in Msgs : BlockOf[m] \in nextBlock .. batchEnd'}
  /\ Step
  /\ NoFault
  /\ UNCHANGED <<jsVars, envVars, shutdown, latest, pubVars, curVars>>

\* The loop of sleeps before a publish.  Nothing empties the buffer while the
\* task is in it: it ends when the reader block is dropped.
WaitWhileFull ==
  /\ pc = "publish" /\ batch # {} /\ IsFull(buffer)
  /\ pc' = "full"
  /\ NoFault
  /\ UNCHANGED <<jsVars, envVars, shutdown, elapsed, readerVars, pubVars, curVars>>

\* publish with the state Disconnected.
PublishDisconnected(m) ==
  /\ pc = "publish" /\ IsNext(m) /\ ~IsFull(buffer)
  /\ conn = "Disconnected"
  /\ paused' = TRUE
  /\ buffer' = Push(buffer, m)
  /\ batch' = batch \ {m}
  /\ NoFault
  /\ UNCHANGED <<jsVars, envVars, pc, shutdown, elapsed, latest, batchEnd,
                 flushing, curVars>>

\* publish with the state Connected: the message leaves, the ack is awaited.
PublishConnected(m) ==
  /\ pc = "publish" /\ IsNext(m) /\ ~IsFull(buffer)
  /\ conn = "Connected"
  /\ pc' = "ack"
  /\ wire' = wire \union {m}
  /\ NoFault
  /\ UNCHANGED <<stream, window, envVars, shutdown, elapsed, readerVars,
                 pubVars, curVars>>

PublishOk(m) ==
  /\ pc = "ack" /\ IsNext(m)
  /\ pc' = "publish"
  /\ Accept(m)
  /\ wire' = wire \ {m}
  /\ batch' = batch \ {m}
  /\ Step
  /\ NoFault
  /\ UNCHANGED <<envVars, shutdown, latest, batchEnd, pubVars, curVars>>

\* The publish or its ack failed: the message may arrive or not.
PublishErr(m) ==
  /\ pc = "ack" /\ IsNext(m)
  /\ Fault
  /\ pc' = "publish"
  /\ paused' = TRUE
  /\ buffer' = Push(buffer, m)
  /\ batch' = batch \ {m}
  /\ Step
  /\ UNCHANGED <<jsVars, envVars, shutdown, latest, batchEnd, flushing, curVars>>

\* The batch is published or buffered: next_block moves on; the cursor only
\* when nothing is buffered.
EndBatch ==
  /\ pc = "publish" /\ batch = {}
  /\ nextBlock' = batchEnd + 1
  /\ lastSynced' = IF is_buffer_empty THEN update(lastSynced, batchEnd)
                                      ELSE lastSynced
  /\ pc' = IF latest - batchEnd <= 1 THEN "delay" ELSE "select"
  /\ DropReader
  /\ NoFault
  /\ UNCHANGED <<jsVars, envVars, shutdown, elapsed, pubVars, disk>>

\* poll_delay has passed.
Delay ==
  /\ pc = "delay"
  /\ pc' = "select"
  /\ Step
  /\ NoFault
  /\ UNCHANGED <<jsVars, envVars, shutdown, readerVars, pubVars, curVars>>

Reader ==
  \/ GetLatest \/ ReadBatch \/ WaitWhileFull \/ EndBatch \/ Delay
  \/ \E m \in Msgs : \/ PublishDisconnected(m) \/ PublishConnected(m)
                     \/ PublishOk(m) \/ PublishErr(m)

-----------------------------------------------------------------------------
(* The other branches of the select, and their handlers.                   *)

\* nats_state_rx.changed() is ready and the reader block is dropped.
ChangeSignalled ==
  /\ pc \in AtAwait /\ changed
  /\ pc' = "change"
  /\ changed' = FALSE
  /\ DropReader
  /\ NoFault
  /\ UNCHANGED <<jsVars, head, conn, shutdown, elapsed, pubVars, curVars>>

\* handle_state_change, up to the first publish of its flush.
ChangeToConnected ==
  /\ pc = "change" /\ conn = "Connected"
  /\ IF is_buffer_empty
     THEN /\ paused' = FALSE
          /\ lastSynced' = CaughtUp
          /\ pc' = "select"
          /\ UNCHANGED <<buffer, flushing>>
     ELSE /\ flushing' = buffer
          /\ buffer' = <<>>
          /\ pc' = "flushOnChange"
          /\ UNCHANGED <<paused, lastSynced>>
  /\ NoFault
  /\ UNCHANGED <<jsVars, envVars, shutdown, elapsed, readerVars, nextBlock, disk>>

ChangeToDisconnected ==
  /\ pc = "change" /\ conn = "Disconnected"
  /\ paused' = TRUE
  /\ lastSynced' = IF is_buffer_empty THEN CaughtUp ELSE lastSynced
  /\ pc' = "select"
  /\ NoFault
  /\ UNCHANGED <<jsVars, envVars, shutdown, elapsed, readerVars, buffer,
                 flushing, nextBlock, disk>>

\* flush_interval has passed.  The reader completes at least StepsPerFlush
\* awaits between two ticks, unless it is asleep.
TickDue ==
  \/ elapsed = StepsPerFlush
  \/ pc = "select" /\ paused
  \/ pc = "full"

\* The tick drops the reader block and persists the cursor, or fails to.
\* The state file is replaced by a rename, so a reader of it sees either.
Tick ==
  /\ pc \in AtAwait /\ TickDue
  /\ pc' = "tick"
  /\ elapsed' = 0
  /\ DropReader
  /\ \/ disk' = lastSynced /\ NoFault
     \/ UNCHANGED disk /\ Fault
  /\ UNCHANGED <<jsVars, envVars, shutdown, pubVars, nextBlock, lastSynced>>

\* try_resume_if_connected, up to the first publish of its flush.
TryResume ==
  /\ pc = "tick"
  /\ IF conn = "Connected" /\ ~is_buffer_empty
     THEN /\ flushing' = buffer
          /\ buffer' = <<>>
          /\ pc' = "flushOnTick"
     ELSE /\ pc' = "select"
          /\ UNCHANGED <<buffer, flushing>>
  /\ NoFault
  /\ UNCHANGED <<jsVars, envVars, shutdown, elapsed, readerVars, paused, curVars>>

\* The reader is resumed after a flush that published everything; after a
\* state change, also when the flush failed.
PausedAfterFlush(at, flushed) ==
  IF flushed \/ at = "flushOnChange" THEN FALSE ELSE paused

\* flush_buffer publishes its next message.  After the last one the handler
\* finishes: the reader is resumed and the cursor catches up.
FlushOk ==
  /\ pc \in Flushing
  /\ Accept(Head(flushing))
  /\ flushing' = Tail(flushing)
  /\ IF Len(flushing) = 1
     THEN /\ pc' = "select"
          /\ paused' = PausedAfterFlush(pc, TRUE)
          /\ lastSynced' = IF is_buffer_empty THEN CaughtUp ELSE lastSynced
     ELSE UNCHANGED <<pc, paused, lastSynced>>
  /\ NoFault
  /\ UNCHANGED <<wire, envVars, shutdown, elapsed, readerVars, buffer,
                 nextBlock, disk>>

\* The publish or its ack failed: this message and the ones behind it go back
\* to the buffer.
FlushErr ==
  /\ pc \in Flushing
  /\ Fault
  /\ wire' = wire \union {Head(flushing)}
  /\ buffer' = ExtendFront(buffer, flushing)
  /\ flushing' = <<>>
  /\ paused' = PausedAfterFlush(pc, FALSE)
  /\ lastSynced' = IF pc = "flushOnChange" /\ buffer' = <<>> THEN CaughtUp
                                                             ELSE lastSynced
  /\ pc' = "select"
  /\ UNCHANGED <<stream, window, envVars, shutdown, elapsed, readerVars,
                 nextBlock, disk>>

Handlers ==
  ChangeToConnected \/ ChangeToDisconnected \/ TryResume \/ FlushOk \/ FlushErr

-----------------------------------------------------------------------------
(* Shutdown and crash.                                                     *)

Signal ==
  /\ pc # "down" /\ ~shutdown
  /\ Fault
  /\ shutdown' = TRUE
  /\ UNCHANGED <<jsVars, envVars, pc, elapsed, readerVars, pubVars, curVars>>

\* The loop ends, at an await of the reader block or of the delay.
Break ==
  /\ shutdown /\ pc \in AtAwait \union {"delay"}
  /\ pc' = "final"
  /\ DropReader
  /\ NoFault
  /\ UNCHANGED <<jsVars, envVars, shutdown, elapsed, pubVars, curVars>>

\* The last persist, which may fail or time out, and the end of the process.
FinalPersist ==
  /\ pc = "final"
  /\ \/ disk' = lastSynced /\ NoFault
     \/ UNCHANGED disk /\ Fault
  /\ Exit

Crash ==
  /\ pc # "down"
  /\ Fault
  /\ Exit
  /\ UNCHANGED disk

-----------------------------------------------------------------------------
(* The environment.                                                        *)

\* The event callback of the NATS client writes to the watch channel.
Connect ==
  /\ conn = "Disconnected"
  /\ conn' = "Connected" /\ changed' = TRUE
  /\ NoFault
  /\ UNCHANGED <<jsVars, head, pc, shutdown, elapsed, readerVars, pubVars, curVars>>

Disconnect ==
  /\ conn = "Connected"
  /\ Fault
  /\ conn' = "Disconnected" /\ changed' = TRUE
  /\ UNCHANGED <<jsVars, head, pc, shutdown, elapsed, readerVars, pubVars, curVars>>

NewBlock ==
  /\ head < MaxBlock
  /\ head' = head + 1
  /\ NoFault
  /\ UNCHANGED <<jsVars, conn, changed, pc, shutdown, elapsed, readerVars,
                 pubVars, curVars>>

\* A message whose publisher no longer waits for it reaches the server, or is
\* lost.
Unawaited(m) == m \in wire /\ ~(pc = "ack" /\ IsNext(m))

DeliverLate(m) ==
  /\ Unawaited(m)
  /\ Accept(m)
  /\ wire' = wire \ {m}
  /\ NoFault
  /\ UNCHANGED <<envVars, pc, shutdown, elapsed, readerVars, pubVars, curVars>>

Lose(m) ==
  /\ Unawaited(m)
  /\ wire' = wire \ {m}
  /\ NoFault
  /\ UNCHANGED <<stream, window, envVars, pc, shutdown, elapsed, readerVars,
                 pubVars, curVars>>

\* No message is under way for as long as duplicate_window.
WindowPasses(id) ==
  /\ \A m \in wire : compute_checksum(m) # id
  /\ Forget(id)
  /\ Fault
  /\ UNCHANGED <<envVars, pc, shutdown, elapsed, readerVars, pubVars, curVars>>

Environment ==
  \/ Connect \/ Disconnect \/ NewBlock
  \/ \E m \in Msgs : DeliverLate(m) \/ Lose(m)
  \/ \E id \in window : WindowPasses(id)

-----------------------------------------------------------------------------
Next ==
  \/ StartResume \/ StartFresh
  \/ Reader
  \/ ChangeSignalled \/ Tick \/ Handlers
  \/ Signal \/ Break \/ FinalPersist \/ Crash
  \/ Environment

Spec == Init /\ [][Next]_vars

\* The select polls shutdown, state change and tick, in this order, before
\* the reader block each time the task wakes up: a branch that is ready again
\* and again is taken.  The handlers and the reader run on; a supervisor
\* restarts the process; the NATS client reconnects.
Fairness ==
  /\ WF_vars(StartResume \/ StartFresh)
  /\ WF_vars(Reader)
  /\ WF_vars(Handlers)
  /\ WF_vars(FinalPersist)
  /\ WF_vars(Connect)
  /\ SF_vars(ChangeSignalled)
  /\ SF_vars(Tick)
  /\ SF_vars(Break)

FairSpec == Spec /\ Fairness

-----------------------------------------------------------------------------
(* Safety.                                                                 *)

\* Among the types: a batch ends within the chain the reader was told of.
TypeOK ==
  /\ stream \in Seq(Msgs)
  /\ window \subseteq {compute_checksum(m) : m \in Msgs}
  /\ wire \subseteq Msgs
  /\ head \in Nat
  /\ conn \in {"Connected", "Disconnected"} /\ changed \in BOOLEAN
  /\ faults \in 0 .. MaxFaults
  /\ pc \in Pcs
  /\ shutdown \in BOOLEAN
  /\ elapsed \in 0 .. StepsPerFlush
  /\ latest \in 0 .. head
  /\ batch \subseteq Msgs
  /\ batchEnd \in 0 .. latest
  /\ buffer \in Seq(Msgs) /\ flushing \in Seq(Msgs)
  /\ paused \in BOOLEAN
  /\ nextBlock \in Nat /\ lastSynced \in Nat
  /\ disk \in Nat \union {NoFile}

\* What the cursor speaks for: see AtLeastOnce, and NothingSkipped below.
Due(m) == BlockOf[m] >= FirstBlock /\ BlockOf[m] # InitialBlock

Held == Stored \union Range(buffer) \union Range(flushing)

\* No message is lost: what the task will not read again is on the stream or
\* kept for a flush, however often batches are dropped half-way, publishes
\* fail and flushes are interrupted.
NothingLost == \A m \in Msgs : Due(m) /\ BlockOf[m] < nextBlock => m \in Held

\* The cursor never runs ahead of the stream, neither in the file, where a
\* crash would make the loss permanent, nor in memory, where the next persist
\* finds it.
CursorSafe ==
  \A m \in Msgs : Due(m) /\ (BlockOf[m] <= disk \/ BlockOf[m] <= lastSynced)
                    => m \in Stored

\* Re-buffering after a failed flush checks no capacity, and dropped batches
\* are buffered again by their re-read: still the bound of the buffer holds.
BufferBound == Len(buffer) + Len(flushing) <= Capacity

\* The reader is not left paused with nothing to wake it up: there is a
\* message for the periodic retry to drain, or a state change it has not
\* handled, or one that must come because NATS is away.
NoStuckPause ==
  paused => \/ buffer # <<>> \/ flushing # <<>>
            \/ conn = "Disconnected" \/ changed \/ pc = "change"

\* Failed flushes, re-reads of dropped batches and messages the server has got
\* all the same do not mix up the queue: of two messages it still owes the
\* stream, the first copy of the earlier one is ahead of the later one.
InOrder(queue, done) ==
  \A i, k \in DOMAIN queue :
    queue[k] < queue[i] /\ queue[k] \notin done /\ queue[i] \notin done
      => \E j \in DOMAIN queue : j < i /\ queue[j] = queue[k]

BufferInOrder == InOrder(buffer, Stored) /\ InOrder(flushing, Stored)

\* The persisted cursor does not go back (unless the file cannot be read).
DiskMonotone == [][disk' >= disk]_vars

\* The ingestor implements the specification of what it promises.
Abstract == INSTANCE AtLeastOnce WITH delivered <- Stored, cursor <- disk
AtLeastOnceSpec == Abstract!Spec

\* What it does with its state file is what such a file is made for: it saves
\* only the cursor in memory, which starts at the file and only grows.  The
\* power losses of CursorFile are in StateFile.
Cell ==
  INSTANCE CursorFile
    WITH ChainIds <- {ChainId},
         file <- IF disk = NoFile THEN <<>> ELSE <<ChainId, disk>>,
         memory <- IF pc = "down" THEN <<>> ELSE <<ChainId, lastSynced>>,
         safe <- 0, doubt <- UnreadableStarts
CursorFileSpec == Cell!Spec

\* It goes through the chain batch by batch: what drops a batch half-way leaves
\* next_block where it is, and what is read is never beyond the head.
Reads ==
  INSTANCE BatchReads
    WITH chain <- 0 .. head,
         next <- IF pc = "down" THEN -1 ELSE nextBlock,
         batch <- IF pc \in {"publish", "full", "ack"}
                  THEN nextBlock .. batchEnd ELSE {}
BatchReadsSpec == Reads!Spec

-----------------------------------------------------------------------------
(* The inductive invariant: what the safety properties rest on.            *)

\* A flush is running exactly when messages are drained, and then nothing is
\* buffered behind them: the handlers run alone.
FlushShape ==
  /\ pc \in Flushing <=> flushing # <<>>
  /\ flushing # <<>> => buffer = <<>>

\* The buffer was not full when the message that awaits its ack was sent.
RoomForUnacked == pc = "ack" => ~IsFull(buffer)

\* The server takes for a duplicate only what it has stored.
WindowSafe ==
  \A m \in Msgs : compute_checksum(m) \in window => m \in Stored

\* No message is from a block the chain does not have.
KnownBlocks == \A m \in batch \union wire \union Held : BlockOf[m] <= head

\* What the batch in hand was read with is still in it, or taken care of.
BatchKept ==
  pc \in {"publish", "full", "ack"} =>
    \A m \in Msgs : BlockOf[m] \in nextBlock .. batchEnd => m \in batch \union Held

\* What makes the safety properties inductive.
IInv ==
  /\ TypeOK /\ FlushShape
  /\ RoomForUnacked /\ BufferBound
  /\ WindowSafe /\ KnownBlocks /\ BatchKept /\ NothingLost /\ CursorSafe
  /\ NoStuckPause

\* What BufferInOrder rests on: a batch is not empty of blocks and its messages
\* are between next_block and its end, no message is queued before what
\* precedes it is taken care of, and a process starts with nothing queued.
BatchRange ==
  /\ pc = "read" => nextBlock <= latest
  /\ pc \in {"publish", "full", "ack"} =>
       /\ nextBlock <= batchEnd
       /\ \A m \in batch : BlockOf[m] \in nextBlock .. batchEnd

NothingBehind ==
  \A x \in Range(buffer) \union Range(flushing), m \in Msgs :
    m < x /\ BlockOf[m] >= nextBlock => m \in Held

StartsEmpty == pc = "down" => buffer = <<>>

OrderInv == BatchRange /\ NothingBehind /\ StartsEmpty /\ BufferInOrder

-----------------------------------------------------------------------------
(* Liveness, under FairSpec.                                               *)

\* Every due message of the chain reaches the stream.
EventuallyDelivered ==
  \A m \in Msgs : BlockOf[m] <= head /\ Due(m) ~> m \in Stored

\* The persisted cursor reaches every block of the chain: buffered messages do
\* not hold it back for ever.
CursorCatchesUp ==
  \A b \in 1 .. MaxBlock : head >= b ~> disk >= b

\* A pause ends once NATS is back, with or without a reconnection.
PauseEnds == paused ~> ~paused

-----------------------------------------------------------------------------
(* What the documentation says and the code does not do.                   *)

\* README: each batch is published before the cursor advances.
NothingSkipped ==
  \A m \in Msgs : BlockOf[m] >= FirstBlock /\ BlockOf[m] <= disk
                    => m \in Stored

\* README: deduplication ensures that a restart or a duplicate batch never
\* produces duplicate messages on the stream.
NoDuplicates ==
  \A i, j \in DOMAIN stream : stream[i] = stream[j] => i = j

\* README: on shutdown, in-flight messages are flushed; here, when NATS is
\* there and the task knows it.
GracefulShutdownFlushes ==
  [][FinalPersist /\ conn = "Connected" /\ ~changed => buffer = <<>>]_vars
=============================================================================
