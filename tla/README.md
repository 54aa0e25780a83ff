# Verification of nox-ingestor

TLA+ models of the Nox ingestor, the TLC runs that check them on small
instances and the theorems TLAPS proves about them for every value of the
constants.  Paths below are relative to the root of the repository's crate
(`src/...` is its source directory).

The ingestor is one tokio task that reads the logs of a contract from an RPC
node batch by batch, makes one message of every transaction, publishes it to a
NATS JetStream stream and keeps a cursor, the last block that is done with, in
a state file.  What has to be right is that **no transaction is ever lost**:
not when NATS is away, when a publish fails, when the process is killed, nor
when the main loop drops a half-read batch, which it does all the time.

## 1. The system

| Component | Source | State | Operations |
| --- | --- | --- | --- |
| Main loop | `application.rs` 49-318 | `next_block`, `needs_delay`, the reader block's locals (`latest`, `batch`), `shutdown_token`, the flush timer | one biased `select!` over shutdown, NATS state change, flush tick, reader block |
| Publisher | `nats/publisher.rs` | the buffer, the pause channel, the messages a flush has drained | `publish`, `flush_buffer`, `handle_state_change`, `try_resume_if_connected`, `do_publish` |
| Message buffer | `nats/buffer.rs` | a `VecDeque` and a capacity | `push`, `extend_front`, `drain`, `is_full` |
| NATS connection, stream | `nats/client.rs` | `ConnectionState` in a watch channel; stream and duplicate window on the server | `connect`, event callback, `setup_stream`, `normalize_pem` |
| Block reader | `chain/reader.rs` | none of its own | `wait_until_unpaused`, `get_latest_block`, `read_batch_with_retry`, `read_batch`, `group_by_transaction` |
| Chain client | `chain/client.rs` | the work stack of a bisection | `get_logs_split_on_error` |
| Event parser | `chain/parser.rs` | none | `parse`, `event_signatures` |
| State store | `state.rs` | `last_synced`, the file, its temporary file | `load`, `update`, `persist` |
| Messages | `events.rs` | none | `compute_checksum`, `subject`, `to_bytes` |
| Health | `handlers.rs` | time of the last success | `record_success`, `stale_for`, `health_check` |
| Error classes | `error.rs` | none | `is_log_response_too_large` |
| Configuration, entry | `config.rs`, `main.rs` | the configuration, the shutdown token | `load`, the start up to the loop |

How they interact.  The NATS client runs its callback on another thread and
writes the connection state to a watch channel.  Both the main loop
(`nats_state_rx.changed()`) and the publisher (`state_rx.borrow()`) read it, at
different times.  The publisher writes the pause channel, the block reader waits
on it, and both belong to the same task.  The reader block reads and publishes a
batch in the `select!`; when another branch is ready, the block is dropped at
the await it has reached.  Its locals are gone, what it did to the publisher and
to `next_block` stays.  The handlers of the other branches run to their end: a
flush is not dropped.  The cursor is written by the flush tick and once more at
the end.

What is hard about it, in the order of the damage it could do:

1. the reader block is dropped between two messages of a batch, and the batch is
   read and published again, on top of messages that are still buffered;
2. `next_block` (what will not be read again in this session), `last_synced`
   (what a restart will not read again) and the file move at different times;
3. an ack can be lost although the server has the message, and a connection
   state can be stale;
4. JetStream can be unavailable without a disconnection, so that no event ever
   tells the ingestor to resume;
5. the buffer can be full in the middle of a batch, where the reader sleeps in a
   loop that only the tick or a state change can end;
6. a kill or a power loss can come between any two of these steps, those of
   `persist` included;
7. a range can be rejected as too large and must be bisected, under the tick;
8. deduplication is by transaction: a partial message would hide the whole one;
9. two calls to one RPC endpoint need not be answered by the same node;
10. at a start, several instances, an administrator and an outage meet at the
    stream, and a signal can come before anything looks at it;
11. what `/health` says is drawn from two places of the reader block, which ticks
    drop and a pause stops.

`PROJECT.json` lists the hazards one by one, each with its line and the
properties that would notice.

## 2. The modules

| Module | Models | Kind |
| --- | --- | --- |
| `AtLeastOnce` | what the ingestor promises: messages reach the stream, and the durable cursor is only moved to blocks that are done with | abstract specification |
| `CursorFile` | what the main loop relies on in the state file: it takes the cursor in one step, and a power loss takes back nothing confirmed, until a start fails to read it | abstract specification |
| `BatchReads` | how the chain is gone through: one batch at a time, all its blocks, passed as a whole or dropped | abstract specification |
| `MessageBuffer` | `nats/buffer.rs` as operators on sequences | operators |
| `JetStream` | stream, duplicate window, messages under way | the server, from how the publisher uses it |
| `Ingestor` | main loop, publisher, cursor, restart, environment; EXTENDS the two above | state machine |
| `Health` | `handlers.rs`: the clock behind `/health`; EXTENDS `Ingestor` | state machine around it |
| `ErrorClass` | `error.rs`: which provider errors mean that a range is too large | operators |
| `LogRangeFetch` | one batch read call by call: bisection, retries, the tick; EXTENDS `ErrorClass` | state machine |
| `LaggingNodes` | the two calls of a batch when several nodes answer them | state machine |
| `BlockReader` | what a batch's logs become: parse, sort, group, over restarts | state machine around pure operators |
| `StateFile` | `load` and the five steps of `persist` on a file system that can lose what is not synced | state machine |
| `Startup` | `main` and `Application::run` up to the loop, for several instances | state machine |
| `IngestorProofs`, `HealthProofs`, `LogRangeFetchProofs`, `BlockReaderProofs`, `LaggingNodesProofs`, `StateFileProofs`, `StartupProofs` | the theorems | proofs |
| `Induction` | induction over the natural numbers, stated for sets | lemmas |
| `MC*.tla`, `MC*.cfg` | instances for TLC | |

How they fit together.  `Ingestor` is the composition.  `Startup` ends where it
begins: `run` there is a process that is up here, `down` is `down`.  Three
modules open one of its steps each: `ReadBatch` is a whole run of
`LogRangeFetch` (one provider that rejects ranges) or of `LaggingNodes` (several
that do not agree), followed by the grouping of `BlockReader`.  The disk write of
`Tick` and `FinalPersist` is a run of `StateFile`'s `Persist` to `SyncDir`; here
the two sides meet in `CursorFile`, which `StateFile` implements and `Ingestor`
uses, both checked and proved.  For a batch they meet in `BatchReads`:
`LogRangeFetch`, `LaggingNodes` and `Ingestor` each implement it, so that what the
first two do in many calls is what the third does in one step.

### Ingestor

`pc` is the await or the handler the task is at; the code between two awaits is
one action.

| `pc` | the task is at |
| --- | --- |
| `down` | no process |
| `select` | the start of the `select!`, the reader block waiting for unpause or for the latest block |
| `read` | `read_batch_with_retry` |
| `publish` | between two messages of the batch (no await) |
| `full` | the sleep while the buffer is full |
| `ack` | `do_publish` of the reader block |
| `delay` | the delay outside of the `select!`, where only shutdown is polled |
| `change`, `flushOnChange` | `handle_state_change`, its flush |
| `tick`, `flushOnTick` | the flush tick behind its persist, the flush of `try_resume_if_connected` |
| `final` | behind the loop |

| Action | Code |
| --- | --- |
| `StartResume`, `StartFresh` | `StateStore::load`, `determine_start_block` |
| `GetLatest`, `ReadBatch` | `application.rs` 217-240, `read_batch` |
| `WaitWhileFull` | 251-258 |
| `PublishDisconnected`, `PublishConnected`, `PublishOk`, `PublishErr` | `Publisher::publish`, `do_publish` |
| `EndBatch`, `Delay` | 282-300, 138-153 |
| `ChangeSignalled`, `ChangeToConnected`, `ChangeToDisconnected` | 165-189, `handle_state_change` |
| `Tick`, `TryResume` | 192-211, `try_resume_if_connected` |
| `FlushOk`, `FlushErr` | `flush_buffer` and the end of its two callers |
| `Signal`, `Break`, `FinalPersist`, `Crash` | the signal handler, the end of the loop, the last persist, a kill |
| `Connect`, `Disconnect` | the event callback |
| `NewBlock`, `DeliverLate`, `Lose`, `WindowPasses` | chain, network, server |

A message is a number, its place in the order of the chain, which is the order
`read_batch` returns transactions in (`BlockReader` checks that it does).
`batch` is the set of messages the for loop has still to publish.  `wire` holds
the messages that left and whose publisher has no answer: after an error, a drop
or a kill they may still arrive or not.  The model has no guard for the bias of
the `select!`: another branch can become ready just after it was polled, so any
order is possible, and the bias is only used as fairness.

Two decisions of the code are in the model as they are, and shape the
properties.  A fresh start takes `INITIAL_BLOCK` for done (see the findings), so
`Due` leaves the transactions of that one block out.  And a failed read or parse
of the state file counts as no file: `UnreadableStarts` says whether this can
happen; `IngestorAssumption` then needs `InitialBlock <= InitialDisk + 1`, for
with a larger `INITIAL_BLOCK` such a start skips what is in between.

`BufferInOrder` says what `push`, `drain` and `extend_front` keep between them: of
two messages the stream still lacks, the first copy of the earlier one is ahead.
A batch that is read again is buffered a second time, so the queue as a whole is
not sorted.

### Health

Every step is a step of `Ingestor`, seen by a clock that counts ticks.
`StepsPerFlush`, the awaits that fit between two ticks, has to be at least three:
a poll, the poll a state change drops, and a read.  With two, a tick can drop
every read before it succeeds, and `NoFalseAlarm` fails (`StepsPerFlush = 2` in
`MCHealth.cfg`).  `record_success` is part of a `GetLatest` that finds nothing new
and of `ReadBatch`; nothing else resets the clock but a start.  The provider may
stop answering the range of a batch (`ProviderStops`): then `ReadBatch` is off and
`RetryRead` sleeps and asks again, under the ticks.  `troubled` is history and
remembers whether something since the last success could justify an alarm.

### LogRangeFetch and ErrorClass

The work stack and the ranges that were answered are sequences of pairs, the
provider is the set of ranges it answers; which sets are possible is a constant
and, for the run, all those that come from a limit on the number of logs.  A call
that fails has one of the errors of `Rejections` (its range is not answered) or of
`Transients` (any call), and what happens next is what `is_log_response_too_large`
makes of it. An error is its kind, its HTTP status and the phrases of the
classifier its text contains.  Time is counted in awaits: `FlushInterval` of them
fit between two ticks.  Publishing takes no time here, and the chain does not
grow: both only make the reader faster than it is.

### BlockReader

A log is its block, index, transaction and event type, whether its data decodes,
and whether it comes with its place in the chain.  The code lists the event types
three times, and nothing in it ties the lists together: the enum (`NoxEvent`), the
signatures requested (`event_signatures`) and the arms of `parse` (`Arms`).  They
are three definitions here; a type missing from either of the last two breaks
`NothingMissed`.  `read_batch` is one action, as the code has no await between the
answer and the result; the order of the logs and of the values of the `HashMap`
are chosen freely.  Sorting and selecting are stated by their result: `InOrder` lists
the elements of a set by how many come before each, `Kept` takes a part of a
sequence in its order.  `stored` is what deduplication makes of the messages: the
first one of every transaction.

### StateFile

`file` is what programs see, `onDisk` the contents a power loss may leave.  A
rename that is not followed by a directory sync leaves both the old and the new
file possible; an unsynced temporary file may come out torn.  `ParentOpens` says
whether the directory can be opened at all, which it cannot for a path without
one, the default (section 3).  Then nothing is ever confirmed, and `ConfirmedKept`
promises nothing.  `LoadUnreadable` is
a start that gets an I/O error for a file that is there: the code treats it like
no file, so a cursor may go back, and the file may change its chain.  `misreads`
counts such starts; `ConfirmedKept`, `MemoryAhead` and `ChainKept` speak of runs
without one, and `CursorFile` has `doubt` for the others: the file still changes
only by a save or a power loss, and memory still starts at the file or at
`INITIAL_BLOCK`, but what a power loss leaves may be any cursor.

### LaggingNodes

Each node has its own head.  `GetLatest` takes the answer of any node; `GetLogs`
fetches the rest of the batch, or a part of it, from a node in `Reached`: any, or
with `Sticky` the one that named the latest block.  A node in `Lenient` answers
for blocks it does not have with the logs it has, the others return an error,
upon which `read_batch_with_retry` begins the batch again.

### Startup

`pc[i]` is the step instance `i` is at: `connect`, `query` and `create` (the two
requests of `setup_stream`), `load`, `bind`, `run`.  Each of them but `run` may
end the process, after which `Start` is the supervisor's restart.  `Valid[i]` is
what of the settings of instance `i` is in order (`Settings`) and what NATS lets it
do (`Permissions`); each has the step where the code ends the process without it:

| Not in order | Ends in |
| --- | --- |
| `config` | `Start`: `Config::load` (`main.rs` 30-33) |
| `tls`, `urls` | `Connect` |
| `query` | `QueryFails`: any error but `STREAM_NOT_FOUND` (`nats/client.rs` 150), also while NATS is away |
| `create`, or a configuration that is not `Placeable` (more replicas than servers) | `CreateFails`: any error of `create_stream` (`nats/client.rs` 139), also while NATS is away or when another configuration has won the race |
| the file of another chain, `rpc_endpoint`, `initial_block` without a file | `LoadState` (`application.rs` 60-88) |
| `flush_interval` | `Bind`: `tokio::time::interval` panics for zero |

The instances have different configurations of one stream, as in a rolling
deployment that changes one; `AdminSets` is the administrator the README leaves
changes to.  `EventuallyRuns` is about the instances that nothing of their own
keeps out (`CanStart`) once NATS stays, if there is ever a stream or the instance
may create one: what it rules out is that the race for the stream, its loss or an
answer that never came, keeps such an instance from running.

## 3. What is checked

Faults (kills, shutdowns, disconnections, failed publishes and persists,
forgotten ids) are bounded together by `MaxFaults`, the chain by `MaxBlock`.

| Run | Bounds | Shows |
| --- | --- | --- |
| `restart` | blocks 1 to 3 with transactions in 1, 3, 3; batches of 2 blocks, buffer of 2, 3 faults, tick at any time | `TypeOK`, `NothingLost`, `CursorSafe`, `BufferBound`, `NoStuckPause`, `BufferInOrder`, `DiskMonotone`; refinement of `AtLeastOnce` and `CursorFile` |
| `progress` | no state file, starts that cannot read it later; two transactions in the block behind `INITIAL_BLOCK`, a buffer of 1, four awaits per tick, 2 faults | `NothingLost`, `CursorSafe`, `EventuallyDelivered`, `CursorCatchesUp`, `PauseEnds` |
| `health` | one block, from an existing file, and a provider that may refuse a range; alarm after two ticks | `NoFalseAlarm`, `StuckIsReported`, `AlarmEnds` |
| `fetch` | six blocks of 0, 2, 3 or 4 logs each, a limit of 3, batches of 4, eight awaits per tick, nine kinds of errors | `TypeOK`, `WholeRange`, `OnlyAnswered`, `StackIsSmall`, `ReadsAll`, `BisectsOnlyRefused`; refinement of `BatchReads` |
| `strict` | two nodes that refuse blocks they do not have, four blocks, batches of 3, one dropped batch | `TypeOK`, `NothingMissed`, `ReadsAll` |
| `batches` | every chain of five logs in three blocks, batches of 2, restarts anywhere; every event type | `StoredWhole`, `BatchOrdered`, `NothingMissed` |
| `state_file` | two chain ids, cursors to 4, three faults, one start that cannot read | `NeverTorn`, `ConfirmedKept`, `MemoryAhead`, `ChainKept`; refinement of `CursorFile` |
| `startup` | an old and a new instance and one that may not create the stream and wants five replicas of it; three configurations, three servers, two faults | `TypeOK`, `HasStream`, `NeverMutated`, `EventuallyRuns`, `SignalEnds` |

Why the bounds are enough.  Losing a message takes a batch with two messages (to
drop it between them), a second batch (to move the cursor past), and a fault for
each of: going into the buffer, failing the flush, crashing.  `restart` has
these and no more; the theorems below show that nothing new happens for larger
values.  A buffer of 1 with a batch of 2 makes the full-buffer sleep part of
`progress`.  A lagging node hides a block only if it answers after another node
named a later one, which takes two nodes; a race for the stream takes two parties
besides the server, and losing an answer to a request takes one fault.  Each
property is also checked against a faulty variant of a
definition, at the top of its module, and is violated by it.

Four runs expect a violation; each is a disagreement of the code with its
documentation, quoted in `PROJECT.json` under `findings`.

| Run | Property | What happens |
| --- | --- | --- |
| `skipped` | `NothingSkipped` | `INITIAL_BLOCK` is in the state file before it is read; a restart skips its transactions |
| `duplicates` | `NoDuplicates` | a re-read after `duplicate_window` is stored twice, although the README says a restart never produces duplicates |
| `shutdown` | `GracefulShutdownFlushes` | a shutdown does not flush the buffer; the messages are read again by the next start |
| `flood` | `ReadsAll` | a bisection longer than a `flush_interval` is dropped by each tick and starts over: one await less than in `fetch`, and nothing is read any more |

Other disagreements were met on the way and have no run of their own.  Where a
constant brings one out, it is named.

* `README.md` 30, every log is parsed: with `Lenient = {n2}` in `MCStrict.cfg`, a
  node that is behind answers for blocks it does not have, and `NothingMissed`
  fails: their logs are passed for good (`application.rs` 220).
* `application.rs` 250, wait for NATS to reconnect: with `BufferCapacity = 0` in
  `MCProgress.cfg`, the buffer is full also when NATS is there, and
  `EventuallyDelivered` fails.
* `README.md` 79, `INITIAL_BLOCK` counts when there is no state file: with
  `InitialBlock = 1` and `UnreadableStarts = TRUE` in `MCRestart.cfg`, a start
  whose read of the file fails begins there too (`state.rs` 91), its next persist
  overwrites the newer cursor, and `DiskMonotone` fails.
* `handlers.rs` 41-43, only a stuck reader leaves the clock stale: a paused reader
  records no success either (`application.rs` 217), so a long outage of NATS
  turns `/health` red.  `Health` counts a pause among what may justify an alarm.
* `README.md` 138-140, unhealthy when no batch completes: success is recorded when
  a batch is read, before it is published (`application.rs` 243), so `/health`
  stays green while every tick drops the same batch.
* `README.md` 36, the cursor is written atomically, directory sync included: the
  default `state_path` is a file name without a directory, `path.parent()` is then
  `""`, which cannot be opened, and `persist` goes on without a sync (`state.rs`
  159).  With `ParentOpens = FALSE` in `MCStateFile.cfg` the properties hold, as
  the file is never torn and an older cursor is safe, but no cursor is ever
  `confirmed`: a power loss may take back any number of them.
* `README.md` 34, buffering while NATS is away: a process that *starts* while it is
  away ends at the query of the stream (`nats/client.rs` 150); `QueryFails` is
  that step.
* `README.md` 95, the deduplication window: of an existing stream only the replicas
  are compared, and another window stays in force, unmentioned
  (`nats/client.rs` 115); `StreamFound` is that step.
* `README.md` 217, `plaintext_to_encrypted`: the type is neither requested nor
  parsed (`chain/parser.rs` 246).

### Fairness

`FairSpec` of `Ingestor` assumes: a process that is down is started again, the
task runs on (reader, handlers, last persist), NATS is connected to again, all
weakly fair; and strong fairness of state change, tick and shutdown.  The code
justifies the strong part: these branches are polled before the reader block
each time the task wakes up (`biased`), so one that is ready again and again is
taken, though the task may be in a handler or in the delay in between.  Nothing
is assumed of the tick being late: `TickDue` lets it come after
`StepsPerFlush` awaits of the reader, and always while the reader sleeps.
`StepsPerFlush = 4` is what a batch of two messages needs (latest block, read,
two acks): with three, the batch never ends and the liveness properties fail,
which is the livelock of `flood` again.  With faults bounded, "eventually" means
after the last fault.

`Health` has the same fairness for the same steps, and none for the provider.
`LogRangeFetch` needs only that some step is taken.  `LaggingNodes` assumes that
the reader goes on asking and that every node learns of every block; ticks that
drop a batch are bounded.  `Startup` assumes that a process runs on, that a
request to a NATS that stays away fails (the client's timeout), and that a
supervisor restarts what ended, however often it ends at the same step; NATS need
not come back, and `EventuallyRuns` asks for it in its premise.

## 4. What is proved

Every safety property that the passing runs check but `BisectsOnlyRefused` is a
theorem: for every chain, batch size, buffer capacity, number of nodes, instances
and faults, and every length of run.  Assumptions are `IngestorAssumption`,
`BufferAssumption`, `FetchAssumption`, `ReaderAssumption`, `FileAssumption`,
`NodesAssumption` and `StartupAssumption`, which the runs evaluate, and those in
the table.

| Theorem | Statement |
| --- | --- |
| `Invariant` | `Spec => []IInv`, the inductive invariant |
| `TypeCorrect`, `NoLoss`, `CursorIsSafe`, `BufferIsBounded`, `PauseHasAReason` | five invariants of `restart` |
| `OrderInvariant`, `QueueStaysInOrder` | the inductive invariant of the queue's order; `BufferInOrder` |
| `OnlyTheUnsettledIsRepublished` | `NoDuplicates`, if the server forgets no message before the ingestor is done with it, and the state file can always be read |
| `OnlyInitialBlockIsSkipped` | `NothingSkipped`, if `INITIAL_BLOCK` has no message |
| `CursorNeverGoesBack` | `DiskMonotone`, if the state file can always be read |
| `Refinement` | `Spec => AtLeastOnceSpec` |
| `FileIsUsedAsACell` | `Ingestor` implements `CursorFile` |
| `OneBatchAtATime` | `Ingestor` implements `BatchReads` |
| `SafeUnderRetries` | `IInv` under `Health`, with a provider that stops answering |
| `HealthyIsNotReported` | `NoFalseAlarm`, if `StepsPerFlush >= 3` |
| `FetchInvariant`, `TypesAreKept` | the inductive invariant of `LogRangeFetch`, its types |
| `WholeRangeIsRead`, `NothingUnanswered` | `WholeRange`, `OnlyAnswered` |
| `FewPieces` | an attempt at a batch is cut into `batch_size` pieces at most, whatever errors are classed as too large |
| `StackStaysSmall` | `StackIsSmall` |
| `BatchesAreWhole` | `LogRangeFetch` implements `BatchReads` |
| `ReaderInvariant` | the inductive invariant of `BlockReader` |
| `MessagesAreComplete`, `BatchesAreOrdered`, `NoEventIsMissed` | `StoredWhole`, `BatchOrdered`, `NothingMissed` of `BlockReader` |
| `BatchesInChain` | `TypeOK` of `LaggingNodes` |
| `LaggingNodesHideNothing` | `NothingMissed`, if nodes are strict or batches stay with one |
| `NodesMakeOneChain` | `LaggingNodes` implements `BatchReads`, under the same condition |
| `FileInvariant` | the inductive invariant of `StateFile` |
| `FileNeverTorn`, `ConfirmedIsKept`, `MemoryIsAhead`, `ChainIsKept` | the other four properties of `state_file` |
| `FileIsACell` | `StateFile` implements `CursorFile` |
| `StartupTypes`, `StreamIsThere`, `StreamsAreKept` | `TypeOK`, `HasStream`, `NeverMutated` of `Startup` |

The argument for `Ingestor`.  `NothingLost` alone is not inductive: when a batch
ends, `next_block` jumps over it, so every message of the batch must by then be
on the stream or buffered.  `BatchKept` says so while the batch is worked off,
and needs `RoomForUnacked` (a message whose ack fails is pushed to a buffer
that was not full when it was sent, or `push` would drop it) and `FlushShape` (a
flush owns all that was buffered, so that `extend_front` puts back in front of
nothing).  `CursorSafe` follows at the three places that move the cursor, as each
checks that the buffer is empty, when what is held is what is stored.  A
message that is re-read counts as stored only if the server's window is right:
`WindowSafe`.  And `KnownBlocks` rules out that a new block brings messages
behind the cursor.  Each part is a lemma with one case per action.

`BufferInOrder` rests on `NothingBehind`: whatever is queued, every earlier message
that the task will not read again is queued or stored.  A message is appended only
when it is the first of the batch, so what comes before it is taken care of; a
flush takes from the front, and puts back what it took in front of an empty
buffer.

The argument for `LogRangeFetch`: answered ranges followed by the stack tile the
batch.  `SplitTiles` is the lemma that does the work: replacing one range of a
tiling by two that meet keeps it a tiling.  `StackIsSmall` needs more: each range
on the stack is at most one block smaller than all ranges above it together
(`HalvedStack`), as the first half of a bisection is at most one block larger than
the second.  So with each range further down the blocks on the stack double, less
one, and by induction on the number of ranges a stack of `n` spans more than
`PowerOfTwo[n - 2]` blocks (`HalvedIsSmall`), all of one batch.  `FewPieces`
bounds the work of an attempt: a tiling has at most one range for each block
(`TilesAreFew`), and each call that does not end the attempt either fetches one or
makes one more.  It holds for a provider whose every error text contains a marker,
where the whole batch is cut to single blocks: the waste is bounded.  For
`BatchReads` only `Return` and `NextBatch` do something: the first makes the
batch, which the tiling shows to be all blocks from `next_block` to its end, the
second takes it; every call, bisection, retry and tick is a stutter, as there is
no batch until all of it has been read.

The argument for `BlockReader`.  How many elements come before an element of a
finite ordered set is its place: no two have the same, so by counting every place is
taken (`Places`), and `InOrder` lists each element once.  Hence the order of the
logs and of the hash map leaves no trace (`EventsOfBatch`, `MessagesOfBatch`).  A
message is whole because the logs of a transaction are in one block and a block is
in one batch (`MessagesAreWhole`); `next <= read + 1` is what the invariant adds, so
that no block is passed.

The argument for `Health`.  As long as nothing is wrong, at most one tick passes
without a success (`OneTick`).  After it the reader has polled once and is at the
read, and one poll more may have been dropped or be dropped yet by a state change
(`Spent`): two awaits at most, so that the next tick is not due before the third,
which is the success (`NoSecondTick`).
Every step is one of `Ingestor`'s or leaves its safety alone (`NextInv`,
`RetryKeeps`), so that `IInv` and the clock are proved side by side.

Two statements of the README are proved on a condition, and their findings show that
it is needed.  The stream has no duplicates if the server remembers the id of a
message until the message is `Settled`: the cursor in the file has passed it, and
neither the batch, the buffer, a flush nor the network holds a copy.  The theorem
is that this is enough: no drop, failed flush, crash, restart or late delivery
makes the ingestor publish a settled message again (`SettledStays`, which rests on
`IInv` and on the file never going back), and before that the id is in the window
(`StoredOnce`).  So `duplicate_window` has to be longer than the time from the
first copy of a message that reaches the stream to the persist of its block, and
not as long as any restart takes.  And no cursor passes a message unread other than
those of `INITIAL_BLOCK`, which is `CursorSafe` with nothing left out.

The argument for `StateFile`: the temporary file is renamed only when it is
synced and holds what was serialized (`InHand`), so the rename adds a whole
cursor to what the disk may hold; everything the disk may hold is of one chain
and not ahead of the file (`OneChain`), which is what lets a power loss pick any
of it.  For `CursorFile`, `Rename` is the save, `SyncDir` the confirmation, and
all other steps of a persist are stutters; on the side of `Ingestor`, `Tick` and
`FinalPersist` save.

The argument for `LaggingNodes`: what is fetched covers the batch up to `from`
(the strengthening of `NothingMissed`), for either the node refused to answer
beyond its head, or it is the node whose head bounds the batch.  For `Startup`:
only `CreateStream`, `CreateFails` and the administrator write the stream, and
none removes it.

Only model-checked: all liveness, as fairness and `ENABLED` are out of the prover's
reach: `EventuallyDelivered`, `CursorCatchesUp`, `PauseEnds`, both `ReadsAll`,
`EventuallyRuns`, `SignalEnds`, `StuckIsReported` and `AlarmEnds`.  And
`BisectsOnlyRefused`, which depends on the very texts of the errors and the
markers of `error.rs`: `fetch` has nine kinds, and none of its transient ones
contains a marker; one that does is bisected, and `FewPieces` says how far that
goes.  Induction over
the natural numbers is done with `AllNumbers`, for a set of numbers in place of a
predicate.  What the theorems say of `Cardinality` and finite sets comes from the
library of TLAPS.

## 5. What is not modelled

* Reorganisations of the chain.  The code keeps no block hash and has no
  confirmation depth: whatever is published of a block that goes away stays, and
  what takes its place is not read.  There is no mechanism to check; the models
  have one growing chain, in `LaggingNodes` one that nodes learn of at different
  times.
* The HTTP routes other than `/health`, the timeout of a request, metrics and
  logs: they keep no state of the ingestor.
* How the configuration is read from environment variables and secret files (a
  library), and what makes certificates and URLs parse: `Valid` says for which
  instances they do.
* `normalize_pem`: a reformatting of one text, without state and met once at a
  start; it has unit tests.
* The fields of the event types, JSON and the subject of a message.
* The retention of the stream: `stream` holds what was ever stored.
* `reconnect_delay` and `max_reconnect_delay` of the configuration: no code uses
  them.
* In `Ingestor` a kill leaves the file as it is.  `StateFile` shows what a power
  loss can do beyond that: after a directory sync that failed, the file may come
  back older, which is safe (more is read again) and is why `DiskMonotone`
  speaks of the file programs see.
* In `Startup` the state file is of this chain, of another, or none; what an
  unreadable one does is in `StateFile` and `Ingestor`.
* A `batch_size` of 0, which the configuration does not reject, is excluded by
  assumption: every batch would be empty and `next_block` stay where it is (the
  guard of `application.rs` 282).  A `buffer_capacity` of 0 is covered by the
  safety theorems; what becomes of liveness is said in section 3.

## 6. Plan

1. Done: the core (`Ingestor` and its parts), `LogRangeFetch`, `StateFile`,
   `BlockReader`; then `Health`, `Startup`, `LaggingNodes`, `ErrorClass`,
   `CursorFile` and the proofs listed above.
2. Done: the theorems on all safety properties, the refinements of `BatchReads`.
3. Next: `ChainKept` carried through `CursorFile` to `Ingestor`; that a message in
   `Ingestor` is one that `BlockReader` makes.
