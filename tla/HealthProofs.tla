----------------------------- MODULE HealthProofs -----------------------------
(***************************************************************************)
(* Proofs about Health: what the ingestor is, it also is when the clock    *)
(* watches it and its provider fails; and the clock raises no false alarm. *)
(***************************************************************************)
EXTENDS Health, IngestorProofs

-----------------------------------------------------------------------------
(* A provider that refuses adds only retries to the steps of the task.     *)

\* A step of the watched task is a step of Ingestor or a retry, which uses up
\* an await and nothing else.
LEMMA WatchedSteps ==
  ASSUME [HNext]_hvars
  PROVE  [Next]_vars \/ RetryRead
  BY DEF HNext, Watched, ProviderStops, ProviderAnswers, hvars, vars

\* A retry keeps every invariant of Ingestor: none reads elapsed but the type.
LEMMA RetryKeeps ==
  ASSUME IInv, RetryRead
  PROVE  IInv'
<1>1. /\ elapsed' \in 0 .. StepsPerFlush
      /\ UNCHANGED <<stream, window, wire, head, conn, changed, faults, pc, shutdown,
                     latest, batch, batchEnd, buffer, paused, flushing,
                     nextBlock, lastSynced, disk>>
  BY IngestorAssumption
  DEF RetryRead, Step, IInv, TypeOK, jsVars, envVars, readerVars, pubVars, curVars
<1>2. TypeOK' /\ FlushShape'
  BY <1>1 DEF IInv, TypeOK, FlushShape
<1>3. Stored' = Stored /\ Held' = Held
  BY <1>1 DEF Stored, Held
<1>4. RoomForUnacked' /\ BufferBound' /\ NoStuckPause'
  BY <1>1 DEF IInv, RoomForUnacked, BufferBound, NoStuckPause
<1>5. WindowSafe' /\ KnownBlocks' /\ BatchKept' /\ NothingLost' /\ CursorSafe'
  BY <1>1, <1>3
  DEF IInv, WindowSafe, KnownBlocks, BatchKept, NothingLost, CursorSafe, Due
<1> QED BY <1>2, <1>4, <1>5 DEF IInv

\* Nothing is lost, the cursor is safe and the buffer bounded, also when the
\* provider refuses batches and the reader retries them (reader.rs).
THEOREM SafeUnderRetries == HSpec => []IInv
<1>1. HInit => IInv
  BY InitShape, InitRoom, InitMessages
  DEF HInit, IInv, Shape, Room, Messages, Tracked, NoStuckPause, Init
<1>2. IInv /\ [HNext]_hvars => IInv'
  BY WatchedSteps, NextInv, RetryKeeps
<1> QED BY <1>1, <1>2, PTL DEF HSpec

-----------------------------------------------------------------------------
(* The clock.                                                              *)

\* A tick is not due while the reader has completed two awaits at most since
\* the last one, is not paused and does not wait for the buffer.
LEMMA NoSecondTick ==
  ASSUME StepsPerFlush >= 3, TypeOK, OneTick, ~paused
  PROVE  ~Tick
  BY IngestorAssumption DEF OneTick, Spent, Tick, TickDue, AtAwait, TypeOK

\* A step that is neither a tick nor a success, without trouble before or
\* after it, keeps the account of the awaits.
LEMMA KeepOneTick ==
  ASSUME Shape, HInv, Next, OneTick, ~troubled, ~Tick,
         ~(Success \/ StartResume \/ StartFresh),
         ~paused', conn' = "Connected"
  PROVE  OneTick' \/ sinceSuccess' # sinceSuccess
<1> SUFFICES ASSUME sinceSuccess' = sinceSuccess PROVE OneTick'
  OBVIOUS
<1> USE DEF OneTick, Spent, jsVars, envVars, readerVars, pubVars, curVars
<1>0. /\ ~paused /\ conn = "Connected" /\ answering
      /\ elapsed \in 0 .. StepsPerFlush /\ StepsPerFlush \in Nat
      /\ changed \in BOOLEAN
      /\ pc \notin {"down", "publish", "ack", "full", "delay"}
  BY IngestorAssumption DEF HInv, Shape, TypeOK
<1>1. CASE Reader
  <2>1. GetLatest /\ pc' # "delay"
    BY <1>0, <1>1 DEF Success, Reader, GetLatest, ReadBatch, WaitWhileFull, EndBatch,
       Delay, PublishDisconnected, PublishConnected, PublishOk, PublishErr
  <2> QED BY <1>0, <2>1 DEF GetLatest, Step
<1>2. CASE ChangeSignalled
  BY <1>0, <1>2 DEF ChangeSignalled, AtAwait
<1>3. CASE ChangeToConnected
  BY <1>0, <1>3 DEF ChangeToConnected
<1>4. CASE ChangeToDisconnected
  BY <1>0, <1>4 DEF ChangeToDisconnected
<1>5. CASE TryResume
  BY <1>0, <1>5 DEF TryResume
<1>6. CASE FlushOk
  <2>1. pc' \in {pc, "select"} /\ elapsed' = elapsed /\ changed' = changed
    BY <1>6 DEF FlushOk
  <2>2. pc \in {"flushOnChange", "flushOnTick"}
    BY <1>6 DEF FlushOk, Flushing
  <2> QED BY <1>0, <2>1, <2>2
<1>7. CASE FlushErr
  BY <1>0, <1>7 DEF FlushErr, Flushing
<1>8. CASE Signal \/ Connect \/ Disconnect
  BY <1>0, <1>8 DEF Signal, Connect, Disconnect
<1>9. CASE Break
  BY <1>0, <1>9 DEF Break
<1>10. CASE FinalPersist \/ Crash
  BY <1>0, <1>10 DEF FinalPersist, Crash, Exit
<1>11. CASE \/ NewBlock \/ \E m \in Msgs : DeliverLate(m) \/ Lose(m)
            \/ \E id \in window : WindowPasses(id)
  BY <1>0, <1>11 DEF NewBlock, DeliverLate, Lose, WindowPasses
<1> QED
  BY <1>1, <1>2, <1>3, <1>4, <1>5, <1>6, <1>7, <1>8, <1>9, <1>10, <1>11
  DEF Next, Handlers, Environment

\* Every step of the watched task keeps the clock within what HInv allows.
LEMMA WatchedClock ==
  ASSUME StepsPerFlush >= 3, Shape, Shape', HInv, Watched(Next)
  PROVE  HInv'
<1>1. /\ Next /\ answering' = answering /\ Clock
      /\ StallThreshold \in Nat /\ sinceSuccess \in 0 .. StallThreshold + 1
  BY HealthAssumption DEF Watched, HInv
<1>2. troubled' \in BOOLEAN /\ answering' \in BOOLEAN
  BY <1>1, Zenon DEF Clock, HInv
<1>3. sinceSuccess' \in 0 .. StallThreshold + 1
  BY <1>1 DEF Clock, record_success, TimePasses
<1>4. paused' \/ conn' = "Disconnected" \/ ~answering' => troubled'
  BY <1>1 DEF Clock
<1>5. ASSUME ~troubled', sinceSuccess' # 0
      PROVE  OneTick'
  <2>1. /\ ~troubled /\ ~paused' /\ conn' = "Connected" /\ TimePasses
        /\ ~(Success \/ StartResume \/ StartFresh)
    BY <1>1, <1>5 DEF Clock, record_success, Shape, TypeOK
  <2>2. ~paused
    BY <2>1 DEF HInv
  <2>3. CASE Tick
    <3>1. sinceSuccess = 0
      BY <2>1, <2>2, <2>3, NoSecondTick DEF HInv, Shape
    <3>2. sinceSuccess' = 1
      BY <1>1, <2>1, <2>3, <3>1 DEF TimePasses
    <3>3. pc' = "tick" /\ elapsed' = 0
      BY <2>3 DEF Tick
    <3> QED BY <3>2, <3>3 DEF OneTick
  <2>4. CASE ~Tick
    <3>1. sinceSuccess' = sinceSuccess
      BY <2>1, <2>4 DEF TimePasses
    <3>2. OneTick
      BY <1>5, <2>1, <3>1 DEF HInv
    <3> QED BY <1>1, <2>1, <2>4, <3>1, <3>2, KeepOneTick
  <2> QED BY <2>3, <2>4
<1> QED BY <1>2, <1>3, <1>4, <1>5, Zenon DEF HInv

\* The health check reports no ingestor that is well: when the reader can
\* complete three awaits between two ticks, only trouble since the last success
\* makes the clock stale (handlers.rs, application.rs).
THEOREM HealthyIsNotReported ==
  ASSUME StepsPerFlush >= 3
  PROVE  HSpec => []NoFalseAlarm
<1>1. HInit => HInv
  BY HealthAssumption DEF HInit, HInv
<1>2. IInv /\ IInv' /\ HInv /\ [HNext]_hvars => HInv'
  <2> SUFFICES ASSUME Shape, Shape', HInv, [HNext]_hvars PROVE HInv'
    BY DEF IInv, Shape
  <2>1. CASE Watched(Next)
    BY <2>1, WatchedClock
  <2>2. CASE RetryRead
    BY <2>2 DEF RetryRead, HInv, envVars, pubVars
  <2>3. CASE ProviderStops \/ ProviderAnswers \/ UNCHANGED hvars
    <3>1. /\ UNCHANGED <<pc, elapsed, paused, conn, changed, sinceSuccess>>
          /\ \/ answering' = FALSE /\ troubled' = TRUE
             \/ answering' = TRUE /\ troubled' = troubled
             \/ UNCHANGED <<answering, troubled>>
      BY <2>3 DEF ProviderStops, ProviderAnswers, hvars, vars, envVars, pubVars
    <3>2. answering' \in BOOLEAN /\ troubled' \in BOOLEAN
      BY <3>1, Zenon DEF HInv
    <3>3. OneTick => OneTick'
      BY <3>1 DEF OneTick, Spent
    <3> QED BY <3>1, <3>2, <3>3 DEF HInv
  <2> QED BY <2>1, <2>2, <2>3 DEF HNext
<1>3. HInv => NoFalseAlarm
  BY HealthAssumption DEF HInv, OneTick, NoFalseAlarm, health_check, stale_for
<1> QED BY <1>1, <1>2, <1>3, SafeUnderRetries, PTL DEF HSpec
=============================================================================
