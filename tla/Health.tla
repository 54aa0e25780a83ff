-------------------------------- MODULE Health --------------------------------
(***************************************************************************)
(* IngestionLiveness of src/handlers.rs, which GET /health reports, added  *)
(* to the task it watches: its steps are the steps of Ingestor, seen by    *)
(* the clock, and the RPC provider may stop answering the range of the     *)
(* next batch, which the reader then retries.  Time is counted in ticks of *)
(* flush_interval.                                                         *)
(***************************************************************************)
EXTENDS Ingestor

CONSTANTS
  StallThreshold,   \* config app.health_stall_threshold, in flush_intervals
  ProviderMayStop   \* does the provider ever refuse a range?

ASSUME HealthAssumption ==
  /\ StallThreshold \in Nat \ {0}
  /\ ProviderMayStop \in BOOLEAN

VARIABLES
  sinceSuccess,   \* ticks since last_success_millis, up to StallThreshold + 1
  answering,      \* does the provider answer the range the reader asks for?
  troubled        \* history: since the last success the provider stopped,
                  \* NATS was away or the reader was paused

hvars == <<vars, sinceSuccess, answering, troubled>>

-----------------------------------------------------------------------------
(* Faulty variants: the bugs the checked properties are meant to catch.    *)

SuccessWhenAsked == GetLatest

SuccessOfBatchOnly == ReadBatch

-----------------------------------------------------------------------------
\* Where Application::run calls record_success: a poll that finds nothing new,
\* and a batch that has been read.
Success == (GetLatest /\ pc' = "delay") \/ ReadBatch

\* IngestionLiveness::new and record_success set the clock back.
record_success == sinceSuccess' = 0

\* Otherwise it shows one flush_interval more at each tick.
TimePasses ==
  sinceSuccess' = IF Tick /\ sinceSuccess <= StallThreshold
                  THEN sinceSuccess + 1 ELSE sinceSuccess

stale_for == sinceSuccess > StallThreshold

health_check == IF pc # "down" /\ stale_for THEN 503 ELSE 200

\* How the clock sees a step of the task.
Clock ==
  /\ \/ (Success \/ StartResume \/ StartFresh) /\ record_success
     \/ ~(Success \/ StartResume \/ StartFresh) /\ TimePasses
  /\ troubled' = \/ paused' \/ conn' = "Disconnected" \/ ~answering
                 \/ troubled /\ sinceSuccess' # 0

\* read_batch_with_retry returns only when the provider has answered.
Watched(A) ==
  A /\ (ReadBatch => answering) /\ Clock /\ UNCHANGED answering

\* read_batch_with_retry logs the error, sleeps and asks again.
RetryRead ==
  /\ pc = "read" /\ ~answering /\ elapsed < StepsPerFlush
  /\ Step
  /\ UNCHANGED <<jsVars, envVars, faults, pc, shutdown, readerVars, pubVars,
                 curVars, sinceSuccess, answering, troubled>>

ProviderStops ==
  /\ ProviderMayStop /\ answering
  /\ answering' = FALSE /\ troubled' = TRUE
  /\ UNCHANGED <<vars, sinceSuccess>>

ProviderAnswers ==
  /\ ~answering
  /\ answering' = TRUE
  /\ UNCHANGED <<vars, sinceSuccess, troubled>>

-----------------------------------------------------------------------------
HInit ==
  /\ Init
  /\ sinceSuccess = 0 /\ answering = TRUE /\ troubled = TRUE

HNext == Watched(Next) \/ RetryRead \/ ProviderStops \/ ProviderAnswers

\* The fairness of Ingestor; the provider may refuse for ever.
HFairness ==
  /\ WF_hvars(Watched(StartResume \/ StartFresh))
  /\ WF_hvars(Watched(Reader))
  /\ WF_hvars(RetryRead)
  /\ WF_hvars(Watched(Handlers))
  /\ WF_hvars(Watched(FinalPersist))
  /\ WF_hvars(Watched(Connect))
  /\ SF_hvars(Watched(ChangeSignalled))
  /\ SF_hvars(Watched(Tick))
  /\ SF_hvars(Watched(Break))

HSpec == HInit /\ [][HNext]_hvars /\ HFairness

-----------------------------------------------------------------------------
\* No false alarm: an ingestor whose provider answers, whose NATS is there and
\* whose reader was not paused since the last success is never reported, however
\* often ticks drop its batches.
NoFalseAlarm == health_check = 503 => troubled

\* What NoFalseAlarm rests on: without trouble the clock shows a tick only
\* after a tick that was the first one since a success, and the awaits the
\* reader has completed since then do not make another tick due.  A state
\* change it has not seen may still drop one answer of the provider.
Spent == IF changed THEN 1 ELSE 0

OneTick ==
  /\ sinceSuccess = 1
  /\ \/ pc \in {"tick", "flushOnTick"} /\ elapsed = 0
     \/ pc = "select" /\ elapsed + Spent <= 1
     \/ pc = "read" /\ elapsed + Spent <= 2
     \/ pc \in {"change", "flushOnChange"} /\ elapsed <= 1 /\ ~changed
     \/ pc = "final"

HInv ==
  /\ sinceSuccess \in 0 .. StallThreshold + 1
  /\ answering \in BOOLEAN /\ troubled \in BOOLEAN
  /\ paused \/ conn = "Disconnected" \/ ~answering => troubled
  /\ troubled \/ sinceSuccess = 0 \/ OneTick

\* A reader that is stuck with blocks to read is reported, and stays so: the
\* ticks, which drop and restart its retries, do not make it look alive.
StuckIsReported ==
  <>[](pc # "down" /\ ~answering /\ nextBlock <= head) => <>[](health_check = 503)

\* Once the provider answers for good, every alarm ends for good.
AlarmEnds == <>[]answering => <>[](health_check = 200)
=============================================================================
