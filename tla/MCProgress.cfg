\* Liveness from a first start, with starts that may not read the file:
\* batches of two messages need four awaits, one flush_interval.
SPECIFICATION FairSpec
CONSTANTS
  ChainId = 1
  BufferCapacity = 1
  BlockOf <- Blocks22
  MaxBlock = 2
  InitialBlock = 1
  InitialDisk <- NoFile
  BatchSize = 1
  StepsPerFlush = 4
  MaxFaults = 2
  UnreadableStarts = TRUE
INVARIANTS NothingLost CursorSafe
PROPERTIES EventuallyDelivered CursorCatchesUp PauseEnds
