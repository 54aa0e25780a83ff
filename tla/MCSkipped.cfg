\* The block of INITIAL_BLOCK after a restart.
SPECIFICATION Spec
CONSTANTS
  ChainId = 1
  BufferCapacity = 1
  BlockOf <- Blocks12
  MaxBlock = 2
  InitialBlock = 1
  InitialDisk <- NoFile
  BatchSize = 2
  StepsPerFlush = 0
  MaxFaults = 1
  UnreadableStarts = FALSE
INVARIANT NothingSkipped
