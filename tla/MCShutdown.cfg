\* What a graceful shutdown does with the buffer.
SPECIFICATION Spec
CONSTANTS
  ChainId = 1
  BufferCapacity = 2
  BlockOf <- Blocks11
  MaxBlock = 1
  InitialBlock = 0
  InitialDisk = 0
  BatchSize = 2
  StepsPerFlush = 0
  MaxFaults = 3
  UnreadableStarts = FALSE
PROPERTY GracefulShutdownFlushes
