\* Crashes, shutdowns, outages and failed publishes, from an existing file.
SPECIFICATION Spec
CONSTANTS
  ChainId = 1
  BufferCapacity = 2
  BlockOf <- Blocks133
  MaxBlock = 3
  InitialBlock = 0
  InitialDisk = 0
  BatchSize = 2
  StepsPerFlush = 0
  MaxFaults = 3
  UnreadableStarts = FALSE
INVARIANTS TypeOK NothingLost CursorSafe BufferBound NoStuckPause BufferInOrder
PROPERTIES DiskMonotone AtLeastOnceSpec CursorFileSpec
