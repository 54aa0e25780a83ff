\* The health check under outages, crashes and a provider that may refuse.
SPECIFICATION HSpec
CONSTANTS
  ChainId = 1
  BufferCapacity = 1
  BlockOf <- Blocks11
  MaxBlock = 1
  InitialBlock = 0
  InitialDisk = 0
  BatchSize = 1
  StepsPerFlush = 4
  MaxFaults = 2
  UnreadableStarts = FALSE
  StallThreshold = 1
  ProviderMayStop = TRUE
INVARIANTS NoFalseAlarm
PROPERTIES StuckIsReported AlarmEnds
