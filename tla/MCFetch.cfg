\* Two batches, every distribution of logs, also blocks beyond the limit.
SPECIFICATION FairSpec
CONSTANTS
  LastBlock = 6
  BatchSize = 4
  Providers <- CappedProviders
  Rejections <- TooLarge
  Transients <- Others
  FlushInterval = 8
  MaxFaults = 2
  Cap = 3
  Weights = {0, 2, 3, 4}
INVARIANTS TypeOK WholeRange OnlyAnswered StackIsSmall
PROPERTIES ReadsAll BisectsOnlyRefused BatchReadsSpec
