\* The same with one await less per flush_interval.
SPECIFICATION FairSpec
CONSTANTS
  LastBlock = 6
  BatchSize = 4
  Providers <- CappedProviders
  Rejections <- TooLarge
  Transients <- Others
  FlushInterval = 7
  MaxFaults = 2
  Cap = 3
  Weights = {0, 2, 3, 4}
PROPERTY ReadsAll
