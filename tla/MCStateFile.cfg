\* Two chains, four cursors, three faults, one start that cannot read.
SPECIFICATION Spec
CONSTANTS
  ChainIds = {1, 2}
  InitialBlock = 1
  MaxBlock = 4
  ParentOpens = TRUE
  MaxFaults = 3
  MaxMisreads = 1
INVARIANTS NeverTorn ConfirmedKept MemoryAhead
PROPERTIES ChainKept CursorFileSpec
