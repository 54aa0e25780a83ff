\* Batches of two blocks over three, restarted at any of them.
SPECIFICATION Spec
CONSTANTS
  LastBlock = 3
  BatchSize = 2
  Chains <- SmallChains
INVARIANTS StoredWhole BatchOrdered NothingMissed
