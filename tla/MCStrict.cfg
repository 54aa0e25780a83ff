\* Calls are answered by any node; nodes refuse blocks they do not have.
SPECIFICATION Spec
CONSTANTS
  n1 = n1
  n2 = n2
  Nodes = {n1, n2}
  MaxBlock = 4
  BatchSize = 3
  MaxDrops = 1
  Lenient = {}
  Sticky = FALSE
INVARIANTS TypeOK NothingMissed
PROPERTIES ReadsAll
