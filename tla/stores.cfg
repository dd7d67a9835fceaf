SPECIFICATION Spec
CONSTANTS
  MaxSeq = 3
  MaxBatch = 2
  Players = {p}
  States = {0, 1}
  Missed = {0}
PROPERTY ImplementsMemoryStore
