SPECIFICATION Spec
CONSTANTS
  Submitters = {s1, s2}
  Cancellers = {c1}
  Jobs = {j1, j2}
  Threads = {t1, t2, t3}
  MinThreads = 1
  MaxThreads = 2
  Prio <- OnePriority
  NoJob = NoJob
  NoThread = NoThread
  NoOwner = NoOwner
  MaxStarts = 1
  MaxStops = 0
  MaxDrops = 1
  MaxDestroys = 1
SYMMETRY PoolSymmetry
INVARIANTS HandoffInv GetJobNeverEmpty WorkersWithinMax JobInOnePlace
PROPERTY InsertInIdOrder
CHECK_DEADLOCK FALSE
