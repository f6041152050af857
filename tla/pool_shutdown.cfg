SPECIFICATION FairSpec
CONSTANTS
  Submitters = {s1}
  Cancellers = {}
  Jobs = {j1}
  Threads = {t1,t2}
  MinThreads = 1
  MaxThreads = 2
  Prio <- OnePriority
  NoJob = NoJob
  NoThread = NoThread
  NoOwner = NoOwner
  MaxStarts = 2
  MaxStops = 1
  MaxDrops = 0
  MaxDestroys = 1
PROPERTIES ShutdownEnds
CHECK_DEADLOCK FALSE
