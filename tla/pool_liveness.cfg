SPECIFICATION FairSpec
CONSTANTS
  Submitters = {s1}
  Cancellers = {}
  Jobs = {j1,j2}
  Threads = {t1,t2}
  MinThreads = 1
  MaxThreads = 2
  Prio <- OnePriority
  NoJob = NoJob
  NoThread = NoThread
  NoOwner = NoOwner
  MaxStarts = 1
  MaxStops = 0
  MaxDrops = 0
  MaxDestroys = 0
PROPERTIES JobsTakenWhileThreads EveryThreadJoined
CHECK_DEADLOCK FALSE
