SPECIFICATION FairSpec
CONSTANTS
  Submitters = {s1}
  Cancellers = {}
  Jobs = {j1}
  Threads = {t1,t2,t3}
  MinThreads = 1
  MaxThreads = 2
  Prio <- OnePriority
  NoJob = NoJob
  NoThread = NoThread
  NoOwner = NoOwner
  MaxStarts = 2
  MaxStops = 1
  MaxDrops = 0
  MaxDestroys = 0
PROPERTY RetainedJobsTaken
CHECK_DEADLOCK FALSE
