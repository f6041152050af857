SPECIFICATION FairSpec
CONSTANTS
  Jobs = {1, 2}
  Threads = {t1, t2}
  Cancellers = {c1}
  MinThreads = 1
  MaxThreads = 2
  Prio <- OnePriority
  Polling <- AllPoll
  Targets = {1}
  NoJob = 0
  Marker = Marker
  NoOwner = NoOwner
  MaxStarts = 1
  MaxCalls = 1
  MaxDestroys = 1
INVARIANTS WJobInOnePlace SemaphoreExact
CHECK_DEADLOCK FALSE
PROPERTIES TakeInOrder NotLeftBesideWorker DestructorEnds
