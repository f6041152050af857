SPECIFICATION FairSpec
CONSTANTS
  Waiters = {t1,t2}
  Setters = {s1,s2}
  N = 2
  AutoReset <- StopManual
  Objects = {o1,o2}
  NoWaiter = NoWaiter
  NoSetter = NoSetter
  NoObject = NoObject
  MaxSets = 2
  MaxResets = 1
  MaxWaits = 3
INVARIANTS RefCountExact NoSleepOverSetEvent
PROPERTIES KeepsContract CallsReturn
CHECK_DEADLOCK FALSE
