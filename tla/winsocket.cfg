SPECIFICATION FairSpec
CONSTANTS
  Ways <- BothWays
  Capacity = 2
  MaxOpens = 2
  MaxWrites = 3
  MaxPeerWrites = 2
INVARIANTS StreamInOrder ReadInOrder
PROPERTIES HeardInOrder EverySliceLeaves LossIsNoticed
CHECK_DEADLOCK FALSE
