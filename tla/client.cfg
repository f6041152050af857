SPECIFICATION FairSpec
CONSTANTS
  Listeners = {l1, l2}
  NoListener = NoListener
  Calls = {c1}
  MaxDepth = 3
  MaxAttempts = 4
  MaxInfos = 1
INVARIANTS FlagFollowsSocket LastWordTrue
PROPERTIES AttemptIsAnswered
CHECK_DEADLOCK FALSE
