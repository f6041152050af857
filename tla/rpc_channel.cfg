SPECIFICATION FairSpec
CONSTANTS
  Calls = {1, 2, 3}
  NoCall = NoCall
  MaxId = 4
  NotifySize = 3
  AnswerSize = 3
  Handlers <- NestedAll
  MaxDepth = 3
  MaxNotifies = 1
  MaxConnects = 2
INVARIANTS StreamInSync PendingSomewhere
PROPERTIES KeepsContract NoneStaysPending
CHECK_DEADLOCK FALSE
