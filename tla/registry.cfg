SPECIFICATION FairSpec
CONSTANTS
  Conns = {k1, k2, k3}
  Descs = {d1}
  NoConn = NoConn
  NoDesc = NoDesc
  MaxConnections = 1
  MaxEmits = 2
INVARIANTS KeptWhileOpen ClientOfConnection
PROPERTIES FinishedDestroyed NotifiedUnlessShadowed
CHECK_DEADLOCK FALSE
