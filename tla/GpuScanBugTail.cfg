SPECIFICATION Spec
CONSTANTS
  Backends = {b1}
  Threads = {t1}
  Drivers = {d1}
  Main = main
  Messages = {m1, m2}
  NoMessage = NoMessage
  MaxQueues = 2
  BlockSize = 1
  CounterRange = 16
  MinAsync = 0
  MaxAsync = 1
  MaxScans = 1
  MaxChunks = 2
  Env = {}
INVARIANTS
  NoStaleAccess
CHECK_DEADLOCK FALSE
