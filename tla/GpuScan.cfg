SPECIFICATION FairSpec
CONSTANTS
  Backends = {b1}
  Threads = {t1}
  Drivers = {d1}
  Main = main
  Messages = {m1, m2}
  NoMessage = NoMessage
  MaxQueues = 1
  BlockSize = 1
  CounterRange = 16
  MinAsync = 0
  MaxAsync = 1
  MaxScans = 2
  MaxChunks = 2
  Env = {"limit"}
INVARIANTS
  TypeOK
  MessageRefs
  QueueRefs
  FreeQueuesUnused
  AnswersAccounted
  HeldAlive
  ReleaseIsLast
  OnlyExecutedChunks
PROPERTIES
  OwnershipRefined
  ClosedIsFinal
  WaitEnds
  QueueDropped
CHECK_DEADLOCK FALSE
