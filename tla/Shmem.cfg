SPECIFICATION Spec
CONSTANTS
  Clients = {c1, c2}
  Processes = {c1, c2}
  ProcessOf <- OwnProcess
  NoClient = NoClient
  BlockLen = 4
  MaxClass = 2
  MagicLen = 1
  HeaderLen = 4
  DescLen = 1
  TotalSize = 48
  ZoneLength = 36
  Requests = {3, 15, 16}
INVARIANTS
  TypeOK
  ChunksDisjoint
  WalkFindsHeads
  CountersExact
  MergedButLast
  SearchComplete
PROPERTIES
  MemoryRefined
CHECK_DEADLOCK FALSE
