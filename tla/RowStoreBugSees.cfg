CONSTANTS
  Cols <- MCCols
  TupleKinds <- BugTupleKinds
  Relations <- BugRelations
  StoreLen = 1600
  HtupLen = 8
  Hoff = 8
  ParamLists <- BugParamLists
  Threads <- MCThreads
  Devices <- MCDevices
  NULL = NULL
SPECIFICATION Spec
INVARIANT KernelSees
