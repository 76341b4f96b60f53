CONSTANTS
  Cols <- MCCols
  TupleKinds <- MCTupleKinds
  Relations <- MCRelations
  StoreLen = 1600
  HtupLen = 8
  Hoff = 8
  ParamLists <- MCParamLists
  Threads <- MCThreads
  Devices <- MCDevices
  NULL = NULL
SPECIFICATION Spec
INVARIANTS LoadedOnce StoresFit SeenRight LaunchFits
