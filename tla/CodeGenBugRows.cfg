CONSTANTS
  ClauseLists <- RowsLists
  MaxPlans = 1
  MaxInval = 0
  Rows <- MCRows
  NULL = NULL
SPECIFICATION Spec
INVARIANT QueryRows
