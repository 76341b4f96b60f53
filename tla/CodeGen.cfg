CONSTANTS
  ClauseLists <- MCClauseLists
  MaxPlans = 2
  MaxInval = 2
  Rows <- MCRows
  NULL = NULL
SPECIFICATION Spec
INVARIANTS WalkSucceeds RowsExact ListsComplete FreedAtMostOne
