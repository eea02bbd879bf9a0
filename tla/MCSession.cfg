SPECIFICATION Spec
CONSTANTS
  LEAF_NODE_MAX_CELLS = 5
  INTERNAL_NODE_MAX_CELLS = 3
  TABLE_MAX_PAGES = 4
  MaxFilePages = 0
  NumKeys = 11
  Keys <- MCKeys
  v1 = v1
  v2 = v2
  Values <- MCValues
  Entered <- MCRows
  Unset = Unset
  Null = Null
INVARIANTS TypeOK TreeOrdered LeavesChained ParentsKnown FindsPlace
PROPERTIES SplitBuildsTree ImplementsRowTable
CHECK_DEADLOCK FALSE
