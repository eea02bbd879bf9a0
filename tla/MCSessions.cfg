SPECIFICATION FairSpec
CONSTANTS
  LEAF_NODE_MAX_CELLS = 2
  INTERNAL_NODE_MAX_CELLS = 3
  TABLE_MAX_PAGES = 7
  MaxFilePages = 7
  NumKeys = 4
  Keys <- MCKeys
  v1 = v1
  v2 = v2
  Values <- MCValues
  Entered <- OneRowEach
  Unset = Unset
  Null = Null
INVARIANTS PagerKept FirstRowsFound FindsPlace
PROPERTIES SelectEnds CloseEnds
CHECK_DEADLOCK FALSE
