SPECIFICATION Spec
CONSTANTS
  LEAF_NODE_MAX_CELLS = 2
  INTERNAL_NODE_MAX_CELLS = 3
  TABLE_MAX_PAGES = 5
  MaxFilePages = 7
  NumKeys = 3
  Keys <- MCKeys
  v1 = v1
  v2 = v2
  Values <- MCValues
  Entered <- OneRowEach
  Unset = Unset
  Null = Null
INVARIANT PagesInTable
CHECK_DEADLOCK FALSE
