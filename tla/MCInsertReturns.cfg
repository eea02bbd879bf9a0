SPECIFICATION Spec
CONSTANTS
  LEAF_NODE_MAX_CELLS = 5
  INTERNAL_NODE_MAX_CELLS = 3
  TABLE_MAX_PAGES = 4
  MaxFilePages = 0
  NumKeys = 9
  Keys <- MCKeys
  v1 = v1
  v2 = v2
  Values <- MCValues
  Entered <- OneRowEach
  Unset = Unset
  Null = Null
PROPERTY InsertReturns
CHECK_DEADLOCK FALSE
