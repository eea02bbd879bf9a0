SPECIFICATION CloseSpec
CONSTANTS
  TABLE_MAX_PAGES = 3
  MaxFilePages = 5
  NodeA = NodeA
  NodeB = NodeB
  Hole = Hole
  Garbage = Garbage
  Root0 = Root0
  Null = Null
  Zeros = Hole
  Junk = Garbage
  EmptyRoot = Root0
  Content <- MCContent
PROPERTY PersistedWhereRead
CHECK_DEADLOCK FALSE
