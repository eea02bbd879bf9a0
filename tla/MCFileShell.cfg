SPECIFICATION FairSpec
CONSTANTS
  a = a
  b = b
  txt = txt
  Names <- MCNames
  Dotted <- MCDotted
  Data = {y}
  Text = {}
  Mangled = Mangled
  MAX_DEPTH = 3
  BUFFER = 1
  MaxEntries = 4
  MaxBlocks = 3
  MaxTyped = 2
INVARIANTS TypeOK OnlyTargetChanges RemovesAllItCan CopiesAllItCan MoveLosesNothing
PROPERTY CommandsEnd
CHECK_DEADLOCK FALSE
