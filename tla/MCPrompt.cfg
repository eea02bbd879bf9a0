SPECIFICATION Spec
CONSTANTS
  NULL = NULL
  Characters <- MCCharacters
  ROOT_PATH <- MCRoot
  Lines <- MCLines
  MaxPath = 6
INVARIANTS TypeOK LineFormatted PathsAsTyped
PROPERTY CdMoves
CHECK_DEADLOCK FALSE
