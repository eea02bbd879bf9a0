SPECIFICATION Spec
CONSTANTS
  NULL = NULL
  Characters <- MCCharacters
  ROOT_PATH <- MCRoot
  Lines <- MCLines
  MaxPath = 6
INVARIANT BlanksRemoved
CHECK_DEADLOCK FALSE
