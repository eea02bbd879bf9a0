SPECIFICATION Spec
CONSTANTS
  NULL = NULL
  Characters <- MCCharacters
  ROOT_PATH <- MCRoot
  Lines <- CdLines
  MaxPath = 6
PROPERTY CdChecks
CHECK_DEADLOCK FALSE
