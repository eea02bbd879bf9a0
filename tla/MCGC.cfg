SPECIFICATION FairSpec
CONSTANTS
  Addr = {a1, a2, a3, a4}
  STACK_MAX = 2
  INIT_OBJ_NUM_MAX = 2
INVARIANTS TypeOK ReachableAllocated GarbageCollected LimitNotPassed
PROPERTIES CollectionEnds ImplementsPairMachine
CHECK_DEADLOCK FALSE
