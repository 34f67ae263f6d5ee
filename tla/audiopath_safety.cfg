CONSTANTS Blocks = {b1, b2}  NodeMax = 5  RT_NULL = RT_NULL
SPECIFICATION FairSpec
INVARIANTS OnePlace PlaysWhatIsQueued
PROPERTY AllocServed ImplementsOwnership
CHECK_DEADLOCK FALSE
