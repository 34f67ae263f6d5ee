CONSTANTS Radio = {r1, r2}  Update = update  None = none  N = 4
SPECIFICATION Spec
INVARIANT ValidSocket
CHECK_DEADLOCK FALSE
