CONSTANT Max = 4
SPECIFICATION Spec
INVARIANTS ItemsOwned FreedOnce
CHECK_DEADLOCK FALSE
