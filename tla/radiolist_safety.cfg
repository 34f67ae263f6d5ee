CONSTANTS Radio = {r1, r2}  Update = update  None = none  N = 2  UiMq = 1
SPECIFICATION ListSpec
INVARIANTS OwnConnection NoneLeftOpen RequestAwaited ListWhole KeptUntilAnswered
PROPERTY ResultSeen
CHECK_DEADLOCK FALSE
