CONSTANTS b1 = b1  b2 = b2  Buttons = {b1, b2}
CONSTANT Code <- MCCode
CONSTANTS K = 2  MaxLen = 5  Room = 3  Gap = 9  None = None  Spoilt = Spoilt  Presses = 2  SemMax = 1
SPECIFICATION RemoteSpec
PROPERTIES OnlyPressed Learned KeyReported StudyProceeds
CHECK_DEADLOCK FALSE
