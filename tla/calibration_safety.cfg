CONSTANTS Coords = {3, 5}  Word = 8  Across = 2  Inset = 2  MinX = 1  MaxX = 7  Mq = 1
SPECIFICATION Spec
INVARIANTS SessionAlive Calibrated TouchSaved
PROPERTY CalibrationEnds
