CONSTANTS Block = 6  Unit = 2  Lengths = {0, 1, 2}  Metaints = {0, 3, 6, 7, 9, 12}
SPECIFICATION ShoutcastSpec
INVARIANT ChunkAgrees
PROPERTY ReadsAudio
CHECK_DEADLOCK FALSE
