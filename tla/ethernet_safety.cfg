CONSTANTS Senders = {"tcpip", "erx"}  Frames = {"ok", "bad", "long", "stop", "odd"}  FifoMax = 1  MboxMax = 2  Latency = TRUE
SPECIFICATION FairSpec
INVARIANTS OwnLength RxNotForgotten
PROPERTY Transmitted
CHECK_DEADLOCK FALSE
