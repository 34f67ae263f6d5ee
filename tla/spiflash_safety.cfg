CONSTANTS Threads = {13, 20, 25, 31}  Users = {13, 20, 25}  Idle = 31
CONSTANTS Flash = {20, 25}  Sectors = 2  W = 2  MaxSize = 2  Data = {1, 2}  Unknown = 0
SPECIFICATION FlashSpec
INVARIANTS StoredAsWritten ReadsBack ValueAgrees NeverAllWait
CHECK_DEADLOCK FALSE
