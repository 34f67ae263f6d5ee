CONSTANTS Size = 6  Block = 2  MaxRead = 2  MaxRequests = 1  Labels = 9
SPECIFICATION FairStreamSpec
INVARIANTS WakeOnce ResumeOnce RoomToSave IndicesAgree
PROPERTIES ReaderServed SuspendEnds ImplementsFifo
