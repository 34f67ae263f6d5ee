CONSTANTS Size = 5  Block = 2  MaxRead = 2  MaxRequests = 1
SPECIFICATION Spec
PROPERTY StopNotForgotten
