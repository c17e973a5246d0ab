CONSTANTS
    Nothing = Nothing
    MaxQueueSize = 2
    OpCap = 2
    Names = {n1, n2}
    MaxMsgs = 3
    MaxReqs = 3
    MaxFaults = 1
SPECIFICATION Spec
INVARIANTS ReceivedOnce  
CHECK_DEADLOCK FALSE
