SPECIFICATION Spec
CONSTANTS
    Nothing = Nothing
    MaxFaults = 2
    MaxSrv = 2
    Faulty = {"alice", "bob"}
INVARIANTS NotWithItself 
PROPERTY BothComplete
CHECK_DEADLOCK FALSE
