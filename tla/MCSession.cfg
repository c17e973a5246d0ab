SPECIFICATION FairSpec
CONSTANTS
    Msgs = {b, c}
    Reliable = {b}
    Blocking = {b, c}
    None = None
    MaxSends = 2
    QueueSize = 1
    OpSize = 1
INVARIANTS Tracked
PROPERTIES  ShutdownCompletes Forwarded
CHECK_DEADLOCK FALSE
