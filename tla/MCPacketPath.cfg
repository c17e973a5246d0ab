SPECIFICATION FairSpec
CONSTANTS
    Hops = {h1}
    Pkts = {p1, p2}
    None = None
    Workers = {w1}
    Delays = {0, 2, 3}
    PKIMaxDelays = {0, 1}
    AbsMaxDelay = 2
    UnwrapSlack = 1
    TimerSlack = 0
    MaxBurst = 1
    QueueSize = 1
    MaxTime = 2
    MaxDocs = 1
CHECK_DEADLOCK FALSE
INVARIANTS SingleOwner 
PROPERTIES Mixed ShutdownCompletes
