SPECIFICATION SendFairSpec
CONSTANTS
    Nil = Nil
    Home = "home"
    Service = "service"
    Topology <- MCTopology
    Samples = {0, 3}
    MuMaxDelay = 3
    Period = 4
    Grace = 2
    ClockError = 1
    Start = 5
    MaxStart = 8
    MaxLatency = 3
INVARIANTS NotForgotten Arrives ReplyRead
PROPERTIES TornDown ShutdownCompletes
CHECK_DEADLOCK FALSE
