SPECIFICATION NodeFairSpec
CONSTANTS
    NumWorkers = 2
    MaxEpoch = 3
    FilterEpoch = 1
    Tags = {t1, t2}
    Users = {1, 2}
    None = None
    MaxEntries = 1
    MaxPackets = 2
INVARIANTS CurrentKey UsedIsOpen AtMostOnce NoFalseReplay
PROPERTY ShutdownCompletes
