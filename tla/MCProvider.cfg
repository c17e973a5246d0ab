SPECIFICATION Spec
CONSTANTS
    u1 = u1
    u2 = u2
    Users = {u1, u2}
    NoSpool = NoSpool
    Workers = {w1}
    KaetzchenWorkers = {k1}
    NoRequest = NoRequest
    Echo = Echo
    Plugin = Plugin
    None = None
    MaxPackets = 2
    Traffic <- MCTraffic
INVARIANTS KeptWhileConnected Consistent
 
\* A shutdown that waits for a writer that is gone stops everything.
CHECK_DEADLOCK FALSE
