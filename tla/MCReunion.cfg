SPECIFICATION FairSpec
CONSTANTS
    a = a
    b = b
    Exchanges = {a, b}
    Passphrases <- MCPassphrases
    Epoch = 1
    MaxEpoch = 2
    MaxFaults = 1
    None = None
    Garbage = Garbage
INVARIANTS MeetsPeer
 
CHECK_DEADLOCK FALSE
