SPECIFICATION Spec
CONSTANTS
    Authorities = {a1, a2, a3}
    Nodes = {m1, m2}
    Others = {x}
    Layers = 2
    Week = 3
    Wrap = 16
    MaxEpoch = 7
    MaxFaults = 1
    MaxOutage = 1
    NumMixKeys = 3
    None = None
SYMMETRY Symmetry
CHECK_DEADLOCK FALSE
INVARIANTS
    DocumentsAgree
    
    Recovers
