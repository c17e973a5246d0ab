\* Three authorities.  A command may miss its phase twice, one authority may
\* crash, and a3 has neither the previous document nor the parameters of the
\* other two.
SPECIFICATION Spec
CONSTANTS
    a1 = a1
    a2 = a2
    a3 = a3
    Authorities = {a1, a2, a3}
    Mixes = {"m"}
    MinMixes = 1
    ParamValues = {"p", "q"}
    Params <- MCDissent
    HasPrev = {a1, a2}
    MaxSkew = 1
    MaxMissed = 2
    MaxCrash = 1
    None = None
SYMMETRY Symmetry
INVARIANTS Agreement PublishedIsBacked TimelyConsensus
PROPERTY ImplementsAgreedDocument
CHECK_DEADLOCK FALSE
