SPECIFICATION RFairSpec
CONSTANTS
    Conns = {1, 2}
    Peer <- MCPeer
    None = None
    MaxMsgs = 2
    FailInGet = FALSE
 
PROPERTY HaltCompletes
CHECK_DEADLOCK FALSE
