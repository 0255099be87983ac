SPECIFICATION FairSpec
CONSTANTS
    PingInterval = 3
    Timeout = 1
    ReadTimeout = 6
    Packet = {"dig", "unknown", "invalid"}
    NetCap = 2
    MaxDigs = 1
INVARIANTS TypeOK  
PROPERTIES DigsAcknowledged
CHECK_DEADLOCK FALSE
