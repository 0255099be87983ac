SPECIFICATION Spec
CONSTANTS
    PingInterval = 3
    Timeout = 6
    ReadTimeout = 6
    Packet = {"move"}
    NetCap = 1
    MaxDigs = 1
INVARIANTS SilentKicked
CHECK_DEADLOCK FALSE
