SPECIFICATION Spec
CONSTANTS
    alice = alice  bob = bob
    BlockFiles <- OneBlockFile
    User = {alice, bob}
    AutosaveInterval = 2
    MaxVersion = 1
    MaxTick = 1
    MaxUnreadable = 1
SYMMETRY MCSymmetry
CHECK_DEADLOCK FALSE
INVARIANTS StopIsComplete
