SPECIFICATION Spec
CONSTANTS
    e1 = e1  e2 = e2  e3 = e3  alice = alice  bob = bob
    NoEntity = NoEntity
    Entity = {e1, e2, e3}
    User = {alice, bob}
    UserOf <- MCUserOf
    Overlap = FALSE
    BreakTicks = 2
    MaxProgress = 1
    QueueCap = 1
INVARIANTS TypeOK MapsAgree CountIsOnline SessionsInOrder DeadDoNotDig StoppedKeepsEveryone
PROPERTIES SavedNeverRegresses KeepsRegister
SYMMETRY MCSymmetry
CHECK_DEADLOCK FALSE
