SPECIFICATION Spec
CONSTANTS
    e1 = e1  e2 = e2  e3 = e3  alice = alice  bob = bob
    NoEntity = NoEntity
    Entity = {e1, e2}
    User = {alice}
    UserOf <- MCUserOf
    Overlap = TRUE
    BreakTicks = 1
    MaxProgress = 1
    QueueCap = 2
PROPERTIES SavedNeverRegresses
CHECK_DEADLOCK FALSE
