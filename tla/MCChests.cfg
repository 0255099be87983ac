SPECIFICATION Spec
CONSTANTS
    ann = ann  ben = ben  overworld = overworld  nether = nether  s1 = s1  s2 = s2
    Player = {ann, ben}
    Creative = {ann}
    Dimension = {overworld, nether}
    Overworld = overworld
    Spot = {s1}
    NoWindow = NoWindow
    NoSpot = NoSpot
    WindowIds = 3
    MaxOpens = 2
    QueueCap = 1
    LastId = 2
    PackChests <- MCPackChests
INVARIANTS TypeOK  WindowsBacked WindowsInReach ClicksHitTheirWindow ShownIsOpen
CHECK_DEADLOCK FALSE
