SPECIFICATION Spec
CONSTANTS
    MaxHealth = 3
    MaxFood = 1
    MaxSaturation = 1
    MobDamage = {1, 2}
    LavaDamage = 2
    StarvationDamage = 1
    LavaInterval = 2
    FoodInterval = 4
    MaxHits = 2
    QueueCap = 2
INVARIANTS DeathScreenMatches
CHECK_DEADLOCK FALSE
