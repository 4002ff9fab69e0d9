CONSTANTS
    MaxTasks = 4
    TickMod = 8
    MaxTicks = 2
    MaxIds = 4
    Sleeps = {1, 2}
    RingSize = 3
    Presses <- AllPresses
    MaxKeys = 4
SPECIFICATION MainSpec
INVARIANTS
    KilledStaysDead
    InOrder
PROPERTIES
    NoEarlyWake
    RoundRobin
    NoStarvation
    LossOnlyWhenFull
    Drains
