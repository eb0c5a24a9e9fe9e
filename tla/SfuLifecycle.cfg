SPECIFICATION FairSpec
CONSTANTS
    MaxRooms = 1
    MaxCold = 2
    MaxTasks = 1
INVARIANTS
    SfuInv
PROPERTIES
    
    StartingEnds
    HealthFollowsSfu
    IdleInstanceIsStopped
