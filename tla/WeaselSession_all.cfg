SPECIFICATION FairSpec
CONSTANTS
    c1 = c1
    c2 = c2
    None = 0
    Clients <- MCTwo
    Sessions = {1, 2, 3, 4, 5, 6, 7}
    Alloc <- MCAlloc
    Pids = {1, 2}
    MaxId = 12
    MaxEvents = 2
INVARIANTS OwnSession ListedIsLive MaintenanceExcludes
PROPERTY Served
