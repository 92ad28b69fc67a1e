\* All three CPUs up and switching while a task's placement scan runs.
CONSTANTS
    t1 = t1
    t2 = t2
    Tasks <- MC_Tasks
    NCpus = 3
    BpIndex = 0
    InitRunning = {0, 1, 2}
    MaxSwitches = 2
    NullQueue = NullQueue
    Unplaced = Unplaced
SPECIFICATION Spec
PROPERTY PlacedOnSomeLeastLoaded
