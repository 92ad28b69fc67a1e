\* A task whose affinity holds no running CPU is started.
CONSTANTS
    t1 = t1
    t2 = t2
    Tasks <- MC_Tasks
    NCpus = 3
    BpIndex = 0
    InitRunning = {0}
    MaxSwitches = 0
    NullQueue = NullQueue
    Unplaced = Unplaced
SPECIFICATION Spec
INVARIANT StartFindsQueue
