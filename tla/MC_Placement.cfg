\* APs come up, CPUs switch, affinities change and tasks are started.
CONSTANTS
    t1 = t1
    t2 = t2
    Tasks <- MC_Tasks
    NCpus = 3
    BpIndex = 0
    InitRunning = {0}
    MaxSwitches = 2
    NullQueue = NullQueue
    Unplaced = Unplaced
SPECIFICATION Spec
SYMMETRY TaskSymmetry
INVARIANT TypeOK
INVARIANT SelectIsLeastLoaded
