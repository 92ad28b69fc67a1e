\* Scenario S3: all three CPUs up, no load, both tasks affine to all CPUs.
CONSTANTS
    t1 = t1
    t2 = t2
    Tasks <- MC_Tasks
    NCpus = 3
    BpIndex = 0
    InitRunning = {0, 1, 2}
    MaxSwitches = 0
    NullQueue = NullQueue
    Unplaced = Unplaced
SPECIFICATION Spec
INVARIANT DistinctPlacement
