\* Two CPUs run TestMultiTasking concurrently; the pid table fills up.
CONSTANTS
    c1 = c1
    c2 = c2
    CPUs <- SMP_CPUs
    BP = c1
    NTasks = 2
    MaxObjects = 4
    NBuckets = 1
    AllocCanFail = FALSE
    ShellPs = FALSE
    Shutdown = FALSE
    InvalidObjectId = InvalidObjectId
    NoObject = NoObject
    NoQueue = NoQueue
SPECIFICATION Spec
VIEW QueueBlindView
INVARIANT TypeOK
INVARIANT NoUseAfterFree
INVARIANT RefsExact
PROPERTY StartFailsCleanly
