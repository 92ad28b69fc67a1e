\* Two CPUs; the user may type "exit" once the BP's TestMultiTasking has returned, while the AP's test may still run.
CONSTANTS
    c1 = c1
    c2 = c2
    CPUs <- SMP_CPUs
    BP = c1
    NTasks = 2
    MaxObjects = 4
    NBuckets = 1
    AllocCanFail = FALSE
    ShellPs = FALSE
    Shutdown = TRUE
    InvalidObjectId = InvalidObjectId
    NoObject = NoObject
    NoQueue = NoQueue
SPECIFICATION Spec
VIEW QueueBlindView
INVARIANT NoUseAfterFree
INVARIANT RefsExact
