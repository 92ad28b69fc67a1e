\* Two CPUs: once the BP's TestMultiTasking has returned true its shell runs Ps, while the test tasks
\* may still be inside Task::Exit.  One bucket, so Ps prints the whole table under a single lock.
CONSTANTS
    c1 = c1
    c2 = c2
    CPUs <- SMP_CPUs
    BP = c1
    NTasks = 2
    MaxObjects = 3
    NBuckets = 1
    AllocCanFail = FALSE
    ShellPs = TRUE
    Shutdown = FALSE
    InvalidObjectId = InvalidObjectId
    NoObject = NoObject
    NoQueue = NoQueue
SPECIFICATION Spec
VIEW QueueBlindView
INVARIANT PsPidsUnique
