\* One CPU (smp=off): every allocation may fail; the shell, started once the test has passed, runs Ps.
CONSTANTS
    c1 = c1
    c2 = c2
    CPUs <- UP_CPUs
    BP = c1
    NTasks = 2
    MaxObjects = 2
    NBuckets = 2
    AllocCanFail = TRUE
    ShellPs = TRUE
    Shutdown = FALSE
    InvalidObjectId = InvalidObjectId
    NoObject = NoObject
    NoQueue = NoQueue
SPECIFICATION Spec
INVARIANT NoUseAfterFree
INVARIANT RefsExact
PROPERTY StartFailsCleanly
PROPERTY AllTasksReclaimed
PROPERTY ImplementsTaskLifeSpec
