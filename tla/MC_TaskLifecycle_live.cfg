\* Liveness on two CPUs: three pid slots, so while one test task is registered a concurrent Start finds the table full.
CONSTANTS
    c1 = c1
    c2 = c2
    CPUs <- SMP_CPUs
    BP = c1
    NTasks = 2
    MaxObjects = 3
    NBuckets = 1
    AllocCanFail = FALSE
    ShellPs = FALSE
    Shutdown = FALSE
    InvalidObjectId = InvalidObjectId
    NoObject = NoObject
    NoQueue = NoQueue
SPECIFICATION Spec
VIEW QueueBlindView
PROPERTY AllTasksReclaimed
PROPERTY ImplementsTaskLifeSpec
