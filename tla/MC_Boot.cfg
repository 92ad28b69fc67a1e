\* Four CPUs (BP 0 and three APs), as many boot stacks as CPUs, SMP on,
\* every init step, Run and test allowed to fail.
CONSTANTS
    NCpus = 4
    BpIndex = 0
    MaxCpus = 4
    SmpOff = FALSE
    CanFail = TRUE
SPECIFICATION Spec
INVARIANT TypeOK
INVARIANT ApTestAfterRelease
PROPERTY IpiTestAcked
PROPERTY ShutdownCompletes
