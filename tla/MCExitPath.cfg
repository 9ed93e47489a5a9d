SPECIFICATION ExitSpec
CONSTANTS
    MaxProcess = 3
    MaxPid = 4
    BootProcesses = 2
    Stacks = {s1, s2, s3, s4}
INVARIANTS ExitTypeOK ContextIntact StackExclusive StacksExact BackstopKept HaltOnlyWhenFull
PROPERTIES ImplementsScheduler
CHECK_DEADLOCK FALSE
SYMMETRY StackSymmetry
