SPECIFICATION ExitSpec
CONSTANTS
    MaxProcess = 3
    MaxPid = 3
    BootProcesses = 2
    Stacks = {s1, s2, s3, s4}
PROPERTY ZeroIsBackstop
CHECK_DEADLOCK FALSE
