SPECIFICATION Spec
CONSTANTS
    MaxProcess = 4
    MaxPid = 5
    BootProcesses = 3
INVARIANTS TypeOK UniquePids BackstopAlive ActiveIsCurrent BoundedWait
PROPERTIES BackstopLast EveryoneRuns
CHECK_DEADLOCK FALSE
