SPECIFICATION Spec
CONSTANTS
    MaxFds = 5
    MaxData = 2
    MaxFiles = 4
    MaxSubdirs = 2
    SizeMod = 16
    DirIds = {0}
    FileIds = {1, 2, 3, 4}
    MaxLost = 1
    MaxPosition = 3
    UsedFds = {0, 3, 4}
    Names <- MCDataNames
    Paths <- MCDataPaths
    FlagSets <- MCDataFlags
    Texts <- MCDataTexts
    Counts = {1, 2}
    Offsets <- MCDataOffsets
CHECK_DEADLOCK FALSE
INVARIANT TypeOK
PROPERTIES DataSurvives AppendKeepsAll OnlySeekLeavesFile
