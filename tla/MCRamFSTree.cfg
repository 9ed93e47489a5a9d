SPECIFICATION Spec
CONSTANTS
    MaxFds = 5
    MaxData = 1
    MaxFiles = 5
    MaxSubdirs = 2
    SizeMod = 16
    DirIds = {0, 1, 2}
    FileIds = {1, 2, 3, 4, 5}
    MaxLost = 1
    MaxPosition = 1
    UsedFds = {1, 3}
    Names <- MCTreeNames
    Paths <- MCTreePaths
    FlagSets <- MCTreeFlags
    Texts <- MCTreeTexts
    Counts = {1}
    Offsets <- MCNothing
CHECK_DEADLOCK FALSE
INVARIANTS Tree NamesUnique BlocksBalanced OpenResolves PwdLeadsBack
PROPERTY DescriptorStable
