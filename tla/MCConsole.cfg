CONSTANTS
    Width = 5
    Height = 2
    PromptLen = 1
    MaxLen = 4
    ExitLen = 3
    Letters = {"a"}
    Keys = {"a", " "}
    ShiftMap <- MCShiftMap
    Strays <- MCStrays
SPECIFICATION Spec
INVARIANTS TypeOK EchoMatches
PROPERTY ImplementsLineEditor
