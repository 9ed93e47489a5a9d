CONSTANTS
    AddressSpace = 8
    FileLen = 3
    MaxHeaders = 2
    Sizes = {0, 1, 2}
    Offsets = {0, 1}
    Entries = {2}
SPECIFICATION Spec
INVARIANTS TextHoldsProgram ErrorsHoldNothing
CHECK_DEADLOCK FALSE
