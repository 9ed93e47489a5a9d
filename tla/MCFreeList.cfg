SPECIFICATION Spec
CONSTANTS
    Blocks = {b1, b2, b3, b4}
    MinScale = 4
    MaxScale = 6
    Interrupts = FALSE
INVARIANT WellLinked
PROPERTY ImplementsLists
SYMMETRY BlockSymmetry
