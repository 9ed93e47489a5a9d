SPECIFICATION Spec
CONSTANTS
    Blocks = {b1, b2, b3}
    MinScale = 4
    MaxScale = 5
    Interrupts = TRUE
INVARIANT GrantedOnce
SYMMETRY BlockSymmetry
