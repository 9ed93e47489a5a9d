SPECIFICATION Spec
CONSTANTS
    MinScale = 4
    MaxScale = 6
    BlockSize <- MCBlockSize
    HeaderSize = 9
    HeapLimit = 128
    Requests = {0, 7, 8, 55, 56}
    Increments <- AnyIncrement
INVARIANTS TypeOK Disjoint Tiled ReadsAreHeaders ListsExact Capacity FullyMerged
PROPERTIES Terminates ImplementsContract

