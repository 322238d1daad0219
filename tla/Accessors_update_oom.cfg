SPECIFICATION Spec
CONSTANTS
    Blocks = {1, 2, 4}
    SizeMod = 16
    Users = {u1}
    NoSlot = NoSlot
    Kind = "each"
    Chunk = 2
    MinItems = 1
    MaxItems = 3
    OOM = TRUE
    MaxHeap = 4
SYMMETRY Symmetry
INVARIANT NoNullWrite
CHECK_DEADLOCK FALSE
