SPECIFICATION Spec
CONSTANTS
    Blocks = {1, 2, 4}
    SizeMod = 16
    Users = {u1}
    NoSlot = NoSlot
    Kind = "each"
    Chunk = 2
    MinItems = 0
    MaxItems = 2
    OOM = FALSE
    MaxHeap = 4
SYMMETRY Symmetry
INVARIANT NoDangling
CHECK_DEADLOCK FALSE
