SPECIFICATION Spec
CONSTANTS
    Blocks = {1, 2, 4}
    SizeMod = 16
    Users = {u1, u2}
    NoSlot = NoSlot
    Kind = "fs"
    Chunk = 2
    MinItems = 0
    MaxItems = 3
    OOM = TRUE
    MaxHeap = 4
SYMMETRY Symmetry
INVARIANTS CapacityCoversUse NoDangling
CHECK_DEADLOCK FALSE
