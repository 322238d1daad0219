SPECIFICATION Spec
CONSTANTS
    Blocks = {1, 2, 4}
    SizeMod = 16
    Users = {u1, u2}
    NoSlot = NoSlot
    Kind = "each"
    Chunk = 2
    MinItems = 1
    MaxItems = 3
    OOM = TRUE
    MaxHeap = 4
SYMMETRY Symmetry
INVARIANTS TypeOK NoLeak FailureHasError CapacityCoversUse NoDangling CallersSamplesWhole
CHECK_DEADLOCK FALSE
