SPECIFICATION Spec
CONSTANTS
    Names = {n1, n2}
    Style = "network"
    Wrap = 3
    MaxVal = 3
    Wide = 9
    MaxMoved = 4
INVARIANTS TypeOK DifferenceIsWhatMoved NewItemsAreCloned
