SPECIFICATION Spec
CONSTANTS
    Names = {n1, n2}
    Style = "disk"
    Wrap = 3
    MaxVal = 3
    Wide = 9
    MaxMoved = 4
INVARIANT DifferenceIsWhatMoved
