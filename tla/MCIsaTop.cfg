CONSTANTS
    Endpoints = {a, b}
    Lengths = {64, 200}
    Sort = "b"
    Interval = 2
    DisplayRows = 2
    MaxPackets = 4
SPECIFICATION Spec
INVARIANTS WellFormed CountsExact OneRowPerPair NeverOverstates LossOnlyInGaps
SYMMETRY EndpointSymmetry
CHECK_DEADLOCK FALSE
