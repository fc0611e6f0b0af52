CONSTANTS
    Endpoints = {a, b}
    Lengths = {64, 200}
    Sort = "b"
    Interval = 1
    DisplayRows = 10
    MaxPackets = 3
SPECIFICATION Spec
INVARIANT SortedList
CHECK_DEADLOCK FALSE
