CONSTANTS
    Skiers = {s1, s2}
    NumStops = 1
    Capacity = 2
    Tls = {1}
    Tbs = {1}
SPECIFICATION FairSpec
PROPERTY AllGetToSlope
CHECK_DEADLOCK FALSE
