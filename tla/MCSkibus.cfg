CONSTANTS
    Skiers = {s1, s2, s3}
    NumStops = 2
    Capacity = 2
    Tls = {0, 1}
    Tbs = {0, 1}
SPECIFICATION FairSpec
INVARIANTS
    TurnIsUnique
    LogInOrder
    OnboardExact
    WaitingNotNegative
    FinishLast
PROPERTIES Progress TripSpec
CHECK_DEADLOCK FALSE
