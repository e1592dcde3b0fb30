CONSTANTS
    MaxQueue = 2
    MaxRows = 2
SPECIFICATION FairSpec
INVARIANTS TypeOK NoLeakedSession StopClosesSession
PROPERTIES StopReturns Heals
CHECK_DEADLOCK FALSE
