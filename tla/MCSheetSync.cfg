SPECIFICATION FairSpec
CONSTANTS
    u1 = u1
    u2 = u2
    t1 = t1
    t2 = t2
    Free = Free
    Unit <- MCUnit
    Thread <- MCThread
    MaxVersion = 2
    MaxRequests = 3
    Edited = {u1}
INVARIANTS
    TypeOK
    AnsweredChangesStay
    CacheFollowsRows
PROPERTIES
    RequestsEnd
CHECK_DEADLOCK FALSE
