SPECIFICATION Spec
CONSTANTS
    s1 = s1
    s2 = s2
    s3 = s3
    Subs <- TwoSubs
    MaxSub = 2
    MaxRetries = 2
    MaxUpdates = 2
CHECK_DEADLOCK FALSE
INVARIANTS
    RegisteredIsListed
    SeesWholeLine
PROPERTIES
    SubscribersEnd
