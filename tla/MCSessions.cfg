CONSTANTS
    p = p  s1 = s1  s2 = s2  n = n  u = u
    Names <- MCNames
    SessionIDs <- MCSessionIDs
    Openers <- MCOpeners
    Subscribers <- MCSubscribers
    NoSession = NoSession
    NoName = NoName
SPECIFICATION SessionsSpec
INVARIANT PublishDeliversOrDrops
CHECK_DEADLOCK FALSE
