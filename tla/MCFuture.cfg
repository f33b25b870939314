CONSTANTS
    p1 = p1
    p2 = p2
    w1 = w1
    w2 = w2
    NoFuture = NoFuture
    Plain = {p1}
    Waits = {w1, w2}
    Results = {"value", "canceled"}
    Canceled = "canceled"
    Calls = {"new", "callback", "ref", "unref", "resolve", "cancel"}
    MaxRef = 2
SPECIFICATION FairSpec
CHECK_DEADLOCK FALSE
INVARIANT TypeOK RefCountsExact WaitersAreWoken
PROPERTY ResultIsFinal AwaitersWake
