CONSTANTS
    p1 = p1
    p2 = p2
    w1 = w1
    w2 = w2
    NoFuture = NoFuture
    Plain = {p1}
    Waits = {w1, w2}
    Results = {"value", "canceled"}
    Canceled = "canceled"
    Calls = {"new", "callback", "unref", "resolve", "cancel", "drop waiter"}
    MaxRef = 1
SPECIFICATION Spec
CHECK_DEADLOCK FALSE
INVARIANT WaitersExist
