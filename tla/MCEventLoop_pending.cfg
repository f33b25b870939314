CONSTANTS
    io1 = io1
    io2 = io2
    defer1 = defer1
    defer2 = defer2
    post1 = post1
    exit1 = exit1
    NoSource = NoSource
    Sources = {io1, defer1, post1}
    TypeOf <- MCTypeOf
    Priorities = {0, 1}
    NormalPriority = 0
    ExitOnIdle = FALSE
    ExitOnFailure = {io1}
    Calls = {"add", "enable", "ioevents", "priority", "drain", "timeout"}
    UserStates = {"initial", "armed"}
    MaxRef = 1
SPECIFICATION Spec
CHECK_DEADLOCK FALSE
INVARIANT PendingExact
PROPERTY PostFollowsDispatch
