CONSTANTS
    io1 = io1
    io2 = io2
    defer1 = defer1
    defer2 = defer2
    post1 = post1
    exit1 = exit1
    NoSource = NoSource
    Sources = {io1, defer1, exit1}
    TypeOf <- MCTypeOf
    Priorities = {0}
    NormalPriority = 0
    ExitOnIdle = FALSE
    ExitOnFailure = {io1}
    Calls = {"add", "enable", "drain", "exit"}
    UserStates = {"initial"}
    MaxRef = 1
SPECIFICATION FairSpec
CHECK_DEADLOCK FALSE
PROPERTY PendingIsServed ReadyIsServed ExitFinishes
