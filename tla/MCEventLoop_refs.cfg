CONSTANTS
    io1 = io1
    io2 = io2
    defer1 = defer1
    defer2 = defer2
    post1 = post1
    exit1 = exit1
    NoSource = NoSource
    Sources = {io1, post1, exit1}
    TypeOf <- MCTypeOf
    Priorities = {0}
    NormalPriority = 0
    ExitOnIdle = FALSE
    ExitOnFailure = {io1}
    Calls = {"add", "ref", "unref", "enable", "enable exits", "floating", "eventref", "exit", "prepare", "timeout"}
    UserStates = {"initial", "finished"}
    MaxRef = 1
SPECIFICATION Spec
CHECK_DEADLOCK FALSE
INVARIANT TypeOK NoDanglingPointers RefCountsExact FinishedMeansExitsDone
PROPERTY ImplementsLoopProtocol
