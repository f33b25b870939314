CONSTANTS
    mono1 = mono1
    mono2 = mono2
    boot1 = boot1
    io1 = io1
    io2 = io2
    NoSource = NoSource
    Sources = {io1, io2}
    ClockOf <- MCClockOf
    Accuracy <- MCAccuracy
    Interval <- MCInterval
    Burst <- MCBurst
    OnExpiry = {io1}
    Calls = {"add"}
    Times = {20}
    MaxTime = 4
    Infinity = 20
    Steps <- MCSteps
    ChildEvents = FALSE
SPECIFICATION Spec
CHECK_DEADLOCK FALSE
INVARIANT NeverSleepsOnPending
