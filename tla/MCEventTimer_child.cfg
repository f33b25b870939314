CONSTANTS
    mono1 = mono1
    mono2 = mono2
    boot1 = boot1
    io1 = io1
    io2 = io2
    NoSource = NoSource
    Sources = {mono2}
    ClockOf <- MCClockOf
    Accuracy <- MCAccuracy
    Interval <- MCInterval
    Burst <- MCBurst
    OnExpiry = {}
    Calls = {"add"}
    Times = {2, 20}
    MaxTime = 4
    Infinity = 20
    Steps <- MCSteps
    ChildEvents = TRUE
SPECIFICATION Spec
CHECK_DEADLOCK FALSE
INVARIANT ArmedInTime
