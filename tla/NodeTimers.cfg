CONSTANTS
    Intervals = {2, 4}
    MaxLateness = 4
    Timeout = 3
    MaxCalls = 1
SPECIFICATION Spec
INVARIANTS
    RunningIsArmed
PROPERTIES
    RunsKeepApart
    BarksOnlyWhenLate
    WatchdogStopsNode
    DestructorReturns
CHECK_DEADLOCK FALSE
