CONSTANTS
    Servers = {1, 2}
    Requests = {1, 2, 3}
    None = 0
    MaxStaged = 2
    Polite = TRUE
SPECIFICATION RequestSpec
INVARIANTS
    TimedOutWasUnanswered
CHECK_DEADLOCK FALSE
