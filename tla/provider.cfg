SPECIFICATION Spec
CONSTANTS
    Calls = {a, b}
    Timeout = 2
    MaxRefresh = 2
    a = a
    b = b
INVARIANT DeadlineHolds
PROPERTIES
    KeepsPromise
    RetryIsNew
CHECK_DEADLOCK FALSE
