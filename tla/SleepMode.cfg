CONSTANTS
    Calls = {c1, c2, c3, c4}
    MaxOpen = 2
    MaxCallFailures = 1
SPECIFICATION SleepSpec
INVARIANT AgreeAtRest
PROPERTY FlagSettles
CHECK_DEADLOCK FALSE
