SPECIFICATION Spec
CONSTANTS
    sliding_window_size = 1
    MaxPoints = 4
    MaxTime = 5
INVARIANTS InSync ExpiredCounted ExposedFresh
CHECK_DEADLOCK FALSE
