SPECIFICATION GuardianFairSpec
CONSTANTS
    prefill = prefill
    decode = decode
    Targets = {prefill, decode}
    MaxRestarts = 2
    MaxApiFailures = 1
    MaxCrashes = 1
    NoBaseline = NoBaseline
CHECK_DEADLOCK FALSE
INVARIANTS
    RecycleJustified
PROPERTIES
    
    ReplacementSafe
    DirtyRecycled
