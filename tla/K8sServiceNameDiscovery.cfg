SPECIFICATION FairSpec
CONSTANTS
    s1 = s1
    s2 = s2
    None = None
    Services = {s1, s2}
    MaxChanges = 6
    MaxCalls = 2
    MaxFailures = 1
INVARIANTS QuietExists
PROPERTIES   CloseReturns
CHECK_DEADLOCK FALSE
