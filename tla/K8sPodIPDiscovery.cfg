CONSTANTS
    p1 = p1
    p2 = p2
    m1 = m1
    m2 = m2
    None = None
    Pods = {p1, p2}
    Models = {m1, m2}
    Serves <- MCServes
    Asleep = {p2}
    MaxChanges = 7
    MaxFailures = 1
    MayClose = TRUE
SPECIFICATION FairSpec
INVARIANT QuietAccurate
INVARIANT ScaledToZeroNot404
PROPERTY ReadyListed
PROPERTY CloseHangsOnlyOnFuture
CHECK_DEADLOCK FALSE
