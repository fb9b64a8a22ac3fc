SPECIFICATION SessionsFairSpec
CONSTANTS
    p1 = p1
    p2 = p2
    d1 = d1
    PDEngines = {p1, p2, d1}
    Label <- MCLabel
    PDRequests = {r1}
    MaxChanges = 3
    None = None
CHECK_DEADLOCK FALSE
INVARIANTS
    ClosedOnlyInReplacement
    NewestServes
 
