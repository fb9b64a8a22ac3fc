CONSTANTS
    p = p
    q = q
    r = r
    none = none
    m = m
    alias = alias
    other = other
    Clients = {c1, c2}
    Prompts <- MCPrompts
    NoMessages = none
    Models <- MCModels
    Resolve <- MCResolve
    Score <- MCScore
    Absent = Absent
    Damaged = Damaged
    Threshold = 1
    MaxRequests = 3
    MaxFaults = 2
SPECIFICATION Spec
 
 
PROPERTY AllOrNothing
SYMMETRY MCSymmetry
CHECK_DEADLOCK FALSE
