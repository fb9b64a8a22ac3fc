CONSTANTS
    s1 = s1
    s2 = s2
    s3 = s3
    mA = mA
    mB = mB
    iA = iA
    iB = iB
    None = None
    NoUrl = NoUrl
    Urls = {1, 2, 3, 4}
    Models = {mA, mB}
    Serves <- MCServes
    Points <- MCPoints
    Sessions = {s1, s2, s3}
    Hash <- MCHash
    Qps = {0, 1}
    Handlers = {h1, h2}
    Ids = {a1, a2, a3}
    MaxRequests = 4
    Chunks = {1, 2}
    MaxChunks = 2
    MaxSent = 2
    KvHandlers = {k1, k2}
    InstanceOf <- MCInstanceOf
    Logics = {"roundrobin", "session", "prefixaware", "kvaware"}
SYMMETRY MCSymmetry
SPECIFICATION Spec
INVARIANT ChosenUnlessCached
INVARIANT BalancedWhileStable
 
PROPERTY Sticky
PROPERTY LongestMatch
