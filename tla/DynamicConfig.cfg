SPECIFICATION Spec
CONSTANTS
    Args = "args"
    None = None
    Configs = {"plain", "k8s_prefix", "no_backends", "no_session_key", "bad_callbacks"}
    Fails <- MCFails
    Routing <- MCRouting
    Checks <- MCChecks
    Stuck <- MCStuck
    Unlistable <- MCUnlistable
    MaxRaises = 2
    MaxEdits = 1
INVARIANTS LeaksBounded 
PROPERTIES FileRecorded RecordedIsServing  ShutdownEnds
CHECK_DEADLOCK FALSE
