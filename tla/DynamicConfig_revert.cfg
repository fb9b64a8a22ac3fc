SPECIFICATION Spec
CONSTANTS
    Args = "args"
    None = None
    Configs = {"plain", "no_session_key"}
    Fails <- MCFails
    Routing <- MCRouting
    Checks <- MCChecks
    Stuck <- MCStuck
    Unlistable <- MCUnlistable
    MaxRaises = 2
    MaxEdits = 2
PROPERTY Converges
CHECK_DEADLOCK FALSE
