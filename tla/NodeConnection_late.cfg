\* The search for a local daemon when the node's first answer comes after a second.
SPECIFICATION Spec
CONSTANTS
    MaxAdapters = 3
    MaxReports = 2
    Methods = {"AUTO"}
    Failures = {}
    Explorer = FALSE
    CanQuit = FALSE
    Prompt = FALSE
INVARIANTS
    UiAssertHolds
CHECK_DEADLOCK FALSE
