\* A chosen connection method, changed while the program runs; the embedded node starts.
SPECIFICATION FairSpec
CONSTANTS
    MaxAdapters = 5
    MaxReports = 3
    Methods = {"EMBEDDED", "LOCAL", "REMOTE"}
    Failures = {}
    Explorer = TRUE
    CanQuit = FALSE
    Prompt = TRUE
INVARIANTS
    NeverAborts
    NodesUsable
PROPERTY AlwaysReturns
CHECK_DEADLOCK FALSE
