\* The search for a local daemon, with timely answers and no explorer.
SPECIFICATION FairSpec
CONSTANTS
    MaxAdapters = 6
    MaxReports = 4
    Methods = {"AUTO", "LOCAL"}
    Failures = {}
    Explorer = FALSE
    CanQuit = FALSE
    Prompt = TRUE
INVARIANT SearchSafe
PROPERTY AlwaysReturns
CHECK_DEADLOCK FALSE
