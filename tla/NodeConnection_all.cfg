\* Every method, failure and timing, with quit, up to the first failed assertion.
SPECIFICATION Spec
CONSTANTS
    MaxAdapters = 4
    MaxReports = 2
    Methods = {"AUTO", "EMBEDDED", "LOCAL", "REMOTE"}
    Failures = {"INIT_CORE_FAILED", "INIT_NET_NODE_FAILED", "INIT_P2P_BIND_FAILED", "INIT_NODE_FAILED"}
    Explorer = TRUE
    CanQuit = TRUE
    Prompt = FALSE
INVARIANTS
    TypeOK
    OneNode
    OneWorker
    EndedCleanly
CHECK_DEADLOCK FALSE
