\* The core reports a completed synchronization while the wallet is closed.
SPECIFICATION Spec
CONSTANTS
    Files = {f1}
    NoFile = NoFile
    MaxDepth = 5
    MaxInputs = 1
    MaxEvents = 1
    UserActions <- SyncActions
    CoreKinds <- SyncOnly
    Patient = TRUE
    Prompt = TRUE
INVARIANTS
    NeverAborts
CHECK_DEADLOCK FALSE
