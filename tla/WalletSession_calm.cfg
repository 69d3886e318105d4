\* A user who waits for the GUI, a GUI that is in exec() before the lambda ends,
\* and every wallet event but syncCompleted (see WalletSession_sync.cfg).
SPECIFICATION FairSpec
CONSTANTS
    Files = {f1}
    NoFile = NoFile
    MaxDepth = 5
    MaxInputs = 4
    MaxEvents = 2
    UserActions <- CalmActions
    CoreKinds <- CalmEvents
    Patient = TRUE
    Prompt = TRUE
INVARIANTS
    NeverWedged
    NeverAborts
    LoopHasWaker
PROPERTIES
    HandlersReturn
    OwnChangesSaved
CHECK_DEADLOCK FALSE
