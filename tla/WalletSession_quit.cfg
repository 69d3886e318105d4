\* quit() while any loop runs.
SPECIFICATION FairSpec
CONSTANTS
    Files = {f1}
    NoFile = NoFile
    MaxDepth = 5
    MaxInputs = 3
    MaxEvents = 1
    UserActions <- QuitActions
    CoreKinds <- SyncOnly
    Patient = FALSE
    Prompt = TRUE
INVARIANTS
    EndsClosed
PROPERTIES
    QuitEnds
CHECK_DEADLOCK FALSE
