\* Any user action at any moment a loop runs; an exit() may be lost.
SPECIFICATION Spec
CONSTANTS
    Files = {f1, f2}
    NoFile = NoFile
    MaxDepth = 5
    MaxInputs = 2
    MaxEvents = 1
    UserActions <- EveryAction
    CoreKinds <- EveryEvent
    Patient = FALSE
    Prompt = FALSE
INVARIANTS
    TypeOK
    TokenHeldOnce
    CapturedFrameAlive
    NoEventWithoutWorker
    ModelsAgree
    FormUsable
    SettingsNameWallet
PROPERTIES
    LifecycleSpec
CHECK_DEADLOCK FALSE
