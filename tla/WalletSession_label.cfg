\* A label set after a save is not saved on close.
SPECIFICATION Spec
CONSTANTS
    Files = {f1}
    NoFile = NoFile
    MaxDepth = 5
    MaxInputs = 3
    MaxEvents = 0
    UserActions <- LabelActions
    CoreKinds <- NoEvent
    Patient = TRUE
    Prompt = TRUE
PROPERTIES
    SkippedSaveIsSaved
CHECK_DEADLOCK FALSE
