\* Stops and questions, edits, an amendment, a command interrupted between two writes.
CONSTANTS
    Routes <- BareRoutes
    Declarable <- NoRequest
    FileSignals <- VisualFiles
    Waivable = {}
    HasWorktree = TRUE
    RepairLimit = 1
    Producible = {}
    Stoppable <- LateStatus
    MaxSpec = 2
    MaxGen = 1
    MaxQuestions = 1
    MaxAmendments = 1
    MaxInterruptions = 1
SPECIFICATION Spec
INVARIANTS TypeOK DeliveredIsAccepted ApprovalIsSealed
PROPERTY AmendmentBlocks
