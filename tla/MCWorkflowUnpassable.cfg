\* A revision that the target audience must judge again.
CONSTANTS
    Routes <- AudienceRoutes
    Declarable <- AudienceSignal
    FileSignals <- VisualFiles
    Waivable = {}
    HasWorktree = FALSE
    RepairLimit = 2
    Producible = {"customer", "report", "visual"}
    Stoppable <- NoStatus
    MaxSpec = 1
    MaxGen = 2
    MaxQuestions = 0
    MaxAmendments = 0
    MaxInterruptions = 0
SPECIFICATION Spec
INVARIANT FinalGateIsPassable
