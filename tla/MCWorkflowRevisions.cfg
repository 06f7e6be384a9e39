\* Two generations with revisions, evidence, returns, a waived audience and a command
\* interrupted between two writes.
CONSTANTS
    Routes <- QuickRoutes
    Declarable <- NoHint
    FileSignals <- VisualFiles
    Waivable = {"target-audience"}
    HasWorktree = FALSE
    RepairLimit = 1
    Producible = {"visual", "customer"}
    Stoppable <- NoStatus
    MaxSpec = 1
    MaxGen = 2
    MaxQuestions = 0
    MaxAmendments = 0
    MaxInterruptions = 1
SPECIFICATION Spec
INVARIANTS DeliveredIsSettled RevisionProved DeliveredIsProved
