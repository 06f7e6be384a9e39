\* Two commands at a lock, five-minute stalls, one crash; two sessions at the mutex of a
\* lease, ten-second stalls, one crash, two operations; one chat at a gate.
CONSTANTS
    Proc = {p1, p2}
    RuntimeProc = {p2}
    NoProc = NoProc
    Stalls = TRUE
    MaxUses = 1
    MaxCrashes = 1
    Sessions = {s1}
    Writers = {w1}
    Visualize = FALSE
    MaxEvents = 1
    MaxEdits = 1
    Session = {s1, s2}
    NoSession = NoSession
    Attempts = 2
    MaxOperations = 2
SPECIFICATION ProgressSpec
INVARIANTS TypeOK HolderUntilStolen OnlyStallsSteal
PROPERTIES WaitEnds OperationEnds GateOpens
CHECK_DEADLOCK FALSE
