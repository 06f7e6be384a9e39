\* Three commands, one operation each, nobody crashes, nobody stalls.
SPECIFICATION Spec
CONSTANTS
    p1 = p1
    p2 = p2
    p3 = p3
    Proc <- Three
    RuntimeProc <- Second
    NoProc = NoProc
    Stalls = FALSE
    MaxUses = 1
    MaxCrashes = 0
INVARIANT LiveLockKept
CHECK_DEADLOCK FALSE
