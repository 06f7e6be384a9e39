\* Two parents that share a child, plans that change or agents and people at work, one
\* crash or corrupt plan.
SPECIFICATION FocusSpec
CONSTANTS
    P = P
    Q = Q
    Task <- Four
    Parent <- Parents
    Candidates <- Sharing
    Depends <- Chain
    Scopes <- Areas
    Starts <- AnyStart
    MaxParallel = 2
    NoSession = NoSession
    Outsider = Outsider
    MaxSessions = 3
    MaxMoves = 1
    MaxFaults = 1
INVARIANTS TypeOK OnePlanPerTask NoOrphanLease
PROPERTIES ImplementsDispatch WavesDoNotClash
CHECK_DEADLOCK FALSE
