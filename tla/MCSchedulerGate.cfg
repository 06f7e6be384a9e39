\* A builder left its lane; a person decides while a worktree is being made.
SPECIFICATION Spec
CONSTANTS
    P = P
    Q = Q
    Task <- Three
    Parent <- Parents
    Candidates <- Settled
    Depends <- Free
    Scopes <- Areas
    Starts <- Builders
    MaxParallel = 2
    NoSession = NoSession
    Outsider = Outsider
    MaxSessions = 2
    MaxMoves = 1
    MaxFaults = 0
PROPERTY GatesStand
CHECK_DEADLOCK FALSE
