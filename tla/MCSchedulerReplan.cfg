\* One parent whose task set changes while a lease has run out.
SPECIFICATION Spec
CONSTANTS
    P = P
    Q = Q
    Task <- Three
    Parent <- Parents
    Candidates <- Changing
    Depends <- Free
    Scopes <- Areas
    Starts <- Writers
    MaxParallel = 2
    NoSession = NoSession
    Outsider = Outsider
    MaxSessions = 2
    MaxMoves = 0
    MaxFaults = 0
PROPERTY ReplanKeepsReservations
CHECK_DEADLOCK FALSE
