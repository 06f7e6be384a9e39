\* Each service on its own instance; which one a behaviour is of is chosen first.
CONSTANTS
    Sessions = {s1, s2}
    NoSession = none
    MaxEdits = 1
    MaxAttempts = 1
    Commands <- SerialCommands
    RacedCommands <- SideBySide
    Crashes = TRUE
    Profiles = {q1}
    MinPrimary = 1
    Levels <- TwoLevels
    MaxChanges = 1
    MaxTurns = 2
    CommandsDie = TRUE
    Writers = {w1}
    Rendering = {t1}
SPECIFICATION ServicesSpec
SYMMETRY AnySession
INVARIANTS
    TypeOK FirstAudienceIsFresh ChoiceIsHonoured FreshSessionCanEnter
    ServiceTypes
    DeliveredIsJudged AutonomousIsAgreed ReadinessAgrees AdviceIsPossible
    ApprovedIsSeen
PROPERTIES ChoiceStands RenderedIsCurrent
CHECK_DEADLOCK FALSE
