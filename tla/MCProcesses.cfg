\* Lease: three sessions, any of which may be suspended anywhere and one of which may die
\* inside the mutex, with three operations between them.  Store: two processes, three
\* commands in turn that may die, or two that race; two of the three titles have one slug.
\* Gates: two writes at a time and three changes of the tree in one chat.  Resident: two
\* launchers of one build, two runtimes, one of all of which is killed.
SPECIFICATION ProcessesSpec
SYMMETRY Alike
CONSTANTS
    s1 = s1
    s2 = s2
    s3 = s3
    Session <- Three
    NoSession = NoSession
    Attempts = 2
    Stalls = TRUE
    MaxCrashes = 1
    MaxOperations = 3
    cart = cart
    Cart = Cart
    checkout = checkout
    Processes = {p1, p2}
    Titles <- ThreeTitles
    Slugs <- TwoSlugs
    Slug <- Lowercase
    SliceTitles <- CartFirst
    MaxTasks = 4
    MaxCommands = 3
    MaxRaced = 2
    Calls = {c1, c2}
    Decisions = {d1}
    Answers = {a1, a2}
    NoAnswer = none
    MaxEdits = 3
    Launchers = {l1, l2}
    Nobody = nobody
    Runtimes = {r1, r2}
    MaxTries = 2
    MaxKilled = 1
INVARIANTS TypeOK GrantsStand StoreKeepsTasks GatesTypes CompletionIsProved ExecutedOnce BusyIsNotDead
PROPERTIES RefinesAuthority ImplementsTable AuthorityIsSpent
CHECK_DEADLOCK FALSE
