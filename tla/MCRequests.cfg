\* A client's requests, one part at a time.  Two messages of two deltas, in two turns,
\* over queues of two.
SPECIFICATION RequestsSpec
CONSTANTS
    words = words
    err = err
    note = note
    Texts <- OneText
    Errors <- OneError
    Notices <- OneNotice
    Unsendable <- AllSent
    Roles <- BothRoles
    MaxMessages = 2
    MaxDeltas = 2
    MaxTurns = 2
    MaxEvents = 2
    Capacity = 2
    None = None
    Parts <- AllParts
    Models <- ThreeModels
    Map <- ModelMap
    Window <- Windows
    Enabled <- TwoEnabled
    First = "plain"
    Targets <- LowAndHigh
    Protocols <- BothProtocols
    PiMoves = "apart"
    Lossy <- SetsFail
    MaxSets = 2
    MaxMoves = 2
    MaxUsage = 1
    Names <- AllNames
    Bodies <- AllBodies
    Builtins <- OwnCommands
    Lists <- AllLists
    Dirs <- PromptDirs
    Roots <- ThreeRoots
    Ways <- TwoWays
    Sessions <- ThreeSessions
    Cwds <- TwoCwds
    LIST_PAGE_SIZE = 1
    Naive = FALSE
    Explicit = TRUE
    Deletes = TRUE
    Clock = 2
    Memory = 8
    Low = 0
    High = 9999
    Looked <- SomeYears
    DAY = 24
    Times <- SomeTimes
    Offsets <- SomeOffsets
INVARIANTS
    MessagesSeparate
    UpdatesArrive
    ShownIsPis
    CommandsAgree
    ListingIsFaithful
    TimesAreTrue
\* pi and the client stop, and the walks end at their bounds.
CHECK_DEADLOCK FALSE
