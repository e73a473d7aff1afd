CONSTANTS
    NoSuggestion = NoSuggestion
    Patterns <- MCPatterns
    TokenSymbols = {"g", "h", "k", "z"}
    RandomSymbols = {"z"}
    Phrases = {"ignore"}
    PromptPhrases = {"ignore", "###"}
    MaxChars = 8
    MaxRetries = 2
    Setups <- MCSetups
    Reports <- MCReports
    Answers <- MCAnswers
    Project <- MCProject
    Binary <- MCBinary
    Texts <- MCTexts
    Programs <- MCPrograms
    Scripts <- MCScripts
    Olds <- MCOlds
    Admins = {a1}
    Writers = {w1, w2}
    Outcomes <- MCOutcomes
    ScanWindow = 3
    FeedLimit = 1
    MaxIds = 3
    MaxEntries = 3
    Names = {"web", "api"}
    Managers = {m1, m2}
    Senders = {r1}
    MaxKeys = 3
    Processes = {"p1", "p2"}
    Configured = "none"
    Callers = {c1, c2}
    Lifetime = 1
    MaxTime = 2
    MaxTokens = 2
    Pieces <- MCPieces
    MaxBlock = 2
    MaxLog = 6
    Counters = {"c1", "c2"}
    Resolvers = {"r1"}
    MaxFuture = 1
    MaxClock = 3
    MaxRepeats = 2
    Importers = {"p1", "p2"}
    Editors = {"e1", "e2"}
    Legacy <- MCLegacy
    LegacyMode = "auto_pr"
    Updates <- MCUpdates
    Additions <- MCAdditions
    MaskedUrl = "mask"
    MaxChannels = 3
    Thread = {t1, t2}
    Capacity = 2
    RefillPerMinute = 2
    TicksPerMinute = 5
    MaxTicks = 6
    MaxRestarts = 1
    NoThread = NoThread
SPECIFICATION ServerSpec
INVARIANTS
    ServerTypeOK
    PullWasVetted
    SecretsKept
    ContainerConfined
    RedactedExactly
    TaintSound
    SectionsAsWritten
    PatchReproduces
    EveryEntryAccountedFor
    RetiredKeyRefused
    OneAdmin
    ServedInSession
    ErrorsReadAreTaken
    BackMeansOpen
    RemovedWhenImported
    WindowBound
    ThrottledAfterGrant
PROPERTIES
    
    HiddenBySight
    EditsAsAsked
