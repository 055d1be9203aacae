SPECIFICATION Spec
CONSTANTS
    Agent = a1
    NoAgent = NoAgent
    NoMemory = NoMemory
    NoTask = NoTask
    NoRegion = "none"
    Regions = {"us", "eu"}
    GatewayRegion = "us"
    Texts <- MCTexts
    KindOf <- MCKindOf
    Distance <- MCDistance
    SameIncidentClass = 115
    LessonApplies = 120
    Workers = {w1}
    TaskIds = {t1}
    MemIds <- MCMemIds5
    Signals <- MCOneClass
    Candidates = 50
    MinEpisodes = 3
    ExtraNeighbours = 4
    MaxFaults = 1
CHECK_DEADLOCK FALSE
INVARIANT CommitTogether
