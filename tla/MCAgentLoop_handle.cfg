SPECIFICATION Spec
CONSTANTS
    Agent = a1
    NoAgent = NoAgent
    NoMemory = NoMemory
    NoTask = NoTask
    NoRegion = "none"
    Regions = {"us", "eu"}
    GatewayRegion = "us"
    Texts <- MCTexts
    KindOf <- MCKindOf
    Distance <- MCDistance
    SameIncidentClass = 115
    LessonApplies = 120
    Workers = {w1, w2}
    TaskIds = {t1, t2}
    MemIds <- MCMemIds5
    Signals <- MCTwoClasses
    Candidates = 4
    MinEpisodes = 2
    ExtraNeighbours = 2
    MaxFaults = 1
CHECK_DEADLOCK FALSE
SYMMETRY Symmetry
INVARIANTS
    TypeOK
    EpisodeFollowsStep
    LessonHasExperience
    SerialLessonsUnique
    LessonStaysInUse
    ActsOnOwnRunbook
    AgreeWithoutFaults
