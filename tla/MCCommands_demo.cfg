SPECIFICATION CommandsSpec
CONSTANTS
    Agent = agent
    Shell = shell
    Workers = {shell}
    TaskIds <- MCTaskIds
    MemIds <- MCMemIds
    NoAgent = NoAgent
    NoMemory = NoMemory
    NoTask = NoTask
    NoFile = NoFile
    Torn = Torn
    Texts <- MCTexts
    KindOf <- MCKindOf
    Distance <- MCDistance
    Regions = {"us-east-1", "us-west-2", "eu-west-1"}
    NoRegion = "none"
    GatewayRegion = "us-east-1"
    Signals <- MCSignals
    Seeds <- MCSeeds
    Encounters <- MCEncounters
    EarlierText = "lag"
    Word <- MCWord
    Candidates = 6
    MinEpisodes = 3
    ExtraNeighbours = 4
    SameIncidentClass = 115
    LessonApplies = 120
    MaxFaults = 1
INVARIANTS
    CommandsTypeOK
    SkillFilesComplete
    ActsOnOwnRunbook
PROPERTY DemoEndsInMemory
