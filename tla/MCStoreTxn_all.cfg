SPECIFICATION FairSpec
CONSTANTS
    Genesis = Genesis
    NoMemory = NoMemory
    NoAgent = NoAgent
    HmacKey = HmacKey
    Agents = {a1, a2}
    Workers = {w1, w2}
    TaskIds = {t1}
    MemIds = {m1, m2, m3}
    MaxLinks = 2
    MaxFaults = 1
CHECK_DEADLOCK FALSE
INVARIANTS
    TypeOK
    ChainIntact
    Attested
    StepsCounted
    LessonsKept
    AnswerIsTruthful
    IndInv
PROPERTIES
    AppendOnly
    Refines
    EveryCallAnswered
    ProgressUnderContention
