SPECIFICATION FairSpec
CONSTANTS
    Lambdas = {l1}
    Shells = {s1}
    Invocations = {r1, r2}
    NoInvocation = NoInvocation
    Seconds = {1}
    MaxLinks = 2
    MaxFaults = 2
INVARIANTS
    TypeOK
    AnswerCoversPast
PROPERTIES
    NothingOverwritten
    EveryInvocationAnswered
