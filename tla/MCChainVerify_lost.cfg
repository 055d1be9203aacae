SPECIFICATION Spec
CONSTANTS
    Genesis = Genesis
    NoMemory = NoMemory
    Agent = a1
    VerifyKey = k1
    Keys = {k1, k2}
    act = act
    remember = remember
    m1 = m1
    Calls <- StepAndMemory
    NoKey = NoKey
    MaxLinks = 3
    MaxDamage = 1
INVARIANT VerifiedLostNothing
