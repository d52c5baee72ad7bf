SPECIFICATION FairSpec
CONSTANTS
    j1 = j1
    j2 = j2
    j3 = j3
    w1 = w1
    w2 = w2
    k1 = k1
    k2 = k2
    Job = {j1, j2, j3}
    Worker = {w1, w2}
    Key = {k1, k2}
    KeyOf <- MCKeyOf
    HasResponse = {j1, j2}
    AbortKeys = {k1, k2}
    NoKey = NoKey
    NoJob = NoJob
INVARIANTS NoLostWakeup AbortGuarantee SingleOwner
CHECK_DEADLOCK FALSE
PROPERTIES EveryJobAnswered
