SPECIFICATION Spec
CONSTANTS
    a1 = a1
    a2 = a2
    k1 = k1
    k2 = k2
    k3 = k3
    i1 = i1
    i2 = i2
    o1 = o1
    None = None
    Attempts = {a1, a2}
    Free = {k1, k2, k3}
    InterruptKey <- MCInterruptKey
    LastEpisode = 2
    Refs = {o1}
    Recoverable = {a1}
    MaxEvidence = 1
    Limit = 2
    MaxClock = 1
SYMMETRY MCSymmetry
CHECK_DEADLOCK FALSE
INVARIANTS
    TypeOK
    OneClaimEach
    OneEffectPerOperation
    SameAnswer
PROPERTIES
    DeletedForGood
    RecoveryComplete
    LifeOfAnAttempt
