SPECIFICATION Spec
CONSTANTS
    a1 = a1  a2 = a2  a3 = a3
    k1 = k1   f1 = f1  f2 = f2  l1 = l1
    Nobody = Nobody
    Legacy = Legacy
    Attempt <- MCAttempt
    Key <- MCKey
    Fingerprint <- MCFingerprint
    Secret <- MCSecret
    LockId <- MCLockId
    LockOf <- MCLockOf
    PoolSize = 2
INVARIANTS
    TypeOK
    AtMostOnce
    ClaimedIffWritten
    AnswersAreTrue
PROPERTIES
    ImplementsExactlyOnce
    EveryRequestEnds
CHECK_DEADLOCK FALSE
