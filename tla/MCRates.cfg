SPECIFICATION Spec
CONSTANTS
    daily = daily  backfill = backfill  q1 = q1  q2 = q2
    USD = USD  PEN = PEN  NoRate = NoRate
    Day <- MCDay
    Rate <- MCRate
    DailyJob <- MCDaily
    BackfillJob <- MCBackfill
    Floor = 2
    Window = 1
    Seeds <- MCSeeds
    Tries = 2
    MaxRuns = 1
    Reader <- MCReader
    Base = USD
    Home = PEN
    Key <- MCKey
    Ttl = 2
    NegTtl = 1
    MaxTime = 3
    Scenes <- MCScenes
INVARIANTS
    ZeroMeansCovered
    RefusedIsPricedNearby
PROPERTIES
    FirstRateStands
    AnswersAreFresh
    JobsEnd
CHECK_DEADLOCK FALSE
