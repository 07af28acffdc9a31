SPECIFICATION MCSpec
CONSTANTS
    t1 = t1  t2 = t2  usd = usd  pen = pen  food = food  rent = rent  h = h
    NoRate = NoRate  NoRow = NoRow  Null = Null  Opening = Opening
    Txn <- MCTxn
    Account <- MCAccount
    InDollars <- MCDollars
    Category <- MCCategory
    Tag <- MCTag
    Row <- MCRow
    Instant <- MCInstant
    DayLength = 2
    Offset <- MCOffset
    MonthLength = 1
    Unit = 10
    Day <- MCDay
    Rate <- MCRate
    Today = 2
    FirstMonth = 1
    LastMonth = 2
    Seeds <- MCSeeds
    MaxWrites = 1
    Ttl = 2
    NegTtl = 1
    MaxTime = 2
    Scenes <- MCScenes
SYMMETRY Symmetry
INVARIANTS
    NetIsWhatGroupsAddUpTo
    EachRowIsInOneMonth
    BalanceIsWithinRounding
CHECK_DEADLOCK FALSE
