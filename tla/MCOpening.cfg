SPECIFICATION Spec
CONSTANTS
    s1 = s1  s2 = s2  a1 = a1  c1 = c1  c2 = c2  h1 = h1
    t1 = t1  t2 = t2  d1 = d1  food = food  opening = opening  cash = cash
    Nobody = Nobody  Null = Null  Missing = Missing
    Session <- MCOneSession
    Account <- MCAccount
    Person <- MCNobody
    Category <- MCCategory
    Hashtag <- MCNobody
    Txn <- MCTxn
    Draft <- MCNoDraft
    AccountName <- MCAccountName
    Name <- MCName
    Reserved <- opening
    Spare <- MCSpare
    Workload <- Operation
    MaxRequests = 3
SYMMETRY Symmetry
INVARIANT
    OneOpeningBalance
CHECK_DEADLOCK FALSE
