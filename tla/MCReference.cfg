SPECIFICATION Spec
CONSTANTS
    s1 = s1  s2 = s2  a1 = a1  c1 = c1  c2 = c2  h1 = h1
    t1 = t1  t2 = t2  d1 = d1  food = food  opening = opening  cash = cash
    Nobody = Nobody  Null = Null  Missing = Missing
    Session <- MCSession
    Account <- MCAccount
    Person <- MCNobody
    Category <- MCCategory
    Hashtag <- MCNobody
    Txn <- MCOneTxn
    Draft <- MCDraft
    AccountName <- MCAccountName
    Name <- MCName
    Reserved <- opening
    Spare <- MCSpareDraft
    Workload <- NoSingle
    MaxRequests = 2
SYMMETRY Symmetry
INVARIANTS
    NamesAreUnique
    OnlySeedsAreOpening
    SeederUsesTheSystemRow
PROPERTIES
    SystemCategoryStays
    NoNewSquatter
    LoneRequestKeepsReferences
CHECK_DEADLOCK FALSE
