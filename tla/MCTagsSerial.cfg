SPECIFICATION Spec
CONSTANTS
    s1 = s1  s2 = s2  t1 = t1  t2 = t2  d1 = d1  h1 = h1  h2 = h2
    Nobody = Nobody  Null = Null  Missing = Missing  Omitted = Omitted
    Session <- MCOneSession
    Txn <- MCOneTxn
    Draft <- MCDraft
    Tag <- MCTag
    Workload <- NoRestore
    MaxRequests = 3
SYMMETRY Symmetry
INVARIANTS
    LiveTagsAreActive
PROPERTY
    DismissedIsPending
CHECK_DEADLOCK FALSE
