SPECIFICATION Spec
CONSTANTS
    s1 = s1  s2 = s2  t1 = t1  t2 = t2  d1 = d1  h1 = h1  h2 = h2
    Nobody = Nobody  Null = Null  Missing = Missing  Omitted = Omitted
    Session <- MCSession
    Txn <- MCTxn
    Draft <- MCDraft
    Tag <- MCOneTag
    Workload <- Operation
    MaxRequests = 2
SYMMETRY Symmetry
INVARIANTS
    TypeOK
    DeletedHaveNoTags
    OnePromotion
PROPERTIES
    TagsMoveWithVersion
    TagsAreAsAsked
    ImplementsTaggedRows
CHECK_DEADLOCK FALSE
