SPECIFICATION Spec
CONSTANTS
    s1 = s1  s2 = s2  t1 = t1  t2 = t2  r1 = r1  r2 = r2
    acc1 = acc1   x = x  y = y
    Nobody = Nobody  NoRecon = NoRecon  Omitted = Omitted
    Missing = Missing  NotCounted = NotCounted
    Session <- MCOneSession
    Txn <- MCTxn
    Recon <- MCRecon
    Account <- MCOneAccount
    Amount <- MCAmount
    Workload <- Operation
    MaxRequests = 3
SYMMETRY Symmetry
INVARIANTS
    NobodyJoinsCompleted
    NoLinkToDeleted
    CompletedIsNeverDeleted
PROPERTY
    CompletedRangeIsFixed
CHECK_DEADLOCK FALSE
