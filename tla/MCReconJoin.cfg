SPECIFICATION Spec
CONSTANTS
    s1 = s1  s2 = s2  t1 = t1  t2 = t2  r1 = r1  r2 = r2
    acc1 = acc1   x = x  y = y
    Nobody = Nobody  NoRecon = NoRecon  Omitted = Omitted
    Missing = Missing  NotCounted = NotCounted
    Session <- MCSession
    Txn <- MCTxn
    Recon <- MCOneRecon
    Account <- MCOneAccount
    Amount <- MCOneAmount
    Workload <- Operation
    MaxRequests = 2
INVARIANT
    NobodyJoinsCompleted
CHECK_DEADLOCK FALSE
