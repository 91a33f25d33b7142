\* A tool call and an archive proposal: REST decisions and batches, cancel frames, the TTL
\* sweep with failing dispatches, one crash.
CONSTANTS
    t1 = t1
    a1 = a1
    f1 = f1
    p1 = p1
    p2 = p2
    k1 = k1
    k2 = k2
    r1 = r1
    r2 = r2
    Tool = {t1}
    Proposal = {a1}
    AutoExec = {a1}
    Proc = {p1, p2}
    Socket = {k1}
    Rest = {r1}
    At <- Placement
    Owner <- OwnedByK1
    Answerable = {}
    MaxBatch = 2
    MaxCrash = 1
SPECIFICATION FairSpec
PROPERTIES DispatchedWithFlip NeverReopened PendingSettles
\* Nobody owes a decision: the system may rest.
CHECK_DEADLOCK FALSE
