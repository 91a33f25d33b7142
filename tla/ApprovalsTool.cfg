\* One tool call; deciders in its process and in another one; one crash; liveness.
CONSTANTS
    t1 = t1
    a1 = a1
    f1 = f1
    p1 = p1
    p2 = p2
    k1 = k1
    k2 = k2
    r1 = r1
    r2 = r2
    Tool = {t1}
    Proposal = {}
    AutoExec = {}
    Proc = {p1, p2}
    Socket = {k1}
    Rest = {r1, r2}
    At <- Placement
    Owner <- OwnedByK1
    Answerable = {t1}
    MaxBatch = 1
    MaxCrash = 1
SPECIFICATION FairSpec
INVARIANTS TypeOK RunsOnlyAfterApproval NoLostWakeup CancelledNeverRuns
PROPERTIES ImplementsGate
\* Nobody owes a decision: the system may rest.
CHECK_DEADLOCK FALSE
