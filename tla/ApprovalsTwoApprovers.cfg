\* Two REST requests approve one proposal.
CONSTANTS
    t1 = t1
    a1 = a1
    f1 = f1
    p1 = p1
    p2 = p2
    k1 = k1
    k2 = k2
    r1 = r1
    r2 = r2
    Tool = {}
    Proposal = {f1}
    AutoExec = {}
    Proc = {p1, p2}
    Socket = {}
    Rest = {r1, r2}
    At <- Placement
    Owner <- OwnedByK1
    Answerable = {}
    MaxBatch = 1
    MaxCrash = 0
SPECIFICATION Spec
INVARIANTS DispatchedOnce
\* Nobody owes a decision: the system may rest.
CHECK_DEADLOCK FALSE
