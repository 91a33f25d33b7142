\* Two tabs, two turns of which one is remote, one approval request.
CONSTANTS
    c1 = c1
    c2 = c2
    r1 = r1
    r2 = r2
    a1 = a1
    a2 = a2
    None = None
    Conn = {c1, c2}
    Run = {r1, r2}
    Remote = {r2}
    Approval = {a1}
    QueueLimit = 1
SPECIFICATION FairSpec
INVARIANTS TypeOK RunningTurnCanBeStopped ClosedMeansSilent EndsWithFrame
PROPERTIES MissedOnlyAfterClose StopReturns
\* Every client may have left.
CHECK_DEADLOCK FALSE
