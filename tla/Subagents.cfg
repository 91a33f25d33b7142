\* A batch of two over one slot: the gate, the reaper and every decider.
CONSTANTS
    Ttl = Ttl
    Child = {c1, c2}
    Slots = 1
    Rest = {r1}
    Chat = {k1}
    BatchLimit = 1
    MaxCrash = 1
SPECIFICATION FairSpec
INVARIANTS TypeOK ParkedHasReview
PROPERTIES LeavesWithVerdict OrphanReaped ReviewSettles BatchReturns
\* The batch is finite: the system may rest.
CHECK_DEADLOCK FALSE
