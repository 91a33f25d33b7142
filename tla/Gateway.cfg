\* Two runs, of four events and of one, two replicas of the worker; reads of two
\* events, polls of up to two requests.
CONSTANTS
    r1 = r1
    r2 = r2
    w1 = w1
    w2 = w2
    Run = {r1, r2}
    Worker = {w1, w2}
    Final <- Finals
    Window = 1
    PollLimit = 2
    EventLimit = 2
    EnumColumn = FALSE
SPECIFICATION FairSpec
INVARIANTS TypeOK NeverHandedTwice ReturnedMeansClosed
PROPERTIES ImplementsStream RunReturns
\* Every run may be over and every row closed.
CHECK_DEADLOCK FALSE
