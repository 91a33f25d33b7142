\* One run and one replica: is a cancelled run's cancellation ever handed out?
CONSTANTS
    r1 = r1
    r2 = r2
    w1 = w1
    w2 = w2
    Run = {r1}
    Worker = {w1}
    Final <- Finals
    Window = 1
    PollLimit = 2
    EventLimit = 2
    EnumColumn = FALSE
SPECIFICATION FairSpec
PROPERTY CancelPickedUp
\* Every run may be over and every row closed.
CHECK_DEADLOCK FALSE
