\* Two rows of one session, a hook and a sweep, a cap of one memory.
CONSTANTS
    s1 = s1
    s2 = s2
    h1 = h1
    h2 = h2
    w1 = w1
    w2 = w2
    None = None
    Rows = 2
    Session = {s1}
    SessionOf <- OneSession
    Pass = {h1, w1}
    Sweep = {w1}
    Limit = 2
    MaxFailures = 2
    Cap = 1
    MaxUpsets = 1
SPECIFICATION FairSpec
INVARIANTS TypeOK PromotedOnce
PROPERTIES SettledStays PendingIsTakenUp
\* When the rows are settled nothing is left to do.
CHECK_DEADLOCK FALSE
