\* Two edits that cross, one end of the process.
CONSTANTS
    c1 = c1
    c2 = c2
    s = s
    t = t
    x = x
    w = w
    h1 = h1
    h2 = h2
    None = None
    Channel = {c1}
    Config = {s, t, x, w}
    Stream = {s, t, x}
    Runnable = {s, t, w}
    Handler = {h1, h2}
    MaxEdits = 2
    MaxStops = 1
SPECIFICATION FairSpec
INVARIANTS TypeOK StopLeavesNothing
PROPERTIES Converges
