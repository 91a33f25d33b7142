\* Two workers with crashes, shutdowns, hand-overs, pauses and a lost key.
CONSTANTS
    w1 = w1
    w2 = w2
    w3 = w3
    Worker = {w1, w2}
    Ttl = 6
    Renewal = 2
    Poll = 1
    MaxLife = 2
    MaxStall = 2
    MaxLoss = 1
SPECIFICATION FairSpec
INVARIANTS TypeOK AtMostOneLeader
PROPERTIES LeaderElected
