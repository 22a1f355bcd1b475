\* Two tabs of one player and one of another, two workers.
CONSTANTS
    ann = ann
    bob = bob
    a1 = a1
    a2 = a2
    b1 = b1
    w1 = w1
    w2 = w2
    Users = {ann, bob}
    Tabs = {a1, a2, b1}
    Owner <- TwoAgainstOne
    Workers = {w1, w2}
    MaxCalls = 3
    MaxWatches = 1
    Reopens = FALSE
    Capacity = 2
    MaxSeconds = 1
    MaxKills = 0
SPECIFICATION Spec
SYMMETRY Exchange
INVARIANTS
    TypeOK
    QueueBounded
    NoMissedMatch
    OnlyCrossedJoinsMiss
CHECK_DEADLOCK FALSE
