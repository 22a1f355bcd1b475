\* One tab each, two workers, one of which may die: the waiting player learns of the match.
CONSTANTS
    ann = ann
    bob = bob
    a1 = a1
    a2 = a2
    b1 = b1
    w1 = w1
    w2 = w2
    Users = {ann, bob}
    Tabs = {a1, b1}
    Owner <- OneAgainstOne
    Workers = {w1, w2}
    MaxCalls = 2
    MaxWatches = 1
    Reopens = TRUE
    Capacity = 2
    MaxSeconds = 1
    MaxKills = 1
SPECIFICATION FairSpec
PROPERTIES
    MatchedIsSeen
CHECK_DEADLOCK FALSE
