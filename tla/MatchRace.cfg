\* Two tabs of the creator against the joiner, with a crash and the stale-game job.
CONSTANTS
    c1 = c1
    c2 = c2
    j1 = j1
    Slots = {c1, c2, j1}
    Owner <- TwoTabs
    Modes = {"online"}
    Items = {"undo", "skip-turn", "extra-turn"}
    Charges = 1
    HasJob = FALSE
    Manners = {FALSE}
    MaxCalls = 5
    MaxCrashes = 1
SPECIFICATION Spec
SYMMETRY TabsAlike
INVARIANTS
    TypeOK
    StartedHasSecrets
    CreatorOpens
    LossNeedsWin
    NeverChargedForNothing
    LockedByUndoOrCrash
CHECK_DEADLOCK FALSE
