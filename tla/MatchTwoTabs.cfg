\* Two requests of the creator in flight at once.
CONSTANTS
    c1 = c1
    c2 = c2
    j1 = j1
    Slots = {c1, c2, j1}
    Owner <- TwoTabs
    Modes = {"online"}
    Items = {}
    Charges = 1
    HasJob = FALSE
    Manners = {FALSE}
    MaxCalls = 5
    MaxCrashes = 0
SPECIFICATION Spec
PROPERTIES
    TurnsAlternate
CHECK_DEADLOCK FALSE
