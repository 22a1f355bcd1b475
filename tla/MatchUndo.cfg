\* Careful clients and the undo power-up.
CONSTANTS
    c1 = c1
    c2 = c2
    j1 = j1
    Slots = {c1, j1}
    Owner <- OneEach
    Modes = {"online"}
    Items = {"undo"}
    Charges = 1
    HasJob = FALSE
    Manners = {TRUE}
    MaxCalls = 6
    MaxCrashes = 0
SPECIFICATION Spec
INVARIANTS
    SomeoneCanGuess
CHECK_DEADLOCK FALSE
