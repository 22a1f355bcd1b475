\* One request per player at a time; a secret is submitted again after the end.
CONSTANTS
    c1 = c1
    c2 = c2
    j1 = j1
    Slots = {c1, j1}
    Owner <- OneEach
    Modes = {"online"}
    Items = {}
    Charges = 1
    HasJob = FALSE
    Manners = {FALSE}
    MaxCalls = 6
    MaxCrashes = 0
SPECIFICATION Spec
PROPERTIES
    EndIsFinal
CHECK_DEADLOCK FALSE
