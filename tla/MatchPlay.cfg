\* One request per player at a time, in every mode of play; clients that wait for
\* their session, and clients that post at any time; a session polled meanwhile.
CONSTANTS
    c1 = c1
    j1 = j1
    Slots = {c1, j1}
    Owner <- OneEach
    Modes = {"bot", "local", "online", "friend"}
    Items = {"shield", "fog", "ghost-guess", "peek-in"}
    Charges = 1
    HasJob = TRUE
    Manners = {TRUE, FALSE}
    MaxCalls = 5
    MaxCrashes = 0
    WatchedModes = {"online"}
    WatchedCalls = 4
SPECIFICATION ViewSpec
INVARIANTS
    CompletedByWinner
    SomeoneCanGuess
    InvitationHolds
    GhostsStayHidden
PROPERTIES
    KeepsTurnOrder
CHECK_DEADLOCK FALSE
