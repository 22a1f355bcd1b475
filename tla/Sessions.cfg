\* Two tabs of one browser, one account; one request may be killed.
CONSTANTS
    b1 = b1
    b2 = b2
    r1 = r1
    r2 = r2
    Slots = {r1, r2}
    Clients = {b1}
    Owner <- TwoTabs
    Emails = {"x"}
    LowerCase <- Lower
    Names = {"ann"}
    Handlers = {"login", "refresh", "logout", "reset", "google", "exchange"}
    Settled = TRUE
    MaxUsers = 1
    MaxCalls = 5
    MaxErrors = 0
    MaxKills = 1
SPECIFICATION Spec
SYMMETRY TabsAlike
INVARIANTS
    SessionSurvives
    PurgeIsComplete
CHECK_DEADLOCK FALSE
