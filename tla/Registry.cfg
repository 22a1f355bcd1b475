\* Two browsers, one request each at a time; the database may fail once.
CONSTANTS
    b1 = b1
    b2 = b2
    r1 = r1
    r2 = r2
    Slots = {r1, r2}
    Clients = {b1, b2}
    Owner <- OneEach
    Emails = {"x", "X"}
    LowerCase <- Lower
    Names = {"ann"}
    Handlers = {"signup", "guest", "google", "upgrade", "verify", "resend", "rename", "remove", "logout"}
    Settled = FALSE
    MaxUsers = 2
    MaxCalls = 3
    MaxErrors = 1
    MaxKills = 0
SPECIFICATION Spec
INVARIANTS
    TypeOK
    AllOrNothing
    VerifiedIsOwned
    OneOwnerEach
CHECK_DEADLOCK FALSE
