\* Two users, a third to come, and, of each component, two requests at a time; what
\* one behaviour calls is one of the menus of MCFeatures.
CONSTANTS
    s1 = s1
    s2 = s2
    Users = {1, 2, 3}
    Veterans = 2
    UserLimit = 2
    Slots = {s1, s2}
    Menus <- SideBySide
SPECIFICATION Spec
INVARIANTS
    TypeOK
    NeverOverpaid
    PaidInFull
    ToldIsPaid
    NeverOverstates
    BoardIsExact
    PageIsTrue
    KitGivenOnce
    FriendsByConsent
    OneFriendshipPerYes
    NewsIsTrue
    WelcomedOnce
    NeverDangling
    OneObject
    AttemptsAreGuesses
    PathStaysOpen
CHECK_DEADLOCK FALSE
