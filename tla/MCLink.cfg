\* Five games of alice, each with what its players do, under fairness.
CONSTANTS
    alice = alice
    english = english
    esperanto = esperanto
    Client <- MCClient
    MaxPlayers = 2
    MaxTiles = 2
    DefaultTiles = 1
    ShoutTime = 1
    Language <- MCBothLanguages
    Place <- MCPlace
    Text <- MCText
    MaxMessages = 2
    Plays <- MCPlays
    OutCap = 2
    WireCap = 1
    CountModulus = 65536

SPECIFICATION FairSpec

INVARIANTS
    LinkSound

PROPERTIES
    ChatIsDelivered
    ToldInOrder
    EventuallyUpToDate

\* Bounds reached and everybody gone: the system may stop.
CHECK_DEADLOCK FALSE
