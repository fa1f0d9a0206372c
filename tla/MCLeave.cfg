\* A client leaves, under fairness.
CONSTANTS
    alice = alice
    english = english
    esperanto = esperanto
    Client <- MCClient
    MaxPlayers = 2
    MaxTiles = 1
    DefaultTiles = 1
    ShoutTime = 0
    Language <- MCOneLanguage
    Place <- MCOnePlace
    Text <- MCText
    MaxMessages = 1
    Plays <- MCLeavePlays
    OutCap = 2
    WireCap = 2
    CountModulus = 65536

SPECIFICATION FairSpec

PROPERTIES
    LeaverIsTold

\* Bounds reached and everybody gone: the system may stop.
CHECK_DEADLOCK FALSE
