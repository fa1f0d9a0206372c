\* One message is said before a client comes by JOIN_GAME.
CONSTANTS
    alice = alice
    english = english
    esperanto = esperanto
    Client <- MCClient
    MaxPlayers = 2
    MaxTiles = 1
    DefaultTiles = 1
    ShoutTime = 0
    Language <- MCOneLanguage
    Place <- MCOnePlace
    Text <- MCText
    MaxMessages = 1
    Plays <- MCJoinPlays
    OutCap = 2
    WireCap = 1
    CountModulus = 65536

SPECIFICATION LinkSpec

INVARIANTS
    ReconnectResumes

\* Bounds reached and everybody gone: the system may stop.
CHECK_DEADLOCK FALSE
