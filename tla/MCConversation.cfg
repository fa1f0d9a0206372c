\* The rules of the game: three seats, up to three tiles.
CONSTANTS
    english = english
    esperanto = esperanto
    centre = centre
    edge = edge
    MaxPlayers <- MCMaxPlayers
    MaxTiles <- MCMaxTiles
    DefaultTiles <- MCDefaultTiles
    ShoutTime <- MCShoutTime
    Language <- MCLanguage
    Place <- MCPlace
    Text <- MCText
    MaxMessages <- MCMaxMessages

SPECIFICATION Spec

SYMMETRY MCSymmetry

INVARIANTS
    TypeOK
    TurnFlagsSound
    TurnNeverLost
    CountExact
    BagMatchesSettings

PROPERTY TurnGoesRound

\* A game that everybody has left can do nothing more.
CHECK_DEADLOCK FALSE
