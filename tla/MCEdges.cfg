\* The edges of the program: handshakes, good and bad, and up to three frames after a
\* good one; starts of the server; texts and tiles; and all the formats.
SPECIFICATION EdgesSpec
CONSTANTS
    MaxLine = 7
    MaxPayload = 7
    MaxControl = 1
    BufSize = 7
    Plans <- EdgePlans
    MaxPiece = 3
    StartPlans <- EdgeStartPlans
    MaxLogged = 4
    Layouts <- MCLayouts
    FontOf <- MCFontOf
    Texts <- MCTexts
    Widths <- MCWidths
    GlyphOf <- MCGlyphOf
    TextureSide = 4
    MinimumQuads = 1
    ByteQuads = 2
    TileRuns <- MCTileRuns
    Tokens <- MCTokens
    Longest <- MCLongest
    TableSize = 2
INVARIANTS
    WebSocketSound
    MessagesAreWhole
    FormatsSound
PROPERTIES
    Started
CHECK_DEADLOCK FALSE
