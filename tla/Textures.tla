------------------------------ MODULE Textures ------------------------------
(***************************************************************************)
(* Where things are in the textures of the client: the glyphs of a font    *)
(* (src/client/vsx-bsp.c), the letters of the tiles, which a script draws  *)
(* (src/scripts/create-tile-texture.py) and the client looks up            *)
(* (src/client/vsx-tile-texture.c and -letters.c), and the smaller copies  *)
(* of an image (src/client/vsx-mipmap.c).                                  *)
(*                                                                         *)
(* An area is [x, y, w, h]; it has the points of Points(area).             *)
(***************************************************************************)
EXTENDS Integers, Sequences, SequencesExt, FiniteSets

LOCAL Larger(a, b) == IF a >= b THEN a ELSE b

Points(area) == (area.x .. (area.x + area.w - 1)) \X (area.y .. (area.y + area.h - 1))
Apart(a, b) == \/ a.x + a.w <= b.x \/ b.x + b.w <= a.x
               \/ a.y + a.h <= b.y \/ b.y + b.h <= a.y
Inside(a, b) == /\ a.x >= b.x /\ a.x + a.w <= b.x + b.w
                /\ a.y >= b.y /\ a.y + a.h <= b.y + b.h

(******************* the tree that divides a texture ***********************)
(* A leaf is empty or full; any other node divides its area at a point.    *)
LeafEmpty == [type |-> "empty"]
LeafFull == [type |-> "full"]
Divided(type, split, a, b) == [type |-> type, split |-> split, a |-> a, b |-> b]

NewTree(width, height) == Divided("top bottom", height, LeafEmpty, LeafEmpty)

AreaA(node, area) ==
    IF node.type = "top bottom" THEN [area EXCEPT !.h = node.split]
    ELSE [area EXCEPT !.w = node.split]
AreaB(node, area) ==
    IF node.type = "top bottom"
    THEN [area EXCEPT !.y = @ + node.split, !.h = @ - node.split]
    ELSE [area EXCEPT !.x = @ + node.split, !.w = @ - node.split]

\* An empty area of which the corner is taken.
Split(area, w, h) ==
    LET high == IF h < area.h THEN Divided("top bottom", h, LeafFull, LeafEmpty) ELSE LeafFull
    IN  IF w < area.w THEN Divided("left right", w, high, LeafEmpty) ELSE high

NoRoom == [found |-> FALSE]

\* The first empty leaf, depth first, that is large enough.
RECURSIVE AddTo(_, _, _, _)
AddTo(node, area, w, h) ==
    IF area.w < w \/ area.h < h \/ node.type = "full" THEN NoRoom
    ELSE IF node.type = "empty"
    THEN [found |-> TRUE, node |-> Split(area, w, h), x |-> area.x, y |-> area.y]
    ELSE LET a == AddTo(node.a, AreaA(node, area), w, h)
             b == AddTo(node.b, AreaB(node, area), w, h)
         IN  IF a.found THEN [a EXCEPT !.node = [node EXCEPT !.a = a.node]]
             ELSE IF b.found THEN [b EXCEPT !.node = [node EXCEPT !.b = b.node]]
             ELSE NoRoom

\* The areas that are given for sizes, one after the other, in a texture.
WholeArea(width, height) == [x |-> 0, y |-> 0, w |-> width, h |-> height]
Given(width, height, sizes) ==
    LET Give(g, size) ==
          LET found == AddTo(g.tree, WholeArea(width, height), size[1], size[2])
          IN  IF ~found.found THEN g
              ELSE [tree |-> found.node,
                    areas |-> Append(g.areas, [x |-> found.x, y |-> found.y,
                                               w |-> size[1], h |-> size[2]])]
    IN  FoldLeft(Give, [tree |-> NewTree(width, height), areas |-> <<>>], sizes).areas

\* They are in the texture and apart, and the first always has room.
AreasAreApart(width, height, sizes) ==
    LET areas == Given(width, height, sizes)
    IN  /\ \A i \in DOMAIN areas : Inside(areas[i], WholeArea(width, height))
        /\ \A i, j \in DOMAIN areas : i # j => Apart(areas[i], areas[j])
        /\ sizes # <<>> => areas # <<>>

(************************** the letters of the tiles ***********************)
(* A letter is its number in Unicode.                                      *)
Latin == (65..90) \cup {264, 284, 292, 308, 348, 364}
Shavian == 66640..66687
Alphabets == <<Latin, Shavian>>

SortedLetters(letters) ==
    [n \in 1..Cardinality(letters) |->
       CHOOSE letter \in letters : Cardinality({other \in letters : other < letter}) = n - 1]

\* Columns and rows, of which the former grow first.
RECURSIVE Grown(_, _, _)
Grown(w, h, n) ==
    IF w * h >= n THEN [w |-> w, h |-> h]
    ELSE IF w <= h THEN Grown(2 * w, h, n) ELSE Grown(w, 2 * h, n)
TextureSize(n) == Grown(1, 1, n)

Coordinate(tile, n_tiles) == (tile * 65535 + n_tiles \div 2) \div n_tiles

\* The entry of a letter, with the texture it is in numbered from one.
Entry(letter) ==
    LET texture == CHOOSE i \in DOMAIN Alphabets : letter \in Alphabets[i]
        num == Cardinality({other \in Alphabets[texture] : other < letter})
        size == TextureSize(Cardinality(Alphabets[texture]))
        x == num % size.w
        y == num \div size.w
    IN  [letter |-> letter, texture |-> texture,
         s1 |-> Coordinate(x, size.w), t1 |-> Coordinate(y, size.h),
         s2 |-> Coordinate(x + 1, size.w), t2 |-> Coordinate(y + 1, size.h)]

TileLetters ==
    LET letters == SortedLetters(UNION {Alphabets[i] : i \in DOMAIN Alphabets})
    IN  [i \in DOMAIN letters |-> Entry(letters[i])]

NoEntry == [letter |-> 0]

\* By halves; the bounds are those of the code, counted from zero.
FindLetter(table, letter) ==
    LET Search[bounds \in (0..Len(table)) \X (0..Len(table))] ==
          LET mid == (bounds[1] + bounds[2]) \div 2
          IN  IF bounds[1] >= bounds[2] THEN NoEntry
              ELSE IF table[mid + 1].letter > letter THEN Search[<<bounds[1], mid>>]
              ELSE IF table[mid + 1].letter = letter THEN table[mid + 1]
              ELSE Search[<<mid + 1, bounds[2]>>]
    IN  Search[<<0, Len(table)>>]

\* What the script draws in a texture: its letters in order, row by row.
TileSize == 128
DrawnTiles(texture) ==
    LET letters == SortedLetters(Alphabets[texture])
        size == TextureSize(Len(letters))
    IN  [i \in DOMAIN letters |->
           [letter |-> letters[i],
            area |-> [x |-> ((i - 1) % size.w) * TileSize, y |-> ((i - 1) \div size.w) * TileSize,
                      w |-> TileSize, h |-> TileSize]]]

\* A letter that has a tile is found where it was drawn, to less than half a texel; any
\* other is not found.
LetterIsFound(table, letter) ==
    LET entry == FindLetter(table, letter)
        size == TextureSize(Cardinality(Alphabets[entry.texture]))
        Near(coordinate, n_tiles, texel) ==
          LET off == coordinate * n_tiles * TileSize - texel * 65535
          IN  2 * off < 65535 /\ 2 * off > -65535
        drawn == {d \in Range(DrawnTiles(entry.texture)) : d.letter = letter}
    IN  IF letter \notin UNION Range(Alphabets) THEN entry = NoEntry
        ELSE /\ entry.letter = letter
             /\ \A d \in drawn :
                  /\ Near(entry.s1, size.w, d.area.x) /\ Near(entry.s2, size.w, d.area.x + TileSize)
                  /\ Near(entry.t1, size.h, d.area.y) /\ Near(entry.t2, size.h, d.area.y + TileSize)
             /\ Cardinality(drawn) = 1

(************************ smaller copies of an image ***********************)
(* The file holds the image and below it, to the right and below in turn,  *)
(* copies of half the size each, down to one texel.                        *)
FileHeight(height) == (height * 3) \div 2
ActualHeight(fileHeight) == (fileHeight * 2) \div 3

Half(n) == Larger(1, n \div 2)
IsOneTexel(level) == level.w <= 1 /\ level.h <= 1

\* What the client reads.
RECURSIVE LevelsFrom(_, _)
LevelsFrom(level, down) ==
    LET next == [x |-> IF down THEN level.x ELSE level.x + level.w,
                 y |-> IF down THEN level.y + level.h ELSE level.y,
                 w |-> Half(level.w), h |-> Half(level.h)]
    IN  <<level>> \o IF IsOneTexel(level) THEN <<>> ELSE LevelsFrom(next, ~down)
LoadedLevels(width, fileHeight) ==
    LevelsFrom(WholeArea(width, ActualHeight(fileHeight)), TRUE)

\* The levels of the texture that is made for it.
RECURSIVE StorageFrom(_, _)
StorageFrom(w, h) ==
    <<[w |-> w, h |-> h]>> \o
        IF w <= 1 /\ h <= 1 THEN <<>> ELSE StorageFrom(Half(w), Half(h))

\* What the script draws: the scales are doubled as long as there is something left.
RECURSIVE DrawnFrom(_, _, _, _, _, _)
DrawnFrom(width, height, scale, x, y, n) ==
    LET w == width \div scale[1]
        h == height \div scale[2]
        level == [x |-> x, y |-> y, w |-> w, h |-> h]
        next == <<IF w > 1 THEN 2 * scale[1] ELSE scale[1],
                  IF h > 1 THEN 2 * scale[2] ELSE scale[2]>>
    IN  <<level>> \o
          IF w <= 1 /\ h <= 1 THEN <<>>
          ELSE IF n % 2 = 0 THEN DrawnFrom(width, height, next, x, y + h, n + 1)
          ELSE DrawnFrom(width, height, next, x + w, y, n + 1)

\* The client reads what was drawn, none of it outside of the file or twice, and as much
\* as the level of the texture takes.  What it copies to the top of the buffer, to upload
\* it from there, spares the levels that are still to come.  (Of an image much narrower
\* than high, or the other way round, the last levels are outside of the file.)
LevelsAreRight(width, height) ==
    LET loaded == LoadedLevels(width, FileHeight(height))
        storage == StorageFrom(width, height)
    IN  /\ loaded = DrawnFrom(width, height, <<1, 1>>, 0, 0, 0)
        /\ storage = [i \in DOMAIN loaded |-> [w |-> loaded[i].w, h |-> loaded[i].h]]
        /\ \A i \in DOMAIN loaded :
             /\ Inside(loaded[i], WholeArea(width, FileHeight(height)))
             /\ \A j \in (i + 1)..Len(loaded) :
                  /\ Apart(loaded[i], loaded[j])
                  /\ i > 1 => loaded[i].w * loaded[i].h <= width * loaded[j].y
=============================================================================
