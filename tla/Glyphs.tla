------------------------------- MODULE Glyphs -------------------------------
(***************************************************************************)
(* What the client draws with quads: texts (src/client/vsx-layout.c), of   *)
(* which the glyphs are kept in textures (src/client/vsx-font.c and        *)
(* vsx-glyph-hash.c), and tiles (src/client/vsx-tile-tool.c); and the      *)
(* buffers of indices that they share (src/client/vsx-quad-tool.c).        *)
(*                                                                         *)
(* A painter gives a layout its text, font and width, prepares it before a *)
(* frame and paints it in the frame.  A texture is its number, starting    *)
(* with one, and the tree that divides it.  Lengths are in units of the    *)
(* font, and so are the advances of the characters.                        *)
(***************************************************************************)
EXTENDS Textures, Functions, Folds, TLC

CONSTANTS Layouts,       \* the layouts of some painters
          FontOf,        \* the font that their painters choose when they make them
          Texts,         \* for each what it may show, sequences of characters
          Widths,        \* and the widths it may be given
          GlyphOf,       \* [w, h, advance] of <<font, character>>
          TextureSide,   \* VSX_FONT_TEXTURE_SIZE
          MinimumQuads,  \* VSX_LAYOUT_MINIMUM_BUFFER_SIZE, in quads
          ByteQuads,     \* so many quads can be counted with bytes
          TileRuns       \* the textures of the tiles of an update that makes room for so many

VARIABLES library,  \* the trees of its textures and the glyphs it has prepared
          quadTool, \* its buffers with their references
          layouts,
          tiles     \* a buffer of the tile tool

glyphVars == <<library, quadTool, layouts, tiles>>

Blank == " "
Break == "\n"
Unlimited == -1

ASSUME GlyphsAssumption ==
    /\ \A key \in DOMAIN GlyphOf : GlyphOf[key].w <= TextureSide /\ GlyphOf[key].h <= TextureSide
    /\ MinimumQuads > 0 /\ ByteQuads > 0

(********************************** glyphs *********************************)
NoTexture == [tex |-> 0, x |-> 0, y |-> 0]

\* The newest texture that has room, or a new one.
ReserveTextureSpace(trees, w, h) ==
    LET Found(tree) == AddTo(tree, WholeArea(TextureSide, TextureSide), w, h)
        rooms == {i \in DOMAIN trees : Found(trees[i]).found}
        tex == IF rooms = {} THEN Len(trees) + 1
               ELSE CHOOSE i \in rooms : \A j \in rooms : j <= i
        all == IF rooms = {} THEN Append(trees, NewTree(TextureSide, TextureSide)) ELSE trees
        found == Found(all[tex])
    IN  [trees |-> [all EXCEPT ![tex] = found.node],
         entry |-> [tex |-> tex, x |-> found.x, y |-> found.y]]

PrepareGlyph(lib, key) ==
    LET glyph == GlyphOf[key]
        reserved == ReserveTextureSpace(lib.trees, glyph.w, glyph.h)
    IN  IF key \in DOMAIN lib.cache THEN lib
        ELSE IF glyph.w = 0 \/ glyph.h = 0
        THEN [lib EXCEPT !.cache = (key :> NoTexture) @@ @]
        ELSE [trees |-> reserved.trees, cache |-> (key :> reserved.entry) @@ lib.cache]

(***************************** indices of quads ****************************)
(* The indices are bytes in one buffer and shorts in any other, which is   *)
(* known by the number of its quads.                                       *)
NoBuffer == -1
ByteBuffer == 0
Capacity(buffer) == IF buffer = ByteBuffer THEN ByteQuads ELSE buffer
IndexSize(buffer) == IF buffer = ByteBuffer THEN 1 ELSE 2

\* Fault for a mutant: a buffer goes with the first of those who use it.
UnrefOnce(tool, buffer) ==
    IF buffer = NoBuffer THEN tool
    ELSE [tool EXCEPT !.refs = RestrictDomain(@, LAMBDA b : b # buffer)]

Unref(tool, buffer) ==
    IF buffer = NoBuffer THEN tool
    ELSE IF tool.refs[buffer] = 1
    THEN [tool EXCEPT !.refs = RestrictDomain(@, LAMBDA b : b # buffer)]
    ELSE [tool EXCEPT !.refs[buffer] = @ - 1]

\* Someone uses it, and the tool itself if it is new.
Ref(tool, buffer) ==
    [tool EXCEPT !.refs = IF buffer \in DOMAIN @ THEN [@ EXCEPT ![buffer] = @ + 1]
                          ELSE (buffer :> 2) @@ @]

RECURSIVE Doubled(_, _)
Doubled(size, n) == IF size >= n THEN size ELSE Doubled(2 * size, n)

BufferFor(tool, n) ==
    IF n <= ByteQuads THEN ByteBuffer
    ELSE IF tool.short >= n THEN tool.short
    ELSE Doubled(IF tool.short = 0 THEN 1 ELSE tool.short, n)

GetBuffer(tool, n) ==
    LET buffer == BufferFor(tool, n)
        larger == n > ByteQuads /\ tool.short < n
        left == IF larger /\ tool.short > 0 THEN Unref(tool, tool.short) ELSE tool
    IN  Ref(IF larger THEN [left EXCEPT !.short = buffer] ELSE left, buffer)

(******************************* draw calls ********************************)
\* One for each run of quads of the same texture.
DrawCalls(textures) ==
    LET Add(calls, tex) ==
          IF calls # <<>> /\ Last(calls).tex = tex
          THEN [calls EXCEPT ![Len(calls)].n = @ + 1]
          ELSE Append(calls, [tex |-> tex, n |-> 1,
                              first |-> FoldLeft(LAMBDA sum, call : sum + call.n, 0, calls)])
    IN  FoldLeft(Add, <<>>, textures)

\* The quads that are drawn with each texture, if a call begins at an offset in bytes.
Drawn(calls, buffer, Offset(_)) ==
    UNION {{<<call.tex, Offset(call) \div (6 * IndexSize(buffer)) + i>> : i \in 1..call.n} :
             call \in Range(calls)}

\* A layout takes an index to be a short; the tile tool looks, see TilesAreDrawn.
LayoutOffset(call) == call.first * 6 * 2

(********************************** lines **********************************)
Advance(font, ch) == GlyphOf[<<font, ch>>].advance
AdvanceOf(font, text, from, to) ==
    FoldLeft(LAMBDA sum, ch : sum + Advance(font, ch), 0, SubSeq(text, from, to - 1))

FirstAt(text, from, Test(_)) ==
    LET places == {i \in from..Len(text) : Test(text[i])}
    IN  IF places = {} THEN Len(text) + 1 ELSE CHOOSE i \in places : \A j \in places : i <= j

\* A line has the characters from one place to before another.
Line(from, to) == [from |-> from, to |-> to]

\* One round of the loop looks at one word, from before the spaces to its end.
Taken(s, word, end, from, length, width) ==
    IF length <= width THEN [s EXCEPT !.p = end, !.from = from, !.length = length]
    ELSE LET p == IF s.length > 0 THEN word ELSE end
         IN  [p |-> p, from |-> p, length |-> 0, lines |-> Append(s.lines, Line(from, p))]

Broken(text, s) ==
    IF s.p <= Len(text) /\ text[s.p] = Break
    THEN [p |-> s.p + 1, from |-> s.p + 1, length |-> 0,
          lines |-> Append(s.lines, Line(s.from, s.p))]
    ELSE s

NextWord(font, text, width, s) ==
    LET word == FirstAt(text, s.p, LAMBDA ch : ch # Blank)
        end == FirstAt(text, word, LAMBDA ch : ch \in {Blank, Break})
    IN  Broken(text,
          IF s.length > 0
          THEN Taken(s, word, end, s.from, s.length + AdvanceOf(font, text, s.p, end), width)
          ELSE Taken(s, word, end, word, AdvanceOf(font, text, word, end), width))

RECURSIVE Words(_, _, _, _)
Words(font, text, width, s) ==
    IF s.p <= Len(text) THEN Words(font, text, width, NextWord(font, text, width, s))
    ELSE IF s.p > s.from THEN Append(s.lines, Line(s.from, s.p)) ELSE s.lines

SplitLines(font, text, width) ==
    IF width = Unlimited THEN <<Line(1, Len(text) + 1)>>
    ELSE Words(font, text, width, [p |-> 1, from |-> 1, length |-> 0, lines |-> <<>>])

\* The glyphs that are asked for, in their order.
Keys(font, text, width) ==
    LET chars == IF width = Unlimited THEN text
                 ELSE <<Blank>> \o SelectSeq(text, LAMBDA ch : ch # Break)
    IN  [i \in DOMAIN chars |-> <<font, chars[i]>>]

\* The quads of the lines, those of a texture together.
QuadsOf(lib, font, text, lines) ==
    LET Quad(n, i) == [tex |-> lib.cache[<<font, text[i]>>].tex, ch |-> text[i], line |-> n,
                       x |-> AdvanceOf(font, text, lines[n].from, i)]
        OfLine(n) == [k \in 1..(lines[n].to - lines[n].from) |-> Quad(n, lines[n].from + k - 1)]
        all == SelectSeq(FlattenSeq([n \in DOMAIN lines |-> OfLine(n)]), LAMBDA q : q.tex # 0)
    IN  SortSeq(all, LAMBDA a, b : a.tex < b.tex \/ (a.tex = b.tex /\ a.x < b.x))

(********************************* layouts *********************************)
NoText == <<"no text">>
NewLayout(l) ==
    [text |-> NoText, font |-> FontOf[l], width |-> Unlimited, dirty |-> TRUE,
     size |-> 0, buffer |-> NoBuffer, lines |-> <<>>, right |-> 0,
     quads |-> <<>>, calls |-> <<>>]
NewTiles == [max |-> 0, buffer |-> NoBuffer, tiles |-> <<>>, calls |-> <<>>]

GlyphsInit ==
    /\ library = [trees |-> <<>>, cache |-> [key \in {} |-> NoTexture]]
    /\ quadTool = [short |-> 0, refs |-> [b \in {} |-> 0]]
    /\ layouts = [l \in Layouts |-> NewLayout(l)]
    /\ tiles = NewTiles

Change(l, layout) ==
    /\ layouts' = [layouts EXCEPT ![l] = [layout EXCEPT !.dirty = TRUE]]
    /\ UNCHANGED <<library, quadTool, tiles>>

SetText(l, text) == Change(l, [layouts[l] EXCEPT !.text = text])
SetWidth(l, width) ==
    width # layouts[l].width /\ Change(l, [layouts[l] EXCEPT !.width = width])

\* What is to be drawn is worked out again, with larger buffers if need be.
Prepared(layout, lib) ==
    LET lines == SplitLines(layout.font, layout.text, layout.width)
        quads == QuadsOf(lib, layout.font, layout.text, lines)
        rights == {AdvanceOf(layout.font, layout.text, lines[n].from, lines[n].to) :
                     n \in DOMAIN lines}
    IN  [layout EXCEPT !.dirty = FALSE, !.lines = lines, !.quads = quads,
                       !.right = IF rights = {} THEN 0
                                 ELSE CHOOSE r \in rights : \A other \in rights : other <= r,
                       !.calls = DrawCalls([i \in DOMAIN quads |-> quads[i].tex])]

LayoutSize(size, n) == Doubled(IF size > MinimumQuads THEN size ELSE MinimumQuads, n)

\* What was worked out is the same wherever it is used.
Prepare(l) ==
    LET old == layouts[l]
        tool == Unref(quadTool, old.buffer)
    IN  /\ old.dirty
        /\ UNCHANGED tiles
        /\ IF old.text = NoText
           THEN /\ layouts' = [layouts EXCEPT ![l] =
                                 [old EXCEPT !.dirty = FALSE, !.lines = <<>>, !.right = 0,
                                             !.quads = <<>>, !.calls = <<>>]]
                /\ UNCHANGED <<library, quadTool>>
           ELSE \E lib \in {FoldLeft(PrepareGlyph, library, Keys(old.font, old.text, old.width))} :
                \E new \in {Prepared(old, lib)} :
                \E size \in {LayoutSize(old.size, Len(new.quads))} :
                /\ library' = lib
                /\ IF Len(new.quads) <= old.size
                   THEN /\ layouts' = [layouts EXCEPT ![l] = new]
                        /\ UNCHANGED quadTool
                   ELSE /\ quadTool' = GetBuffer(tool, size)
                        /\ layouts' = [layouts EXCEPT ![l] = [new EXCEPT !.size = size,
                                                                 !.buffer = BufferFor(tool, size)]]

FreeLayout(l) ==
    /\ layouts' = [layouts EXCEPT ![l] = NewLayout(l)]
    /\ quadTool' = Unref(quadTool, layouts[l].buffer)
    /\ UNCHANGED <<library, tiles>>

(********************************** tiles **********************************)
\* From the beginning of an update, which says how many tiles there may be, to its end.
UpdateTiles(max, run) ==
    LET tool == Unref(quadTool, tiles.buffer)
        same == tiles.max >= max
    IN  /\ Len(run) <= max
        /\ quadTool' = IF same THEN quadTool ELSE GetBuffer(tool, max)
        /\ tiles' = [max |-> IF same THEN tiles.max ELSE max,
                     buffer |-> IF same THEN tiles.buffer ELSE BufferFor(tool, max),
                     tiles |-> run, calls |-> DrawCalls(run)]
        /\ UNCHANGED <<library, layouts>>

FreeTiles ==
    /\ tiles' = NewTiles
    /\ quadTool' = Unref(quadTool, tiles.buffer)
    /\ UNCHANGED <<library, layouts>>

GlyphsNext ==
    \/ \E l \in Layouts :
         \/ \E text \in Texts[l] : SetText(l, text)
         \/ \E width \in Widths[l] : SetWidth(l, width)
         \/ Prepare(l)
         \/ FreeLayout(l)
    \/ \E max \in DOMAIN TileRuns : UpdateTiles(max, TileRuns[max])
    \/ FreeTiles

(***************************** what they promise ***************************)
\* No two glyphs share a point of a texture.
AreaOf(key) ==
    LET entry == library.cache[key]
    IN  [x |-> entry.x, y |-> entry.y, w |-> GlyphOf[key].w, h |-> GlyphOf[key].h]
HaveTexture == {key \in DOMAIN library.cache : library.cache[key].tex # 0}
GlyphsAreApart ==
    \A key \in HaveTexture :
      /\ library.cache[key].tex \in DOMAIN library.trees
      /\ Inside(AreaOf(key), WholeArea(TextureSide, TextureSide))
      /\ \A other \in HaveTexture \ {key} :
           library.cache[key].tex = library.cache[other].tex => Apart(AreaOf(key), AreaOf(other))

\* The lines hold the words of the text in their order: between two of them there are
\* spaces or there is one line break, and none holds a break.  One that is too wide, its
\* last spaces aside, has one word, and the first word of the next would not have fitted.
LastSeen(text, line) ==
    LET places == {i \in line.from..(line.to - 1) : text[i] # Blank}
    IN  IF places = {} THEN line.from - 1 ELSE CHOOSE i \in places : \A j \in places : j <= i

LinesAreRight(font, text, width, lines) ==
    LET n == Len(lines)
        Gap(i) == (IF i = 0 THEN 1 ELSE lines[i].to) ..
                    (IF i = n THEN Len(text) ELSE lines[i + 1].from - 1)
        Breaks(i) == {j \in Gap(i) : text[j] = Break}
        Fits(from, last) == AdvanceOf(font, text, from, last + 1) <= width
        WordEnd(i) == FirstAt(text, lines[i].from, LAMBDA ch : ch \in {Blank, Break}) - 1
    IN  /\ \A i \in 0..n : \A j \in Gap(i) : text[j] \in {Blank, Break}
        /\ \A i \in 1..n : \A j \in lines[i].from..(lines[i].to - 1) : text[j] # Break
        /\ \A i \in 1..(n - 1) : lines[i].to <= lines[i + 1].from /\ Cardinality(Breaks(i)) <= 1
        /\ Breaks(0) = {}
        /\ \A i \in 1..n :
             \/ Fits(lines[i].from, LastSeen(text, lines[i]))
             \/ \A j \in lines[i].from..LastSeen(text, lines[i]) : text[j] # Blank
        /\ \A i \in 1..(n - 1) :
             Breaks(i) = {} => \/ lines[i].from > LastSeen(text, lines[i])
                               \/ lines[i + 1].from > LastSeen(text, lines[i + 1])
                               \/ ~Fits(lines[i].from, WordEnd(i + 1))

\* A layout that may be painted has a quad for every character that there is something
\* to see of, at its place in its line and with the texture of its glyph.
LayoutIsRight(layout) ==
    LET text == layout.text
        font == layout.font
        seen == {<<n, i>> \in (DOMAIN layout.lines) \X DOMAIN text :
                   /\ i >= layout.lines[n].from /\ i < layout.lines[n].to
                   /\ GlyphOf[<<font, text[i]>>].w > 0 /\ GlyphOf[<<font, text[i]>>].h > 0}
    IN  ~layout.dirty /\ text # NoText =>
          /\ layout.width # Unlimited => LinesAreRight(font, text, layout.width, layout.lines)
          /\ Len(layout.quads) = Cardinality(seen)
          /\ \A place \in seen : \E q \in Range(layout.quads) :
               /\ q.line = place[1] /\ q.ch = text[place[2]]
               /\ q.x = AdvanceOf(font, text, layout.lines[place[1]].from, place[2])
               /\ q.tex = library.cache[<<font, q.ch>>].tex
          /\ \A q \in Range(layout.quads) : q.x < layout.right

\* A buffer of indices is there as long as someone uses it and large enough for those
\* who do; it has a reference from each, and one from the tool if it is not outgrown.
BuffersAreRight ==
    LET users == {l \in Layouts : layouts[l].buffer # NoBuffer}
        Users(b) == Cardinality({l \in users : layouts[l].buffer = b})
                      + (IF tiles.buffer = b THEN 1 ELSE 0)
                      + (IF b = ByteBuffer \/ b = quadTool.short THEN 1 ELSE 0)
    IN  /\ \A b \in DOMAIN quadTool.refs : quadTool.refs[b] = Users(b)
        /\ quadTool.short > 0 => quadTool.short \in DOMAIN quadTool.refs
        /\ \A l \in users : /\ layouts[l].buffer \in DOMAIN quadTool.refs
                            /\ layouts[l].size <= Capacity(layouts[l].buffer)
        /\ \A l \in Layouts : Len(layouts[l].quads) <= layouts[l].size
        /\ tiles.buffer # NoBuffer => /\ tiles.buffer \in DOMAIN quadTool.refs
                                      /\ Len(tiles.tiles) <= tiles.max
                                      /\ tiles.max <= Capacity(tiles.buffer)

\* Each quad is drawn, with its own texture and only with it.
QuadsOfLayout(layout) == {<<layout.quads[i].tex, i>> : i \in DOMAIN layout.quads}
LayoutIsDrawn(layout) ==
    Drawn(layout.calls, layout.buffer, LayoutOffset) = QuadsOfLayout(layout)
TilesAreDrawn ==
    Drawn(tiles.calls, tiles.buffer, LAMBDA call : call.first * 6 * IndexSize(tiles.buffer))
      = {<<tiles.tiles[i], i>> : i \in DOMAIN tiles.tiles}

\* That the quads are sorted "so that we can group draw calls" by texture: what the code
\* does is right unless the indices are bytes and there is more than one group.
GroupsAreDrawn == \A l \in Layouts : LayoutIsDrawn(layouts[l])

GlyphsSound ==
    /\ GlyphsAreApart
    /\ BuffersAreRight
    /\ TilesAreDrawn
    /\ \A l \in Layouts :
         /\ LayoutIsRight(layouts[l])
         /\ LayoutIsDrawn(layouts[l])
              \/ (layouts[l].buffer = ByteBuffer /\ Len(layouts[l].calls) > 1)
=============================================================================
