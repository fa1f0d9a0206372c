------------------------------- MODULE QrCode -------------------------------
(***************************************************************************)
(* The QR code of an invitation: a code of version 3 with error correction *)
(* Q and exactly 32 bytes (src/common/vsx-qr.c), its constant images       *)
(* (src/scripts/create-qr-base.py), the picture of it that the web server  *)
(* gives (src/cgi), and a reader, written from the standard, to which the  *)
(* code has to mean the address.                                           *)
(*                                                                         *)
(* An image is the set of its dark modules, and a byte, where its bits     *)
(* matter, the set of the places of its ones: the sum of two polynomials   *)
(* is the symmetric difference.                                            *)
(***************************************************************************)
EXTENDS Codecs, FiniteSets, FiniteSetsExt

\* What an operator gives for a value, which is worked out only once.
Once(value, Op(_)) == CHOOSE result \in {Op(v) : v \in {value}} : TRUE

NModules == 29
QuietZoneSize == 4
Square(x, y, width, height) == (x .. (x + width - 1)) \X (y .. (y + height - 1))
Modules == Square(0, 0, NModules, NModules)

Larger(a, b) == IF a > b THEN a ELSE b
Away(p, x, y) == Larger(Larger(p[1] - x, x - p[1]), Larger(p[2] - y, y - p[2]))
Sum(S, T) == (S \ T) \cup (T \ S)

(****************************** the constant images ************************)
FinderCentres == {<<3, 3>>, <<NModules - 4, 3>>, <<3, NModules - 4>>}
FinderPatterns == {p \in Modules : \E c \in FinderCentres : Away(p, c[1], c[2]) \in {0, 1, 3}}
TimingPatterns == {p \in Modules : \E i \in 8..(NModules - 9) : i % 2 = 0 /\ p \in {<<i, 6>>, <<6, i>>}}
AlignmentPattern == {p \in Modules : Away(p, 22, 22) \in {0, 2}}
BaseImage == FinderPatterns \cup TimingPatterns \cup AlignmentPattern \cup {<<8, NModules - 8>>}

DataMask ==
    Modules \ UNION {Square(0, 0, 8, 8), Square(NModules - 8, 0, 8, 8), Square(0, NModules - 8, 8, 8),
                     Square(8, 6, NModules - 16, 1), Square(6, 8, 1, NModules - 16),
                     Square(20, 20, 5, 5),
                     Square(0, 8, 9, 1), Square(8, 0, 1, 8), Square(8, NModules - 8, 1, 8),
                     Square(NModules - 8, 8, 8, 1)}

IsMasked(mask, x, y) ==
    CASE mask = 0 -> (x + y) % 2 = 0
      [] mask = 1 -> y % 2 = 0
      [] mask = 2 -> x % 3 = 0
      [] mask = 3 -> (x + y) % 3 = 0
      [] mask = 4 -> (y \div 2 + x \div 3) % 2 = 0
      [] mask = 5 -> ((x * y) % 2) + ((x * y) % 3) = 0
      [] mask = 6 -> (((x * y) % 2) + ((x * y) % 3)) % 2 = 0
      [] mask = 7 -> (((x + y) % 2) + ((x * y) % 3)) % 2 = 0
Masks == 0..7
MaskImages == [mask \in Masks |-> {p \in DataMask : IsMasked(mask, p[1], p[2])}]

(***************************** error correction ****************************)
Places(n) == {place \in 0..14 : Bit(n, place) = 1}
Byte(places) == SumSet({2^place : place \in places})

Upto(n) == [i \in 1..n |-> i]
CoeffExpTable == <<
    1, 2, 4, 8, 16, 32, 64, 128, 29, 58, 116, 232, 205, 135, 19, 38, 76, 152, 45,
    90, 180, 117, 234, 201, 143, 3, 6, 12, 24, 48, 96, 192, 157, 39, 78, 156, 37,
    74, 148, 53, 106, 212, 181, 119, 238, 193, 159, 35, 70, 140, 5, 10, 20, 40, 80,
    160, 93, 186, 105, 210, 185, 111, 222, 161, 95, 190, 97, 194, 153, 47, 94, 188,
    101, 202, 137, 15, 30, 60, 120, 240, 253, 231, 211, 187, 107, 214, 177, 127,
    254, 225, 223, 163, 91, 182, 113, 226, 217, 175, 67, 134, 17, 34, 68, 136, 13,
    26, 52, 104, 208, 189, 103, 206, 129, 31, 62, 124, 248, 237, 199, 147, 59, 118,
    236, 197, 151, 51, 102, 204, 133, 23, 46, 92, 184, 109, 218, 169, 79, 158, 33,
    66, 132, 21, 42, 84, 168, 77, 154, 41, 82, 164, 85, 170, 73, 146, 57, 114, 228,
    213, 183, 115, 230, 209, 191, 99, 198, 145, 63, 126, 252, 229, 215, 179, 123,
    246, 241, 255, 227, 219, 171, 75, 150, 49, 98, 196, 149, 55, 110, 220, 165, 87,
    174, 65, 130, 25, 50, 100, 200, 141, 7, 14, 28, 56, 112, 224, 221, 167, 83,
    166, 81, 162, 89, 178, 121, 242, 249, 239, 195, 155, 43, 86, 172, 69, 138, 9,
    18, 36, 72, 144, 61, 122, 244, 245, 247, 243, 251, 235, 203, 139, 11, 22, 44,
    88, 176, 125, 250, 233, 207, 131, 27, 54, 108, 216, 173, 71, 142>>
CoeffExp == [n \in 1..255 |-> Places(CoeffExpTable[n])]
CoeffLog == [S \in (SUBSET (0..7)) \ {{}} |-> (CHOOSE n \in 1..255 : CoeffExp[n] = S) - 1]

Double(S) ==
    LET moved == {place + 1 : place \in S}
    IN  IF 8 \in moved THEN Sum(moved, {0, 2, 3, 4, 8}) ELSE moved

\* The powers of two, which the table holds.
CoeffsArePowers ==
    /\ CoeffExp[1] = {0}
    /\ \A n \in 1..254 : CoeffExp[n + 1] = Double(CoeffExp[n])

CoeffMul(S, T) ==
    IF S = {} \/ T = {} THEN {} ELSE CoeffExp[((CoeffLog[S] + CoeffLog[T]) % 255) + 1]

GeneratorPoly == <<1, 239, 251, 183, 113, 149, 175, 199, 215, 240, 220, 73, 82, 173, 75, 32,
                   67, 217, 146>>
NData == 17
NCorrection == 18

Reduce(remainder, i) ==
    [n \in DOMAIN remainder |->
       IF n \in (i + 1)..(i + NCorrection)
       THEN Sum(remainder[n], CoeffMul(Places(GeneratorPoly[n - i + 1]), remainder[i]))
       ELSE remainder[n]]

ErrorCorrection(data) ==
    LET codewords == [n \in 1..(NData + NCorrection) |-> IF n <= NData THEN data[n] ELSE {}]
    IN  SubSeq(FoldLeft(Reduce, codewords, Upto(NData)), NData + 1, NData + NCorrection)

(******************************* writing the bits **************************)
NextPos(p) ==
    CASE p.right -> [p EXCEPT !.right = FALSE, !.x = @ - 1]
      [] ~p.right /\ p.upwards /\ p.y > 0 -> [p EXCEPT !.right = TRUE, !.x = @ + 1, !.y = @ - 1]
      [] ~p.right /\ p.upwards /\ p.y <= 0 ->
           \* The column of the timing pattern is not half of a pair.
           [p EXCEPT !.right = TRUE, !.upwards = FALSE, !.x = IF @ = 7 THEN @ - 2 ELSE @ - 1]
      [] ~p.right /\ ~p.upwards /\ p.y < NModules - 1 ->
           [p EXCEPT !.right = TRUE, !.x = @ + 1, !.y = @ + 1]
      [] ~p.right /\ ~p.upwards /\ p.y >= NModules - 1 ->
           [p EXCEPT !.right = TRUE, !.upwards = TRUE, !.x = @ - 1]

RECURSIVE NextAvailablePos(_)
NextAvailablePos(p) ==
    LET next == NextPos(p)
    IN  IF <<next.x, next.y>> \in DataMask THEN next ELSE NextAvailablePos(next)

StartPos == [x |-> NModules - 2, y |-> NModules, upwards |-> TRUE, right |-> FALSE]
NBits == 8 * 2 * (NData + NCorrection)
\* Twenty at a time, so that the evaluation is not nested too deeply.
Path ==
    LET Step(path, n) == Append(path, NextAvailablePos(path[Len(path)]))
        Steps(path, n) == IF Len(path) > 0 THEN FoldLeft(Step, path, Upto(20)) ELSE path
        Visited(positions) == [n \in 1..NBits |-> <<positions[n + 1].x, positions[n + 1].y>>]
    IN  Once(FoldLeft(Steps, <<StartPos>>, Upto(NBits \div 20)), Visited)

\* Four bits of mode, eight of length, then the data and four bits of terminator.
FillBlock1(data) ==
    <<64 + 32 \div 16, (32 % 16) * 16 + data[1] \div 16>>
    \o [i \in 1..(NData - 2) |-> (data[i] % 16) * 16 + data[i + 1] \div 16]
FillBlock2(data) ==
    Append([i \in 1..(NData - 1) |-> (data[i + NData - 2] % 16) * 16 + data[i + NData - 1] \div 16],
           (data[32] % 16) * 16)

WithCorrection(codewords) == codewords \o ErrorCorrection(codewords)
Block(bytes) == Once([i \in DOMAIN bytes |-> Places(bytes[i])], WithCorrection)
Blocks(data) == <<Once(FillBlock1(data), Block), Once(FillBlock2(data), Block)>>

WriteBlocks(blocks) ==
    LET Codeword(n) == blocks[((n - 1) % 2) + 1][(n + 1) \div 2]
        ones == {m \in 1..NBits : 7 - ((m - 1) % 8) \in Codeword((m + 7) \div 8)}
    IN  BaseImage \cup Once(Path, LAMBDA path : {path[n] : n \in ones})

(****************************** choosing the mask **************************)
FormatBits == <<13663, 12392, 16177, 14854, 9396, 8579, 11994, 11245>>

StoreFormatBits(image, bits) ==
    image
    \cup UNION {{<<NModules - 1 - i, 8>>, <<8, IF i >= 6 THEN i + 1 ELSE i>>} : i \in bits \cap 0..7}
    \cup UNION {{<<8, NModules - 15 + i>>, <<IF i >= 9 THEN 14 - i ELSE 7, 8>>} : i \in bits \cap 8..14}

MaskedImage(image, mask) ==
    StoreFormatBits(Sum(image, MaskImages[mask]), Places(FormatBits[mask + 1]))

\* The rows and the columns.
ImageLines(image) ==
    {<<TRUE, y, [x \in 0..(NModules - 1) |-> <<x, y>> \in image]>> : y \in 0..(NModules - 1)}
    \cup {<<FALSE, x, [y \in 0..(NModules - 1) |-> <<x, y>> \in image]>> : x \in 0..(NModules - 1)}

ScoreAdjacent(line) ==
    LET starts == {i \in DOMAIN line : i = 0 \/ line[i] # line[i - 1]} \cup {NModules}
        Length(i) == (CHOOSE j \in starts : j > i /\ \A k \in starts : k <= i \/ j <= k) - i
    IN  MapThenSumSet(LAMBDA i : IF Length(i) >= 5 THEN Length(i) - 2 ELSE 0, starts \ {NModules})

ScoreBlocks(image) ==
    3 * Cardinality({p \in Square(0, 0, NModules - 1, NModules - 1) :
                       \A q \in Square(p[1], p[2], 2, 2) : q \in image <=> p \in image})

\* Light modules are looked for behind a pattern.  Those before it are looked for in
\* the pattern itself, which begins with a dark one: only at the edge there are none.
ScoreBadPattern(line, scale) ==
    LET length == 7 * scale
        Matches(x) == \A k \in 0..(length - 1) : line[x + k] <=> k \div scale \in {0, 2, 3, 4, 6}
        Light(x) == x = 0 \/ \A k \in (x + length)..(x + length + 3) : k >= NModules \/ ~line[k]
    IN  40 * Cardinality({x \in 0..(NModules - length) : Matches(x) /\ Light(x)})

ScoreRatio(image) ==
    LET percentage == (Cardinality(image) * 100) \div (NModules * NModules)
    IN  (Larger(percentage - 50, 50 - percentage) \div 5) * 10

Evaluate(image) ==
    MapThenSumSet(LAMBDA line : ScoreAdjacent(line[3])
                                + MapThenSumSet(LAMBDA scale : ScoreBadPattern(line[3], scale), 1..4),
                  ImageLines(image))
    + ScoreBlocks(image) + ScoreRatio(image)

\* The first of those with the least score.
BestMask(score) ==
    CHOOSE mask \in Masks : \A other \in Masks :
      score[mask] < score[other] \/ (score[mask] = score[other] /\ mask <= other)
PickMask(image) ==
    LET score == [mask \in Masks |-> Once(MaskedImage(image, mask), Evaluate)]
    IN  MaskedImage(image, Once(score, BestMask))

QrImage(data) == Once(Once(Blocks(data), WriteBlocks), PickMask)

\* The dark pixels of a picture.
PixelImage(image) == {<<p[1] + QuietZoneSize, p[2] + QuietZoneSize>> : p \in image}

(********************************* the address *****************************)
\* https://gemelo.org/j/
UrlPrefix == <<104, 116, 116, 112, 115, 58, 47, 47, 103, 101, 109, 101, 108, 111, 46, 111, 114,
               103, 47, 106, 47>>
CharCode(value) ==
    CASE value < 26 -> 65 + value
      [] value \in 26..51 -> 97 + value - 26
      [] value \in 52..61 -> 48 + value - 52
      [] value = 62 -> 45
      [] value = 63 -> 95
UrlBytes(id) ==
    LET part == EncodeIdPart(id) IN UrlPrefix \o [i \in DOMAIN part |-> CharCode(part[i])]

InviteImage(id) == PixelImage(Once(UrlBytes(id), QrImage))

(****************************** the picture file ***************************)
\* Writes of some bytes each; a chunk ends with a sum over its kind and its data.
Write(what, size) == [what |-> what, size |-> size, of |-> <<>>]
Chunk(kind, length, writes) ==
    LET summed == <<Write(kind, 4)>> \o writes
    IN  <<[Write("length", 4) EXCEPT !.of = <<length>>]>> \o summed
        \o <<[Write("crc", 4) EXCEPT !.of = summed]>>

ImageSize == NModules + 2 * QuietZoneSize
NImageBytes == (ImageSize + 1) * ImageSize
Scanlines == [n \in 1..(2 * ImageSize) |->
                IF n % 2 = 1 THEN Write("filter", 1) ELSE Write("scanline", ImageSize)]

WritePng ==
    <<Write("header", 8)>>
    \o Chunk("IHDR", 13, <<Write("size and kind", 13)>>)
    \o Chunk("IDAT", 7 + NImageBytes + 4,
             <<Write("zlib header", 7)>> \o Scanlines
             \o <<[Write("fischer", 4) EXCEPT !.of = Scanlines]>>)
    \o Chunk("IEND", 0, <<>>)

SizeOf(writes) == FoldLeft(LAMBDA n, write : n + write.size, 0, writes)

BadRequest == <<>>
HandleQueryString(part) == IF DecodeIdPart(part) = BadId THEN BadRequest ELSE WritePng

\* The lengths are those of the data, and what is summed is what was written.
PngIsRight(png) ==
    LET Ends == {n \in DOMAIN png : png[n].what = "crc"}
        Start(n) == CHOOSE m \in DOMAIN png : /\ png[m].what = "length" /\ m < n
                                              /\ \A k \in m..(n - 1) : png[k].what # "crc"
    IN  /\ SizeOf(png) = 1474
        /\ \A n \in Ends : /\ png[n].of = SubSeq(png, Start(n) + 1, n - 1)
                           /\ png[Start(n)].of = <<SizeOf(SubSeq(png, Start(n) + 2, n - 1))>>

(********************************** a reader *******************************)
(* As the standard says: the format with its correction, the mask, the     *)
(* codewords in columns of two, and blocks without an error.               *)
FormatPlaces1 == [i \in 0..14 |-> CASE i <= 5 -> <<8, i>> [] i \in 6..7 -> <<8, i + 1>>
                                    [] i = 8 -> <<7, 8>> [] i > 8 -> <<14 - i, 8>>]
FormatVisited == [i \in 0..14 |-> IF i <= 7 THEN <<28 - i, 8>> ELSE <<8, 14 + i>>]

FormatRest(S) ==
    FoldLeft(LAMBDA rest, n : IF 15 - n \in rest
                              THEN Sum(rest, {5 - n + place : place \in {0, 1, 2, 4, 5, 8, 10}})
                              ELSE rest,
             S, Upto(5))

DataPlaces ==
    LET Pair(n) == IF n <= 11 THEN 30 - 2 * n ELSE 29 - 2 * n
        Row(n, k) == IF n % 2 = 1 THEN 29 - k ELSE k - 1
        all == [m \in 0..(28 * 29 - 1) |->
                  <<Pair(m \div 58 + 1) - (m % 2), Row(m \div 58 + 1, ((m % 58) \div 2) + 1)>>]
    IN  SelectSeq([m \in 1..(28 * 29) |-> all[m - 1]], LAMBDA p : p \in DataMask)

Syndrome(block, i) ==
    FoldLeft(LAMBDA rest, codeword : Sum(CoeffMul(rest, CoeffExp[i + 1]), codeword), {}, block)

\* The bytes of a block of codewords, four bits at a time.
NibbleOf(bytes, n) ==
    IF n % 2 = 1 THEN Byte(bytes[(n + 1) \div 2]) \div 16 ELSE Byte(bytes[n \div 2]) % 16

BadCode == <<>>
ReadBytes(bytes) ==
    LET length == NibbleOf(bytes, 2) * 16 + NibbleOf(bytes, 3)
    IN  IF NibbleOf(bytes, 1) = 4 /\ length = 32 /\ NibbleOf(bytes, 68) = 0
        THEN [n \in 1..length |-> NibbleOf(bytes, 2 * n + 2) * 16 + NibbleOf(bytes, 2 * n + 3)]
        ELSE BadCode

ReadBlocks(block) ==
    IF \A b \in 1..2 : \A i \in 0..(NCorrection - 1) : Syndrome(block[b], i) = {}
    THEN Once(SubSeq(block[1], 1, NData) \o SubSeq(block[2], 1, NData), ReadBytes)
    ELSE BadCode

ReadBits(bits) ==
    LET Codeword(places, n) == {place \in 0..7 : places[8 * n - place] \in bits}
        Codewords(places) ==
          [b \in 1..2 |-> [i \in 1..(NData + NCorrection) |-> Codeword(places, 2 * i + b - 2)]]
    IN  Once(Once(DataPlaces, Codewords), ReadBlocks)

ReadImage(image) ==
    LET masked == {i \in 0..14 : FormatPlaces1[i] \in image}
        format == Sum(masked, {1, 4, 10, 12, 14})
        mask == Byte({place - 10 : place \in format \cap 10..12})
    IN  IF /\ masked = {i \in 0..14 : FormatVisited[i] \in image}
           /\ FormatRest(format) = {} /\ {13, 14} \subseteq format
           /\ image \ (DataMask \cup Range(FormatPlaces1) \cup Range(FormatVisited)) = BaseImage
        THEN Once(Sum(image, {p \in DataMask : IsMasked(mask, p[1], p[2])}), ReadBits)
        ELSE BadCode

ReadCode(pixels) == Once({<<p[1] - 4, p[2] - 4>> : p \in pixels}, ReadImage)

CodeIsRead(id, pixels) ==
    /\ CoeffsArePowers
    /\ ReadCode(pixels) = UrlBytes(id)
    /\ \A p \in pixels : p \in Square(4, 4, NModules, NModules)
=============================================================================
