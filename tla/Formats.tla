------------------------------ MODULE Formats -------------------------------
(***************************************************************************)
(* The sequential algorithms of the program, each run over inputs that     *)
(* grow token by token and compared with what it should compute: how the   *)
(* configuration is read, the encodings, the QR codes of the invitations,  *)
(* the places in textures, the lines of a text, and the hash table         *)
(* (src/common/vsx-hash-table.c), which is defined here.                   *)
(***************************************************************************)
EXTENDS Config, QrCode, Glyphs

CONSTANTS Tokens,     \* for each kind of input what it consists of
          Longest,    \* and of how many at most
          TableSize   \* a new hash table has so many chains

VARIABLES kind,     \* the kind of the input
          given,    \* as much of it as has been given
          decoder   \* of base64, to which the input is given in pieces

formatVars == <<kind, given, decoder>>

(******************************* hash tables *******************************)
\* An entry is its identifier.
NewTable == [n_entries |-> 0, chains |-> [pos \in 0..(TableSize - 1) |-> <<>>]]
SizeOfTable(t) == Cardinality(DOMAIN t.chains)

AddEntry(chains, id) == [chains EXCEPT ![id % Cardinality(DOMAIN chains)] = <<id>> \o @]

GrowTable(t) ==
    LET size == SizeOfTable(t)
        entries == FlattenSeq([i \in 1..size |-> t.chains[i - 1]])
    IN  [t EXCEPT !.chains = FoldLeft(AddEntry, [pos \in 0..(2 * size - 1) |-> <<>>], entries)]

TableAdd(t, id) ==
    LET large == IF t.n_entries + 1 > (SizeOfTable(t) * 3) \div 4 THEN GrowTable(t) ELSE t
    IN  [n_entries |-> t.n_entries + 1, chains |-> AddEntry(large.chains, id)]

TableRemove(t, id) ==
    [n_entries |-> t.n_entries - 1,
     chains |-> [t.chains EXCEPT ![id % SizeOfTable(t)] =
                   SelectSeq(@, LAMBDA other : other # id)]]

TableHas(t, id) == id \in Range(t.chains[id % SizeOfTable(t)])

\* An operation is what is done with which identifier, see TokensNow.
Present(ops) ==
    FoldLeft(LAMBDA ids, op : IF op[1] = "add" THEN ids \cup {op[2]} ELSE ids \ {op[2]}, {}, ops)
TableOf(ops) ==
    FoldLeft(LAMBDA t, op : IF op[1] = "add" THEN TableAdd(t, op[2]) ELSE TableRemove(t, op[2]),
             NewTable, ops)

\* What was added and not removed is found and nothing else, and the chains are short.
TableIsRight(ops) ==
    LET t == TableOf(ops)
    IN  /\ \A op \in Tokens["table"] : TableHas(t, op[2]) <=> op[2] \in Present(ops)
        /\ t.n_entries = Cardinality(Present(ops))
        /\ 4 * t.n_entries <= 3 * SizeOfTable(t)
        /\ FoldLeft(LAMBDA n, pos : n + Len(t.chains[pos - 1]), 0,
                    [i \in 1..SizeOfTable(t) |-> i]) = t.n_entries

(******************************** the inputs *******************************)
Kinds == DOMAIN Tokens

FormatsInit ==
    /\ kind \in Kinds
    /\ given = <<>>
    /\ decoder = DecodeStart

\* An entry is only added to a table that has none like it, and only removed from one
\* that has it.
TokensNow ==
    IF kind # "table" THEN Tokens[kind]
    ELSE {op \in Tokens[kind] : (op[1] = "add") # (op[2] \in Present(given))}

Give ==
    /\ Len(given) < Longest[kind]
    /\ \E token \in TokensNow : given' = Append(given, token)
    /\ decoder' = IF kind = "base64" THEN Decode(decoder, <<Last(given')>>) ELSE decoder
    /\ UNCHANGED kind

\* The decoder is handed over more than one character at a time.
GivePiece ==
    /\ kind = "base64" /\ Len(given) + 2 <= Longest[kind]
    /\ \E one, two \in Tokens[kind] :
         /\ given' = given \o <<one, two>>
         /\ decoder' = Decode(decoder, <<one, two>>)
    /\ UNCHANGED kind

FormatsNext == Give \/ GivePiece

(******************************* what is right *****************************)
Only == given[1]

\* Apart from the state, which makes it quicker.
CodesAreRead == \A id \in Tokens["invitation"] : CodeIsRead(id, InviteImage(id))

InputsAreRight ==
    CASE kind = "lines of a file" -> Load(given) = Meaning(given)
      [] kind = "configuration" -> LET text == FlattenSeq(given) IN ConfigFrom(text) = Meant(text)
      [] kind = "base64" -> DecodeEnd(decoder) = Base64Means(given)
      [] kind = "bytes" -> DecodeEnd(Decode(DecodeStart, EncodeBase64(given))) = given
      [] kind = "UTF-8" -> IsValidString(given) <=> StringMeans(given)
      [] kind = "address" -> AddressIsRight(given)
      [] kind = "areas" -> AreasAreApart(TextureSide, TextureSide, given)
      [] kind = "table" -> TableIsRight(given)
      [] kind = "text" ->
           \A key \in DOMAIN GlyphOf, width \in 1..4 :
             LinesAreRight(key[1], given, width, SplitLines(key[1], given, width))
      [] OTHER -> given # <<>> =>
           CASE kind = "character" -> CharComesBack(Only)
             [] kind = "url" -> UrlIsRight(Only)
             [] kind = "identifier" -> IdComesBack(Only)
             [] kind = "invitation" -> CodesAreRead
             [] kind = "letter" -> LetterIsFound(TileLetters, Only)
             [] kind = "image" -> LevelsAreRight(Only[1], Only[2])
             [] kind = "query" -> LET png == HandleQueryString(Only)
                                  IN  png # BadRequest => PngIsRight(png)

\* The texts and tiles that are drawn are right after each step of their painters, and
\* the other algorithms for each input.
FormatsSound == GlyphsSound /\ InputsAreRight
=============================================================================
