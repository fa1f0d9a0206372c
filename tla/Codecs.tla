------------------------------- MODULE Codecs -------------------------------
(***************************************************************************)
(* The encodings of the program, each with what it should mean: base64     *)
(* (src/server/vsx-base64.c), identifiers in addresses of the web          *)
(* (src/common/vsx-id-url.c), UTF-8 (src/common/vsx-utf8.c) and network    *)
(* addresses (src/common/vsx-netaddress.c).                                *)
(***************************************************************************)
EXTENDS Integers, Sequences, SequencesExt

(********************************** base64 *********************************)
(* A character is its value in the alphabet, the padding, or another one,  *)
(* which is passed over.                                                   *)
Pad == 64
Other == 65
IsValue(ch) == ch \in 0..63

DecodeStart == [value |-> 0, n_chars |-> 0, n_padding |-> 0, out |-> <<>>, bad |-> FALSE]

PaddingChar(d, ch) ==
    IF ch = Pad THEN [d EXCEPT !.n_padding = @ + 1, !.bad = @ \/ d.n_padding = 2]
    ELSE [d EXCEPT !.bad = @ \/ IsValue(ch)]
HandlePadding(d, piece) == FoldLeft(PaddingChar, d, piece)

\* Of the value the last four characters are ever looked at.
AddChar(d, ch) ==
    LET value == (d.value * 64 + ch) % 2^24
    IN  IF ~IsValue(ch) THEN d
        ELSE IF d.n_chars < 3 THEN [d EXCEPT !.value = value, !.n_chars = @ + 1]
        ELSE [d EXCEPT !.value = value, !.n_chars = 0,
                       !.out = @ \o <<value \div 2^16, value \div 2^8 % 256, value % 256>>]

Decode(d, piece) ==
    LET pads == {i \in DOMAIN piece : piece[i] = Pad}
        end == IF pads = {} THEN Len(piece) + 1 ELSE CHOOSE i \in pads : \A j \in pads : i <= j
    IN  IF d.n_padding > 0 THEN HandlePadding(d, piece)
        ELSE HandlePadding(FoldLeft(AddChar, d, SubSeq(piece, 1, end - 1)),
                           SubSeq(piece, end, Len(piece)))

BadData == <<-1>>
DecodeEnd(d) ==
    CASE d.bad -> BadData
      [] ~d.bad /\ d.n_padding = 0 -> IF d.n_chars = 0 THEN d.out ELSE BadData
      [] ~d.bad /\ d.n_padding = 1 ->
           IF d.n_chars = 3 /\ d.value % 4 = 0
           THEN d.out \o <<d.value \div 2^10 % 256, d.value \div 4 % 256>> ELSE BadData
      [] ~d.bad /\ d.n_padding = 2 ->
           IF d.n_chars = 2 /\ d.value % 16 = 0
           THEN Append(d.out, d.value \div 16 % 256) ELSE BadData

EncodeThree(a, b, c) ==
    LET value == a * 2^16 + b * 2^8 + c
    IN  <<value \div 2^18, value \div 2^12 % 64, value \div 64 % 64, value % 64>>

EncodeBase64(bytes) ==
    LET whole == Len(bytes) \div 3
        groups == FlattenSeq([n \in 1..whole |->
                    EncodeThree(bytes[3 * n - 2], bytes[3 * n - 1], bytes[3 * n])])
        rest == SubSeq(bytes, 3 * whole + 1, Len(bytes))
    IN  groups \o CASE rest = <<>> -> <<>>
                    [] Len(rest) = 1 -> SubSeq(EncodeThree(rest[1], 0, 0), 1, 2) \o <<Pad, Pad>>
                    [] Len(rest) = 2 -> Append(SubSeq(EncodeThree(rest[1], rest[2], 0), 1, 3), Pad)

\* What a text means: its values are the bits of the bytes, those that are left over
\* are zero, and the padding makes it a multiple of four characters.
Bit(n, place) == n \div 2^place % 2
BitsOf(values) == FlattenSeq([i \in DOMAIN values |->
                    [place \in 1..6 |-> Bit(values[i], 6 - place)]])
NumberOf(bits) == FoldLeft(LAMBDA n, bit : 2 * n + bit, 0, bits)

Base64Means(text) ==
    LET kept == SelectSeq(text, LAMBDA ch : ch # Other)
        values == SelectSeq(text, IsValue)
        padding == Len(kept) - Len(values)
        bits == BitsOf(values)
        n == Len(bits) \div 8
    IN  IF /\ values = SubSeq(kept, 1, Len(values))
           /\ Len(kept) % 4 = 0 /\ padding <= 2
           /\ \A i \in (8 * n + 1)..Len(bits) : bits[i] = 0
        THEN [i \in 1..n |-> NumberOf(SubSeq(bits, 8 * i - 7, 8 * i))]
        ELSE BadData

(********************** identifiers in addresses of the web ****************)
(* An identifier is its 64 bits; its part of the address ten characters of *)
(* six bits and one of the four that are left.                             *)
IdBits == 64
EncodeIdPart(id) ==
    [i \in 1..11 |-> NumberOf(SubSeq(id, 6 * i - 5, IF i = 11 THEN IdBits ELSE 6 * i))]

BadId == <<>>
DecodeIdPart(part) ==
    IF /\ Len(part) = 11
       /\ \A i \in DOMAIN part : IsValue(part[i])
       /\ part[11] < 16
    THEN BitsOf(SubSeq(part, 1, 10)) \o [place \in 1..4 |-> Bit(part[11], 4 - place)]
    ELSE BadId

ToLower(word) ==
    CASE word = "HTTP" -> "http" [] word = "S" -> "s"
      [] word = "://GEMELO.ORG/J/" -> "://gemelo.org/j/" [] OTHER -> word

Url(id) == [prefix |-> <<"http", "s", "://gemelo.org/j/">>, part |-> EncodeIdPart(id)]
DecodeUrl(url) ==
    LET words == [i \in DOMAIN url.prefix |-> ToLower(url.prefix[i])]
        rest == IF Len(words) > 1 /\ words[2] = "s" THEN 3 ELSE 2
    IN  IF Len(words) = rest /\ words[1] = "http" /\ words[rest] = "://gemelo.org/j/"
        THEN DecodeIdPart(url.part) ELSE BadId

\* An identifier comes back, and only addresses that are written like one are taken.
UrlIsRight(url) ==
    LET id == DecodeUrl(url)
    IN  /\ id # BadId => EncodeIdPart(id) = url.part /\ Len(id) = IdBits
        /\ id # BadId => url.prefix[1] \in {"http", "HTTP"}
IdComesBack(id) == DecodeUrl(Url(id)) = id

(********************************** UTF-8 **********************************)
\* How many bytes follow one, and the least character so long.
Following(start) ==
    CASE start < 128 -> 0
      [] start \div 32 = 6 -> 1
      [] start \div 16 = 14 -> 2
      [] start \div 8 = 30 -> 3
      [] OTHER -> -1
Minimum(following) == <<0, 128, 2048, 65536>>[following + 1]

GetChar(bytes) ==
    LET following == Len(bytes) - 1
        first == IF following = 0 THEN bytes[1] ELSE bytes[1] % 2^(6 - following)
    IN  FoldLeft(LAMBDA value, byte : value * 64 + (byte % 64), first, Tail(bytes))

\* A string ends with a zero.
ByteAt(s, i) == IF i \in DOMAIN s THEN s[i] ELSE 0

ValidAt(s, i) ==
    LET following == Following(s[i])
        ch == GetChar(SubSeq(s, i, i + following))
    IN  /\ following >= 0
        /\ \A j \in 1..following : ByteAt(s, i + j) \div 64 = 2
        /\ ch >= Minimum(following) /\ ch \notin 55296..57343 /\ ch <= 1114111

IsValidString(s) ==
    LET valid[i \in 1..(Len(s) + 1)] ==
          i > Len(s) \/ (ValidAt(s, i) /\ valid[i + 1 + Following(s[i])])
    IN  valid[1]

EncodeUtf8(ch) ==
    CASE ch < 128 -> <<ch>>
      [] ch \in 128..2047 -> <<ch \div 64 + 192, (ch % 64) + 128>>
      [] ch \in 2048..65535 -> <<ch \div 4096 + 224, (ch \div 64 % 64) + 128, (ch % 64) + 128>>
      [] ch >= 65536 -> <<ch \div 262144 + 240, (ch \div 4096 % 64) + 128,
                          (ch \div 64 % 64) + 128, (ch % 64) + 128>>

\* The well-formed sequences, as the Unicode standard lists them.
Cont == 128..191
WellFormed == {<<0..127>>, <<194..223, Cont>>, <<{224}, 160..191, Cont>>,
               <<225..236, Cont, Cont>>, <<{237}, 128..159, Cont>>, <<238..239, Cont, Cont>>,
               <<{240}, 144..191, Cont, Cont>>, <<241..243, Cont, Cont, Cont>>,
               <<{244}, 128..143, Cont, Cont>>}
StringMeans(s) ==
    LET Fits(i, form) == /\ i + Len(form) - 1 <= Len(s)
                         /\ \A j \in DOMAIN form : s[i + j - 1] \in form[j]
        well[i \in 1..(Len(s) + 1)] ==
          i > Len(s) \/ \E form \in WellFormed : Fits(i, form) /\ well[i + Len(form)]
    IN  well[1]

CharComesBack(ch) ==
    LET s == EncodeUtf8(ch)
    IN  GetChar(s) = ch /\ Following(s[1]) = Len(s) - 1 /\ IsValidString(s)

(***************************** network addresses ***************************)
(* A text is a sequence of signs, of addresses of either kind, which       *)
(* inet_pton knows, of numbers and of other things.                        *)
Ipv4 == "1.2.3.4"
Ipv6 == {"::1", "::ffff:1.2.3.4"}
Ports == {"80", "65535"}
NoAddress == [family |-> "none", address |-> "none", port |-> "none"]

AddressEnd(text) ==
    LET sign == IF text[1] = "[" THEN "]" ELSE ":"
        places == {i \in 2..Len(text) : text[i] = sign}
    IN  IF places = {} THEN Len(text) + 1 ELSE CHOOSE i \in places : \A j \in places : i <= j

FromString(text, port) ==
    LET six == text # <<>> /\ text[1] = "["
        end == AddressEnd(text)
        address == SubSeq(text, IF six THEN 2 ELSE 1, end - 1)
        rest == SubSeq(text, IF six THEN end + 1 ELSE end, Len(text))
        known == /\ text # <<>> /\ Len(address) = 1
                 /\ IF six THEN end <= Len(text) /\ address[1] \in Ipv6 ELSE address[1] = Ipv4
        ported == Len(rest) = 2 /\ rest[1] = ":" /\ rest[2] \in Ports
    IN  IF ~known \/ (rest # <<>> /\ ~ported) THEN NoAddress
        ELSE [family |-> IF six THEN "IPv6" ELSE "IPv4", address |-> address[1],
              port |-> IF rest = <<>> THEN port ELSE rest[2]]

\* An IPv4 address in the clothes of an IPv6 one is written as what it is.
AddressString(a) ==
    LET host == CASE a.family = "IPv4" -> <<a.address>>
                  [] a.family = "IPv6" /\ a.address = "::ffff:1.2.3.4" -> <<Ipv4>>
                  [] OTHER -> <<"[", a.address, "]">>
    IN  host \o <<":", a.port>>

\* A text is taken when it is an address, a port after a colon, or both; and what is
\* written for it is taken for it.
AddressIsRight(text) ==
    LET a == FromString(text, "5144")
        Ends(n) == \/ Len(text) = n
                   \/ Len(text) = n + 2 /\ text[n + 1] = ":" /\ text[n + 2] \in Ports
        right == \/ Len(text) >= 1 /\ text[1] = Ipv4 /\ Ends(1)
                 \/ /\ Len(text) >= 3 /\ text[1] = "[" /\ text[2] \in Ipv6 /\ text[3] = "]"
                    /\ Ends(3)
        again == FromString(AddressString(a), "none")
    IN  /\ a # NoAddress <=> right
        /\ right /\ a.port # "5144" =>
             /\ again.port = a.port
             /\ again.address = IF a.address = "::ffff:1.2.3.4" THEN Ipv4 ELSE a.address
=============================================================================
