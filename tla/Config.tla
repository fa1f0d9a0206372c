------------------------------- MODULE Config -------------------------------
(***************************************************************************)
(* How the server reads its configuration: the lines of the file byte by   *)
(* byte (src/server/vsx-key-value.c), what they set                        *)
(* (src/server/vsx-config.c), and in which files it looks for them         *)
(* (load_config of src/server/vsx-main.c).                                 *)
(*                                                                         *)
(* A text is a sequence of characters; a character other than the ones     *)
(* below stands for some letters, so that a key or a value is a sequence   *)
(* of a few of them.                                                       *)
(***************************************************************************)
EXTENDS Integers, Sequences, SequencesExt, FiniteSets

Space == " "
NewLine == "\n"

(********************************* the lines *******************************)
NewFile == [state |-> "HEADER_START", key |-> <<>>, value |-> <<>>, line |-> 1,
          heard |-> <<>>]

(* Headers, properties and errors are told to the caller as they are read. *)
Tell(d, what, key, value) ==
    [d EXCEPT !.heard = Append(@, [what |-> what, line |-> d.line, key |-> key,
                                   value |-> value])]

LogError(d) == Tell(d, "ERROR", <<>>, <<>>)
ProcessHeader(d) == Tell(d, "HEADER", <<>>, d.value)

LastNonSpace(s) ==
    LET places == {i \in DOMAIN s : s[i] # Space}
    IN  IF places = {} THEN 0 ELSE CHOOSE i \in places : \A j \in places : j <= i

WithoutEnd(s) == SubSeq(s, 1, LastNonSpace(s))

ProcessValue(d) == Tell(d, "PROPERTY", d.key, WithoutEnd(d.value))

Go(d, state) == [d EXCEPT !.state = state]

\* The rest of a line after something that is wrong, or after its header.
SkippedTo(d, ch, state) == IF ch = NewLine THEN Go(d, state) ELSE d

HeaderStart(d, ch) ==
    CASE ch = "[" -> Go([d EXCEPT !.value = <<>>], "READING_HEADER")
      [] ch \in {Space, NewLine} -> d
      [] OTHER -> Go(LogError(d), "BAD_HEADER_START")

ReadingHeader(d, ch) ==
    CASE ch = NewLine -> Go(LogError(d), "FIELD_START")
      [] ch = "]" -> Go(ProcessHeader(d), "END_HEADER_LINE")
      [] OTHER -> [d EXCEPT !.value = Append(@, ch)]

EndHeaderLine(d, ch) ==
    CASE ch = NewLine -> Go(d, "FIELD_START")
      [] ch = Space -> d
      [] OTHER -> Go(LogError(d), "END_HEADER_LINE2")

FieldStart(d, ch) ==
    CASE ch = "[" -> Go([d EXCEPT !.value = <<>>], "READING_HEADER")
      [] ch \in {Space, NewLine} -> d
      [] OTHER -> Go([d EXCEPT !.key = <<ch>>], "READING_FIELD_NAME")

ReadingFieldName(d, ch) ==
    CASE ch = Space -> Go(d, "WAITING_EQUALS")
      [] ch = "=" -> Go(d, "WAITING_VALUE_START")
      [] ch = NewLine -> Go(LogError(d), "FIELD_START")
      [] OTHER -> [d EXCEPT !.key = Append(@, ch)]

WaitingEquals(d, ch) ==
    CASE ch = "=" -> Go(d, "WAITING_VALUE_START")
      [] ch = NewLine -> Go(LogError(d), "FIELD_START")
      [] ch = Space -> d
      [] OTHER -> Go(LogError(d), "BAD_FIELD")

WaitingValueStart(d, ch) ==
    CASE ch = NewLine -> Go(ProcessValue([d EXCEPT !.value = <<>>]), "FIELD_START")
      [] ch = Space -> d
      [] OTHER -> Go([d EXCEPT !.value = <<ch>>], "READING_VALUE")

ReadingValue(d, ch) ==
    IF ch = NewLine THEN Go(ProcessValue(d), "FIELD_START")
    ELSE [d EXCEPT !.value = Append(@, ch)]

HandleByte(d, ch) ==
    CASE d.state = "HEADER_START" -> HeaderStart(d, ch)
      [] d.state = "BAD_HEADER_START" -> SkippedTo(d, ch, "HEADER_START")
      [] d.state = "READING_HEADER" -> ReadingHeader(d, ch)
      [] d.state = "END_HEADER_LINE" -> EndHeaderLine(d, ch)
      [] d.state = "END_HEADER_LINE2" -> SkippedTo(d, ch, "FIELD_START")
      [] d.state = "FIELD_START" -> FieldStart(d, ch)
      [] d.state = "READING_FIELD_NAME" -> ReadingFieldName(d, ch)
      [] d.state = "WAITING_EQUALS" -> WaitingEquals(d, ch)
      [] d.state = "WAITING_VALUE_START" -> WaitingValueStart(d, ch)
      [] d.state = "READING_VALUE" -> ReadingValue(d, ch)
      [] d.state = "BAD_FIELD" -> SkippedTo(d, ch, "FIELD_START")

CountLine(d, ch) == IF ch = NewLine THEN [d EXCEPT !.line = @ + 1] ELSE d

\* What is heard of a text; a line that the end of the file cuts off counts.
Load(text) ==
    HandleByte(FoldLeft(LAMBDA d, ch : CountLine(HandleByte(d, ch), ch), NewFile, text),
               NewLine).heard

(****************************** what they mean *****************************)
(* The same, said of whole lines: before the first header there is nothing *)
(* but spaces; a line that begins with a bracket is a header; any other    *)
(* has a key, which ends at a space or at the sign, the sign and a value.  *)
WithoutStart(s) ==
    LET places == {i \in DOMAIN s : s[i] # Space}
    IN  IF places = {} THEN <<>>
        ELSE SubSeq(s, CHOOSE i \in places : \A j \in places : i <= j, Len(s))

Told(what, key, value) == [what |-> what, key |-> key, value |-> value]
Wrong == Told("ERROR", <<>>, <<>>)

FirstOf(s, chars) ==
    LET places == {i \in DOMAIN s : s[i] \in chars}
    IN  IF places = {} THEN 0 ELSE CHOOSE i \in places : \A j \in places : i <= j

HeaderMeans(s) ==
    LET close == FirstOf(s, {"]"})
        header == Told("HEADER", <<>>, SubSeq(s, 2, close - 1))
    IN  IF close = 0 THEN <<Wrong>>
        ELSE IF LastNonSpace(s) = close THEN <<header>> ELSE <<header, Wrong>>

PropertyMeans(s) ==
    LET end == FirstOf(Tail(s), {Space, "="})
        rest == WithoutStart(SubSeq(s, end + 1, Len(s)))
    IN  IF end = 0 \/ rest = <<>> \/ rest[1] # "=" THEN <<Wrong>>
        ELSE <<Told("PROPERTY", SubSeq(s, 1, end),
                    WithoutEnd(WithoutStart(Tail(rest))))>>

LineMeans(line, headed) ==
    LET s == WithoutStart(line)
    IN  CASE s = <<>> -> <<>>
          [] s # <<>> /\ s[1] = "[" -> HeaderMeans(s)
          [] s # <<>> /\ s[1] # "[" -> IF headed THEN PropertyMeans(s) ELSE <<Wrong>>

Ordered(S) ==
    [n \in 1..Cardinality(S) |-> CHOOSE i \in S : Cardinality({j \in S : j <= i}) = n]

LineEnds(text) == {0, Len(text) + 1} \cup {i \in DOMAIN text : text[i] = NewLine}
Lines(text) ==
    LET ends == Ordered(LineEnds(text))
    IN  [n \in 1..(Len(ends) - 1) |-> SubSeq(text, ends[n] + 1, ends[n + 1] - 1)]

IsHeader(line) == WithoutStart(line) # <<>> /\ WithoutStart(line)[1] = "["

Meaning(text) ==
    LET lines == Lines(text)
        Headed(n) == \E m \in 1..(n - 1) : IsHeader(lines[m])
        Numbered(n) == LET told == LineMeans(lines[n], Headed(n))
                       IN  [i \in DOMAIN told |->
                              [what |-> told[i].what, line |-> n, key |-> told[i].key,
                               value |-> told[i].value]]
    IN  FlattenSeq([n \in DOMAIN lines |-> Numbered(n)])

(******************************** the options ******************************)
Unset == <<"unset">>
ServerOptions == {"address", "port", "certificate", "private_key",
                  "private_key_password"}
GeneralOptions == {"log_file", "user", "group"}

NewServer == [[o \in ServerOptions |-> Unset] EXCEPT !.port = <<"-1">>]
NewConfig == [general |-> [o \in GeneralOptions |-> Unset], servers |-> <<>>,
              section |-> "general", error |-> FALSE]

ConfigError(c) == [c EXCEPT !.error = TRUE]

\* A port is a number, and nothing stands for zero.
IsNumber(value) == value \in {<<>>, <<"80">>, <<"443">>}

SetOption(c, options, option, value) ==
    CASE option = "port" -> [options |-> [options EXCEPT ![option] = value],
                             bad |-> ~IsNumber(value)]
      [] OTHER -> IF options[option] # Unset
                  THEN [options |-> options, bad |-> TRUE]
                  ELSE [options |-> [options EXCEPT ![option] = value], bad |-> FALSE]

SetFromOptions(c, key, value) ==
    LET last == Len(c.servers)
        options == IF c.section = "server" THEN c.servers[last] ELSE c.general
        set == SetOption(c, options, key[1], value)
        new == IF c.section = "server" THEN [c EXCEPT !.servers[last] = set.options]
               ELSE [c EXCEPT !.general = set.options]
    IN  IF Len(key) # 1 \/ key[1] \notin DOMAIN options THEN ConfigError(c)
        ELSE IF set.bad THEN ConfigError(new) ELSE new

LoadConfigFunc(c, heard) ==
    CASE heard.what = "ERROR" -> ConfigError(c)
      [] heard.what = "HEADER" ->
           CASE heard.value = <<"server">> ->
                  [c EXCEPT !.servers = Append(@, NewServer), !.section = "server"]
             [] heard.value = <<"general">> -> [c EXCEPT !.section = "general"]
             [] OTHER -> ConfigError(c)
      [] heard.what = "PROPERTY" -> SetFromOptions(c, heard.key, heard.value)

ValidServer(s) ==
    /\ s.certificate # Unset <=> s.private_key # Unset
    /\ s.private_key_password # Unset => s.private_key # Unset

ValidConfig(c) == c.servers # <<>> /\ \A n \in DOMAIN c.servers : ValidServer(c.servers[n])

NoConfig == [general |-> NewConfig.general, servers |-> <<>>]

Validated(c) ==
    IF c.error \/ ~ValidConfig(c) THEN NoConfig
    ELSE [general |-> c.general, servers |-> c.servers]

ConfigFrom(text) == Validated(FoldLeft(LoadConfigFunc, NewConfig, Load(text)))

(* The same, said of the whole file: each property belongs to the header   *)
(* before it; each header of a server is a server of its own, and those of *)
(* the general section are one.                                            *)
LastOf(places) == CHOOSE i \in places : \A j \in places : j <= i

HeadersOf(told, what) ==
    {i \in DOMAIN told : told[i].what = "HEADER" /\ told[i].value = <<what>>}
HeaderBefore(told, i) == LastOf({h \in DOMAIN told : told[h].what = "HEADER" /\ h < i})
Settings(told, headers, option) ==
    {i \in DOMAIN told : /\ told[i].what = "PROPERTY" /\ told[i].key = <<option>>
                         /\ HeaderBefore(told, i) \in headers}
OptionsOf(told, headers, unset) ==
    [o \in DOMAIN unset |->
       LET set == Settings(told, headers, o)
       IN  IF set = {} THEN unset[o] ELSE told[LastOf(set)].value]
SetRight(told, headers, options) ==
    \A o \in options :
      IF o = "port" THEN \A i \in Settings(told, headers, o) : IsNumber(told[i].value)
      ELSE Cardinality(Settings(told, headers, o)) <= 1
AllKnown(told, general, servers) ==
    DOMAIN told = general \cup servers
                    \cup UNION {Settings(told, servers, o) : o \in ServerOptions}
                    \cup UNION {Settings(told, general, o) : o \in GeneralOptions}

ConfigOf(told, general, servers) ==
    [general |-> OptionsOf(told, general, NewConfig.general),
     servers |-> [n \in DOMAIN servers |-> OptionsOf(told, {servers[n]}, NewServer)]]

MeantBy(told, general, servers) ==
    IF /\ AllKnown(told, general, servers)
       /\ \A h \in servers : SetRight(told, {h}, ServerOptions)
       /\ SetRight(told, general, GeneralOptions)
       /\ ValidConfig(ConfigOf(told, general, Ordered(servers)))
    THEN ConfigOf(told, general, Ordered(servers)) ELSE NoConfig

MeantByAll(told) == MeantBy(told, HeadersOf(told, "general"), HeadersOf(told, "server"))
Meant(text) == MeantByAll(Meaning(text))
=============================================================================
