------------------------------ MODULE MCEdges -------------------------------
(* Small instances of what is at the edges of the program, for TLC: the     *)
(* bytes of a WebSocket, the start of the server, the quads of the client   *)
(* and the formats.  They share nothing, so one of them runs at a time.     *)
EXTENDS MCWebSocket, ServerStart, Formats

VARIABLE machine
edgeVars == <<machine, vars, startVars, glyphVars, formatVars>>

(********************************** starts *********************************)
Setting(key, value) == <<key, "=", value, NewLine>>
Section(name) == <<"[", name, "]", NewLine>>
OneServer == Section("server") \o Setting("port", "80")
General == Section("general") \o Setting("user", "someone") \o Setting("group", "games")
             \o Setting("log_file", "log")
Secured == Section("server") \o Setting("certificate", "c") \o Setting("private_key", "k")
Good == General \o OneServer \o Secured
FileTexts == {OneServer, Good, OneServer \o General, Section("server") \o General \o General, <<>>,
              Section("server") \o Setting("certificate", "c"),
              Section("server") \o Setting("user", "c"), OneServer \o <<"port">>}

Finding(files) == [NoPlan EXCEPT !.files = files]
LogPlan == Finding(<<File(Good)>>)
MCStartPlans ==
    {Finding(<<File(text)>>) : text \in FileTexts}
      \union {Finding(files) : files \in {<<>>, <<Missing, File(OneServer)>>, <<File(<<>>), File(Good)>>}}
      \union {[LogPlan EXCEPT !.trouble = trouble, !.daemonize = daemonize] :
                trouble \in Troubles, daemonize \in BOOLEAN}
      \union {[LogPlan EXCEPT !.fds = n, !.user = <<"other">>] : n \in 1..3}
      \union {[Finding(<<File(OneServer)>>) EXCEPT !.group = <<"games">>, !.log_file = <<"mine">>]}

(********************************** quads **********************************)
Glyph(w, h, advance) == [w |-> w, h |-> h, advance |-> advance]
MCGlyphOf ==
    <<"LABEL", " ">> :> Glyph(0, 0, 1) @@ <<"LABEL", "a">> :> Glyph(2, 2, 1)
      @@ <<"LABEL", "b">> :> Glyph(3, 1, 2) @@ <<"LABEL", "\n">> :> Glyph(1, 1, 1)
      @@ <<"SYMBOL", " ">> :> Glyph(1, 1, 1) @@ <<"SYMBOL", "a">> :> Glyph(2, 3, 2)
      @@ <<"SYMBOL", "b">> :> Glyph(1, 4, 1) @@ <<"SYMBOL", "\n">> :> Glyph(0, 0, 1)
MCLayouts == {"first", "second"}
MCFontOf == "first" :> "LABEL" @@ "second" :> "SYMBOL"
MCTexts == "first" :> {<<"a", " ", "b">>, <<"b", "b", " ", " ", "\n", "a">>}
             @@ "second" :> {<<"b", "a">>}
MCWidths == "first" :> {2} @@ "second" :> {}
\* Room for two tiles and one of the second texture, room for three of either
MCTileRuns == 2 :> <<2>> @@ 3 :> <<1, 2, 1>>

(********************************* formats *********************************)
IdOf(values) == BitsOf(values) \o <<1, 1, 1, 0>>
Parts == {<<50, 43, 63, 0, 0, 62, 1, 2, 4, 8>>, <<0, 0, 0, 0, 0, 0, 0, 0, 0, 0>>}
IdParts == {Append(part, 14) : part \in Parts}
UrlPrefixes == UNION {[1..n -> {"http", "HTTP", "s", "S", "://gemelo.org/j/", "://GEMELO.ORG/J/"}] :
                     n \in 0..3}
UrlParts == {<<0, 1, 2, 3, 4, 5, 6, 7, 8, 9, last>> : last \in {0, 15, 16, Other}}
              \union {<<0>>, <<63, 62, 61, 60, Other, 5, 6, 7, 8, 9, 10>>}

MCTokens ==
    "lines of a file" :> {"[", "]", "=", Space, NewLine, "a"}
      @@ "configuration" :> {Section("general"), Section("server"), Section("other"),
                             Setting("port", "80"), Setting("port", "x"), Setting("user", "u"),
                             Setting("certificate", "c"), Setting("private_key", "k"),
                             <<"user", NewLine>>}
      @@ "base64" :> {0, 4, 16, 63, Pad, Other}
      @@ "bytes" :> {0, 1, 127, 170, 255}
      @@ "UTF-8" :> {65, 128, 143, 144, 159, 160, 191, 193, 194, 224, 237, 240, 244, 245}
      @@ "address" :> {"[", "]", ":", "80", "x"} \union {Ipv4} \union Ipv6
      @@ "areas" :> (1..3) \X (1..3)
      @@ "table" :> {"add", "remove"} \X (0..4)
      @@ "text" :> {Blank, Break, "a", "b"}
      @@ "character" :> {0, 127, 128, 2047, 2048, 55295, 57344, 65535, 65536, 1114111}
      @@ "url" :> {[prefix |-> prefix, part |-> part] : prefix \in UrlPrefixes, part \in UrlParts}
      @@ "identifier" :> {IdOf(part) : part \in Parts}
      @@ "invitation" :> {IdOf(part) : part \in Parts}
      @@ "query" :> IdParts \union UrlParts
      @@ "letter" :> (60..95) \union {263, 264, 265, 308, 348, 364, 365, 66639} \union (66640..66688)
      @@ "image" :> {<<256, 256>>, <<512, 64>>, <<128, 512>>, <<128, 128>>, <<256, 128>>,
                     <<32, 32>>, <<1024, 128>>, <<1024, 512>>, <<1024, 1024>>}
MCLongest == [kinds \in DOMAIN MCTokens |->
    CASE kinds \in {"lines of a file", "base64", "address", "text"} -> 5
      [] kinds \in {"configuration", "bytes", "areas"} -> 4
      [] kinds = "UTF-8" -> 3
      [] kinds = "table" -> 6
      [] OTHER -> 1]

(******************************** one at a time ****************************)
IdlePlan == Plan(<<>>, <<>>)
EdgePlans == MCPlans \union {IdlePlan}
EdgeStartPlans == MCStartPlans \union {NoPlan}

EdgesInit ==
    /\ Init
    /\ machine \in IF plan = IdlePlan THEN {"start", "quads", "formats"} ELSE {"socket"}
    /\ StartInit /\ (machine = "start" \/ start = NoPlan)
    /\ GlyphsInit
    /\ FormatsInit /\ (machine = "formats" \/ kind = "letter")

EdgesNext ==
    /\ UNCHANGED machine
    /\ \/ machine = "socket" /\ Next /\ UNCHANGED <<startVars, glyphVars, formatVars>>
       \/ machine = "start" /\ StartNext /\ UNCHANGED <<vars, glyphVars, formatVars>>
       \/ machine = "quads" /\ GlyphsNext /\ UNCHANGED <<vars, startVars, formatVars>>
       \/ machine = "formats" /\ FormatsNext /\ UNCHANGED <<vars, startVars, glyphVars>>

EdgesSpec ==
    /\ EdgesInit /\ [][EdgesNext]_edgeVars
    /\ WF_startVars(machine = "start" /\ Main /\ UNCHANGED <<machine, vars, glyphVars, formatVars>>)
    /\ WF_startVars(machine = "start" /\ LogThread /\ UNCHANGED <<machine, vars, glyphVars, formatVars>>)

\* What the start of the server promises, when it is started.
Started == machine = "start" => StartSound
=============================================================================
