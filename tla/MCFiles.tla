------------------------------ MODULE MCFiles ------------------------------
(***************************************************************************)
(* BootConfig for TLC.  Archives of up to four entries with blocks of two  *)
(* bytes, in the spellings archivers use, with repeated files, files       *)
(* before their directory, links, empty files, and a cut end; and archives *)
(* with configuration files, spelled from lists of settings.               *)
(***************************************************************************)
EXTENDS BootConfig

\* Zero, one or more payload blocks behind each header.
Head1(prefix, name, type, size) ==
    [kind |-> "header", prefix |-> prefix, name |-> name, type |-> type, size |-> size]
Payload == [kind |-> "payload"]
Zero == [kind |-> "zero"]
Blocks(es) ==
    FoldLeft(LAMBDA bs, e : bs \o <<Head1(e.prefix, e.name, e.type, Len(e.text))>>
                               \o [i \in 1 .. Len(e.text) \div Block + (Len(e.text) % Block) |-> Payload],
             <<>>, es)
Place(es, i) == Len(Blocks(SubSeq(es, 1, i - 1))) + 1

NoLook == [light |-> FALSE, sets |-> <<>>, family |-> Family, ok |-> TRUE]
Packed(es, end, conf, look) ==
    [blocks |-> Blocks(es) \o end,
     entries |-> [i \in DOMAIN es |-> [path |-> es[i].path, type |-> es[i].type, size |-> Len(es[i].text),
                                       data |-> Place(es, i) * Block]],
     bytes |-> FoldLeft(LAMBDA f, i : [k \in {Place(es, i) * Block + j - 1 : j \in DOMAIN es[i].text} |->
                                          es[i].text[k - Place(es, i) * Block + 1]] @@ f,
                        <<>>, [i \in DOMAIN es |-> i]),
     conf |-> conf, look |-> look]

Entry(path, prefix, name, type, text) ==
    [path |-> path, prefix |-> prefix, name |-> name, type |-> type, text |-> text]
DirEtc == Entry(<<"etc">>, <<>>, <<".", "/", "etc", "/">>, "5", <<>>)
EtcA == Entry(<<"etc", "a">>, <<>>, <<".", "/", "etc", "/", "a">>, "0", <<"x", "y", "z">>)
EtcANew == Entry(<<"etc", "a">>, <<"etc">>, <<"a">>, "0", <<"x">>)
EtcB == Entry(<<"etc", "b">>, <<>>, <<"/", "etc", "/", "/", "b">>, "0", <<"x", "y">>)
Empty == Entry(<<"a">>, <<>>, <<"a">>, "0", <<>>)
Link == Entry(<<"etc">>, <<>>, <<"etc", "/", "l">>, "2", <<>>)

Bare(es, end) == Packed(es, end, <<>>, NoLook)
Trees ==
    {Bare(<<DirEtc, EtcA, EtcB>>, <<Zero, Zero>>), Bare(<<EtcB, Empty, DirEtc, EtcANew>>, <<Zero>>),
     Bare(<<EtcA, Link, EtcANew, Empty>>, <<Zero, Zero, Payload>>), Bare(<<Empty, EtcA>>, <<>>)}
MCPaths == {<<"/">>, <<"/", "etc", "/", "a">>, <<"/", "/", "etc", "/">>, <<"/", "a">>, <<"etc">>}

-----------------------------------------------------------------------------
(* display.conf *)

MCNumber == [w \in {"0", "1", "8", "30", "120", "240", "360", "400", "600", "800", "90000", "120000"} |->
               CASE w = "0" -> 0 [] w = "1" -> 1 [] w = "8" -> 8 [] w = "30" -> 30 [] w = "120" -> 120
                 [] w = "240" -> 240 [] w = "360" -> 360 [] w = "400" -> 400 [] w = "600" -> 600
                 [] w = "800" -> 800 [] w = "90000" -> 90000 [] w = "120000" -> 120000]

\* A setting, with how its value is spelled.
Number1(k, w) == [key |-> k, value |-> MCNumber[w], spelled |-> <<w>>]
Word1(k, w) == [key |-> k, value |-> w, spelled |-> <<w>>]
Label(ws) == [key |-> "label", value |-> ws, spelled |-> ws]
Settings ==
    {Number1("width", "800"), Number1("width", "30"), Number1("height", "600"), Number1("refresh_hz", "360"),
     Number1("refresh_hz", "30"), Number1("refresh_hz", "400"), Word1("vsync", "0"), Word1("vsync", "x"),
     Word1("pointer", "usb"), Word1("other", "x"), Label(<<"x", "sp", "y">>)}

\* Three ways to write a line, the third with lines around it that say nothing.
ConfLine(s, style) ==
    CASE style = 1 -> <<s.key, "=">> \o s.spelled \o <<"nl">>
      [] style = 2 -> <<"sp", s.key, "sp", "=", "sp">> \o s.spelled \o <<"sp", "nl">>
      [] style = 3 -> <<"#", s.key, "=", "nl", "nl", "x", "nl">> \o <<s.key, "=">> \o s.spelled \o <<"nl">>
Conf(list, style) == FoldLeft(LAMBDA t, s : t \o ConfLine(s, style), <<>>, list)
\* A comment that fills the buffer, and a setting behind it.
CutOff(t, cap, more) == t \o <<"#">> \o [i \in 1 .. cap - 2 - Len(t) |-> "x"] \o more

ConfEntry(text) == Entry(<<"etc", "display.conf">>, <<>>, <<"etc", "/", "display.conf">>, "0", text)
Known(s) == [key |-> s.key, value |-> s.value]
WithConf(list, text) == Packed(<<Link, ConfEntry(text)>>, <<Zero>>, [i \in DOMAIN list |-> Known(list[i])], NoLook)
ConfArchives ==
    {WithConf(list, Conf(list, style)) : list \in SeqOf(Settings, 2) \ {<<>>}, style \in 1 .. 3}
    \cup {WithConf(<<s>>, CutOff(Conf(<<s>>, 2), ConfCap, ConfLine(Number1("width", "0"), 1))) : s \in Settings}

-----------------------------------------------------------------------------
(* The theme. *)

Base == <<"color.", "bg.base">>
Accent == <<"color.", "accent">>
Size == <<"font.", "ui.size">>
Radius == <<"radius.", "md">>
MCDark == Base :> 1 @@ Accent :> 2 @@ Size :> 13
MCLight == Base :> 3 @@ Accent :> 4 @@ Size :> 13
MCPlain == Radius :> 6
MCColour == <<"#", "5">> :> 5 @@ <<"0x7">> :> 7

MCFamily == <<"Sans", "x">>
MCSizeKeys == {Size}
MCBase == Base
MCConfPath == <<"/", "etc", "/", "display.conf">>
MCTomlPath == <<"/", "etc", "/", "ui", "/", "theme.toml">>
MCJsonPath == <<"/", "etc", "/", "ui", "/", "theme.json">>
MCScanout == <<1024, 480>>

Token(k, v, w) == [key |-> k, value |-> v, spelled |-> w]
Tokens == {Token(Base, 5, <<"#", "5">>), Token(Base, 7, <<"0x7">>), Token(Accent, 7, <<"q", "0x7", "q">>), Token(Size, 8, <<"8">>),
           Token(Radius, 8, <<"8">>), Token(Radius, 120000, <<"120000">>), Token(<<"color.", "other">>, 7, <<"0x7">>),
           Token(FamilyKey, <<"Mono">>, <<"q", "Mono", "q">>)}

Sec(s) == IF s.key[1] = "color." THEN "color" ELSE IF s.key[1] = "font." THEN "font" ELSE "radius"
Toml(mode, list) ==
    FoldLeft(LAMBDA t, s : t \o <<"[", Sec(s), "]", "sp", "#", "x", "nl", "nl", s.key[2], "sp", "=", "sp">> \o s.spelled \o <<"nl">>,
             mode, list)
\* A # begins a comment wherever it is, and only a family may be in quotes.
Counted(list) ==
    SelectSeq(list, LAMBDA s : \A i \in DOMAIN s.spelled : s.spelled[i] # "#" /\ (s.spelled[i] = "q" => s.key = FamilyKey))
\* The last mode counts.
LightToml == <<"[", "appearance", "]", "nl", "mode", "=", "x", "nl", "mode", "sp", "=", "sp", "q", "light", "q", "sp", "nl">>
DarkToml == <<"[", "appearance", "]", "nl", "mode", "=", "light", "nl", "mode", "=", "dark", "nl">>

Pair(key, v) == <<"q">> \o key \o <<"q", "sp", ":", "sp">> \o v \o <<",", "nl">>
\* Without the closing brace there must not be a comma either.
Json(light, list, end) ==
    LET t == FoldLeft(LAMBDA r, s : r \o Pair(s.key, s.spelled),
                      <<"sp", "{">> \o Pair(<<"mode">>, <<"q", IF light THEN "light" ELSE "dark", "q">>), list)
    IN  IF end = <<>> THEN SubSeq(t, 1, Len(t) - 2) ELSE t \o end

ThemeEntry(name, text) == Entry(<<"etc", "ui", name>>, <<"etc", "/", "ui">>, <<name>>, "0", text)
WithTheme(name, light, list, ok, text) ==
    Packed(<<ThemeEntry(name, text)>>, <<Zero>>, <<>>,
           [light |-> light, sets |-> [i \in DOMAIN list |-> Known(list[i])], ok |-> ok,
            family |-> LastSet(list, FamilyKey, LAMBDA s : TRUE, Family)])
ThemeLists == SeqOf(Tokens, 2)
ThemeArchives ==
    {WithTheme("theme.toml", light, Counted(list), TRUE, Toml(IF light THEN LightToml ELSE DarkToml, list)) :
        light \in BOOLEAN, list \in ThemeLists}
    \cup {WithTheme("theme.json", light, list, end # <<"x">>, Json(light, list, end)) :
        light \in BOOLEAN, list \in ThemeLists, end \in {<<"}">>, <<>>, <<"x">>}}
    \cup {WithTheme("theme.toml", FALSE, Counted(<<s>>), TRUE,
                    CutOff(Toml(DarkToml, <<s>>), ThemeCap, <<"nl">> \o Toml(LightToml, <<s>>))) : s \in Tokens}

-----------------------------------------------------------------------------

Typed == {<<"theme", "sp", "reload", "nl", "sp", "theme", "ctl", "sp", "reload", "sp", "nl", "theme", "nl">>,
          <<"theme", "sp", "reload", "x", "nl", "nl", "sp", "sp", "theme", "sp", "reload", "x", "nl", "theme", "sp">>}
Rates == {<<>>, <<Number1("refresh_hz", "360")>>, <<Number1("refresh_hz", "240"), Word1("vsync", "0")>>}
Does(archives, rooms, runs, texts) ==
    {[archive |-> a, room |-> r, runs |-> runs, typed |-> t] : a \in archives, r \in rooms, t \in texts}
MCWorkloads ==
    Does(Trees, NodeLimits, "calls", {<<>>}) \cup Does(ConfArchives \cup ThemeArchives, {9}, "none", {<<>>})
    \cup Does({WithTheme("theme.toml", TRUE, <<s>>, TRUE, Json(TRUE, <<s>>, <<>>)) : s \in Tokens}, {9}, "serial", Typed)
    \cup Does({WithConf(list, Conf(list, 1)) : list \in Rates}, {9}, "frames", {<<>>})
MCArchives == {w.archive : w \in MCWorkloads}
MCCalibrations == {[lapic |-> 0, tsc |-> 0], [lapic |-> 600, tsc |-> 10], [lapic |-> 62500, tsc |-> 15]}
=============================================================================
