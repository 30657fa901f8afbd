-------------------------------- MODULE Theme --------------------------------
(***************************************************************************)
(* ui/ui_theme.c: the design tokens, from the built-in palettes and from   *)
(* /etc/ui/theme.toml or theme.json.  A key is a sequence of tokens such   *)
(* as <<"color.", "bg.base">>; "q" is a quotation mark.  What a colour is  *)
(* written with, from its # or 0x on, is a member of Colour, a decimal     *)
(* number one of Number.                                                   *)
(***************************************************************************)
EXTENDS ConfText

CONSTANTS
    Colour,     \* colours, as sequences of tokens, and their values
    Dark,       \* k_u32_dark: a function on its keys
    Light,      \* k_u32_light
    Plain,      \* k_radius, k_space and k_duration
    Family,     \* the family of k_str
    SizeKeys,   \* font.ui.size_*
    ThemeCap,   \* sizeof buf
    FamilyCap,  \* FONT_FAMILY_CAP
    ScanSpan    \* how far behind "mode" a colon is looked for

ASSUME ThemeAssumption ==
    /\ DOMAIN Dark = DOMAIN Light /\ SizeKeys \subseteq DOMAIN Dark
    /\ Len(Family) < FamilyCap /\ ThemeCap \in Nat \ {0, 1} /\ ScanSpan \in Nat

FamilyKey == <<"font.", "ui.family">>

\* baseline_palette() writes the default family over the old one without ending it.
Baseline(th, light) ==
    [u32 |-> IF light THEN Light ELSE Dark,
     plain |-> Plain,
     family |-> Family \o SubSeq(th.family, Len(Family) + 1, Len(th.family))]
NoTheme == [u32 |-> [k \in DOMAIN Dark |-> 0], plain |-> [k \in DOMAIN Plain |-> 0], family |-> <<>>]

-----------------------------------------------------------------------------
(* One assignment.  Unknown keys, and values that do not suit, change nothing. *)

Limit == [k \in {"radius.", "space.", "duration."} |->
            CASE k = "radius." -> 100000 [] k = "space." -> 10000 [] k = "duration." -> 60000]

SetU32(th, key, n) == IF key \in DOMAIN Dark THEN [th EXCEPT !.u32[key] = n] ELSE th
SetPlain(th, key, n) == IF key \in DOMAIN Plain /\ n <= Limit[key[1]] THEN [th EXCEPT !.plain[key] = n] ELSE th
SetFamily(th, text) == [th EXCEPT !.family = SubSeq(text, 1, Min({Len(text), FamilyCap - 1}))]

Quoted(v) == Len(v) >= 2 /\ v[1] = "q" /\ v[Len(v)] = "q"
Unquoted(v) == IF Quoted(v) THEN SubSeq(v, 2, Len(v) - 1) ELSE v
IsDecimal(v) == Len(v) = 1 /\ v[1] \in DOMAIN Number
HasLimit(key) == key # <<>> /\ key[1] \in DOMAIN Limit

\* assign_value_for_key()
Assign(th, key, v) ==
    IF key \in {<<"mode">>, <<"appearance">>} THEN th
    ELSE IF v \in DOMAIN Colour THEN SetU32(th, key, Colour[v])
    ELSE IF IsDecimal(v) /\ HasLimit(key) THEN SetPlain(th, key, Number[v[1]])
    ELSE IF IsDecimal(v) /\ key \in SizeKeys THEN SetU32(th, key, Number[v[1]])
    ELSE IF key = FamilyKey THEN SetFamily(th, Unquoted(v))
    ELSE th

-----------------------------------------------------------------------------
(* TOML. *)

Sections == {"color", "radius", "space", "duration", "shadow", "font"}
Prefix == [s \in Sections |-> CASE s = "color" -> "color." [] s = "radius" -> "radius."
                                [] s = "space" -> "space." [] s = "duration" -> "duration."
                                [] s = "shadow" -> "shadow." [] s = "font" -> "font."]

\* A line without its comment and the blanks behind it: first and last position.  A # ends
\* the line also inside of quotes.
Body(t, a) == TrimEnd(t, a, FirstOf(t, a, LineEnd(t, a), {"#"}) - 1)

\* section_from_header(), of the line at p
SectionOf(t, p) ==
    LET name == SubSeq(t, p + 1, FirstOf(t, p + 1, Len(t), {"]"} \cup Blank) - 1)
    IN  IF Len(name) = 1 /\ name[1] \in Sections \cup {"meta", "appearance"} THEN name[1] ELSE "none"

\* What both passes over the lines find: section, key and value of each entry.  If nothing
\* is left of the value on its line, skip_ws() may find the next text to begin elsewhere
\* (over); the length then wraps.
Entries(t) ==
    LET Line(r, a) ==
            LET e == Body(t, a)
                p == SkipWs(t, a)
                eq == FirstOf(t, a, e, {"="})
                vs == SkipWs(t, eq + 1)
            IN  IF e < a THEN r
                ELSE IF t[p] = "[" THEN [r EXCEPT !.sec = SectionOf(t, p)]
                ELSE IF eq > e THEN r
                ELSE [r EXCEPT !.list = Append(@, [sec |-> r.sec, key |-> SubSeq(t, p, TrimEnd(t, p, eq - 1)),
                                                   over |-> vs > e + 1,
                                                   v |-> SubSeq(t, vs, IF vs > e + 1 THEN Len(t) ELSE e)])]
    IN  FoldLeft(Line, [sec |-> "none", list |-> <<>>], Lines(t)).list

\* scan_appearance_mode(): the last mode of [appearance] counts.
TomlLight(t) ==
    FoldLeft(LAMBDA light, x : IF x.sec = "appearance" /\ x.key = <<"mode">>
                               THEN ~x.over /\ Unquoted(x.v) = <<"light">> ELSE light,
             FALSE, Entries(t))

\* merge_toml_body().  Only the family takes a value that runs over the end of the line.
MergeToml(th, t) ==
    LET Entry(r, x) ==
            LET key == <<Prefix[x.sec]>> \o x.key
            IN  IF x.sec \notin Sections \/ x.key = <<>> \/ (~x.over /\ x.v = <<>>) THEN r
                ELSE IF ~x.over THEN Assign(r, key, x.v)
                ELSE IF key = FamilyKey THEN SetFamily(r, x.v)
                ELSE r
    IN  FoldLeft(Entry, th, Entries(t))

-----------------------------------------------------------------------------
(* JSON. *)

\* scan_json_appearance_light(): "light" behind the colon that follows some "mode" or
\* "appearance", wherever in the text that is.
JsonLight(t) ==
    \E i \in 1 .. Len(t) - 2 :
        /\ SubSeq(t, i, i + 2) \in {<<"q", "mode", "q">>, <<"q", "appearance", "q">>}
        /\ LET far == Min({i + ScanSpan - 1, Len(t)})
               colon == FirstOf(t, i + 3, far, {":"})
               c == SkipWs(t, colon + 1)
           IN  /\ colon <= far /\ c <= Len(t)
               /\ \/ c + 2 <= Len(t) /\ SubSeq(t, c, c + 2) = <<"q", "light", "q">>
                  \/ t[c] = "light" /\ (c = Len(t) \/ t[c + 1] \in Blank \cup {",", "}"})

\* merge_json_body(): the pairs in front of position i are done.  An error keeps the pairs
\* found so far; a comma may be missing, and so may the last brace.
JsonPairs(t) ==
    LET End == Len(t) + 1
        At(i) == IF i < End THEN t[i] ELSE "nul"
        Stop(ok) == [ok |-> ok, pairs |-> <<>>]
        from[i \in 1 .. End] ==
            LET k == SkipWs(t, i)                               \* opens the key
                ke == FirstOf(t, k + 1, Len(t), {"q"})
                v == SkipWs(t, SkipWs(t, ke + 1) + 1)           \* behind the colon
                text == At(v) = "q"
                ve == IF text THEN FirstOf(t, v + 1, Len(t), {"q"})
                      ELSE FirstOf(t, v, Len(t), Blank \cup {",", "}"})
                n == SkipWs(t, IF text THEN ve + 1 ELSE ve)
                rest == CASE At(n) = "," -> from[n + 1]
                          [] At(n) \in {"}", "nul"} -> Stop(TRUE)
                          [] OTHER -> from[n]
            IN  IF At(k) = "}" THEN Stop(TRUE)
                ELSE IF \/ At(k) # "q" \/ ke = End \/ At(SkipWs(t, ke + 1)) # ":" \/ v = End
                        \/ text /\ ve = End THEN Stop(FALSE)
                ELSE [rest EXCEPT !.pairs =
                         <<[key |-> SubSeq(t, k + 1, ke - 1), v |-> SubSeq(t, IF text THEN v + 1 ELSE v, ve - 1)]>> \o @]
        open == SkipWs(t, 1)
    IN  IF At(open) = "{" THEN from[open + 1] ELSE Stop(FALSE)

MergeJson(th, t) == FoldLeft(LAMBDA r, x : Assign(r, x.key, x.v), th, JsonPairs(t).pairs)

-----------------------------------------------------------------------------
(* Loading. *)

\* load_buffer(), and try_load_from_vfs() of the text found; a file that begins with a
\* brace is JSON whatever its name.  With a syntax error it is the dark palette again; the
\* variant keeps what came before the error.
LoadTextPartly(th, t, json) ==
    IF json THEN MergeJson(Baseline(th, JsonLight(t)), t) ELSE MergeToml(Baseline(th, TomlLight(t)), t)
LoadText(th, t, json) ==
    IF json
    THEN LET merged == MergeJson(Baseline(th, JsonLight(t)), t)
         IN  IF JsonPairs(t).ok THEN merged ELSE Baseline(merged, FALSE)
    ELSE MergeToml(Baseline(th, TomlLight(t)), t)

\* toml and json are the texts of the two files, <<>> if there is none.
LoadTheme(th, toml, json) ==
    LET t == FirstPart(IF toml # <<>> THEN toml ELSE json, ThemeCap)
        first == SkipWs(t, 1)
    IN  IF t = <<>> THEN Baseline(th, FALSE)
        ELSE LoadText(th, t, toml = <<>> \/ (first <= Len(t) /\ t[first] = "{"))
=============================================================================
