------------------------------ MODULE ConfText ------------------------------
(***************************************************************************)
(* How the readers of gpu/display_policy.c and ui/ui_theme.c walk through  *)
(* the text of a file.  A text is a sequence of tokens: words, marks, "sp" *)
(* for a space or tab and "nl" for a line end.  A position behind the last *)
(* token is the NUL that the readers put there.                            *)
(***************************************************************************)
EXTENDS Integers, Sequences, FiniteSets, SequencesExt

CONSTANT Number \* the tokens that are decimal numbers, with their values

ASSUME NumberAssumption == \A w \in DOMAIN Number : Number[w] \in Nat

\* As much of a file as the reader's buffer holds.
FirstPart(t, cap) == SubSeq(t, 1, Min({Len(t), cap - 1}))

Blank == {"sp", "nl"}

\* The position of the first token of S, or of none of S, in a .. b, or else b + 1.
FirstOf(t, a, b, S) ==
    IF a > b THEN b + 1
    ELSE CHOOSE j \in a .. b + 1 : (j = b + 1 \/ t[j] \in S) /\ \A k \in a .. j - 1 : t[k] \notin S
FirstBut(t, a, b, S) ==
    IF a > b THEN b + 1
    ELSE CHOOSE j \in a .. b + 1 : (j = b + 1 \/ t[j] \notin S) /\ \A k \in a .. j - 1 : t[k] \in S

\* skip_ws(): it stops at the NUL only, so it runs on into the next line.
SkipWs(t, i) == FirstBut(t, i, Len(t), Blank)

\* The last position of a .. b that is not blank, or a - 1.
TrimEnd(t, a, b) ==
    CHOOSE j \in a - 1 .. b : (j = a - 1 \/ t[j] \notin Blank) /\ \A k \in j + 1 .. b : t[k] \in Blank

\* The first positions of the lines that are not empty, and where such a line ends.
Lines(t) == SetToSortSeq({i \in DOMAIN t : t[i] # "nl" /\ (i = 1 \/ t[i - 1] = "nl")},
                         LAMBDA i, j : i < j)
LineEnd(t, a) == FirstOf(t, a, Len(t), {"nl"}) - 1
=============================================================================
