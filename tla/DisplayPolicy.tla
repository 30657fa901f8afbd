---------------------------- MODULE DisplayPolicy ----------------------------
(***************************************************************************)
(* gpu/display_policy.c: /etc/display.conf and the rates that follow from  *)
(* it; the size display_init() makes of it (gpu/display.c); the timer that *)
(* lapic_timer_init() programs with it (arch/x86_64/apic.c).               *)
(***************************************************************************)
EXTENDS ConfText

CONSTANTS
    ConfCap,    \* sizeof(stackbuf)
    LabelCap    \* sizeof(label)

ASSUME PolicyAssumption == ConfCap \in Nat \ {0, 1} /\ LabelCap \in Nat \ {0}

Defaults == [width |-> 1920, height |-> 1080, refresh_hz |-> 120, label |-> <<"primary">>,
             pointer |-> "auto", vsync |-> "1", from_file |-> FALSE]

Bounds == [width |-> 320 .. 16384, height |-> 240 .. 16384, refresh_hz |-> 30 .. 360]
Choice == [pointer |-> {"auto", "ps2", "virtio", "usb", "i2c"}, vsync |-> {"0", "1"}]

\* A parse in progress; -1 ends it.
Good(pol) == [ok |-> TRUE, pol |-> pol]
Garbage(pol) == [ok |-> FALSE, pol |-> pol]

KeyMatch(t, p, key) == t[p] = key /\ (p = Len(t) \/ t[p + 1] \in Blank \cup {"="})

\* parse_u32() reads the digits at the front and does not look further.
IsU32(t, i) == i <= Len(t) /\ t[i] \in DOMAIN Number /\ Number[t[i]] <= 65535

\* One line, from a.  The value goes from vs to e; if there is none on this line, vs is
\* on a later one, the length wraps and is as good as unlimited.
ParseLine(pol, t, a) ==
    LET e == TrimEnd(t, a, LineEnd(t, a))
        p == SkipWs(t, a)
        eq == FirstOf(t, a, e, {"="})
        vs == SkipWs(t, eq + 1)
        vlen == IF vs > e THEN Len(t) + 1 ELSE e - vs + 1
        Key(fields) == {k \in fields : KeyMatch(t, p, k)}
        Set(k, legal, value) == IF legal THEN Good([pol EXCEPT ![k] = value]) ELSE Garbage(pol)
    IN  IF e < a \/ t[p] = "#" \/ eq > e THEN Good(pol)
        ELSE IF vs = e + 1 THEN Garbage(pol)
        ELSE CASE Key(DOMAIN Bounds) # {} ->
                    LET k == CHOOSE k \in Key(DOMAIN Bounds) : TRUE
                        n == IF IsU32(t, vs) THEN Number[t[vs]] ELSE 0
                    IN  Set(k, n \in Bounds[k], n)
             [] KeyMatch(t, p, "label") ->
                    Set("label", TRUE, SubSeq(t, vs, Min({vs + vlen - 1, vs + LabelCap - 2, Len(t)})))
             [] Key(DOMAIN Choice) # {} ->
                    LET k == CHOOSE k \in Key(DOMAIN Choice) : TRUE
                    IN  Set(k, vlen = 1 /\ t[vs] \in Choice[k], t[vs])
             [] OTHER -> Good(pol)

\* display_policy_parse(): settings before the line that is garbage have been made.
Parse(pol, t) ==
    FoldLeft(LAMBDA r, a : IF r.ok THEN ParseLine(r.pol, t, a) ELSE r, Good(pol), Lines(t))

\* display_policy_try_load_vfs(), of a file that is there; the variant has no backup.
LoadPolicyPartly(pol, t) ==
    LET r == Parse(pol, FirstPart(t, ConfCap))
    IN  IF r.ok THEN [r.pol EXCEPT !.from_file = TRUE] ELSE r.pol
LoadPolicy(pol, t) ==
    LET r == Parse(pol, FirstPart(t, ConfCap))
    IN  IF r.ok THEN [r.pol EXCEPT !.from_file = TRUE] ELSE pol

-----------------------------------------------------------------------------
(* What follows from the policy. *)

Clamp(x, lo, hi) == Max({lo, Min({x, hi})})

\* display_policy_apic_timer_hz(): the first multiple that is fast enough.
ApicTimerHz(refresh) ==
    LET r == IF refresh < 30 THEN 60 ELSE Min({refresh, 360})
        fits == {m \in 10 .. 80 : r * m \in 1000 .. 8000}
    IN  r * IF fits = {} THEN 10 ELSE Min(fits)
CompositorHz(refresh) == Clamp(refresh, 30, 360)

\* display_init(): the policy counts only if it came from the file.
ScreenSize(pol, scanout) ==
    IF pol.from_file THEN <<Min({pol.width, scanout[1]}), Min({pol.height, scanout[2]})>> ELSE scanout

\* lapic_timer_init(): timer_hz, the reload count, and tsc_hz.  cal is what was counted
\* in the 10 ms of the PIT.
TimerInit(hz0, cal) ==
    LET hz == Max({hz0, 100})
        consumed == IF cal.lapic < 500 THEN 200000 ELSE cal.lapic
        fast == Max({(consumed * 100) \div 10000, 32})
        slow0 == (consumed * 100) \div 40
        slow == IF slow0 < fast + 1 THEN fast + 1000 ELSE slow0
    IN  [hz |-> hz, count |-> Clamp((consumed * 100) \div hz, fast, slow), perSecond |-> consumed * 100,
         tsc |-> cal.tsc * 100]
=============================================================================
