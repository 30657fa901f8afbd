----------------------------- MODULE BootConfig -----------------------------
(***************************************************************************)
(* kmain() from the mount of the archive on: the display policy, the       *)
(* theme, the screen, the timer and the first frames, each made from what  *)
(* came before it; then the threads.  Files holds the tree and the system  *)
(* calls, DisplayPolicy and Theme read the two configuration files from    *)
(* it, Pacing paints at the rate that follows.  The dock's thread reads    *)
(* the serial line, where "theme reload" loads the theme again.            *)
(***************************************************************************)
EXTENDS Files, Theme, Pacing

CONSTANTS
    ConfPath, TomlPath, JsonPath,
    BaseKey,      \* color.bg.base
    DefaultBase,  \* 0xff1e1e1e
    Scanout,      \* size of the framebuffer
    Calibrations, \* what may be counted in 10 ms: [lapic, tsc]
    SerialCap,    \* SERIAL_LINE_CAP
    Workloads     \* what happens: [archive, room, runs, typed]; runs is "calls", "frames" or "serial"

VARIABLES
    workload,
    stage,        \* the next step of kmain(): "policy", "theme", "display", "timer", "run"
    theme,        \* g_u32, g_rad, g_space, g_dur and g_font_family
    bg,           \* thread_args.bg
    screen,       \* size of the compositor's buffer
    script, typed, \* what is typed, and how much of it was read
    line,         \* s_serial_line up to s_serial_pos
    loads         \* history: how often the theme was loaded

confVars == <<workload, stage, policy, timer, theme, bg, screen, script, typed, line, loads>>
allVars == <<vars, paceVars, confVars>>

\* The bytes of a file that is there and is not empty.
Text(path) ==
    LET v == Lookup(path)
    IN  IF v = 0 \/ nodes[v].type # "file" THEN <<>>
        ELSE [k \in 1 .. nodes[v].size |-> archive.bytes[nodes[v].data + k - 1]]

-----------------------------------------------------------------------------
(* The steps of kmain(). *)

Step(from, to) == up /\ stage = from /\ stage' = to

PolicyStep ==
    /\ Step("policy", "theme")
    /\ policy' = IF Text(ConfPath) = <<>> THEN policy ELSE LoadPolicy(policy, Text(ConfPath))
    /\ UNCHANGED <<vars, paceVars, workload, timer, theme, bg, screen, script, typed, line, loads>>

\* try_load_from_vfs(), in ui_theme_init() and ui_theme_reload()
Load ==
    /\ theme' = LoadTheme(theme, Text(TomlPath), Text(JsonPath))
    /\ loads' = loads + 1

ThemeStep ==
    /\ Step("theme", "display")
    /\ Load
    /\ bg' = IF theme'.u32[BaseKey] = 0 THEN DefaultBase ELSE theme'.u32[BaseKey]
    /\ UNCHANGED <<vars, paceVars, workload, policy, timer, screen, script, typed, line>>

DisplayStep ==
    /\ Step("display", "timer")
    /\ screen' = ScreenSize(policy, Scanout)
    /\ UNCHANGED <<vars, paceVars, workload, policy, timer, theme, bg, script, typed, line, loads>>

TimerStep ==
    /\ Step("timer", "run")
    /\ \E cal \in Calibrations : timer' = TimerInit(ApicTimerHz(policy.refresh_hz), cal)
    /\ UNCHANGED <<vars, paceVars, workload, policy, theme, bg, screen, script, typed, line, loads>>

-----------------------------------------------------------------------------
(* The serial line. *)

\* line_streq_trimmed()
IsCommand(l) == SubSeq(l, SkipWs(l, 1), TrimEnd(l, 1, Len(l))) = <<"theme", "sp", "reload">>

\* One turn of the loop of ui_theme_serial_poll(); the callback of kmain() sets the
\* background (and draws the desktop's surfaces anew, which have no place here).
SerialChar ==
    LET c == script[typed + 1]
        ends == c = "nl"
    IN  /\ stage = "run" /\ workload = "serial" /\ typed < Len(script)
        /\ typed' = typed + 1
        /\ line' = IF ends THEN <<>>
                   ELSE IF c = "ctl" \/ Len(line) + 1 >= SerialCap THEN line ELSE Append(line, c)
        /\ IF ends /\ IsCommand(line)
           THEN Load /\ bg' = theme'.u32[BaseKey]
           ELSE UNCHANGED <<theme, loads, bg>>
        /\ UNCHANGED <<vars, paceVars, workload, stage, policy, timer, screen, script>>

-----------------------------------------------------------------------------

BootInit ==
    /\ \E w \in Workloads : archive = w.archive /\ limit = w.room /\ workload = w.runs /\ script = w.typed
    /\ Init /\ PacingInit
    /\ stage = "policy" /\ policy = Defaults /\ timer = [hz |-> 0, tsc |-> 0]
    /\ theme = NoTheme /\ bg = 0 /\ screen = <<0, 0>>
    /\ typed = 0 /\ line = <<>> /\ loads = 0

MountStep == (MountEntry \/ MountEnd) /\ UNCHANGED <<paceVars, confVars>>
SetUp == PolicyStep \/ ThemeStep \/ DisplayStep \/ TimerStep

Calls == stage = "run" /\ workload = "calls" /\ Syscall /\ UNCHANGED <<paceVars, confVars>>
Frames(step) == stage = "run" /\ workload = "frames" /\ step /\ UNCHANGED <<vars, confVars>>

BootNext == MountStep \/ SetUp \/ Calls \/ Frames(Paint) \/ Frames(Tick) \/ SerialChar

\* kmain() runs on, the clock ticks and the painting thread gets its turns.  Of SetUp it
\* is weak fairness too: it has a step to take, which moves the stage on, from the end
\* of the mount until the threads run.
SettingUp == workload = "frames" /\ up /\ stage # "run"
BootSpec ==
    /\ BootInit /\ [][BootNext]_allVars
    /\ WF_allVars(workload = "frames" /\ MountStep)
    /\ []<>~SettingUp \/ []<><<SetUp>>_allVars
    /\ WF_allVars(Frames(Paint)) /\ WF_allVars(Frames(Tick))

-----------------------------------------------------------------------------
(* What the files ask for.  archive.conf is the list of settings that display.conf      *)
(* spells, archive.look what the theme file spells: light, sets, family and whether it   *)
(* is well formed.                                                                       *)

\* The last of the pairs in list whose key is k and which Legal accepts, or default.
LastSet(list, k, Legal(_), default) ==
    FoldLeft(LAMBDA v, s : IF s.key = k /\ Legal(s) THEN s.value ELSE v, default, list)

LegalSetting(s) ==
    CASE s.key \in DOMAIN Bounds -> s.value \in Bounds[s.key]
      [] s.key \in DOMAIN Choice -> s.value \in Choice[s.key]
      [] OTHER -> TRUE
MeantPolicy(list) ==
    IF list = <<>> \/ \E i \in DOMAIN list : ~LegalSetting(list[i]) THEN Defaults
    ELSE [k \in DOMAIN Defaults |->
             CASE k = "from_file" -> TRUE
               [] k = "label" -> FirstPart(LastSet(list, k, LegalSetting, Defaults[k]), LabelCap)
               [] OTHER -> LastSet(list, k, LegalSetting, Defaults[k])]

InTree == up /\ Len(nodes) < limit

\* The display policy is what the file asks for, the last setting of a key counting, or,
\* if one line of it is not legal, the defaults and nothing else; the screen and the
\* timer follow it: no larger than the framebuffer, and ticks that come, as far as the
\* counter can tell, a whole number of times per refresh (display_policy_try_load_vfs,
\* display_init, lapic_timer_init: "integer multiple of configured refresh").
PolicyWhole ==
    /\ (InTree /\ stage # "policy") => policy = MeantPolicy(archive.conf)
    /\ stage \in {"timer", "run"} =>
          \A d \in 1 .. 2 : LET asked == <<policy.width, policy.height>>[d]
                            IN  screen[d] = IF policy.from_file /\ asked <= Scanout[d] THEN asked ELSE Scanout[d]
    /\ stage = "run" =>
          /\ timer.hz \in 1000 .. 8000 /\ timer.hz % policy.refresh_hz = 0
          /\ timer.perSecond \div timer.count \in 40 .. 10000
          /\ timer.perSecond >= 32 * timer.hz => timer.perSecond - timer.count * timer.hz \in 0 .. timer.hz - 1

\* Where the keys of a theme file may be set, and how far.
LegalToken(s) == s.key \in DOMAIN Plain => s.value <= Limit[s.key[1]]
Look == IF archive.look.ok THEN archive.look ELSE [archive.look EXCEPT !.light = FALSE, !.sets = <<>>, !.family = Family]
\* How many lines of the text are the command, blanks around it and control characters
\* aside, as far as a line is kept.
Commands(text) ==
    LET ends == {i \in DOMAIN text : text[i] = "nl"}
        Of(i) == SelectSeq(SubSeq(text, Max({j \in ends : j < i} \cup {0}) + 1, i - 1), LAMBDA c : c # "ctl")
        Spaces(n) == [k \in 1 .. n |-> "sp"]
    IN  Cardinality({i \in ends : \E a, b \in 0 .. SerialCap :
                        FirstPart(Of(i), SerialCap) = Spaces(a) \o <<"theme", "sp", "reload">> \o Spaces(b)})

\* Every token has the value the theme file gives it last, or that of the palette the
\* file chooses; with an error in it all are those of the dark one.  It is so again
\* after each reload, one for each command line typed, and the background is the one of
\* the theme (try_load_from_vfs, ui_theme_serial_poll, compositor_set_desktop_bg).
ThemeWhole ==
    (InTree /\ loads > 0) =>
        /\ \A k \in DOMAIN Dark :
              theme.u32[k] = LastSet(Look.sets, k, LegalToken, IF Look.light THEN Light[k] ELSE Dark[k])
        /\ \A k \in DOMAIN Plain : theme.plain[k] = LastSet(Look.sets, k, LegalToken, Plain[k])
        /\ theme.family = Look.family
        /\ bg = theme.u32[BaseKey]
        /\ loads = 1 + Commands(SubSeq(script, 1, typed))

\* Painting goes on for ever once the system is up.
FramesGoOn == (workload = "frames") ~> []<>(at = "frame")
=============================================================================
