------------------------------ MODULE Pointers ------------------------------
(***************************************************************************)
(* Which device moves the pointer: mouse_init() of drivers/mouse.c, the    *)
(* probe of drivers/i2c_hid_mouse.c, and mouse_poll(), composed with the   *)
(* virtio queue (Tablet) and the I2C master (I2cBus).  The USB driver has  *)
(* a module of its own (Xhci) and is here only the answer of its           *)
(* initialisation; the PS/2 mouse is in module Input.                      *)
(***************************************************************************)
EXTENDS Tablet, I2cBus

CONSTANTS
    Machines,       \* [policy, qmax, range, events, buses, maxIn, usb, aux]: the configured
                    \* pointer= setting; the tablet's queue size (0: no tablet), the range
                    \* of its axes and its events; the LPSS devices and the touchpad's
                    \* report size; whether USB finds a mouse; the PS/2 mouse ("none",
                    \* "plain" or "wheel").  A bus is [dw, slave, reg]: a DesignWare master or not, and
                    \* where its touchpad answers (0: nowhere)
    Slaves, Regs,   \* how many addresses and descriptor registers are tried
    DescLen,        \* bytes of a HID descriptor (30)
    CommandLen,     \* bytes of a command (4)
    PointerLen      \* bytes of a register pointer (2)

ASSUME PointersAssumption ==
    /\ \A m \in Machines : /\ m.policy \in {"auto", "ps2", "virtio", "usb", "i2c"}
                           /\ m.qmax \in Nat /\ m.range \in Int \X Int /\ m.maxIn \in Nat
                           /\ m.events \in Seq(Events)
                           /\ m.buses \in Seq([dw : BOOLEAN, slave : Nat, reg : Nat])
    /\ Masters = Pollers \cup {"boot"}
    /\ {Slaves, Regs, DescLen, CommandLen, PointerLen} \subseteq Nat \ {0}

VARIABLES
    machine,
    setup,      \* mouse_init(): "start", then the backend it tries, then "done"
    probe,      \* [stage, bus, reg, slave] of i2c_hid_mouse_init()
    pad,        \* g_active of i2c_hid_mouse.c
    usb,        \* usb_xhci_mouse_active()
    ps2,        \* pkt_expect once mouse_init_ps2_aux() has run, else 0
    hint        \* backend named in the boot hint

setupVars == <<setup, probe, pad, usb, ps2, hint>>
vars == <<machine, setupVars, tabletVars, busVars>>

-----------------------------------------------------------------------------
(* mouse_init() *)

\* try_virtio, try_i2c, try_usb; a failed pointer=i2c tries USB too.
Tries(policy) ==
    CASE policy = "auto" -> {"virtio", "i2c", "usb"}
      [] policy = "ps2" -> {}
      [] policy = "i2c" -> {"i2c", "usb"}
      [] OTHER -> {policy}

\* mouse_boot_hint_refresh()
HintBackend(virtio, i2c, xhci) ==
    IF virtio THEN "virtio" ELSE IF i2c THEN "i2c" ELSE IF xhci THEN "usb" ELSE "ps2"
Done == setup' = "done" /\ hint' = HintBackend(tab'.active, pad', usb')

TryVirtio ==
    /\ setup = "start"
    /\ IF "virtio" \notin Tries(machine.policy)
       THEN setup' = "i2c" /\ UNCHANGED <<vq, tab, hint>>
       ELSE /\ TabletProbe(machine.qmax, machine.range)
            /\ IF tab'.active THEN Done ELSE setup' = "i2c" /\ UNCHANGED hint
    /\ UNCHANGED <<machine, probe, pad, usb, ps2, dev, tpoll, overlap, handled, mouse, busVars>>

SkipI2c ==
    /\ setup = "i2c" /\ "i2c" \notin Tries(machine.policy)
    /\ setup' = "usb"
    /\ UNCHANGED <<machine, probe, pad, usb, ps2, hint, tabletVars, busVars>>

TryUsb ==
    /\ setup = "usb"
    /\ usb' = (machine.usb /\ "usb" \in Tries(machine.policy))
    /\ UNCHANGED <<pad, tab>>
    /\ IF usb' THEN Done ELSE setup' = "ps2" /\ UNCHANGED hint
    /\ UNCHANGED <<machine, probe, ps2, vq, dev, tpoll, overlap, handled, mouse, busVars>>

\* A command to the mouse is acknowledged, or the bounded waits run out.
Acked == machine.aux # "none"

\* ps2_detect_wheel_mode(): the mouse's id counts only if it is there at once.
WheelMode(prompt) == IF Acked /\ prompt /\ machine.aux = "wheel" THEN 4 ELSE 3

\* mouse_init_ps2_aux(): goes on with the defaults if the mouse does not answer.
InitPs2Aux ==
    /\ setup = "ps2"
    /\ \E prompt \in BOOLEAN : ps2' = WheelMode(prompt)
    /\ UNCHANGED <<pad, usb, tab>>
    /\ Done
    /\ UNCHANGED <<machine, probe, vq, dev, tpoll, overlap, handled, mouse, busVars>>

-----------------------------------------------------------------------------
(* i2c_hid_mouse_init(): every bus, register and address in turn. *)

Trying == setup = "i2c" /\ "i2c" \in Tries(machine.policy)
Bus == machine.buses[probe.bus]
Clear(p) == xfer' = [xfer EXCEPT ![p] = Idle]

\* Can what a transfer read be good?  Anything is possible if it was mixed with another.
Verdicts(x) == IF x.own \/ x.msg = "none" THEN {x.msg # "bad"} ELSE BOOLEAN

NextAttempt(p) ==
    IF p.slave < Slaves THEN [p EXCEPT !.stage = "bind", !.slave = @ + 1]
    ELSE IF p.reg < Regs THEN [p EXCEPT !.stage = "bind", !.slave = 1, !.reg = @ + 1]
    ELSE [stage |-> "bind", bus |-> p.bus + 1, reg |-> 1, slave |-> 1]

NoTouchpad ==
    /\ Trying /\ probe.stage = "bind" /\ probe.bus > Len(machine.buses)
    /\ setup' = "usb"
    /\ UNCHANGED <<machine, probe, pad, usb, ps2, hint, tabletVars, busVars>>

\* i2c_dw_bind_pci()
ProbeBind ==
    /\ Trying /\ probe.stage = "bind" /\ probe.bus <= Len(machine.buses)
    /\ dw' = [dw EXCEPT !.bound = Bus.dw]
    /\ probe' = IF Bus.dw THEN [probe EXCEPT !.stage = "desc"] ELSE NextAttempt(probe)
    /\ UNCHANGED <<machine, setup, pad, usb, ps2, hint, tabletVars, xfer>>

\* The descriptor is read, then power, reset and power again are written.
Answers == Bus.slave = probe.slave
Stages == <<"desc", "power", "reset", "again">>
NextStage(s) == Stages[CHOOSE i \in 2 .. 4 : Stages[i - 1] = s]
ProbeBegin ==
    /\ Trying /\ probe.stage # "bind"
    /\ IF probe.stage = "desc"
       THEN Begin("boot", PointerLen, DescLen, Answers, IF Bus.reg = probe.reg THEN "good" ELSE "bad")
       ELSE Begin("boot", CommandLen, 0, Answers, "none")
    /\ UNCHANGED <<machine, setupVars, tabletVars>>

\* What the attempt does after a failure: i2c_dw_unbind().  The next bus has a controller
\* of its own.  The variant forgets to give the controller back.
GiveUpBound == dw' = dw /\ probe' = NextAttempt(probe)
GiveUp ==
    /\ probe' = NextAttempt(probe)
    /\ \E acked \in Acks(dw) :
          dw' = IF probe'.bus # probe.bus THEN Unbound
                ELSE [Disabled(dw, acked) EXCEPT !.bound = FALSE]

ProbeEnd ==
    LET x == xfer["boot"]
    IN  \E sound \in Verdicts(x) :
        LET good == x.ok /\ sound
        IN
        /\ Trying /\ x.pc = "done" /\ Clear("boot")
        /\ \/ /\ probe.stage # "again" /\ ~good
              /\ GiveUp /\ UNCHANGED <<setup, pad, hint>>
           \/ /\ probe.stage # "again" /\ good
              /\ probe' = [probe EXCEPT !.stage = NextStage(@)] /\ UNCHANGED <<dw, setup, pad, hint>>
           \/ /\ probe.stage = "again"
              /\ pad' = TRUE /\ UNCHANGED <<dw, probe>>
              /\ setup' = "done" /\ hint' = HintBackend(tab.active, TRUE, usb)
        /\ UNCHANGED <<machine, usb, ps2, tabletVars>>

-----------------------------------------------------------------------------
(* mouse_poll() *)

Polled == IF usb THEN "usb" ELSE IF tab.active THEN "virtio" ELSE IF pad THEN "i2c" ELSE "ps2"

PollTablet(p) ==
    /\ setup = "done" /\ Polled = "virtio" /\ TabletPoll(p)
    /\ UNCHANGED <<machine, setupVars, busVars>>
DeviceSends == TabletSends /\ UNCHANGED <<machine, setupVars, busVars>>

\* i2c_hid_mouse_poll(): a message with a bad length or a report that does not decode
\* moves nothing.
PollPadBegin(p) ==
    /\ setup = "done" /\ Polled = "i2c"
    /\ \E msg \in {"good", "bad"} : Begin(p, 0, machine.maxIn, TRUE, msg)
    /\ UNCHANGED <<machine, setupVars, tabletVars>>
PollPadEnd(p) ==
    /\ setup = "done" /\ xfer[p].pc = "done" /\ Clear(p)
    /\ \E sound \in Verdicts(xfer[p]) :
          mouse' = IF xfer[p].ok /\ sound THEN [mouse EXCEPT !.x = Clip(@ + 1, 0, ScreenMax[1])]
                   ELSE mouse
    /\ UNCHANGED <<machine, setupVars, vq, dev, tab, tpoll, overlap, handled, dw>>

BusWork ==
    /\ BusCommand \/ BusAbort \/ \E p \in Masters : Master(p)
    /\ UNCHANGED <<machine, setupVars, tabletVars>>

-----------------------------------------------------------------------------

Init ==
    /\ machine \in Machines
    /\ TabletInit(machine.events) /\ BusInit
    /\ setup = "start" /\ hint = "none"
    /\ probe = [stage |-> "bind", bus |-> 1, reg |-> 1, slave |-> 1]
    /\ pad = FALSE /\ usb = FALSE /\ ps2 = 0

SetupStep ==
    \/ TryVirtio \/ SkipI2c \/ TryUsb \/ InitPs2Aux
    \/ NoTouchpad \/ ProbeBind \/ ProbeBegin \/ ProbeEnd
Polls == \E p \in Pollers : PollPadBegin(p) \/ PollPadEnd(p) \/ PollTablet(p)
Next == SetupStep \/ Polls \/ DeviceSends \/ BusWork

\* The boot code runs on: every wait in it is bounded.  Nothing is assumed of devices.
Spec == Init /\ [][Next]_vars
Driver == SetupStep \/ (Master("boot") /\ UNCHANGED <<machine, setupVars, tabletVars>>)
FairSpec == Spec /\ WF_vars(Driver)

-----------------------------------------------------------------------------
(* Properties. *)

\* Whatever fails on the way, mouse_init() comes to an end with one backend: the one
\* mouse_poll() will poll is completely set up, no other is active, the boot hint names
\* it, and the I2C controller is held only by the touchpad that uses it.
OneBackend ==
    /\ setup = "done" /\ hint = Polled
    /\ (ps2 # 0) = (Polled = "ps2")
    /\ tab.active = (Polled = "virtio") /\ pad = (Polled = "i2c") /\ usb = (Polled = "usb")
    /\ dw.bound = pad
SetupSettles == <>[]OneBackend
=============================================================================
