-------------------------------- MODULE Xhci --------------------------------
(***************************************************************************)
(* The USB mouse driver, drivers/usb_xhci_mouse.c: the scan of controllers  *)
(* and ports, the enumeration of a device by commands and control           *)
(* transfers, and the polling of reports.                                   *)
(*                                                                          *)
(* Driver and host controller share rings of transfer request blocks        *)
(* (TRBs).  A TRB belongs to the consumer when its cycle bit equals the     *)
(* consumer's; a link TRB at the end sends it back to the start and flips   *)
(* the bit.  The controller is hardware and is modelled as the driver       *)
(* relies on it: it runs concurrently, completes work in ring order,        *)
(* succeeding or failing, and posts events, some of which nobody waits for; *)
(* it may also never answer.                                                *)
(* An Address Device command loads the dequeue pointer of endpoint 0 from   *)
(* the context it is given.                                                 *)
(*                                                                          *)
(* A TRB is an operation and its owner bit, a data buffer holds the name of *)
(* the request it answers, a report is a number.                            *)
(***************************************************************************)
EXTENDS Integers, Sequences, FiniteSets

CONSTANTS
    Scenarios,      \* [bus, faults, noise]: what is plugged in, a sequence (controllers)
                    \* of sequences (ports) of devices [kind, evals, alt]; bounds on
                    \* failures and on events nobody waits for (timeouts are not bounded)
    RingTrbs,       \* RING_TRBS, the link included, for each ring
    EvtTrbs,        \* EVT_TRBS
    MaxSlots,       \* slots the controller has
    MaxReports,     \* bound on reports the mouse sends
    Pollers         \* threads that call usb_xhci_mouse_poll()

ASSUME XhciAssumption ==
    /\ RingTrbs \in [{"cmd", "ep0", "int"} -> Nat \ (0 .. 2)]
    /\ EvtTrbs \in Nat \ (0 .. 1) /\ MaxSlots \in Nat
    /\ \A s \in Scenarios : s.faults \in Nat /\ s.noise \in Nat
    /\ MaxReports \in Nat

VARIABLES
    bus,        \* the bus of this behaviour
    ring,       \* the driver's rings "cmd", "ep0" and "int": [trb, enq, cyc]
    evt,        \* the event ring: [trb, deq, cyc], the last two the driver's
    hc,         \* the controller: [cmd, ep0, int, evt, slots, db]
    drv,        \* [pc, step, trb, con, port, slot, dcbaa, active, done]
    buf,        \* g_ctrl_buf: the request it holds the answer to
    answer,     \* history: <<request, answer>> of the last IN transfer that succeeded
    intBuf,     \* g_int_buf: the report in it
    reports,    \* history: [sent, decoded, injected]
    poll,       \* each poller: [pc, ev]
    lost,       \* history: a step of a bring-up or an enumeration failed, or was given up
                \* while the controller was still to answer
    overlap,    \* history: an event was read while another poller was about to advance
    faults, noise

vars == <<bus, ring, evt, hc, drv, buf, answer, intBuf, reports, poll, lost, overlap, faults, noise>>

Queues == {"cmd", "ep0", "int"}
NoOp == [op |-> "none", arg |-> 0]
EmptyTrb == [cyc |-> 0, op |-> NoOp]

-----------------------------------------------------------------------------
(* Rings. *)

EmptyRing(q) == [trb |-> [i \in 0 .. RingTrbs[q] - 1 |-> EmptyTrb], enq |-> 0, cyc |-> 1]
Link(r) == Cardinality(DOMAIN r.trb) - 1
Consumer == [deq |-> 0, ccs |-> 1]

\* cmd_push(), ep0_push() and int_push(): the link is written when the ring wraps.
Push(r, op) ==
    LET put == [r EXCEPT !.trb[r.enq] = [cyc |-> r.cyc, op |-> op], !.enq = @ + 1]
    IN  IF put.enq < Link(r) THEN put
        ELSE [put EXCEPT !.trb[Link(r)] = [cyc |-> r.cyc, op |-> [NoOp EXCEPT !.op = "link"]],
                         !.enq = 0, !.cyc = 1 - @]

\* evt_advance()
Advance(e) ==
    IF e.deq + 1 < EvtTrbs THEN [e EXCEPT !.deq = @ + 1]
    ELSE [e EXCEPT !.deq = 0, !.cyc = 1 - @]
NextEvent == evt.trb[evt.deq].op
EventReady == evt.trb[evt.deq].cyc = evt.cyc

-----------------------------------------------------------------------------
(* The controller (hardware). *)

Event(type, q, src, cc, slot) == [op |-> type, q |-> q, src |-> src, cc |-> cc, slot |-> slot]

\* The event ring is full when the next place is the one the driver will read.
EventRoom == (hc.evt.deq + 1) % EvtTrbs # evt.deq
Post(ev) == evt' = [evt EXCEPT !.trb[hc.evt.deq] = [cyc |-> hc.evt.ccs, op |-> ev]]
Posted(h) ==
    IF h.evt.deq + 1 < EvtTrbs THEN [h EXCEPT !.evt.deq = @ + 1]
    ELSE [h EXCEPT !.evt = [deq |-> 0, ccs |-> 1 - @.ccs]]

AtHc(q) == ring[q].trb[hc[q].deq]
Owned(q) == q \in hc.db /\ AtHc(q).cyc = hc[q].ccs
Past(q) == [hc EXCEPT ![q].deq = @ + 1]
Quiet == UNCHANGED <<bus, ring, drv, answer, poll, lost, overlap>>

\* Nothing owned: wait for the doorbell.  A link: back to the start.
HcStop(q) ==
    /\ q \in hc.db /\ AtHc(q).cyc # hc[q].ccs
    /\ hc' = [hc EXCEPT !.db = @ \ {q}]
    /\ Quiet /\ UNCHANGED <<evt, buf, intBuf, reports, faults, noise>>
HcLink(q) ==
    /\ Owned(q) /\ AtHc(q).op.op = "link"
    /\ hc' = [hc EXCEPT ![q] = [deq |-> 0, ccs |-> 1 - @.ccs]]
    /\ Quiet /\ UNCHANGED <<evt, buf, intBuf, reports, faults, noise>>

\* A command succeeds, or fails at the cost of a fault.
HcCommand ==
    LET op == AtHc("cmd").op
        on == Past("cmd")
    IN  /\ Owned("cmd") /\ op.op # "link" /\ EventRoom
        /\ \E ok \in BOOLEAN :
              /\ faults' = IF ok THEN faults ELSE faults - 1
              /\ faults' >= 0
              /\ (op.op = "enable" /\ hc.slots = MaxSlots) => ~ok
              /\ Post(Event("cmd", "cmd", hc.cmd.deq, ok, IF op.op = "enable" THEN hc.slots + 1 ELSE 0))
              /\ hc' = Posted(
                    IF ~ok THEN on
                    ELSE IF op.op = "enable" THEN [on EXCEPT !.slots = @ + 1]
                    ELSE IF op.op \in {"bsr", "address"} THEN [on EXCEPT !.ep0 = [deq |-> 0, ccs |-> op.arg]]
                    ELSE IF op.op = "config" THEN [on EXCEPT !.int = [deq |-> 0, ccs |-> op.arg]]
                    ELSE on)
        /\ Quiet /\ UNCHANGED <<buf, intBuf, reports, noise>>

\* Endpoint 0: the data stage fills the buffer, the status stage posts an event.
HcControl ==
    LET op == AtHc("ep0").op
    IN  /\ Owned("ep0") /\ op.op \in {"setup", "data", "status"}
        /\ \/ /\ op.op # "status" /\ hc' = Past("ep0")
              /\ buf' = IF op.op = "data" THEN op.arg ELSE buf
              /\ UNCHANGED <<evt, faults>>
           \/ /\ op.op = "status" /\ EventRoom
              /\ \E ok \in BOOLEAN : /\ faults' = (IF ok THEN faults ELSE faults - 1) /\ faults' >= 0
                                     /\ Post(Event("xfer", "ep0", hc.ep0.deq, ok, drv.slot))
              /\ hc' = Posted(Past("ep0")) /\ UNCHANGED buf
        /\ Quiet /\ UNCHANGED <<intBuf, reports, noise>>

\* The mouse has a report, or its transfer fails.
HcReport ==
    /\ Owned("int") /\ AtHc("int").op.op = "normal" /\ EventRoom
    /\ \/ /\ reports.sent < MaxReports
          /\ reports' = [reports EXCEPT !.sent = @ + 1] /\ intBuf' = reports.sent + 1
          /\ Post(Event("xfer", "int", hc.int.deq, TRUE, drv.slot)) /\ UNCHANGED faults
       \/ /\ faults > 0 /\ faults' = faults - 1
          /\ Post(Event("xfer", "int", hc.int.deq, FALSE, drv.slot)) /\ UNCHANGED <<reports, intBuf>>
    /\ hc' = Posted(Past("int"))
    /\ Quiet /\ UNCHANGED <<buf, noise>>

\* Port status changes post events of their own, and so do late transfers of a slot
\* that was given up.
HcNoise ==
    /\ drv.pc \in {"issue", "wait", "active"} /\ noise > 0 /\ noise' = noise - 1 /\ EventRoom
    /\ \E type \in {"port", "xfer"} : Post(Event(type, "old", 0, TRUE, 0))
    /\ hc' = Posted(hc)
    /\ Quiet /\ UNCHANGED <<buf, intBuf, reports, faults>>

-----------------------------------------------------------------------------
(* The driver: probe_port() as a list of steps. *)

\* "host" steps work on memory and registers, "cmd" steps are commands, "in" and "out"
\* steps control transfers; the result of an optional step is ignored.
Step(name, kind, must) == [name |-> name, kind |-> kind, must |-> must]
Steps == <<Step("reset", "host", TRUE),     Step("enable", "cmd", TRUE),
           Step("alloc", "host", TRUE),     Step("bsr", "cmd", TRUE),
           Step("dev8", "in", TRUE),        Step("eval", "cmd", FALSE),
           Step("address", "cmd", TRUE),    Step("dev18", "in", TRUE),
           Step("cfg9", "in", TRUE),        Step("total", "host", TRUE),
           Step("cfg", "in", TRUE),         Step("parse", "host", TRUE),
           Step("setconfig", "out", TRUE),  Step("setif", "out", FALSE),
           Step("protocol", "out", FALSE),  Step("idle", "out", FALSE),
           Step("config", "cmd", TRUE),     Step("arm", "host", TRUE)>>
Cur == Steps[drv.step]
Ports == bus[drv.con]
Device == Ports[drv.port]
Skips(s) == (s.name = "eval" /\ ~Device.evals) \/ (s.name = "setif" /\ ~Device.alt)

\* usb_xhci_mouse_init() goes on to the next controller, or ends the scan.
NextController(d) ==
    IF d.con < Len(bus) THEN [d EXCEPT !.pc = "bringup", !.con = @ + 1]
    ELSE [d EXCEPT !.pc = "done", !.done = TRUE]

\* try_controller() after a port failed: the slot is forgotten, never disabled.
FailPort(d) ==
    [d EXCEPT !.pc = "scan", !.port = @ + 1, !.slot = 0, !.dcbaa = @ \ {d.slot}]
NextStep(d) == [d EXCEPT !.pc = "issue", !.step = @ + 1]

\* wait_for_any_ccs()
AnyConnected == \E p \in DOMAIN Ports : Ports[p].kind # "none"

\* xhci_bringup(): new rings, or failure.
Bringup ==
    /\ drv.pc = "bringup"
    /\ \E ok \in BOOLEAN :
          /\ faults' = (IF ok THEN faults ELSE faults - 1) /\ faults' >= 0
          /\ lost' = (lost \/ ~ok)
          /\ drv' = IF ok /\ AnyConnected
                    THEN [drv EXCEPT !.pc = "scan", !.port = 1, !.slot = 0, !.dcbaa = {}]
                    ELSE NextController([drv EXCEPT !.slot = 0, !.dcbaa = {}])
    /\ ring' = [q \in Queues |-> EmptyRing(q)]
    /\ evt' = [trb |-> [i \in 0 .. EvtTrbs - 1 |-> EmptyTrb], deq |-> 0, cyc |-> 1]
    /\ hc' = [cmd |-> Consumer, ep0 |-> Consumer, int |-> Consumer, evt |-> Consumer,
              slots |-> 0, db |-> {}]
    /\ UNCHANGED <<bus, buf, answer, intBuf, reports, poll, overlap, noise>>

\* The loop over the root ports.
ScanPort ==
    /\ drv.pc = "scan"
    /\ drv' = IF drv.port > Len(Ports) THEN NextController(drv)
              ELSE IF Device.kind = "none" THEN [drv EXCEPT !.port = @ + 1]
              ELSE [drv EXCEPT !.pc = "issue", !.step = 1]
    /\ UNCHANGED <<bus, ring, evt, hc, buf, answer, intBuf, reports, poll, lost, overlap, faults, noise>>

\* alloc_device_ctx() makes new rings for the device, int_arm_one() posts one transfer.
NewDeviceRings == [ring EXCEPT !["ep0"] = EmptyRing("ep0"), !["int"] = EmptyRing("int")]
Armed == [ring EXCEPT !["int"] = Push(@, [NoOp EXCEPT !.op = "normal"])]
Doorbell == [hc EXCEPT !.db = @ \cup {"int"}]

\* parse_config(): does the configuration have an interrupt endpoint of a HID interface?
HasHid(device) == device.kind = "mouse"

\* Steps that need no answer: port_reset(), alloc_device_ctx(), the check of the
\* configuration's length, parse_config(), and int_arm_one(), which ends the enumeration.
HostStep ==
    /\ drv.pc = "issue" /\ (Cur.kind = "host" \/ Skips(Cur))
    /\ \E ok \in BOOLEAN :
          LET fails == ~ok \/ (Cur.name = "parse" /\ ~HasHid(Device))
          IN  /\ ok \/ Cur.name \in {"reset", "alloc", "total"}
              /\ lost' = (lost \/ ~ok)
              /\ faults' = (IF ok THEN faults ELSE faults - 1) /\ faults' >= 0
              /\ drv' = IF fails THEN FailPort(drv)
                        ELSE IF Cur.name = "arm"
                        THEN [drv EXCEPT !.pc = "active", !.active = TRUE, !.done = TRUE]
                        ELSE NextStep(drv)
    /\ ring' = IF Cur.name = "alloc" THEN NewDeviceRings ELSE IF Cur.name = "arm" THEN Armed ELSE ring
    /\ hc' = IF Cur.name = "arm" THEN Doorbell
             ELSE IF Cur.name = "alloc" THEN [hc EXCEPT !.db = @ \ {"ep0", "int"}] ELSE hc
    /\ UNCHANGED <<bus, evt, buf, answer, intBuf, reports, poll, overlap, noise>>

\* The commands.  The context of an Address Device names the start of endpoint 0's ring
\* and a cycle bit, that of a Configure Endpoint the same of the interrupt ring.
EnableSlot == [op |-> "enable", arg |-> 0]
AddressBsr == [op |-> "bsr", arg |-> 1]
EvaluateContext == [op |-> "eval", arg |-> 0]
AddressDevice == [op |-> "address", arg |-> ring["ep0"].cyc]
ConfigureIntIn == [op |-> "config", arg |-> 1]
Command == CHOOSE c \in {EnableSlot, AddressBsr, EvaluateContext, AddressDevice, ConfigureIntIn} :
              c.op = Cur.name

\* Push, ring the doorbell, wait.
IssueCommand ==
    /\ drv.pc = "issue" /\ Cur.kind = "cmd" /\ ~Skips(Cur)
    /\ ring' = [ring EXCEPT !["cmd"] = Push(@, Command)]
    /\ hc' = [hc EXCEPT !.db = @ \cup {"cmd"}]
    /\ drv' = [drv EXCEPT !.pc = "wait", !.trb = ring["cmd"].enq,
                          !.dcbaa = IF Cur.name \in {"bsr", "address"} THEN @ \cup {drv.slot} ELSE @]
    /\ UNCHANGED <<bus, evt, buf, answer, intBuf, reports, poll, lost, overlap, faults, noise>>

\* control_xfer(): the buffer of an IN transfer is cleared first.
IssueControl ==
    LET setup == Push(ring["ep0"], [op |-> "setup", arg |-> Cur.name])
        data == IF Cur.kind = "in" THEN Push(setup, [op |-> "data", arg |-> Cur.name]) ELSE setup
    IN  /\ drv.pc = "issue" /\ Cur.kind \in {"in", "out"} /\ ~Skips(Cur)
        /\ ring' = [ring EXCEPT !["ep0"] = Push(data, [op |-> "status", arg |-> Cur.name])]
        /\ hc' = [hc EXCEPT !.db = @ \cup {"ep0"}]
        /\ buf' = IF Cur.kind = "in" THEN "zero" ELSE buf
        /\ drv' = [drv EXCEPT !.pc = "wait", !.trb = data.enq]
        /\ UNCHANGED <<bus, evt, answer, intBuf, reports, poll, lost, overlap, faults, noise>>

\* wait_event(): an event of the right type for the awaited TRB.  The variant takes
\* any event of the type.
Queue == IF Cur.kind = "cmd" THEN "cmd" ELSE "ep0"
MatchesType(ev) == ev.op = (IF Cur.kind = "cmd" THEN "cmd" ELSE "xfer")
Matches(ev) == MatchesType(ev) /\ ev.q = Queue /\ ev.src = drv.trb

\* What follows a success, and a failure or timeout.
Succeeds(ev) ==
    /\ drv' = NextStep([drv EXCEPT !.slot = IF Cur.name = "enable" THEN ev.slot ELSE @])
    /\ answer' = IF Cur.kind = "in" THEN <<Cur.name, buf>> ELSE answer
    /\ UNCHANGED lost
Fails == drv' = (IF Cur.must THEN FailPort(drv) ELSE NextStep(drv)) /\ UNCHANGED answer

WaitEvent ==
    /\ drv.pc = "wait" /\ EventReady
    /\ evt' = Advance(evt)
    /\ IF ~Matches(NextEvent) THEN UNCHANGED <<drv, answer, lost>>
       ELSE IF NextEvent.cc THEN Succeeds(NextEvent) ELSE Fails /\ lost' = TRUE
    /\ UNCHANGED <<bus, ring, hc, buf, intBuf, reports, poll, overlap, faults, noise>>

\* The budget is used up, whatever the controller does.  The variant counts events only.
WaitTimeoutEvents ==
    /\ drv.pc = "wait" /\ EventReady
    /\ Fails /\ lost' = TRUE
    /\ UNCHANGED <<bus, ring, evt, hc, buf, intBuf, reports, poll, overlap, faults, noise>>
WaitTimeout ==
    /\ drv.pc = "wait"
    /\ Fails /\ lost' = (lost \/ EventReady \/ Owned(Queue))
    /\ UNCHANGED <<bus, ring, evt, hc, buf, intBuf, reports, poll, overlap, faults, noise>>

-----------------------------------------------------------------------------
(* usb_xhci_mouse_poll(), one event at a time.  It has no lock: threads that *)
(* call it can preempt each other between any two steps.                     *)

Idle == [pc |-> "idle", ev |-> NoOp]

PollRead(p) ==
    /\ drv.active /\ poll[p].pc = "idle" /\ EventReady
    /\ poll' = [poll EXCEPT ![p] = [pc |-> "advance", ev |-> NextEvent]]
    /\ overlap' = (overlap \/ \E q \in Pollers : poll[q].pc = "advance")
    /\ UNCHANGED <<bus, ring, evt, hc, drv, buf, answer, intBuf, reports, lost, faults, noise>>

\* The place is given back; only events of the interrupt endpoint are looked at.  The
\* variant arms the next transfer here.
Interesting(ev) == ev.op = "xfer" /\ ev.slot = drv.slot /\ ev.q = "int"
PollAdvanceArms(p) ==
    /\ poll[p].pc = "advance" /\ evt' = Advance(evt)
    /\ poll' = [poll EXCEPT ![p] = IF Interesting(@.ev) THEN [@ EXCEPT !.pc = "decode"] ELSE Idle]
    /\ IF Interesting(poll[p].ev) THEN ring' = Armed /\ hc' = Doorbell ELSE UNCHANGED <<ring, hc>>
    /\ UNCHANGED <<bus, drv, buf, answer, intBuf, reports, lost, overlap, faults, noise>>
PollAdvance(p) ==
    /\ poll[p].pc = "advance" /\ evt' = Advance(evt)
    /\ poll' = [poll EXCEPT ![p] = IF Interesting(@.ev) THEN [@ EXCEPT !.pc = "decode"] ELSE Idle]
    /\ UNCHANGED <<bus, ring, hc, drv, buf, answer, intBuf, reports, lost, overlap, faults, noise>>

\* Decode the buffer and hand it to the pointer, if the transfer worked.  Odd reports
\* carry motion or a button, which hid_boot_decode_mouse_report() answers with 1; even
\* ones are all zero, which it answers with 0.
Decoded(r) == IF r % 2 = 1 THEN 1 ELSE 0
PollDecode(p) ==
    /\ poll[p].pc = "decode"
    /\ poll' = [poll EXCEPT ![p].pc = "arm"]
    /\ reports' = IF ~poll[p].ev.cc THEN reports
                  ELSE [reports EXCEPT !.decoded = Append(@, intBuf),
                                       !.injected = IF Decoded(intBuf) = 0 THEN Append(@, intBuf) ELSE @]
    /\ UNCHANGED <<bus, ring, evt, hc, drv, buf, answer, intBuf, lost, overlap, faults, noise>>

\* int_arm_one(), whether the transfer worked or not.  The variant arms after success.
PollArmGood(p) ==
    /\ poll[p].pc = "arm" /\ poll' = [poll EXCEPT ![p] = Idle]
    /\ IF poll[p].ev.cc THEN ring' = Armed /\ hc' = Doorbell ELSE UNCHANGED <<ring, hc>>
    /\ UNCHANGED <<bus, evt, drv, buf, answer, intBuf, reports, lost, overlap, faults, noise>>
PollArm(p) ==
    /\ poll[p].pc = "arm" /\ poll' = [poll EXCEPT ![p] = Idle]
    /\ ring' = Armed /\ hc' = Doorbell
    /\ UNCHANGED <<bus, evt, drv, buf, answer, intBuf, reports, lost, overlap, faults, noise>>

-----------------------------------------------------------------------------

Init ==
    /\ \E s \in Scenarios : bus = s.bus /\ faults = s.faults /\ noise = s.noise
    /\ ring = [q \in Queues |-> EmptyRing(q)]
    /\ evt = [trb |-> [i \in 0 .. EvtTrbs - 1 |-> EmptyTrb], deq |-> 0, cyc |-> 1]
    /\ hc = [cmd |-> Consumer, ep0 |-> Consumer, int |-> Consumer, evt |-> Consumer,
             slots |-> 0, db |-> {}]
    /\ drv = [pc |-> "bringup", step |-> 1, trb |-> 0, con |-> 1, port |-> 1, slot |-> 0,
              dcbaa |-> {}, active |-> FALSE, done |-> FALSE]
    /\ buf = "zero" /\ answer = <<"zero", "zero">> /\ intBuf = 0
    /\ reports = [sent |-> 0, decoded |-> <<>>, injected |-> <<>>]
    /\ poll = [p \in Pollers |-> Idle] /\ lost = FALSE /\ overlap = FALSE

Driver ==
    \/ Bringup \/ ScanPort \/ HostStep \/ IssueCommand \/ IssueControl \/ WaitEvent \/ WaitTimeout
Controller ==
    \/ \E q \in Queues : HcStop(q) \/ HcLink(q)
    \/ HcCommand \/ HcControl \/ HcReport
PollStep(p) == PollRead(p) \/ PollAdvance(p) \/ PollDecode(p) \/ PollArm(p)

Next == Driver \/ Controller \/ HcNoise \/ \E p \in Pollers : PollStep(p)

\* The driver runs in the boot thread and pollers in threads the scheduler keeps running.
\* Nothing is assumed of the controller: where a property needs one that goes on working
\* on what it has been given, it says so.
Spec == Init /\ [][Next]_vars
FairSpec == Spec /\ WF_vars(Driver) /\ \A p \in Pollers : WF_vars(PollStep(p))
ControllerWorks == /\ WF_vars(HcCommand) /\ WF_vars(HcControl) /\ WF_vars(HcReport)
                   /\ \A q \in Queues : WF_vars(HcLink(q))

-----------------------------------------------------------------------------
(* Properties. *)

\* When an IN transfer has succeeded, the buffer holds the answer to that request and
\* not to an earlier one, although the second Address Device sends endpoint 0 back to
\* requests it has already served (control_xfer, wait_event's source_trb).
ReplyIsMine == answer[1] = answer[2]

\* Every report is decoded once, in order, and before the next one can overwrite it:
\* one transfer is armed at a time (int_arm_one: "a single Normal TRB").  Compositor and
\* dock poll in any order and preempt each other while one decodes or arms; the claim
\* ends when one reads an event that the other has read and not yet advanced over.
ReportsOnce ==
    ~overlap =>
    /\ reports.decoded = [i \in 1 .. Len(reports.decoded) |-> i]
    /\ reports.sent - Len(reports.decoded) <= 1

\* The scan ends, with a mouse or without, whatever fails on the way and even if the
\* controller never answers (the file's head: "the boot path cannot hang forever").
ScanEnds == <>drv.done

\* With a controller that works, a mouse that is plugged in is found unless some step
\* fails or is given up too early: the driver never waits in vain, because its rings are
\* readable for the controller.  From then on it is heard: as long as it has
\* reports to send the next one is sent and decoded, over every wrap of the rings and
\* after transfers that failed without halting the endpoint (usb_xhci_mouse_poll:
\* "re-arm IN every report"), up to the first overlap of two polls.
HasMouse == \E c \in DOMAIN bus : \E p \in DOMAIN bus[c] : HasHid(bus[c][p])
ReportsHandled ==
    ControllerWorks => /\ HasMouse ~> (drv.active \/ lost)
                       /\ drv.active ~> (Len(reports.decoded) = MaxReports \/ overlap)

\* What was decoded reaches the pointer (mouse.h, mouse_rel_inject: "Relative motion +
\* buttons (USB HID boot, etc.)").
ReportsMovePointer ==
    \A p \in Pollers : poll[p].pc = "idle" => reports.injected = reports.decoded
=============================================================================
