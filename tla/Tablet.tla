------------------------------- MODULE Tablet -------------------------------
(***************************************************************************)
(* The virtio tablet (drivers/virtio_tablet.c): the device fills event     *)
(* buffers and hands them over in the used ring; virtio_tablet_poll()      *)
(* decodes them and gives the buffers back in the available ring.  The     *)
(* ring indices are counters of 16 bits that wrap (Word16); device and     *)
(* driver take them modulo the queue size.                                 *)
(*                                                                         *)
(* Pollers are the threads that call virtio_tablet_poll() through          *)
(* mouse_poll().  The function keeps its place in globals and has no lock. *)
(***************************************************************************)
EXTENDS Integers, Sequences

CONSTANTS
    QueueWant,      \* queue size the driver asks for (16)
    Word16,         \* 2^16
    Pollers,
    ScreenMax       \* <<width - 1, height - 1>>

Powers == {1, 2, 4, 8, 16}
Events == [kind : STRING, code : STRING, v : Int]

\* The ring indices wrap at a multiple of the queue's size.
ASSUME TabletAssumption ==
    /\ QueueWant \in Powers \ {1} /\ Word16 \in Nat /\ QueueWant < Word16
    /\ Word16 % QueueWant = 0
    /\ ScreenMax \in Nat \X Nat

VARIABLES
    vq,         \* the ring page: [size, avail, availIdx, used, usedIdx, buf]; size 0: none
    dev,        \* the device: [seen, todo, sent], its place in the available ring, the
                \* events still to come and those it delivered
    tab,        \* driver globals [active, last, range, absX, absY, haveX, haveY, outX, outY, btn]
    tpoll,      \* each poller: [pc, used, id]
    overlap,    \* history: a poll began while another was under way
    handled,    \* history: events decoded
    mouse       \* [x, y, btn]

tabletVars == <<vq, dev, tab, tpoll, overlap, handled, mouse>>

Clip(v, lo, hi) == IF v < lo THEN lo ELSE IF v > hi THEN hi ELSE v

\* setup_vq(): at most what the device offers, rounded down to a power of two.
\* The variant does not round.
QueueSizeAny(qmax) == IF QueueWant > qmax THEN qmax ELSE QueueWant
QueueSize(qmax) ==
    LET most == IF QueueWant > qmax THEN qmax ELSE QueueWant
    IN  CHOOSE p \in Powers : p <= most /\ most < 2 * p

\* Every buffer is available to the device from the start.
FreshQueue(qmax) ==
    LET q == QueueSize(qmax) IN
    [size |-> q, availIdx |-> q, usedIdx |-> 0,
     avail |-> [i \in 0 .. q - 1 |-> i], used |-> [i \in 0 .. q - 1 |-> 0],
     buf |-> [i \in 0 .. q - 1 |-> [kind |-> "none", code |-> "none", v |-> 0]]]
NoQueue == [size |-> 0, availIdx |-> 0, usedIdx |-> 0, avail |-> <<>>, used |-> <<>>, buf |-> <<>>]

\* virtio_tablet_shutdown() forgets the queue.
ShutDown ==
    [active |-> FALSE, last |-> 0, range |-> <<0, 0>>, absX |-> 0, absY |-> 0, haveX |-> FALSE, haveY |-> FALSE,
     outX |-> 0, outY |-> 0, btn |-> {}]

\* read_abs_range(): the device's, if it makes sense
AxisRange(range) == IF range[2] > range[1] THEN range ELSE <<0, 32767>>

\* walk_caps(): a capability is missing or lies outside of its BAR.
WalkCapsFails == vq' = NoQueue /\ tab' = ShutDown

\* virtio_tablet_probe_and_init(): no device, missing capabilities, features refused or
\* a queue that cannot be set up (qmax < 2, no page) all end in shutdown.
TabletProbe(qmax, range) ==
    \/ /\ qmax >= 2
       /\ vq' = FreshQueue(qmax)
       /\ tab' = [ShutDown EXCEPT !.active = TRUE, !.range = AxisRange(range),
                                  !.outX = (ScreenMax[1] + 1) \div 2,
                                  !.outY = (ScreenMax[2] + 1) \div 2]
    \/ WalkCapsFails
    \/ qmax < 2 /\ vq' = NoQueue /\ tab' = ShutDown

-----------------------------------------------------------------------------
(* The device. *)

\* The event goes to the next available buffer; without one it is lost.
TabletSends ==
    /\ vq.size > 0 /\ dev.todo # <<>>
    /\ IF dev.seen = vq.availIdx
       THEN vq' = vq /\ dev' = [dev EXCEPT !.todo = Tail(@)]
       ELSE LET id == vq.avail[dev.seen % vq.size] IN
            /\ vq' = [vq EXCEPT !.buf[id] = Head(dev.todo), !.used[vq.usedIdx % vq.size] = id,
                                !.usedIdx = (@ + 1) % Word16]
            /\ dev' = [seen |-> (dev.seen + 1) % Word16, todo |-> Tail(dev.todo),
                       sent |-> Append(dev.sent, Head(dev.todo))]
    /\ UNCHANGED <<tab, tpoll, overlap, handled, mouse>>

-----------------------------------------------------------------------------
(* virtio_tablet_poll() *)

NotPolling == [pc |-> "idle", used |-> 0, id |-> 0]

\* scale_abs(): onto the screen, whatever the device sends.
ScaleAbs(v, range, max) ==
    Clip(((v - range[1]) * max) \div (range[2] - range[1]), 0, max)

\* inject_mouse(): an axis that did not report keeps its place.
\* The variant scales the stored value again, also when none has come.
InjectAlways(t) ==
    [t EXCEPT !.outX = ScaleAbs(t.absX, t.range, ScreenMax[1]), !.outY = ScaleAbs(t.absY, t.range, ScreenMax[2]),
              !.haveX = FALSE, !.haveY = FALSE]
Inject(t) ==
    [t EXCEPT !.outX = IF t.haveX THEN ScaleAbs(t.absX, t.range, ScreenMax[1]) ELSE @,
              !.outY = IF t.haveY THEN ScaleAbs(t.absY, t.range, ScreenMax[2]) ELSE @,
              !.haveX = FALSE, !.haveY = FALSE]

\* handle_event()
Decoded(t, ev) ==
    CASE ev.kind = "abs" /\ ev.code = "x" -> [t EXCEPT !.absX = ev.v, !.haveX = TRUE]
      [] ev.kind = "abs" /\ ev.code = "y" -> [t EXCEPT !.absY = ev.v, !.haveY = TRUE]
      [] ev.kind = "key" -> [t EXCEPT !.btn = IF ev.v # 0 THEN @ \cup {ev.code} ELSE @ \ {ev.code}]
      [] ev.kind = "syn" -> Inject(t)
      [] OTHER -> t
AbsoluteInject(t) ==
    [x |-> Clip(t.outX, 0, ScreenMax[1]), y |-> Clip(t.outY, 0, ScreenMax[2]), btn |-> t.btn]

TabletPollStart(p) ==
    /\ tpoll[p].pc = "idle" /\ tab.active
    /\ tpoll' = [tpoll EXCEPT ![p] = [@ EXCEPT !.pc = "next", !.used = vq.usedIdx]]
    /\ overlap' = (overlap \/ \E q \in Pollers : tpoll[q].pc # "idle")
    /\ UNCHANGED <<vq, dev, tab, handled, mouse>>

TabletPollEvent(p) ==
    LET id == vq.used[tab.last % vq.size]
        ev == vq.buf[id]
    IN  /\ tpoll[p].pc = "next" /\ tab.last # tpoll[p].used
        /\ tpoll' = [tpoll EXCEPT ![p] = [@ EXCEPT !.pc = "return", !.id = id]]
        /\ tab' = Decoded(tab, ev)
        /\ mouse' = IF ev.kind = "syn" THEN AbsoluteInject(tab') ELSE mouse
        /\ handled' = Append(handled, ev)
        /\ UNCHANGED <<vq, dev, overlap>>

\* The buffer goes back to the device once its event is decoded.
TabletPollReturn(p) ==
    /\ tpoll[p].pc = "return"
    /\ tpoll' = [tpoll EXCEPT ![p].pc = "next"]
    /\ tab' = [tab EXCEPT !.last = (@ + 1) % Word16]
    /\ vq' = [vq EXCEPT !.avail[vq.availIdx % vq.size] = tpoll[p].id, !.availIdx = (@ + 1) % Word16]
    /\ UNCHANGED <<dev, overlap, handled, mouse>>

TabletPollEnd(p) ==
    /\ tpoll[p].pc = "next" /\ tab.last = tpoll[p].used
    /\ tpoll' = [tpoll EXCEPT ![p] = NotPolling]
    /\ UNCHANGED <<vq, dev, tab, overlap, handled, mouse>>

TabletPoll(p) == TabletPollStart(p) \/ TabletPollEvent(p) \/ TabletPollReturn(p) \/ TabletPollEnd(p)

TabletInit(events) ==
    /\ vq = NoQueue /\ tab = ShutDown /\ handled = <<>>
    /\ dev = [seen |-> 0, todo |-> events, sent |-> <<>>]
    /\ tpoll = [p \in Pollers |-> NotPolling] /\ overlap = FALSE
    /\ mouse = [x |-> 0, y |-> 0, btn |-> {}]

-----------------------------------------------------------------------------
(* Properties. *)

\* Every event the device delivers is decoded once, unchanged and in order, across the
\* wrap of the 16-bit ring indices and while the device refills buffers the driver has
\* just returned (virtio_tablet_poll), whichever threads poll one after the other.  The
\* claim ends when one begins a poll while another is in the middle of its own.
EventsInOrder ==
    ~overlap => Len(handled) <= Len(dev.sent) /\ \A i \in DOMAIN handled : handled[i] = dev.sent[i]

\* The last event of a kind the driver has decoded up to its last report, if any.
LastReport == {i \in DOMAIN handled : handled[i].kind = "syn"
                    /\ \A j \in i + 1 .. Len(handled) : handled[j].kind # "syn"}
LastOf(kind, code) ==
    {handled[i] : i \in {i \in DOMAIN handled : handled[i].kind = kind /\ handled[i].code = code
        /\ \E r \in LastReport : i < r
              /\ \A j \in i + 1 .. r : ~(handled[j].kind = kind /\ handled[j].code = code)}}
Axis(code, k) == LET last == LastOf("abs", code)
                 IN  IF last = {} THEN {(ScreenMax[k] + 1) \div 2}
                     ELSE {ScaleAbs(ev.v, tab.range, ScreenMax[k]) : ev \in last}

\* The pointer stands where the last complete report put it: on each axis the newest
\* coordinate sent before that report, or the middle of the screen if that axis never
\* reported, and with the buttons as last reported (handle_event, inject_mouse), up to
\* the first overlap of two polls.
PointerFollows ==
    (~overlap /\ tab.active /\ LastReport # {}) =>
        /\ mouse.x \in Axis("x", 1) /\ mouse.y \in Axis("y", 2)
        /\ \A b \in {"left", "right", "middle"} :
              b \in mouse.btn <=> \E ev \in LastOf("key", b) : ev.v # 0
=============================================================================
