------------------------------- MODULE Input -------------------------------
(***************************************************************************)
(* Keyboard and pointer input: drivers/keyboard.c, the PS/2 half and the   *)
(* dispatch of drivers/mouse.c, the interrupt vectors of exception.c that  *)
(* call them and the read of stdin.                                        *)
(*                                                                         *)
(* Keyboard and mouse share one output buffer of the 8042 controller.      *)
(* It is emptied by two interrupt handlers, which run without              *)
(* interruption, and by mouse_poll(), which the compositor and the dock    *)
(* call from their threads: there an interrupt or another thread can come  *)
(* between any two port accesses and between the load and the store of     *)
(* ring_push().  The step that files a mouse byte in pkt[] is one step.    *)
(*                                                                         *)
(* A character is a pair <<scan code, shifted>>: the table it is looked up  *)
(* in and the index.                                                        *)
(***************************************************************************)
EXTENDS Integers, Sequences

CONSTANTS
    Pollers,        \* threads that call mouse_poll()
    Traffic,        \* [backend, keys, aux]: who owns the pointer ("ps2" or "other") and
                    \* the bytes keyboard and PS/2 mouse may send
    Mapped,         \* scan codes with a character
    Letters,        \* ... that caps lock applies to
    RingSize,       \* RING_SIZE
    ReadMax,        \* the reader's buffer
    PollReads,      \* bytes one poll takes at most (128)
    PktExpect,      \* pkt_expect: 3, or 4 with a wheel
    Screens,        \* screen sizes <<width, height>>
    Jumps,          \* coordinates and deltas other drivers inject
    NoByte

ASSUME InputAssumption ==
    /\ \A t \in Traffic : /\ t.backend = "ps2" \/ (t.backend = "other" /\ t.aux = <<>>)
                         /\ t.keys \in Seq(0 .. 255) /\ t.aux \in Seq(0 .. 255)
    /\ RingSize \in Nat \ {0, 1} /\ ReadMax \in Nat \ {0} /\ PollReads \in Nat \ {0}
    /\ PktExpect \in {3, 4}
    /\ Screens \subseteq (Nat \ {0}) \X (Nat \ {0})

VARIABLES
    kq, aq,     \* what keyboard and mouse have still to send
    ob,         \* output buffer of the controller: NoByte or [aux, val]
    last,       \* the byte read before, which an empty data port returns again
    irq,        \* interrupts pending: subset of {"kbd", "aux"}
    keys,       \* [shift, caps]
    ring,       \* [buf, head, tail]
    pushed,     \* history: characters ring_push() stored
    misread,    \* history: a byte of the mouse was decoded as a scan code
    reader,     \* the thread in sys_read(0): [pc, n, got]
    mouse,      \* [x, y, btn]
    screen,     \* <<scr_w, scr_h>>
    pkt,        \* the first pkt_i bytes of the packet under way
    poll,       \* each poller: [pc, reads, aux, byte, head, tail]
    backend

keyVars == <<keys, ring, pushed, misread>>
portVars == <<kq, aq, ob, last, irq>>
inputVars == <<portVars, keyVars, reader, mouse, screen, pkt, poll, backend>>

Bit(b, n) == (b \div 2^n) % 2 = 1
Clamp(v, lo, hi) == IF v < lo THEN lo ELSE IF v > hi THEN hi ELSE v

-----------------------------------------------------------------------------
(* The controller (hardware). *)

\* A byte moves to the output buffer and raises its interrupt; the mouse's may be lost.
Refill ==
    /\ ob = NoByte
    /\ \/ /\ kq # <<>> /\ ob' = [aux |-> FALSE, val |-> Head(kq)] /\ kq' = Tail(kq)
          /\ irq' = irq \cup {"kbd"} /\ UNCHANGED aq
       \/ /\ aq # <<>> /\ ob' = [aux |-> TRUE, val |-> Head(aq)] /\ aq' = Tail(aq)
          /\ irq' \in {irq, irq \cup {"aux"}} /\ UNCHANGED kq
    /\ UNCHANGED <<last, keyVars, reader, mouse, screen, pkt, poll, backend>>

OutputFull == ob # NoByte
StatusAux == OutputFull /\ ob.aux
DataPort == IF OutputFull THEN ob ELSE last
TakeByte == ob' = NoByte /\ last' = DataPort

-----------------------------------------------------------------------------
(* The keyboard. *)

ShiftKeys == {42, 54}       \* 0x2A and 0x36
CapsKey == 58               \* 0x3A

\* keyboard_ps2_handle_byte(), the modifiers
Modifiers(k, sc) ==
    [shift |-> IF sc % 128 \in ShiftKeys THEN ~Bit(sc, 7) ELSE k.shift,
     caps  |-> IF sc = CapsKey THEN ~k.caps ELSE k.caps]

\* ... and the character, if the byte makes one
Char(k, sc) == <<sc, k.shift # (k.caps /\ sc \in Letters)>>
MakesChar(sc) == sc \in Mapped

\* ring_push(): one slot stays empty.  The variant uses it.
NextSlot(i) == (i + 1) % RingSize
RingFullNever(h, t) == FALSE
RingFull(h, t) == NextSlot(h) = t
Push(r, h, c) == [r EXCEPT !.buf[h] = c, !.head = NextSlot(h)]

\* The whole handler, without interruption.
HandleKey(sc) ==
    /\ keys' = Modifiers(keys, sc)
    /\ IF MakesChar(sc) /\ ~RingFull(ring.head, ring.tail)
       THEN /\ ring' = Push(ring, ring.head, Char(keys, sc))
            /\ pushed' = Append(pushed, Char(keys, sc))
       ELSE UNCHANGED <<ring, pushed>>

\* stdin_has_data(), then stdin_try_read() one character at a time.
ReadStart ==
    /\ reader.pc = "wait" /\ ring.head # ring.tail
    /\ reader' = [reader EXCEPT !.pc = "copy", !.n = 0]
    /\ UNCHANGED <<portVars, keyVars, mouse, screen, pkt, poll, backend>>
ReadDone ==
    /\ reader.pc = "copy" /\ (reader.n = ReadMax \/ ring.head = ring.tail)
    /\ reader' = [reader EXCEPT !.pc = "wait", !.n = 0]
    /\ UNCHANGED <<portVars, keyVars, mouse, screen, pkt, poll, backend>>
ReadCopy ==
    /\ reader.pc = "copy" /\ reader.n < ReadMax /\ ring.head # ring.tail
    /\ reader' = [reader EXCEPT !.pc = "store", !.n = @ + 1, !.got = Append(@, ring.buf[ring.tail])]
    /\ UNCHANGED <<portVars, keyVars, mouse, screen, pkt, poll, backend>>
ReadStore ==
    /\ reader.pc = "store"
    /\ reader' = [reader EXCEPT !.pc = "copy"]
    /\ ring' = [ring EXCEPT !.tail = NextSlot(@)]
    /\ UNCHANGED <<portVars, keys, pushed, misread, mouse, screen, pkt, poll, backend>>

-----------------------------------------------------------------------------
(* The pointer. *)

OnScreen(x, y, btn) ==
    [x |-> Clamp(x, 0, screen[1] - 1), y |-> Clamp(y, 0, screen[2] - 1), btn |-> btn]

\* A complete packet: nine-bit deltas, the y axis points up.
Delta(b, negative) == IF negative THEN b - 256 ELSE b
Packet(p) ==
    OnScreen(mouse.x + Delta(p[2], Bit(p[1], 4)), mouse.y - Delta(p[3], Bit(p[1], 5)), p[1] % 8)

\* ps2_dispatch_mouse_byte() for a byte of the mouse: a packet starts with a byte that
\* has bit 3 set.
HandleAux(b) ==
    IF pkt = <<>> /\ ~Bit(b, 3) THEN UNCHANGED <<pkt, mouse>>
    ELSE IF Len(pkt) + 1 < PktExpect THEN pkt' = Append(pkt, b) /\ UNCHANGED mouse
    ELSE pkt' = <<>> /\ mouse' = Packet(Append(pkt, b))

\* keyboard_handle_irq() for the byte in the buffer; bytes that follow raise their own.
KeyboardIrq ==
    /\ "kbd" \in irq /\ irq' = irq \ {"kbd"}
    /\ IF ~OutputFull THEN UNCHANGED <<ob, last, keyVars, mouse, pkt>>
       ELSE /\ TakeByte /\ UNCHANGED misread
            /\ \/ ~ob.aux /\ HandleKey(ob.val) /\ UNCHANGED <<mouse, pkt>>
               \/ ob.aux /\ backend = "ps2" /\ HandleAux(ob.val) /\ UNCHANGED <<keys, ring, pushed>>
               \/ ob.aux /\ backend # "ps2" /\ UNCHANGED <<keys, ring, pushed, mouse, pkt>>
    /\ UNCHANGED <<kq, aq, reader, screen, poll, backend>>

\* A byte of the keyboard that the pointer code meets ends the packet, and counts as
\* a scan code only if bit 3 is clear.
IsScanCode(b) == ~Bit(b, 3)

\* mouse_handle_irq(): with another backend the byte stays where it is.
MouseIrq ==
    /\ "aux" \in irq /\ irq' = irq \ {"aux"}
    /\ IF ~OutputFull \/ backend # "ps2" THEN UNCHANGED <<ob, last, keyVars, mouse, pkt>>
       ELSE /\ TakeByte /\ UNCHANGED misread
            /\ \/ ob.aux /\ HandleAux(ob.val) /\ UNCHANGED <<keys, ring, pushed>>
               \/ /\ ~ob.aux /\ pkt' = <<>> /\ UNCHANGED mouse
                  /\ IF IsScanCode(ob.val) THEN HandleKey(ob.val) ELSE UNCHANGED <<keys, ring, pushed>>
    /\ UNCHANGED <<kq, aq, reader, screen, poll, backend>>

Idle == [pc |-> "idle", reads |-> 0, aux |-> FALSE, byte |-> NoByte, head |-> 0, tail |-> 0]
Goto(p, pc) == poll' = [poll EXCEPT ![p].pc = pc]
Again(p) == poll' = [poll EXCEPT ![p] = [Idle EXCEPT !.pc = "check", !.reads = poll[p].reads]]

\* mouse_poll() with another backend: its driver injects what it has seen.
PollOther(p) ==
    /\ poll[p].pc = "idle" /\ backend = "other"
    /\ \E a, b \in Jumps, btn \in 0 .. 1 : \/ mouse' = OnScreen(a, b, btn)
                                           \/ mouse' = OnScreen(mouse.x + a, mouse.y - b, btn)
    /\ UNCHANGED <<portVars, keyVars, reader, screen, pkt, poll, backend>>

\* mouse_poll() with PS/2: mouse_try_consume().  The variant leaves it to the interrupt.
PollNever(p) == poll[p].pc = "idle" /\ backend = "ps2" /\ UNCHANGED inputVars
PollStart(p) ==
    /\ poll[p].pc = "idle" /\ backend = "ps2"
    /\ Goto(p, "check")
    /\ UNCHANGED <<portVars, keyVars, reader, mouse, screen, pkt, backend>>
PollCheck(p) ==
    /\ poll[p].pc = "check"
    /\ poll' = [poll EXCEPT ![p] = IF OutputFull /\ @.reads < PollReads
                                   THEN [@ EXCEPT !.pc = "status", !.reads = @ + 1] ELSE Idle]
    /\ UNCHANGED <<portVars, keyVars, reader, mouse, screen, pkt, backend>>
PollStatus(p) ==
    /\ poll[p].pc = "status"
    /\ poll' = [poll EXCEPT ![p] = [@ EXCEPT !.pc = "data", !.aux = StatusAux]]
    /\ UNCHANGED <<portVars, keyVars, reader, mouse, screen, pkt, backend>>
PollData(p) ==
    /\ poll[p].pc = "data" /\ TakeByte
    /\ poll' = [poll EXCEPT ![p] = [@ EXCEPT !.pc = "dispatch", !.byte = DataPort]]
    /\ UNCHANGED <<kq, aq, irq, keyVars, reader, mouse, screen, pkt, backend>>

\* ps2_dispatch_mouse_byte(), up to the loads of ring_push()
PollAux(p) ==
    /\ poll[p].pc = "dispatch" /\ poll[p].aux
    /\ HandleAux(poll[p].byte.val) /\ Again(p)
    /\ UNCHANGED <<portVars, keyVars, reader, screen, backend>>
PollKey(p) ==
    LET b == poll[p].byte
    IN  /\ poll[p].pc = "dispatch" /\ ~poll[p].aux
        /\ pkt' = <<>>
        /\ keys' = IF IsScanCode(b.val) THEN Modifiers(keys, b.val) ELSE keys
        /\ misread' = (misread \/ (b.aux /\ IsScanCode(b.val)))
        /\ IF IsScanCode(b.val) /\ MakesChar(b.val)
           THEN poll' = [poll EXCEPT ![p] = [@ EXCEPT !.pc = "push", !.head = ring.head,
                                                      !.tail = ring.tail]]
           ELSE Again(p)
        /\ UNCHANGED <<portVars, ring, pushed, reader, mouse, screen, backend>>
PollPush(p) ==
    /\ poll[p].pc = "push" /\ Again(p)
    /\ IF RingFull(poll[p].head, poll[p].tail) THEN UNCHANGED <<ring, pushed>>
       ELSE /\ ring' = Push(ring, poll[p].head, Char(keys, poll[p].byte.val))
            /\ pushed' = Append(pushed, Char(keys, poll[p].byte.val))
    /\ UNCHANGED <<portVars, keys, misread, reader, mouse, screen, pkt, backend>>

\* mouse_set_screen() keeps the pointer on the screen.
MouseSetScreen ==
    /\ screen' \in Screens
    /\ mouse' = [mouse EXCEPT !.x = Clamp(@, 0, screen'[1] - 1), !.y = Clamp(@, 0, screen'[2] - 1)]
    /\ UNCHANGED <<portVars, keyVars, reader, pkt, poll, backend>>

-----------------------------------------------------------------------------

\* With another backend the PS/2 mouse was never told to report (InputAssumption).
InputInit ==
    /\ \E t \in Traffic : backend = t.backend /\ kq = t.keys /\ aq = t.aux
    /\ ob = NoByte /\ last = [aux |-> FALSE, val |-> 0] /\ irq = {}
    /\ keys = [shift |-> FALSE, caps |-> FALSE]
    /\ ring = [buf |-> [i \in 0 .. RingSize - 1 |-> <<0, FALSE>>], head |-> 0, tail |-> 0]
    /\ pushed = <<>> /\ misread = FALSE
    /\ reader = [pc |-> "wait", n |-> 0, got |-> <<>>]
    /\ screen \in Screens /\ mouse = [x |-> 0, y |-> 0, btn |-> 0] /\ pkt = <<>>
    /\ poll = [p \in Pollers |-> Idle]

PollStep(p) ==
    \/ PollStart(p) \/ PollCheck(p) \/ PollStatus(p) \/ PollData(p)
    \/ PollAux(p) \/ PollKey(p) \/ PollPush(p)
ReadStep == ReadStart \/ ReadCopy \/ ReadStore \/ ReadDone

InputNext ==
    \/ Refill \/ KeyboardIrq \/ MouseIrq \/ ReadStep \/ MouseSetScreen
    \/ \E p \in Pollers : PollStep(p) \/ PollOther(p)

\* The scheduler runs every thread again and again and the keyboard's interrupt comes;
\* nothing is assumed of the mouse's.
InputSpec == InputInit /\ [][InputNext]_inputVars
FairSpec == InputSpec /\ WF_inputVars(Refill) /\ WF_inputVars(KeyboardIrq) /\ WF_inputVars(ReadStep)
                 /\ \A p \in Pollers : WF_inputVars(PollStep(p))

-----------------------------------------------------------------------------
(* Properties. *)

Waiting == [i \in 1 .. (ring.head - ring.tail) % RingSize |-> ring.buf[(ring.tail + i - 1) % RingSize]]
Copied == IF reader.pc = "store" THEN SubSeq(reader.got, 1, Len(reader.got) - 1) ELSE reader.got

\* While another driver has the pointer, the ring has one producer, the keyboard's
\* interrupt, and one consumer: what sys_read() has returned and what waits in the ring
\* are together exactly the characters accepted, in order, with none lost, doubled or
\* invented (ring_push and stdin_try_read).
KeysInOrder == backend = "other" => Copied \o Waiting = pushed

\* Every byte is taken from the controller and every character read in the end, even
\* if no interrupt of the mouse ever comes (mouse.h: mouse_poll "fixes VBox when IRQ12
\* does not fire").
InputDrained == <>[](kq = <<>> /\ aq = <<>> /\ ob = NoByte /\ ring.head = ring.tail)

\* A byte of the mouse is never decoded as a scan code (mouse.h: "forward them here so
\* they are not decoded as keyboard scan codes").
MouseNeverTypes == ~misread
=============================================================================
