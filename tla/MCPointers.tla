----------------------------- MODULE MCPointers -----------------------------
(***************************************************************************)
(* Pointers for TLC.  The tablet sends more events than the ring indices   *)
(* have values (Word16 = 8), to queues of two and four buffers and one     *)
(* that offers three; the touchpads answer at the first and the last place *)
(* probed, and one sends reports longer than the receive FIFO.             *)
(***************************************************************************)
EXTENDS Pointers

Abs(code, v) == [kind |-> "abs", code |-> code, v |-> v]
Key(code, v) == [kind |-> "key", code |-> code, v |-> v]
Syn == [kind |-> "syn", code |-> "report", v |-> 0]
Moves ==
    <<Key("left", 1), Syn, Abs("x", 40), Abs("y", -5), Syn, Abs("y", 30), Key("right", 1),
      Key("left", 0), Syn, [kind |-> "rel", code |-> "wheel", v |-> 1], Abs("x", 10), Abs("x", 99), Syn>>

Pad(slave, reg) == [dw |-> TRUE, slave |-> slave, reg |-> reg]
Other == [dw |-> FALSE, slave |-> 0, reg |-> 0]
Machine(policy, qmax, buses, usbMouse) ==
    [policy |-> policy, qmax |-> qmax, range |-> <<0, 50>>, events |-> Moves,
     buses |-> buses, maxIn |-> 2, usb |-> usbMouse, aux |-> "wheel"]
MCMachines ==
    {Machine("virtio", q, <<>>, TRUE) : q \in {0, 2, 3, 4}}
    \cup {Machine("auto", 0, <<Other, Pad(2, 1), Pad(1, 2)>>, TRUE)}
    \cup {[Machine("i2c", 0, <<Pad(1, 1)>>, FALSE) EXCEPT !.maxIn = 3]}
    \cup {[Machine("auto", 2, <<>>, FALSE) EXCEPT !.range = <<7, 7>>, !.aux = "none"]}
    \cup {[Machine(p, 4, <<Pad(1, 1)>>, TRUE) EXCEPT !.aux = "plain"] : p \in {"ps2", "usb"}}
MCScreenMax == <<3, 2>>

MCMasters == Pollers \cup {"boot"}

\* Two polls of the tablet, or two transfers, that are under way together: of what they
\* do nothing is claimed, and a transfer that starts afterwards empties the controller.
Apart == ~overlap /\ \A p, q \in Masters : "idle" \in {xfer[p].pc, xfer[q].pc} \/ p = q
=============================================================================
