------------------------------- MODULE I2cBus -------------------------------
(***************************************************************************)
(* Transfers of the DesignWare I2C master (drivers/i2c_dw.c).  The driver   *)
(* pushes one command per byte into the transmit FIFO, waits for the STOP  *)
(* condition, then reads the receive FIFO.  The controller works off the   *)
(* commands meanwhile: a command can be refused (TX_ABRT), the bus can be  *)
(* slow, and a byte that arrives at a full receive FIFO is lost.  Every    *)
(* wait of the driver is a bounded number of spins: it may give up while   *)
(* what it waits for has not come, also while the controller is still on.  *)
(*                                                                         *)
(* The threads that move bytes share one controller and have no lock.      *)
(*                                                                         *)
(* The bytes of a message are <<tag, position>>; the tag tells a message   *)
(* from the one before it.                                                  *)
(***************************************************************************)
EXTENDS Integers, Sequences

CONSTANTS
    TxDepth, RxDepth,   \* FIFO depths (IC_COMP_PARAM_1)
    Masters             \* threads that start transfers

ASSUME BusAssumption == TxDepth \in Nat \ {0, 1} /\ RxDepth \in Nat \ {0, 1}

VARIABLES
    dw,         \* the controller: [bound, on, tx, rx, stop, abrt], and what it talks to:
                \* [there, tag, pos], whether a device answers, its message and the bytes
                \* of it that were sent
    xfer        \* each master: [pc, tag, msg, todo, want, got, ok, own]; own: it started on
                \* an empty controller that no other master has used since

busVars == <<dw, xfer>>

Unbound == [bound |-> FALSE, on |-> FALSE, tx |-> <<>>, rx |-> <<>>, stop |-> FALSE, abrt |-> FALSE,
            there |-> FALSE, tag |-> 0, pos |-> 0]
Idle == [pc |-> "idle", tag |-> 0, msg |-> "none", todo |-> <<>>, want |-> 0, got |-> <<>>,
         ok |-> FALSE, own |-> FALSE]

\* A controller that is switched off empties its FIFOs.
\* The variant is a driver that leaves it on.
OffNever(d) == d
Off(d) == [d EXCEPT !.on = FALSE, !.tx = <<>>, !.rx = <<>>]

\* dw_disable(): a controller that stays on is not noticed.
Acks(d) == IF d.on THEN BOOLEAN ELSE {TRUE}
Disabled(d, acked) == IF acked THEN Off(d) ELSE d

\* One command per byte, the last one with STOP.
Commands(w, r) == [i \in 1 .. w + r |-> [read |-> i > w, stop |-> i = w + r]]

\* dw_disable(), dw_enable_controller() and IC_TAR: the interrupt bits are cleared too.  A
\* controller that stayed on takes no new address.
Restarted(d, acked, there) ==
    [Disabled(d, acked) EXCEPT !.on = TRUE, !.stop = FALSE, !.abrt = FALSE, !.pos = 0,
                               !.there = IF acked THEN there ELSE @, !.tag = IF acked THEN 1 - @ ELSE @]

Finish(p, ok) ==
    /\ xfer' = [xfer EXCEPT ![p].pc = "done", ![p].ok = ok]
    /\ \E acked \in Acks(dw) : dw' = Disabled(dw, acked)

\* i2c_dw_write_read(), _master_write() and _master_read() of w bytes out and r bytes in.
\* there: a device answers at the address; msg: what it will send.  The controller may
\* not come up again.
Begin(p, w, r, there, msg) ==
    /\ xfer[p].pc = "idle" /\ dw.bound
    /\ \E acked \in Acks(dw), pc \in {"push", "done"} :
          /\ dw' = Restarted(dw, acked, there)
          /\ xfer' = [q \in Masters |->
                        IF q # p THEN [xfer[q] EXCEPT !.own = FALSE]
                        ELSE [Idle EXCEPT !.pc = pc, !.tag = dw'.tag, !.msg = msg,
                                          !.todo = Commands(w, r), !.want = r,
                                          !.own = acked /\ \A m \in Masters \ {p} : xfer[m].pc = "idle"]]

\* wait_tx_space() and DATA_CMD: after an abort the controller throws commands away, and
\* so it does while it is off.
PushCommand(p) ==
    /\ xfer[p].pc = "push" /\ xfer[p].todo # <<>> /\ Len(dw.tx) < TxDepth
    /\ dw' = IF dw.abrt \/ ~dw.on THEN dw ELSE [dw EXCEPT !.tx = Append(@, Head(xfer[p].todo))]
    /\ xfer' = [xfer EXCEPT ![p].todo = Tail(@)]
PushTimeout(p) ==
    /\ xfer[p].pc = "push" /\ xfer[p].todo # <<>> /\ Len(dw.tx) = TxDepth
    /\ Finish(p, FALSE)
PushDone(p) ==
    /\ xfer[p].pc = "push" /\ xfer[p].todo = <<>>
    /\ xfer' = [xfer EXCEPT ![p].pc = "stop"] /\ UNCHANGED dw

\* wait_stop_or_abort(): an abort counts before a stop.
WaitStop(p) ==
    /\ xfer[p].pc = "stop"
    /\ \/ dw.abrt /\ Finish(p, FALSE)
       \/ /\ ~dw.abrt /\ dw.stop
          /\ xfer' = [xfer EXCEPT ![p].pc = "drain"] /\ dw' = [dw EXCEPT !.stop = FALSE]
       \/ ~dw.abrt /\ ~dw.stop /\ Finish(p, FALSE)

\* wait_rx_data() and the read of DATA_CMD
ReadByte(p) ==
    /\ xfer[p].pc = "drain" /\ Len(xfer[p].got) < xfer[p].want
    /\ \/ /\ dw.rx # <<>>
          /\ xfer' = [xfer EXCEPT ![p].got = Append(@, Head(dw.rx))] /\ dw' = [dw EXCEPT !.rx = Tail(@)]
       \/ dw.rx = <<>> /\ Finish(p, FALSE)
ReadDone(p) == xfer[p].pc = "drain" /\ Len(xfer[p].got) = xfer[p].want /\ Finish(p, TRUE)

Master(p) ==
    \/ PushCommand(p) \/ PushTimeout(p) \/ PushDone(p) \/ WaitStop(p) \/ ReadByte(p) \/ ReadDone(p)

-----------------------------------------------------------------------------
(* The controller and the device on the bus (hardware). *)

BusCommand ==
    LET cmd == Head(dw.tx)
    IN  /\ dw.on /\ dw.tx # <<>> /\ dw.there
        /\ dw' = [dw EXCEPT !.tx = Tail(@), !.stop = @ \/ cmd.stop,
                            !.pos = IF cmd.read THEN @ + 1 ELSE @,
                            !.rx = IF cmd.read /\ Len(@) < RxDepth
                                   THEN Append(@, <<dw.tag, dw.pos + 1>>) ELSE @]
        /\ UNCHANGED xfer

\* Nobody answers at the address, or the device refuses a byte it is sent.
BusAbort ==
    /\ dw.on /\ dw.tx # <<>> /\ (dw.there => ~Head(dw.tx).read)
    /\ dw' = [dw EXCEPT !.tx = <<>>, !.abrt = TRUE]
    /\ UNCHANGED xfer

BusInit == dw = Unbound /\ xfer = [p \in Masters |-> Idle]

-----------------------------------------------------------------------------
(* Properties. *)

\* A read that reports success returns the whole message of this transfer in order: no
\* byte is left from a transfer that timed out or was aborted, none is missing because
\* the receive FIFO was too small for the message (i2c_dw_write_read and
\* i2c_dw_master_read disable the controller before they start).  It is claimed for a
\* transfer whose first disable was obeyed and during which, up to the use of what it
\* read, no other thread started one.
ReadsExact ==
    \A p \in Masters : LET x == xfer[p] IN
        (x.pc = "done" /\ x.ok /\ x.own) => x.got = [i \in 1 .. x.want |-> <<x.tag, i>>]
=============================================================================
