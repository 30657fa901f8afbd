--------------------------- MODULE PointersProofs ---------------------------
(***************************************************************************)
(* The touchpad's transfers, the tablet's queue and the pointer it moves,  *)
(* inside the pointer setup of module Pointers, for every machine, FIFO    *)
(* depth, message length and queue size.                                   *)
(***************************************************************************)
EXTENDS Pointers, TLAPS

-----------------------------------------------------------------------------
(* Remainders: the slots of a ring. *)

\* A multiple below another one has a smaller factor.
LEMMA SmallerFactor ==
    ASSUME NEW n \in Nat, NEW q \in Int, NEW r \in Int, n * q < n * r
    PROVE  q < r
PROOF
<1>1. ASSUME r <= q PROVE FALSE
    <2>1. PICK d \in Nat : q = r + d
        BY <1>1
    <2>2. n * q = n * r + n * d /\ n * d \in Nat /\ n * r \in Int
        BY <2>1
    <2> QED
        BY <2>2
<1> QED
    BY <1>1

\* A quotient is the number of whole divisors.
LEMMA QuotientIs ==
    ASSUME NEW n \in Nat, n > 0, NEW q \in Int, NEW r \in 0 .. n - 1
    PROVE  (n * q + r) \div n = q /\ (n * q + r) % n = r
PROOF
<1>1. n * q \in Int
    OBVIOUS
<1>2. PICK m \in Int : m = n * q + r
    BY <1>1
<1>3. PICK k \in Int, s \in Int : k = m \div n /\ s = m % n
    OBVIOUS
<1>4. m = n * k + s /\ 0 <= s /\ s < n /\ n * k \in Int
    BY <1>3
<1>5. n * (q + 1) = n * q + n /\ n * (k + 1) = n * k + n
    OBVIOUS
<1>6. n * q < n * (k + 1) /\ n * k < n * (q + 1)
    BY <1>1, <1>2, <1>4, <1>5
<1>7. q < k + 1 /\ k < q + 1
    BY <1>6, SmallerFactor
<1>8. k = q
    BY <1>7
<1>9. s = r
    BY <1>1, <1>2, <1>4, <1>8
<1> QED
    BY <1>2, <1>3, <1>8, <1>9

\* A remainder is below the divisor, and the rest is a multiple of it.
LEMMA ModProp ==
    ASSUME NEW a \in Int, NEW n \in Nat, n > 0
    PROVE  /\ a % n \in 0 .. n - 1
           /\ \E q \in Int : a = n * q + (a % n)
PROOF
<1>1. a % n \in 0 .. n - 1
    OBVIOUS
<1>2. PICK q \in Int : q = a \div n
    OBVIOUS
<1>3. a = n * q + (a % n)
    BY <1>2
<1> QED
    BY <1>1, <1>3

\* Counting on from a remainder or from the number itself leads to the same slot.
LEMMA ModAdd ==
    ASSUME NEW a \in Int, NEW k \in Int, NEW n \in Nat, n > 0
    PROVE  ((a % n) + k) % n = (a + k) % n
PROOF
<1>1. PICK r \in 0 .. n - 1, q \in Int : r = a % n /\ a = n * q + r
    BY ModProp
<1>2. r + k \in Int /\ a + k \in Int
    OBVIOUS
<1>3. PICK s \in 0 .. n - 1, t \in Int : s = (r + k) % n /\ r + k = n * t + s
    BY <1>2, ModProp, Zenon
<1>4. a + k = n * (q + t) + s
    <2>1. n * (q + t) = n * q + n * t /\ n * q \in Int /\ n * t \in Int
        OBVIOUS
    <2> QED
        BY <1>1, <1>3, <2>1
<1>5. q + t \in Int
    OBVIOUS
<1>6. (n * (q + t) + s) % n = s
    BY <1>5, QuotientIs
<1> QED
    BY <1>1, <1>3, <1>4, <1>6

\* Fewer than n consecutive numbers have different slots.
LEMMA ModInjective ==
    ASSUME NEW a \in Int, NEW b \in Int, NEW n \in Nat, n > 0,
           a % n = b % n, a < b + n, b < a + n
    PROVE  a = b
PROOF
<1>1. PICK r \in 0 .. n - 1, q \in Int : r = a % n /\ a = n * q + r
    BY ModProp
<1>2. PICK t \in Int : b = n * t + r
    BY <1>1, ModProp
<1>3. n * (q + 1) = n * q + n /\ n * (t + 1) = n * t + n /\ n * q \in Int /\ n * t \in Int
    OBVIOUS
<1>4. n * q < n * (t + 1) /\ n * t < n * (q + 1)
    BY <1>1, <1>2, <1>3
<1>5. q < t + 1 /\ t < q + 1
    BY <1>4, SmallerFactor
<1> QED
    BY <1>1, <1>2, <1>5

\* A counter that wraps at a multiple of the ring's size names the same slot as one that
\* does not wrap.
LEMMA ModMod ==
    ASSUME NEW a \in Int, NEW m \in Nat, m > 0, NEW n \in Nat, n > 0, n % m = 0
    PROVE  (a % n) % m = a % m
PROOF
<1>1. PICK r \in 0 .. n - 1, q \in Int : r = a % n /\ a = n * q + r
    BY ModProp, Zenon
<1>2. PICK k \in Int : n = m * k + 0
    BY ModProp
<1>3. PICK s \in 0 .. m - 1, t \in Int : s = r % m /\ r = m * t + s
    <2>1. r \in Int
        OBVIOUS
    <2> QED
        BY <2>1, ModProp, Zenon
<1>4. a = m * (k * q + t) + s
    <2>1. n * q = m * (k * q) /\ k * q \in Int /\ m * (k * q) \in Int /\ m * t \in Int
        BY <1>2
    <2>2. m * (k * q + t) = m * (k * q) + m * t
        BY <2>1
    <2> QED
        BY <1>1, <1>3, <2>1, <2>2
<1>5. k * q + t \in Int
    OBVIOUS
<1>6. (m * (k * q + t) + s) % m = s
    BY <1>5, QuotientIs
<1> QED
    BY <1>1, <1>3, <1>4, <1>6, Zenon

\* One turn further is the same slot.
LEMMA ModTurn ==
    ASSUME NEW a \in Int, NEW n \in Nat, n > 0
    PROVE  (a + n) % n = a % n
PROOF
<1>1. PICK r \in 0 .. n - 1, q \in Int : r = a % n /\ a = n * q + r
    BY ModProp
<1>2. a + n = n * (q + 1) + r /\ q + 1 \in Int
    BY <1>1
<1>3. (n * (q + 1) + r) % n = r
    BY <1>2, QuotientIs
<1> QED
    BY <1>1, <1>2, <1>3

\* A small number is its own remainder.
LEMMA ModSmall == ASSUME NEW n \in Nat, NEW a \in 0 .. n - 1 PROVE a % n = a
OBVIOUS

-----------------------------------------------------------------------------
(* Transfers (drivers/i2c_dw.c). *)

Cmds == [read : BOOLEAN, stop : BOOLEAN]
Bytes == {0, 1} \X Nat
DwType == [bound : BOOLEAN, on : BOOLEAN, tx : Seq(Cmds), rx : Seq(Bytes), stop : BOOLEAN,
           abrt : BOOLEAN, there : BOOLEAN, tag : {0, 1}, pos : Nat]
Msgs == {"none", "good", "bad"}
XferType == [pc : {"idle", "push", "stop", "drain", "done"}, tag : {0, 1}, msg : Msgs,
             todo : Seq(Cmds), want : Nat, got : Seq(Bytes), ok : BOOLEAN, own : BOOLEAN]

\* The commands left, in the driver's hands and in the FIFO, are the end of the message:
\* the last one carries STOP and the last x.want are reads.
TodoInv(x) == \A i \in 1 .. Len(x.todo) : /\ x.todo[i].stop <=> i = Len(x.todo)
                                          /\ x.todo[i].read <=> i > Len(x.todo) - x.want
FifoInv(d, x) ==
    \A i \in 1 .. Len(d.tx) : /\ d.tx[i].stop <=> i = Len(d.tx) + Len(x.todo)
                              /\ d.tx[i].read <=> i > Len(d.tx) + Len(x.todo) - x.want

\* How much the device has sent so far follows from the commands left.
CountInv(d, x) ==
    LET left == Len(d.tx) + Len(x.todo)
    IN  d.pos = IF left >= x.want THEN 0 ELSE x.want - left

\* The bytes received and read are what was sent, or some were lost.
DataInv(d, x) ==
    /\ Len(x.got) + Len(d.rx) <= d.pos
    /\ Len(x.got) + Len(d.rx) = d.pos =>
          /\ \A i \in 1 .. Len(x.got) : x.got[i] = <<x.tag, i>>
          /\ \A i \in 1 .. Len(d.rx) : d.rx[i] = <<x.tag, Len(x.got) + i>>

\* After an abort nothing more is sent, and STOP comes after the last command.
EndInv(d, x) ==
    /\ d.abrt => Len(d.tx) = 0
    /\ d.stop /\ ~d.abrt => Len(d.tx) = 0 /\ Len(x.todo) = 0
    /\ x.pc # "push" => Len(x.todo) = 0
    /\ x.pc = "drain" => Len(d.tx) = 0 /\ ~d.abrt

LiveInv(d, x) ==
    /\ d.on /\ d.tag = x.tag
    /\ TodoInv(x) /\ DataInv(d, x) /\ EndInv(d, x)
    /\ ~d.abrt => FifoInv(d, x) /\ CountInv(d, x)

\* The message arrived whole.
Whole(x) == x.got = [i \in 1 .. x.want |-> <<x.tag, i>>]

\* A transfer that has the controller for itself
OwnInv(d, x) ==
    /\ x.pc \in {"push", "stop", "drain"} => LiveInv(d, x)
    /\ x.pc = "done" /\ x.ok => Whole(x)

BusInv ==
    /\ dw \in DwType /\ xfer \in [Masters -> XferType]
    /\ \A p \in Masters : xfer[p].own => /\ OwnInv(dw, xfer[p])
                                         /\ \A q \in Masters \ {p} : xfer[q].pc = "idle"

-----------------------------------------------------------------------------
(* Steps on the controller and on the transfer. *)

\* A step of one master: nobody else has the controller for itself.
LEMMA MasterKeeps ==
    ASSUME BusInv, NEW p \in Masters, xfer[p].pc # "idle", NEW e \in DwType, dw' = e,
           NEW y \in XferType, xfer' = [xfer EXCEPT ![p] = y],
           y.own => xfer[p].own /\ OwnInv(e, y)
    PROVE  BusInv'
PROOF
<1>1. xfer \in [Masters -> XferType]
    BY DEF BusInv
<1>2. xfer' \in [Masters -> XferType] /\ xfer'[p] = y /\ \A q \in Masters \ {p} : xfer'[q] = xfer[q]
    BY <1>1
<1>3. ASSUME NEW m \in Masters, xfer'[m].own
      PROVE  OwnInv(e, xfer'[m]) /\ \A q \in Masters \ {m} : xfer'[q].pc = "idle"
    <2>1. CASE m = p
        BY <1>2, <1>3, <2>1, Zenon DEF BusInv
    <2>2. CASE m # p
        BY <1>2, <1>3, <2>2, Zenon DEF BusInv
    <2> QED
        BY <2>1, <2>2
<1> QED
    BY <1>2, <1>3, Zenon DEF BusInv

\* A step of the controller.
LEMMA ControllerKeeps ==
    ASSUME BusInv, NEW e \in DwType, dw' = e, xfer' = xfer,
           \A p \in Masters : xfer[p].own => OwnInv(e, xfer[p])
    PROVE  BusInv'
BY Zenon DEF BusInv

\* Switching off empties the FIFOs and keeps the type.
LEMMA OffProp ==
    ASSUME NEW d \in DwType
    PROVE  Off(d) \in DwType /\ Off(d).tx = <<>> /\ Off(d).rx = <<>>
PROOF
<1>1. PICK t \in Seq(Cmds), r \in Seq(Bytes) : t = <<>> /\ r = <<>>
    <2>1. <<>> \in Seq(Cmds) /\ <<>> \in Seq(Bytes)
        OBVIOUS
    <2> QED
        BY <2>1, Zenon
<1>2. [d EXCEPT !.on = FALSE, !.tx = t, !.rx = r] \in DwType
    BY Zenon DEF DwType
<1> QED
    BY <1>1, <1>2 DEF Off, DwType

\* The commands of a message, as the driver makes them.
LEMMA CommandsProp ==
    ASSUME NEW w \in Nat, NEW r \in Nat
    PROVE  /\ Commands(w, r) \in Seq(Cmds) /\ Len(Commands(w, r)) = w + r
           /\ \A i \in 1 .. w + r : Commands(w, r)[i] = [read |-> i > w, stop |-> i = w + r]
PROOF
<1>1. \A i \in 1 .. w + r : [read |-> i > w, stop |-> i = w + r] \in Cmds
    BY DEF Cmds
<1>2. w + r \in Nat
    OBVIOUS
<1> QED
    BY <1>1, <1>2 DEF Commands

\* The controller at the start of a transfer: empty, unless it ignored the disable.
LEMMA RestartedProp ==
    ASSUME NEW d \in DwType, NEW acked \in BOOLEAN, NEW there \in BOOLEAN
    PROVE  /\ Restarted(d, acked, there) \in DwType
           /\ acked => LET e == Restarted(d, acked, there)
                       IN  /\ e.on /\ e.tx = <<>> /\ e.rx = <<>> /\ e.stop = FALSE
                           /\ e.abrt = FALSE /\ e.pos = 0
PROOF
<1>1. PICK f \in DwType : f = Disabled(d, acked)
    BY OffProp DEF Disabled
<1>2. PICK a \in BOOLEAN, t \in {0, 1}, z \in Nat :
          a = (IF acked THEN there ELSE f.there) /\ t = (IF acked THEN 1 - f.tag ELSE f.tag) /\ z = 0
    BY DEF DwType
<1>3. PICK e \in DwType : e = [f EXCEPT !.on = TRUE, !.stop = FALSE, !.abrt = FALSE, !.pos = z,
                                        !.there = a, !.tag = t]
    BY Zenon DEF DwType
<1>4. Restarted(d, acked, there) = e
    BY <1>1, <1>2, <1>3 DEF Restarted, DwType
<1>5. e.on /\ e.stop = FALSE /\ e.abrt = FALSE /\ e.pos = 0 /\ e.tx = f.tx /\ e.rx = f.rx
    BY <1>2, <1>3 DEF DwType
<1>6. acked => f.tx = <<>> /\ f.rx = <<>>
    BY <1>1, OffProp DEF Disabled
<1> QED
    BY <1>4, <1>5, <1>6, Zenon

\* A transfer begins with the whole message to do.  It has the controller for itself if
\* the controller was emptied and nobody else is in a transfer.
LEMMA BeginKeeps ==
    ASSUME BusInv, NEW p \in Masters, NEW w \in Nat, NEW r \in Nat, NEW there \in BOOLEAN,
           NEW msg \in Msgs, Begin(p, w, r, there, msg)
    PROVE  BusInv' /\ \A m \in Masters \ {p} : xfer'[m].pc = xfer[m].pc
PROOF
<1>1. PICK d \in DwType : d = dw
    BY DEF BusInv
<1>2. PICK acked \in BOOLEAN, place \in {"push", "done"} :
          /\ dw' = Restarted(d, acked, there)
          /\ xfer' = [q \in Masters |->
                        IF q # p THEN [xfer[q] EXCEPT !.own = FALSE]
                        ELSE [Idle EXCEPT !.pc = place, !.tag = dw'.tag, !.msg = msg,
                                          !.todo = Commands(w, r), !.want = r,
                                          !.own = acked /\ \A m \in Masters \ {p} : xfer[m].pc = "idle"]]
    <2>1. Acks(dw) \subseteq BOOLEAN
        BY DEF Acks
    <2> QED
        BY <1>1, <2>1, Zenon DEF Begin
<1>3. PICK e \in DwType : e = Restarted(d, acked, there)
    BY RestartedProp, Zenon
<1>4. /\ dw' = e
      /\ acked => /\ e.on /\ e.tx = <<>> /\ e.rx = <<>> /\ e.stop = FALSE
                  /\ e.abrt = FALSE /\ e.pos = 0
    BY <1>2, <1>3, RestartedProp, Zenon
<1>5. PICK c \in Seq(Cmds) : c = Commands(w, r)
    BY CommandsProp, Zenon
<1>6. PICK own \in BOOLEAN : own = (acked /\ \A m \in Masters \ {p} : xfer[m].pc = "idle")
    BY Zenon
<1>7. PICK tag \in {0, 1} : tag = e.tag
    BY DEF DwType
<1>8. PICK g \in Seq(Bytes) : g = <<>>
    <2>1. <<>> \in Seq(Bytes)
        OBVIOUS
    <2> QED
        BY <2>1, Zenon
<1>9. PICK y : y = [pc |-> place, tag |-> tag, msg |-> msg, todo |-> c, want |-> r, got |-> g,
                    ok |-> FALSE, own |-> own]
    OBVIOUS
<1>10. y \in XferType
    BY <1>9 DEF XferType
<1>11. xfer'[p] = y
    <2>1. xfer'[p] = [Idle EXCEPT !.pc = place, !.tag = tag, !.msg = msg, !.todo = c, !.want = r,
                                  !.own = own]
        BY <1>2, <1>4, <1>5, <1>6, <1>7, Zenon
    <2> QED
        BY <1>8, <1>9, <2>1 DEF Idle
<1>12. ASSUME NEW m \in Masters \ {p}
       PROVE  xfer'[m] \in XferType /\ xfer'[m].own = FALSE /\ xfer'[m].pc = xfer[m].pc
    <2>1. PICK x \in XferType : x = xfer[m]
        BY DEF BusInv
    <2>2. xfer'[m] = [x EXCEPT !.own = FALSE]
        BY <1>2, <2>1, Zenon
    <2>3. [x EXCEPT !.own = FALSE] \in XferType
        BY Zenon DEF XferType
    <2>4. [x EXCEPT !.own = FALSE].own = FALSE /\ [x EXCEPT !.own = FALSE].pc = x.pc
        BY DEF XferType
    <2> QED
        BY <2>1, <2>2, <2>3, <2>4
<1>13. /\ y.todo = c /\ y.want = r /\ y.got = <<>> /\ y.pc = place /\ y.own = own /\ y.tag = tag
       /\ y.ok = FALSE
    BY <1>8, <1>9
<1>14. ASSUME own, place = "push" PROVE LiveInv(e, y)
    <2>1. Len(c) = w + r /\ \A i \in 1 .. w + r : c[i] = [read |-> i > w, stop |-> i = w + r]
        BY <1>5, CommandsProp, Zenon
    <2>2. e.on /\ e.tx = <<>> /\ e.rx = <<>> /\ e.stop = FALSE /\ e.abrt = FALSE /\ e.pos = 0
        BY <1>4, <1>6, <1>14, Zenon
    <2>3. TodoInv(y)
        <3> SUFFICES ASSUME NEW i \in 1 .. w + r
                     PROVE  (c[i].stop <=> i = w + r) /\ (c[i].read <=> i > w + r - r)
            BY <1>13, <2>1 DEF TodoInv
        <3>1. c[i].read = (i > w) /\ c[i].stop = (i = w + r) /\ w + r - r = w
            BY <2>1
        <3> QED
            BY <3>1, Zenon
    <2>4. Len(e.tx) = 0 /\ Len(e.rx) = 0 /\ Len(y.got) = 0
        BY <1>13, <2>2
    <2>5. DataInv(e, y) /\ FifoInv(e, y) /\ CountInv(e, y)
        BY <1>13, <2>1, <2>2, <2>4 DEF DataInv, FifoInv, CountInv
    <2>6. EndInv(e, y)
        BY <1>13, <1>14, <2>2, <2>4 DEF EndInv
    <2> QED
        BY <1>7, <1>13, <2>2, <2>3, <2>5, <2>6 DEF LiveInv
<1>15. own => OwnInv(e, y)
    BY <1>13, <1>14 DEF OwnInv
<1>16. ASSUME NEW m \in Masters, xfer'[m].own
       PROVE  OwnInv(e, xfer'[m]) /\ \A q \in Masters \ {m} : xfer'[q].pc = "idle"
    <2>1. m = p
        BY <1>12, <1>16, Zenon
    <2>2. own
        BY <1>11, <1>13, <1>16, <2>1, Zenon
    <2> QED
        BY <1>6, <1>11, <1>12, <1>15, <2>1, <2>2, Zenon
<1>17. xfer' \in [Masters -> XferType]
    <2>1. \A m \in Masters : xfer'[m] \in XferType
        BY <1>10, <1>11, <1>12, Zenon
    <2>2. xfer' = [m \in Masters |-> xfer'[m]]
        BY <1>2, Zenon
    <2> QED
        BY <2>1, <2>2, Zenon
<1> QED
    BY <1>4, <1>12, <1>16, <1>17, Zenon DEF BusInv

\* A transfer that ends; one that succeeds has its message whole.
LEMMA FinishKeeps ==
    ASSUME BusInv, NEW p \in Masters, xfer[p].pc # "idle", NEW ok \in BOOLEAN, Finish(p, ok),
           xfer[p].own /\ ok => Whole(xfer[p])
    PROVE  BusInv'
PROOF
<1>1. PICK d \in DwType, x \in XferType : d = dw /\ x = xfer[p]
    BY DEF BusInv
<1>2. PICK y \in XferType : y = [x EXCEPT !.pc = "done", !.ok = ok]
    BY Zenon DEF XferType
<1>3. /\ y.pc = "done" /\ y.ok = ok /\ y.got = x.got /\ y.want = x.want /\ y.tag = x.tag
      /\ y.own = x.own
    BY <1>2 DEF XferType
<1>4. xfer' = [xfer EXCEPT ![p] = y]
    BY <1>1, <1>2 DEF Finish
<1>5. PICK e \in DwType : dw' = e
    <2>1. dw' = Off(d) \/ dw' = d
        BY <1>1, Zenon DEF Finish, Disabled
    <2> QED
        BY <2>1, OffProp
<1>6. x.own /\ ok => Whole(y)
    BY <1>1, <1>3 DEF Whole
<1>7. y.own => xfer[p].own /\ OwnInv(e, y)
    BY <1>1, <1>3, <1>6 DEF OwnInv
<1> QED
    BY <1>4, <1>5, <1>7, MasterKeeps, Zenon

\* The driver moves its next command to the FIFO, or the controller throws it away.
LEMMA PushKeeps ==
    ASSUME BusInv, NEW p \in Masters, PushCommand(p)
    PROVE  BusInv'
PROOF
<1>1. PICK d \in DwType, x \in XferType : d = dw /\ x = xfer[p]
    BY DEF BusInv
<1>2. x.pc = "push" /\ x.todo # <<>> /\ (x.own => LiveInv(d, x))
    BY <1>1, Zenon DEF PushCommand, BusInv, OwnInv
<1>3. PICK t \in Seq(Cmds) : t = Tail(x.todo)
    <2>1. x.todo \in Seq(Cmds)
        BY DEF XferType
    <2>2. Tail(x.todo) \in Seq(Cmds)
        BY <1>2, <2>1
    <2> QED
        BY <2>2, Zenon
<1>4. PICK c \in Cmds : c = Head(x.todo)
    BY <1>2 DEF XferType
<1>5. PICK n \in Nat, k \in Nat : n = Len(x.todo) /\ k = Len(d.tx)
    BY DEF XferType, DwType
<1>6. n > 0 /\ Len(t) = n - 1 /\ c = x.todo[1] /\ \A i \in 1 .. n - 1 : t[i] = x.todo[i + 1]
    BY <1>2, <1>3, <1>4, <1>5 DEF XferType
<1>7. PICK y \in XferType : y = [x EXCEPT !.todo = t]
    BY Zenon DEF XferType
<1>8. /\ y.pc = "push" /\ y.todo = t /\ y.want = x.want /\ y.got = x.got
      /\ y.tag = x.tag /\ y.own = x.own
    BY <1>2, <1>7 DEF XferType
<1>9. xfer' = [xfer EXCEPT ![p] = y]
    BY <1>1, <1>3, <1>7 DEF PushCommand
<1>10. x.want \in Nat /\ y.want \in Nat /\ Len(y.todo) = n - 1
    BY <1>6, <1>8 DEF XferType
<1>11. ASSUME x.own
       PROVE  /\ TodoInv(y)
              /\ (c.stop <=> n = 1) /\ (c.read <=> 1 > n - x.want)
    <2>1. ASSUME NEW i \in 1 .. n - 1
          PROVE  (t[i].stop <=> i = n - 1) /\ (t[i].read <=> i > n - 1 - x.want)
        <3>1. i + 1 \in 1 .. n /\ t[i] = x.todo[i + 1]
            BY <1>6
        <3>2. (x.todo[i + 1].stop <=> i + 1 = n) /\ (x.todo[i + 1].read <=> i + 1 > n - x.want)
            BY <1>2, <1>5, <1>11, <3>1 DEF LiveInv, TodoInv
        <3> QED
            BY <1>10, <3>1, <3>2
    <2>2. TodoInv(y)
        BY <1>8, <1>10, <2>1 DEF TodoInv
    <2>3. 1 \in 1 .. n
        BY <1>6
    <2>4. (c.stop <=> n = 1) /\ (c.read <=> 1 > n - x.want)
        BY <1>2, <1>5, <1>6, <1>11, <2>3, Zenon DEF LiveInv, TodoInv
    <2> QED
        BY <2>2, <2>4
<1>12. CASE d.abrt \/ ~d.on
    <2>1. dw' = d
        BY <1>1, <1>12 DEF PushCommand
    <2>2. ASSUME x.own PROVE OwnInv(d, y)
        <3>1. d.abrt /\ d.on /\ d.tag = y.tag
            BY <1>2, <1>8, <1>12, <2>2 DEF LiveInv
        <3>2. DataInv(d, y)
            BY <1>2, <1>8, <2>2, Zenon DEF LiveInv, DataInv
        <3>3. EndInv(d, y)
            BY <1>2, <1>8, <2>2, <3>1 DEF LiveInv, EndInv
        <3> QED
            BY <1>8, <1>11, <2>2, <3>1, <3>2, <3>3 DEF OwnInv, LiveInv
    <2> QED
        BY <1>1, <1>2, <1>8, <1>9, <2>1, <2>2, MasterKeeps
<1>13. CASE ~d.abrt /\ d.on
    <2>1. PICK s \in Seq(Cmds) : s = Append(d.tx, c)
        <3>1. d.tx \in Seq(Cmds)
            BY DEF DwType
        <3>2. Append(d.tx, c) \in Seq(Cmds)
            BY <3>1
        <3> QED
            BY <3>2, Zenon
    <2>2. Len(s) = k + 1 /\ s[k + 1] = c /\ \A i \in 1 .. k : s[i] = d.tx[i]
        BY <1>5, <2>1 DEF DwType
    <2>3. PICK e \in DwType : e = [d EXCEPT !.tx = s]
        BY Zenon DEF DwType
    <2>4. /\ e.tx = s /\ e.rx = d.rx /\ e.stop = d.stop /\ e.abrt = d.abrt
          /\ e.on = d.on /\ e.tag = d.tag /\ e.pos = d.pos
        BY <2>3 DEF DwType
    <2>5. dw' = e
        BY <1>1, <1>4, <1>13, <2>1, <2>3 DEF PushCommand
    <2>6. ASSUME x.own PROVE FifoInv(e, y)
        <3>1. Len(e.tx) = k + 1 /\ Len(e.tx) + Len(y.todo) = k + n
            BY <1>8, <1>10, <2>2, <2>4
        <3>2. ASSUME NEW i \in 1 .. k + 1
              PROVE  (s[i].stop <=> i = k + n) /\ (s[i].read <=> i > k + n - x.want)
            <4>1. CASE i = k + 1
                BY <1>10, <1>11, <2>2, <2>6, <4>1
            <4>2. CASE i \in 1 .. k
                <5>1. (d.tx[i].stop <=> i = k + n) /\ (d.tx[i].read <=> i > k + n - x.want)
                    BY <1>2, <1>5, <1>13, <2>6, <4>2, Zenon DEF LiveInv, FifoInv
                <5> QED
                    BY <2>2, <4>2, <5>1
            <4> QED
                BY <4>1, <4>2
        <3>3. PICK total \in Nat : total = k + n
            OBVIOUS
        <3>4. Len(e.tx) = k + 1 /\ Len(y.todo) = n - 1 /\ Len(e.tx) + Len(y.todo) = total
            BY <1>10, <3>1, <3>3
        <3>5. \A i \in 1 .. k + 1 : (s[i].stop <=> i = total) /\ (s[i].read <=> i > total - y.want)
            <4>1. y.want = x.want
                BY <1>8
            <4> QED
                BY <1>10, <3>2, <3>3, <4>1
        <3>6. e.tx = s
            BY <2>4
        <3> QED
            BY <1>10, <3>4, <3>5, <3>6 DEF FifoInv
    <2>7. ASSUME x.own PROVE CountInv(e, y)
        <3>1. d.pos = IF k + n >= x.want THEN 0 ELSE x.want - (k + n)
            BY <1>2, <1>5, <1>13, <2>7, Zenon DEF LiveInv, CountInv
        <3>2. Len(e.tx) = k + 1 /\ Len(y.todo) = n - 1
            BY <1>10, <2>2, <2>4
        <3>3. Len(e.tx) + Len(y.todo) = k + n
            BY <3>2
        <3> QED
            BY <1>8, <2>4, <3>1, <3>3 DEF CountInv
    <2>8. ASSUME x.own PROVE DataInv(e, y)
        <3>1. DataInv(d, x)
            BY <1>2, <2>8 DEF LiveInv
        <3> QED
            BY <1>8, <2>4, <3>1, ZenonT(30) DEF DataInv
    <2>9. ASSUME x.own PROVE EndInv(e, y)
        BY <1>2, <1>5, <1>6, <1>8, <1>13, <2>4, <2>9 DEF LiveInv, EndInv
    <2>10. ASSUME x.own PROVE OwnInv(e, y)
        <3>1. e.on /\ e.tag = y.tag
            BY <1>2, <1>8, <2>4, <2>10 DEF LiveInv
        <3> QED
            BY <1>8, <1>11, <2>6, <2>7, <2>8, <2>9, <2>10, <3>1 DEF OwnInv, LiveInv
    <2> QED
        BY <1>1, <1>2, <1>8, <1>9, <2>5, <2>10, MasterKeeps
<1> QED
    BY <1>12, <1>13

\* The driver waits for the end, and then reads if there was no abort.
LEMMA WaitKeeps ==
    ASSUME BusInv, NEW p \in Masters, PushDone(p) \/ WaitStop(p)
    PROVE  BusInv'
PROOF
<1>1. PICK d \in DwType, x \in XferType : d = dw /\ x = xfer[p]
    BY DEF BusInv
<1>2. CASE PushDone(p)
    <2>1. PICK y \in XferType : y = [x EXCEPT !.pc = "stop"]
        BY Zenon DEF XferType
    <2>2. /\ y.pc = "stop" /\ y.todo = x.todo /\ y.want = x.want /\ y.got = x.got
          /\ y.tag = x.tag /\ y.own = x.own
        BY <2>1 DEF XferType
    <2>3. xfer' = [xfer EXCEPT ![p] = y] /\ dw' = d /\ x.pc = "push" /\ Len(x.todo) = 0
        BY <1>1, <1>2, <2>1 DEF PushDone
    <2>4. ASSUME x.own PROVE OwnInv(d, y)
        <3>1. LiveInv(d, x)
            BY <1>1, <2>3, <2>4, Zenon DEF BusInv, OwnInv
        <3>2. LiveInv(d, y)
            <4>1. TodoInv(y) /\ FifoInv(d, y) = FifoInv(d, x) /\ CountInv(d, y) = CountInv(d, x)
                BY <2>2, <3>1, ZenonT(30) DEF LiveInv, TodoInv, FifoInv, CountInv
            <4>2. DataInv(d, y)
                BY <2>2, <3>1, ZenonT(30) DEF LiveInv, DataInv
            <4>3. EndInv(d, y)
                BY <2>2, <2>3, <3>1 DEF LiveInv, EndInv
            <4> QED
                BY <2>2, <3>1, <4>1, <4>2, <4>3 DEF LiveInv
        <3> QED
            BY <2>2, <3>2 DEF OwnInv
    <2> QED
        BY <1>1, <2>2, <2>3, <2>4, MasterKeeps
<1>3. CASE WaitStop(p) /\ Finish(p, FALSE)
    <2>1. xfer[p].pc # "idle"
        BY <1>3 DEF WaitStop
    <2> QED
        BY <1>3, <2>1, FinishKeeps, Zenon
<1>4. CASE WaitStop(p) /\ ~Finish(p, FALSE)
    <2>1. PICK y \in XferType : y = [x EXCEPT !.pc = "drain"]
        BY Zenon DEF XferType
    <2>2. PICK e \in DwType : e = [d EXCEPT !.stop = FALSE]
        BY Zenon DEF DwType
    <2>3. /\ y.pc = "drain" /\ y.todo = x.todo /\ y.want = x.want /\ y.got = x.got
          /\ y.tag = x.tag /\ y.own = x.own
          /\ e.stop = FALSE /\ e.tx = d.tx /\ e.rx = d.rx /\ e.abrt = d.abrt
          /\ e.on = d.on /\ e.tag = d.tag /\ e.pos = d.pos
        BY <2>1, <2>2 DEF XferType, DwType
    <2>4. x.pc = "stop" /\ ~d.abrt /\ d.stop /\ dw' = e
        BY <1>1, <1>4, <2>2, Zenon DEF WaitStop
    <2>5. xfer' = [xfer EXCEPT ![p] = y]
        <3>1. xfer' = [xfer EXCEPT ![p].pc = "drain"]
            BY <1>4, Zenon DEF WaitStop
        <3> QED
            BY <1>1, <2>1, <3>1
    <2>6. ASSUME x.own PROVE OwnInv(e, y)
        <3>1. LiveInv(d, x)
            BY <1>1, <2>4, <2>6, Zenon DEF BusInv, OwnInv
        <3>2. TodoInv(y) /\ DataInv(e, y) /\ FifoInv(e, y) /\ CountInv(e, y) /\ e.on /\ e.tag = y.tag
            BY <2>3, <2>4, <3>1, ZenonT(30) DEF LiveInv, TodoInv, FifoInv, CountInv, DataInv
        <3>3. EndInv(e, y)
            BY <2>3, <2>4, <3>1 DEF LiveInv, EndInv
        <3> QED
            BY <2>3, <3>2, <3>3 DEF OwnInv, LiveInv
    <2> QED
        BY <1>1, <2>3, <2>4, <2>5, <2>6, MasterKeeps
<1> QED
    BY <1>2, <1>3, <1>4, Zenon

\* Reading takes the oldest byte received; the end is reached with the whole message.
LEMMA ReadKeeps ==
    ASSUME BusInv, NEW p \in Masters, ReadByte(p) \/ ReadDone(p)
    PROVE  BusInv'
PROOF
<1>1. PICK d \in DwType, x \in XferType : d = dw /\ x = xfer[p]
    BY DEF BusInv
<1>2. x.pc = "drain" /\ xfer[p].pc # "idle" /\ (x.own => LiveInv(d, x))
    <2>1. x.pc = "drain"
        BY <1>1, Zenon DEF ReadByte, ReadDone
    <2> QED
        BY <1>1, <2>1 DEF BusInv, OwnInv
<1>3. PICK g \in Nat, n \in Nat, s \in Nat : g = Len(x.got) /\ n = Len(d.rx) /\ s = d.pos
    <2>1. Len(x.got) \in Nat /\ Len(d.rx) \in Nat /\ d.pos \in Nat
        BY DEF XferType, DwType
    <2> QED
        BY <2>1
<1>4. CASE ReadByte(p) /\ dw.rx = <<>>
    BY <1>2, <1>4, FinishKeeps, Zenon DEF ReadByte
<1>5. CASE ReadByte(p) /\ dw.rx # <<>>
    <2>1. d.rx \in Seq(Bytes) /\ x.got \in Seq(Bytes) /\ d.rx # <<>>
        BY <1>1, <1>5 DEF DwType, XferType
    <2>2. PICK b \in Bytes, r \in Seq(Bytes) : b = Head(d.rx) /\ r = Tail(d.rx)
        <3>1. Head(d.rx) \in Bytes /\ Tail(d.rx) \in Seq(Bytes)
            BY <2>1
        <3> QED
            BY <3>1, Zenon
    <2>3. n > 0 /\ b = d.rx[1] /\ Len(r) = n - 1 /\ \A i \in 1 .. n - 1 : r[i] = d.rx[i + 1]
        BY <1>3, <2>1, <2>2
    <2>4. PICK h \in Seq(Bytes) : h = Append(x.got, b)
        <3>1. Append(x.got, b) \in Seq(Bytes)
            BY <2>1
        <3> QED
            BY <3>1, Zenon
    <2>5. Len(h) = g + 1 /\ h[g + 1] = b /\ \A i \in 1 .. g : h[i] = x.got[i]
        BY <1>3, <2>1, <2>4
    <2>6. PICK y \in XferType, e \in DwType : y = [x EXCEPT !.got = h] /\ e = [d EXCEPT !.rx = r]
        <3>1. [x EXCEPT !.got = h] \in XferType /\ [d EXCEPT !.rx = r] \in DwType
            BY Zenon DEF XferType, DwType
        <3> QED
            BY <3>1
    <2>7. /\ y.pc = "drain" /\ y.todo = x.todo /\ y.want = x.want /\ y.got = h
          /\ y.tag = x.tag /\ y.own = x.own
          /\ e.stop = d.stop /\ e.tx = d.tx /\ e.rx = r /\ e.abrt = d.abrt
          /\ e.on = d.on /\ e.tag = d.tag /\ e.pos = d.pos
        BY <1>2, <2>6 DEF XferType, DwType
    <2>8. xfer' = [xfer EXCEPT ![p] = y] /\ dw' = e
        BY <1>1, <1>5, <2>2, <2>4, <2>6 DEF ReadByte, Finish
    <2>9. ASSUME x.own PROVE OwnInv(e, y)
        <3>1. LiveInv(d, x)
            BY <1>2, <2>9
        <3>2. /\ TodoInv(y) /\ EndInv(e, y) /\ (~e.abrt => FifoInv(e, y) /\ CountInv(e, y))
              /\ e.on /\ e.tag = y.tag
            <4>1. TodoInv(y) /\ EndInv(e, y) /\ e.on /\ e.tag = y.tag
                BY <1>2, <2>7, <3>1, ZenonT(30) DEF LiveInv, TodoInv, EndInv
            <4>2. FifoInv(e, y) = FifoInv(d, x) /\ CountInv(e, y) = CountInv(d, x)
                BY <2>7, ZenonT(30) DEF FifoInv, CountInv
            <4> QED
                BY <2>7, <3>1, <4>1, <4>2, Zenon DEF LiveInv
        <3>3. /\ g + n <= s
              /\ g + n = s => /\ \A i \in 1 .. g : x.got[i] = <<x.tag, i>>
                              /\ \A i \in 1 .. n : d.rx[i] = <<x.tag, g + i>>
            BY <1>3, <3>1, Zenon DEF LiveInv, DataInv
        <3>4. (g + 1) + (n - 1) = g + n
            OBVIOUS
        <3>5. ASSUME g + n = s, NEW i \in 1 .. g + 1 PROVE h[i] = <<x.tag, i>>
            <4>1. CASE i = g + 1
                BY <2>3, <2>5, <3>3, <3>5, <4>1
            <4>2. CASE i \in 1 .. g
                BY <2>5, <3>3, <3>5, <4>2, Zenon
            <4> QED
                BY <4>1, <4>2
        <3>6. ASSUME g + n = s, NEW i \in 1 .. n - 1 PROVE r[i] = <<x.tag, g + 1 + i>>
            <4>1. i + 1 \in 1 .. n /\ r[i] = d.rx[i + 1] /\ g + (i + 1) = g + 1 + i
                BY <2>3
            <4> QED
                BY <3>3, <3>6, <4>1
        <3>7. Len(y.got) = g + 1 /\ Len(e.rx) = n - 1 /\ e.pos = s
            BY <1>3, <2>3, <2>5, <2>7
        <3>8. DataInv(e, y)
            BY <2>7, <3>3, <3>4, <3>5, <3>6, <3>7 DEF DataInv
        <3> QED
            BY <2>7, <3>2, <3>8 DEF OwnInv, LiveInv
    <2> QED
        BY <1>1, <1>2, <2>7, <2>8, <2>9, MasterKeeps
<1>6. CASE ReadDone(p)
    <2>1. g = x.want /\ Finish(p, TRUE)
        BY <1>1, <1>3, <1>6, Zenon DEF ReadDone
    <2>2. ASSUME x.own PROVE Whole(x)
        <3>1. LiveInv(d, x)
            BY <1>2, <2>2
        <3>2. Len(d.tx) = 0 /\ Len(x.todo) = 0 /\ ~d.abrt
            BY <1>2, <3>1 DEF LiveInv, EndInv
        <3>3. s = x.want
            BY <1>3, <2>1, <3>1, <3>2 DEF LiveInv, CountInv
        <3>4. g + n = s
            BY <1>3, <2>1, <3>1, <3>3 DEF LiveInv, DataInv
        <3>5. \A i \in 1 .. x.want : x.got[i] = <<x.tag, i>>
            BY <1>3, <2>1, <3>1, <3>3, <3>4 DEF LiveInv, DataInv
        <3>6. x.got \in Seq(Bytes) /\ Len(x.got) = x.want
            BY <1>3, <2>1 DEF XferType
        <3>7. DOMAIN x.got = 1 .. x.want /\ x.got = [i \in DOMAIN x.got |-> x.got[i]]
            BY <3>6
        <3> QED
            BY <3>5, <3>7, Zenon DEF Whole
    <2> QED
        BY <1>1, <1>2, <2>1, <2>2, FinishKeeps, Zenon
<1> QED
    BY <1>4, <1>5, <1>6

\* The controller works off one command: a read command brings a byte.
LEMMA CommandKeeps ==
    ASSUME BusInv, BusCommand
    PROVE  BusInv'
PROOF
<1>1. PICK d \in DwType : d = dw
    BY DEF BusInv
<1>2. d.tx \in Seq(Cmds) /\ d.rx \in Seq(Bytes) /\ d.pos \in Nat /\ d.tag \in {0, 1} /\ d.tx # <<>>
    BY <1>1 DEF DwType, BusCommand
<1>3. PICK k \in Nat, m \in Nat, s \in Nat : k = Len(d.tx) /\ m = Len(d.rx) /\ s = d.pos
    <2>1. Len(d.tx) \in Nat /\ Len(d.rx) \in Nat
        BY <1>2
    <2> QED
        BY <1>2, <2>1, Zenon
<1>4. k > 0
    BY <1>2, <1>3
<1>5. PICK c \in Cmds, t \in Seq(Cmds) : c = Head(d.tx) /\ t = Tail(d.tx)
    <2>1. Head(d.tx) \in Cmds /\ Tail(d.tx) \in Seq(Cmds)
        BY <1>2
    <2> QED
        BY <2>1, Zenon
<1>6. c = d.tx[1] /\ Len(t) = k - 1 /\ \A i \in 1 .. k - 1 : t[i] = d.tx[i + 1]
    BY <1>2, <1>3, <1>5
<1>7. PICK b \in Bytes : b = <<d.tag, s + 1>>
    <2>1. <<d.tag, s + 1>> \in Bytes
        BY <1>2 DEF Bytes
    <2> QED
        BY <2>1
<1>8. PICK r \in Seq(Bytes) : r = IF c.read /\ m < RxDepth THEN Append(d.rx, b) ELSE d.rx
    <2>1. Append(d.rx, b) \in Seq(Bytes)
        BY <1>2
    <2> QED
        BY <1>2, <2>1, Zenon
<1>9. PICK z \in Nat : z = IF c.read THEN s + 1 ELSE s
    OBVIOUS
<1>10. PICK stop \in BOOLEAN : stop = (d.stop \/ c.stop)
    BY Zenon
<1>11. PICK e \in DwType : e = [d EXCEPT !.tx = t, !.stop = stop, !.pos = z, !.rx = r]
    BY Zenon DEF DwType
<1>12. /\ e.stop = stop /\ e.tx = t /\ e.rx = r /\ e.pos = z /\ e.abrt = d.abrt
       /\ e.on = d.on /\ e.tag = d.tag
    BY <1>11 DEF DwType
<1>13. dw' = e /\ xfer' = xfer
    BY <1>1, <1>3, <1>5, <1>7, <1>8, <1>9, <1>10, <1>11 DEF BusCommand
<1>14. ASSUME NEW p \in Masters, NEW x \in XferType, x = xfer[p], x.own,
              x.pc \in {"push", "stop", "drain"}
       PROVE  LiveInv(e, x)
    <2>1. x.got \in Seq(Bytes) /\ x.todo \in Seq(Cmds) /\ x.want \in Nat /\ x.tag \in {0, 1}
        BY DEF XferType
    <2>2. PICK n \in Nat, g \in Nat : n = Len(x.todo) /\ g = Len(x.got)
        BY <2>1
    <2>3. LiveInv(d, x)
        BY <1>1, <1>14, Zenon DEF BusInv, OwnInv
    <2>4. ~d.abrt /\ x.pc # "drain"
        BY <1>3, <1>4, <2>3 DEF LiveInv, EndInv
    <2>5. /\ \A i \in 1 .. k : (d.tx[i].stop <=> i = k + n) /\ (d.tx[i].read <=> i > k + n - x.want)
          /\ s = IF k + n >= x.want THEN 0 ELSE x.want - (k + n)
        BY <1>3, <2>2, <2>3, <2>4, Zenon DEF LiveInv, FifoInv, CountInv
    <2>6. (c.stop <=> 1 = k + n) /\ (c.read <=> 1 > k + n - x.want)
        <3>1. 1 \in 1 .. k
            BY <1>4
        <3> QED
            BY <1>6, <2>5, <3>1
    <2>7. Len(t) + n = k + n - 1
        BY <1>6
    <2>8. FifoInv(e, x)
        <3> SUFFICES ASSUME NEW i \in 1 .. k - 1
                     PROVE  (t[i].stop <=> i = k - 1 + n) /\ (t[i].read <=> i > k - 1 + n - x.want)
            BY <1>6, <1>12, <2>2, Zenon DEF FifoInv
        <3>1. i + 1 \in 1 .. k /\ t[i] = d.tx[i + 1]
            BY <1>6
        <3>2. (d.tx[i + 1].stop <=> i + 1 = k + n) /\ (d.tx[i + 1].read <=> i + 1 > k + n - x.want)
            BY <2>5, <3>1
        <3> QED
            BY <2>1, <3>1, <3>2
    <2>9. CountInv(e, x)
        <3>1. z = IF k + n - 1 >= x.want THEN 0 ELSE x.want - (k + n - 1)
            BY <1>4, <1>9, <2>1, <2>5, <2>6
        <3> QED
            BY <1>12, <2>2, <2>7, <3>1, Zenon DEF CountInv
    <2>10. EndInv(e, x)
        <3>1. ~d.stop
            BY <1>3, <1>4, <2>3, <2>4 DEF LiveInv, EndInv
        <3>2. stop => c.stop
            BY <1>10, <3>1, Zenon
        <3>3. c.stop => k = 1 /\ n = 0
            BY <1>4, <2>6
        <3>4. stop => Len(t) = 0 /\ n = 0
            BY <1>6, <3>2, <3>3
        <3>5. x.pc # "push" => n = 0
            BY <2>2, <2>3 DEF LiveInv, EndInv
        <3> QED
            BY <1>12, <2>2, <2>4, <3>4, <3>5 DEF EndInv
    <2>11. DataInv(e, x)
        <3>1. /\ g + m <= s
              /\ g + m = s => /\ \A i \in 1 .. g : x.got[i] = <<x.tag, i>>
                              /\ \A i \in 1 .. m : d.rx[i] = <<x.tag, g + i>>
            BY <1>3, <2>2, <2>3, Zenon DEF LiveInv, DataInv
        <3>2. /\ Len(r) = IF c.read /\ m < RxDepth THEN m + 1 ELSE m
              /\ \A i \in 1 .. m : r[i] = d.rx[i]
              /\ c.read /\ m < RxDepth => r[m + 1] = b
            BY <1>2, <1>3, <1>8
        <3>3. g + Len(r) <= z /\ (g + Len(r) = z => g + m = s /\ (Len(r) = m + 1 => m + 1 = s + 1 - g))
            BY <1>9, <3>1, <3>2
        <3>4. ASSUME g + Len(r) = z, NEW i \in 1 .. Len(r) PROVE r[i] = <<x.tag, g + i>>
            <4>1. CASE i \in 1 .. m
                BY <3>1, <3>2, <3>3, <3>4, <4>1, Zenon
            <4>2. CASE i \notin 1 .. m
                <5>1. i = m + 1 /\ c.read /\ m < RxDepth /\ g + i = s + 1
                    BY <3>2, <3>3, <3>4, <4>2
                <5>2. d.tag = x.tag
                    BY <2>3 DEF LiveInv
                <5> QED
                    BY <1>7, <3>2, <5>1, <5>2
            <4> QED
                BY <4>1, <4>2
        <3> QED
            BY <1>12, <2>2, <3>1, <3>3, <3>4, Zenon DEF DataInv
    <2> QED
        BY <1>12, <2>3, <2>8, <2>9, <2>10, <2>11, Zenon DEF LiveInv
<1>15. ASSUME NEW p \in Masters, xfer[p].own PROVE OwnInv(e, xfer[p])
    <2>1. PICK x \in XferType : x = xfer[p]
        BY DEF BusInv
    <2>2. OwnInv(d, x)
        BY <1>1, <1>15, <2>1, Zenon DEF BusInv
    <2> QED
        BY <1>14, <1>15, <2>1, <2>2, Zenon DEF OwnInv
<1> QED
    BY <1>13, <1>15, ControllerKeeps, Zenon

\* The controller aborts: it throws away what is in the FIFO.
LEMMA AbortKeeps ==
    ASSUME BusInv, BusAbort
    PROVE  BusInv'
PROOF
<1>1. PICK d \in DwType : d = dw
    BY DEF BusInv
<1>2. d.tx \in Seq(Cmds) /\ d.tx # <<>> /\ Len(d.tx) # 0
    BY <1>1 DEF BusAbort, DwType
<1>3. PICK t \in Seq(Cmds) : t = <<>>
    <2>1. <<>> \in Seq(Cmds)
        OBVIOUS
    <2> QED
        BY <2>1, Zenon
<1>4. PICK e \in DwType : e = [d EXCEPT !.tx = t, !.abrt = TRUE]
    BY Zenon DEF DwType
<1>5. /\ e.tx = <<>> /\ e.abrt = TRUE /\ e.rx = d.rx /\ e.stop = d.stop
      /\ e.on = d.on /\ e.tag = d.tag /\ e.pos = d.pos
    BY <1>3, <1>4 DEF DwType
<1>6. dw' = e /\ xfer' = xfer
    BY <1>1, <1>3, <1>4 DEF BusAbort
<1>7. ASSUME NEW p \in Masters, xfer[p].own PROVE OwnInv(e, xfer[p])
    <2>1. PICK x \in XferType : x = xfer[p]
        BY DEF BusInv
    <2>2. OwnInv(d, x)
        BY <1>1, <1>7, <2>1, Zenon DEF BusInv
    <2>3. ASSUME LiveInv(d, x) PROVE LiveInv(e, x)
        <3>1. x.pc # "drain"
            BY <1>2, <2>3 DEF LiveInv, EndInv
        <3>2. TodoInv(x) /\ DataInv(e, x) /\ e.on /\ e.tag = x.tag
            BY <1>5, <2>3, ZenonT(30) DEF LiveInv, DataInv
        <3>3. EndInv(e, x)
            BY <1>5, <2>3, <3>1 DEF LiveInv, EndInv
        <3> QED
            BY <1>5, <3>2, <3>3 DEF LiveInv
    <2> QED
        BY <2>1, <2>2, <2>3, Zenon DEF OwnInv
<1> QED
    BY <1>6, <1>7, ControllerKeeps, Zenon

-----------------------------------------------------------------------------
(* The transfers inside the probe and the polls. *)

StageNames == {"bind", "desc", "power", "reset", "again"}
ProbeType == [stage : StageNames, bus : Nat \ {0}, reg : Nat, slave : Nat]

\* The probe is in no transfer when it binds a controller.
PadInv ==
    /\ machine \in Machines /\ probe \in ProbeType
    /\ setup = "start" => probe.stage = "bind" /\ xfer["boot"].pc = "idle"
    /\ setup = "i2c" /\ probe.stage = "bind" => xfer["boot"].pc = "idle"
    /\ BusInv

LEMMA MastersAre == "boot" \in Masters /\ Pollers \subseteq Masters
BY PointersAssumption, Zenon

\* The controller as i2c_dw_unbind() leaves it, and a transfer that has not begun.
LEMMA FreshTypes ==
    Unbound \in DwType /\ Idle \in XferType /\ Idle.pc = "idle" /\ Idle.own = FALSE
PROOF
<1>1. PICK t \in Seq(Cmds), r \in Seq(Bytes) : t = <<>> /\ r = <<>>
    <2>1. <<>> \in Seq(Cmds) /\ <<>> \in Seq(Bytes)
        OBVIOUS
    <2> QED
        BY <2>1, Zenon
<1>2. 0 \in {0, 1} /\ 0 \in Nat /\ "none" \in Msgs
    BY DEF Msgs
<1>3. [bound |-> FALSE, on |-> FALSE, tx |-> t, rx |-> r, stop |-> FALSE, abrt |-> FALSE,
       there |-> FALSE, tag |-> 0, pos |-> 0] \in DwType
    BY <1>2 DEF DwType
<1>4. [pc |-> "idle", tag |-> 0, msg |-> "none", todo |-> t, want |-> 0, got |-> r,
       ok |-> FALSE, own |-> FALSE] \in XferType
    BY <1>2 DEF XferType
<1>5. Unbound \in DwType /\ Idle \in XferType
    BY <1>1, <1>3, <1>4, Zenon DEF Unbound, Idle
<1>6. Idle.pc = "idle" /\ Idle.own = FALSE
    BY DEF Idle
<1> QED
    BY <1>5, <1>6

LEMMA BoundType ==
    ASSUME NEW d \in DwType, NEW b \in BOOLEAN
    PROVE  [d EXCEPT !.bound = b] \in DwType
BY Zenon DEF DwType

\* A transfer whose result was used is over.
LEMMA ClearKeeps ==
    ASSUME BusInv, NEW p \in Masters, xfer[p].pc = "done", Clear(p), dw' \in DwType
    PROVE  BusInv' /\ xfer'[p].pc = "idle" /\ \A m \in Masters \ {p} : xfer'[m] = xfer[m]
PROOF
<1>1. PICK e \in DwType, y \in XferType : dw' = e /\ y = Idle
    BY FreshTypes
<1>2. xfer' = [xfer EXCEPT ![p] = y] /\ xfer \in [Masters -> XferType]
    BY <1>1 DEF Clear, BusInv
<1>3. y.pc = "idle" /\ y.own = FALSE
    BY <1>1, FreshTypes
<1>4. BusInv'
    BY <1>1, <1>2, <1>3, MasterKeeps
<1> QED
    BY <1>2, <1>3, <1>4

\* The threads' steps leave a thread that is in no transfer where it is.
LEMMA OthersIdle ==
    ASSUME BusInv, NEW p \in Masters, Master(p), NEW m \in Masters, xfer[m].pc = "idle"
    PROVE  xfer'[m].pc = "idle"
PROOF
<1>1. xfer[p].pc # "idle"
    BY Zenon DEF Master, PushCommand, PushTimeout, PushDone, WaitStop, ReadByte, ReadDone
<1>2. xfer \in [Masters -> XferType] /\ m # p
    BY <1>1 DEF BusInv
<1>3. \A y : xfer' = [xfer EXCEPT ![p] = y] => xfer'[m] = xfer[m]
    BY <1>2
<1>4. \E y : xfer' = [xfer EXCEPT ![p] = y]
    BY Zenon DEF Master, PushCommand, PushTimeout, PushDone, WaitStop, ReadByte, ReadDone, Finish
<1> QED
    BY <1>3, <1>4, Zenon

LEMMA NextAttemptType == ASSUME NEW p \in ProbeType PROVE NextAttempt(p) \in ProbeType
PROOF
<1>1. p.bus + 1 \in Nat \ {0} /\ p.slave + 1 \in Nat /\ p.reg + 1 \in Nat
    BY DEF ProbeType
<1>2. [p EXCEPT !.stage = "bind", !.slave = @ + 1] \in ProbeType
    BY <1>1, Zenon DEF ProbeType, StageNames
<1>3. [p EXCEPT !.stage = "bind", !.slave = 1, !.reg = @ + 1] \in ProbeType
    BY <1>1, Zenon DEF ProbeType, StageNames
<1>4. [stage |-> "bind", bus |-> p.bus + 1, reg |-> 1, slave |-> 1] \in ProbeType
    BY <1>1 DEF ProbeType, StageNames
<1> QED
    BY <1>2, <1>3, <1>4 DEF NextAttempt

LEMMA NextStageType ==
    ASSUME NEW s \in {"desc", "power", "reset"}
    PROVE  NextStage(s) \in {"power", "reset", "again"}
PROOF
<1>1. \E i \in 2 .. 4 : Stages[i - 1] = s
    BY DEF Stages
<1>2. PICK j \in 2 .. 4 : j = CHOOSE i \in 2 .. 4 : Stages[i - 1] = s
    BY <1>1
<1>3. j = 2 \/ j = 3 \/ j = 4
    OBVIOUS
<1>4. Stages[j] \in {"power", "reset", "again"}
    BY <1>3 DEF Stages
<1> QED
    BY <1>2, <1>4 DEF NextStage

LEMMA PadInit == Init => PadInv
PROOF
<1> SUFFICES ASSUME Init PROVE PadInv
    OBVIOUS
<1>1. /\ machine \in Machines /\ setup = "start" /\ dw = Unbound /\ xfer = [p \in Masters |-> Idle]
      /\ probe = [stage |-> "bind", bus |-> 1, reg |-> 1, slave |-> 1]
    BY DEF Init, BusInit
<1>2. probe \in ProbeType /\ probe.stage = "bind"
    BY <1>1 DEF ProbeType, StageNames
<1>3. PICK y \in XferType : y = Idle
    BY FreshTypes
<1>4. dw \in DwType /\ xfer \in [Masters -> XferType] /\ \A p \in Masters : xfer[p] = y
    BY <1>1, <1>3, FreshTypes
<1>5. y.pc = "idle" /\ y.own = FALSE
    BY <1>3, FreshTypes
<1>6. BusInv
    BY <1>4, <1>5, Zenon DEF BusInv
<1> QED
    BY <1>1, <1>2, <1>4, <1>5, <1>6, MastersAre DEF PadInv

LEMMA PadStep == PadInv /\ [Next]_vars => PadInv'
PROOF
<1> SUFFICES ASSUME PadInv, [Next]_vars PROVE PadInv'
    OBVIOUS
<1> USE DEF setupVars, busVars, tabletVars
<1>a. ASSUME UNCHANGED <<machine, probe, dw, xfer>>,
             setup' = setup \/ setup' \notin {"start", "i2c"}
      PROVE  PadInv'
    BY <1>a DEF PadInv, BusInv
<1>1. CASE TryVirtio
    <2>1. UNCHANGED <<machine, probe, dw, xfer>> /\ setup = "start" /\ setup' \in {"i2c", "done"}
        BY <1>1 DEF TryVirtio, Done
    <2> QED
        BY <2>1 DEF PadInv, BusInv
<1>2. CASE SkipI2c \/ NoTouchpad
    BY <1>2, <1>a DEF SkipI2c, NoTouchpad
<1>3. CASE TryUsb
    BY <1>3, <1>a DEF TryUsb, Done
<1>4. CASE InitPs2Aux
    BY <1>4, <1>a DEF InitPs2Aux, Done
<1>5. CASE ProbeBind
    <2>1. setup = "i2c" /\ probe.stage = "bind" /\ xfer["boot"].pc = "idle" /\ UNCHANGED <<machine, setup, xfer>>
        BY <1>5 DEF ProbeBind, Trying, PadInv
    <2>2. Bus.dw \in BOOLEAN
        <3>1. machine.buses \in Seq([dw : BOOLEAN, slave : Nat, reg : Nat])
            BY PointersAssumption DEF PadInv
        <3>2. probe.bus \in 1 .. Len(machine.buses)
            BY <1>5, <3>1 DEF ProbeBind, PadInv, ProbeType
        <3>3. PICK T : T = [dw : BOOLEAN, slave : Nat, reg : Nat]
            BY Zenon
        <3>4. machine.buses \in Seq(T)
            BY <3>1, <3>3
        <3>5. machine.buses[probe.bus] \in T
            BY <3>2, <3>4
        <3> QED
            BY <3>3, <3>5 DEF Bus
    <2>3. PICK d \in DwType, e \in DwType : d = dw /\ e = [d EXCEPT !.bound = Bus.dw]
        BY <2>2, BoundType, Zenon DEF PadInv, BusInv
    <2>4. dw' = e
        BY <1>5, <2>3, Zenon DEF ProbeBind
    <2>5. /\ e.on = d.on /\ e.tx = d.tx /\ e.rx = d.rx /\ e.stop = d.stop /\ e.abrt = d.abrt
          /\ e.tag = d.tag /\ e.pos = d.pos
        BY <2>3 DEF DwType
    <2>6. ASSUME NEW p \in Masters, xfer[p].own PROVE OwnInv(e, xfer[p])
        <3>1. OwnInv(d, xfer[p])
            BY <2>3, <2>6, Zenon DEF PadInv, BusInv
        <3>2. ASSUME LiveInv(d, xfer[p]) PROVE LiveInv(e, xfer[p])
            <4>1. /\ FifoInv(e, xfer[p]) = FifoInv(d, xfer[p])
                  /\ CountInv(e, xfer[p]) = CountInv(d, xfer[p])
                BY <2>5, Zenon DEF FifoInv, CountInv
            <4>2. DataInv(e, xfer[p]) = DataInv(d, xfer[p]) /\ EndInv(e, xfer[p]) = EndInv(d, xfer[p])
                BY <2>5, Zenon DEF DataInv, EndInv
            <4> QED
                BY <2>5, <3>2, <4>1, <4>2, Zenon DEF LiveInv
        <3> QED
            BY <3>1, <3>2, Zenon DEF OwnInv
    <2>7. BusInv'
        BY <2>1, <2>4, <2>6, ControllerKeeps, Zenon DEF PadInv
    <2>8. probe' \in ProbeType
        <3>1. [probe EXCEPT !.stage = "desc"] \in ProbeType
            BY DEF PadInv, ProbeType, StageNames
        <3> QED
            BY <1>5, <3>1, NextAttemptType DEF ProbeBind, PadInv
    <2> QED
        BY <2>1, <2>7, <2>8 DEF PadInv
<1>6. CASE ProbeBegin
    <2>1. UNCHANGED <<machine, setup, probe>> /\ probe.stage # "bind" /\ setup = "i2c"
        BY <1>6 DEF ProbeBegin, Trying
    <2>2. DescLen \in Nat /\ CommandLen \in Nat /\ PointerLen \in Nat /\ 0 \in Nat
        BY PointersAssumption
    <2>3. Answers \in BOOLEAN
        BY DEF Answers
    <2>4. CASE probe.stage = "desc"
        <3>1. PICK msg \in Msgs : Begin("boot", PointerLen, DescLen, Answers, msg)
            BY <1>6, <2>4 DEF ProbeBegin, Msgs
        <3>2. BusInv'
            BY <2>2, <2>3, <3>1, BeginKeeps, MastersAre, Zenon DEF PadInv
        <3> QED
            BY <2>1, <3>2 DEF PadInv
    <2>5. CASE probe.stage # "desc"
        <3>1. Begin("boot", CommandLen, 0, Answers, "none") /\ "none" \in Msgs
            BY <1>6, <2>5 DEF ProbeBegin, Msgs
        <3>2. BusInv'
            BY <2>2, <2>3, <3>1, BeginKeeps, MastersAre, Zenon DEF PadInv
        <3> QED
            BY <2>1, <3>2 DEF PadInv
    <2> QED
        BY <2>4, <2>5
<1>7. CASE ProbeEnd
    <2>1. /\ setup = "i2c" /\ xfer["boot"].pc = "done" /\ Clear("boot")
          /\ machine' = machine /\ (setup' = setup \/ setup' = "done")
        BY <1>7, Zenon DEF ProbeEnd, Trying
    <2>2. dw' \in DwType
        <3>1. PICK d \in DwType : d = dw
            BY DEF PadInv, BusInv
        <3>2. dw' = d \/ GiveUp
            BY <1>7, <3>1, Zenon DEF ProbeEnd
        <3>3. ASSUME GiveUp
              PROVE  \/ dw' = Unbound \/ dw' = [Off(d) EXCEPT !.bound = FALSE]
                     \/ dw' = [d EXCEPT !.bound = FALSE]
            BY <3>1, <3>3, Zenon DEF GiveUp, Disabled
        <3> QED
            BY <3>2, <3>3, FreshTypes, OffProp, BoundType
    <2>3. BusInv' /\ xfer'["boot"].pc = "idle"
        BY <2>1, <2>2, ClearKeeps, MastersAre, Zenon DEF PadInv
    <2>4. probe' \in ProbeType
        <3>1. CASE probe' = probe
            BY <3>1 DEF PadInv
        <3>2. CASE probe' = NextAttempt(probe)
            BY <3>2, NextAttemptType DEF PadInv
        <3>3. CASE probe.stage # "again" /\ probe' = [probe EXCEPT !.stage = NextStage(@)]
            <4>1. probe.stage \in {"desc", "power", "reset"}
                BY <2>1, <3>3 DEF PadInv, ProbeType, StageNames
            <4>2. PICK s \in StageNames : s = NextStage(probe.stage)
                BY <4>1, NextStageType DEF StageNames
            <4> QED
                BY <3>3, <4>2 DEF PadInv, ProbeType
        <3> QED
            BY <1>7, <3>1, <3>2, <3>3, Zenon DEF ProbeEnd, GiveUp
    <2> QED
        BY <2>1, <2>3, <2>4 DEF PadInv
<1>8. ASSUME NEW p \in Pollers, PollTablet(p) PROVE PadInv'
    BY <1>8, <1>a DEF PollTablet
<1>9. CASE DeviceSends
    BY <1>9, <1>a DEF DeviceSends
<1>10. ASSUME NEW p \in Pollers, PollPadBegin(p) PROVE PadInv'
    <2>1. UNCHANGED <<machine, setup, probe>> /\ setup = "done"
        BY <1>10 DEF PollPadBegin
    <2>2. PICK msg \in {"good", "bad"} : Begin(p, 0, machine.maxIn, TRUE, msg)
        BY <1>10, Zenon DEF PollPadBegin
    <2>3. 0 \in Nat /\ machine.maxIn \in Nat /\ msg \in Msgs
        BY PointersAssumption DEF PadInv, Msgs
    <2>4. p \in Masters
        BY MastersAre
    <2>5. BusInv'
        BY <2>2, <2>3, <2>4, BeginKeeps, Zenon DEF PadInv
    <2> QED
        BY <2>1, <2>5 DEF PadInv
<1>11. ASSUME NEW p \in Pollers, PollPadEnd(p) PROVE PadInv'
    <2>1. /\ UNCHANGED <<machine, setup, probe>> /\ setup = "done" /\ xfer[p].pc = "done" /\ Clear(p)
          /\ dw' = dw
        BY <1>11 DEF PollPadEnd
    <2>2. p \in Masters /\ dw' \in DwType
        BY <2>1, MastersAre DEF PadInv, BusInv
    <2>3. BusInv'
        BY <2>1, <2>2, ClearKeeps DEF PadInv
    <2> QED
        BY <2>1, <2>3 DEF PadInv
<1>12. CASE BusWork
    <2>1. UNCHANGED <<machine, setup, probe>>
        BY <1>12 DEF BusWork
    <2>2. BusInv
        BY DEF PadInv
    <2>3. ASSUME NEW p \in Masters, Master(p) PROVE BusInv'
        <3>1. CASE PushTimeout(p)
            <4>1. xfer[p].pc # "idle" /\ Finish(p, FALSE)
                BY <3>1 DEF PushTimeout
            <4> QED
                BY <2>2, <4>1, FinishKeeps, Zenon
        <3>2. CASE ~PushTimeout(p)
            BY <2>2, <2>3, <3>2, PushKeeps, WaitKeeps, ReadKeeps, Zenon DEF Master
        <3> QED
            BY <3>1, <3>2
    <2>4. BusInv'
        BY <1>12, <2>2, <2>3, CommandKeeps, AbortKeeps, Zenon DEF BusWork
    <2>5. xfer["boot"].pc = "idle" => xfer'["boot"].pc = "idle"
        <3>1. BusCommand \/ BusAbort => xfer' = xfer
            BY DEF BusCommand, BusAbort
        <3> QED
            BY <1>12, <2>2, <3>1, OthersIdle, MastersAre, Zenon DEF BusWork
    <2> QED
        BY <2>1, <2>4, <2>5 DEF PadInv
<1>13. CASE UNCHANGED vars
    BY <1>13, <1>a DEF vars
<1> QED
    BY <1>1, <1>2, <1>3, <1>4, <1>5, <1>6, <1>7, <1>8, <1>9, <1>10, <1>11, <1>12, <1>13
       DEF Next, SetupStep, Polls

\* A read of the touchpad that reports success has the whole message in order, for every
\* length of the message, every depth of the FIFOs and any number of threads, whatever
\* timed out, was refused or was mixed up before it: the disable at the start of a
\* transfer (i2c_dw.c), if the controller obeys it, removes all of that.
THEOREM TransfersExact == Spec => []ReadsExact
PROOF
<1>1. PadInv => ReadsExact
    BY Zenon DEF PadInv, BusInv, OwnInv, Whole, ReadsExact
<1> QED
    BY <1>1, PadInit, PadStep, PTL DEF Spec

-----------------------------------------------------------------------------
(* The tablet's queue (drivers/virtio_tablet.c).  The ring indices are the *)
(* numbers of events sent and of buffers returned, modulo Word16; the      *)
(* invariant is about the numbers.  Buffers circulate: the ones that hold  *)
(* an event and the ones on offer are different.                           *)

\* The buffer in place j of the circulation: sent of them are in the used ring, the rest
\* in the available ring.
Slot(used, avail, sent, q, j) == IF j < sent THEN used[j % q] ELSE avail[j % q]
Circulate(used, avail, sent, returned, q) ==
    \A i, j \in returned .. returned + q - 1 :
        Slot(used, avail, sent, q, i) = Slot(used, avail, sent, q, j) => i = j

\* Both rings name buffers of a queue of q.
Rings(q, used, avail) ==
    used \in [0 .. q - 1 -> 0 .. q - 1] /\ avail \in [0 .. q - 1 -> 0 .. q - 1]
\* Of q buffers r have come back and s are used, and not every one is used.
Room(q, s, r) == q \in Nat \ {0} /\ s \in Nat /\ r \in Nat /\ r <= s /\ s < r + q
\* ... and not every used one has come back.
Used(q, s, r) == q \in Nat \ {0} /\ s \in Nat /\ r \in Nat /\ r < s /\ s <= r + q

UsedAfter(q, used, avail, s) == [used EXCEPT ![s % q] = avail[s % q]]
AvailAfter(q, used, avail, r) == [avail EXCEPT ![r % q] = used[r % q]]

\* The places of one turn are different slots.
LEMMA OneTurn ==
    ASSUME NEW q, NEW s, NEW r, Room(q, s, r), NEW j \in r .. r + q - 1
    PROVE  /\ s % q \in 0 .. q - 1 /\ j % q \in 0 .. q - 1
           /\ j # s => j % q # s % q
           /\ j # s => (j < s + 1 <=> j < s)
           /\ j = s => j < s + 1 /\ ~(j < s)
PROOF
<1>1. q \in Nat /\ q > 0 /\ s \in Int /\ j \in Int
    BY DEF Room
<1>2. s % q \in 0 .. q - 1 /\ j % q \in 0 .. q - 1
    BY <1>1, ModProp
<1>3. j < s + q /\ s < j + q
    BY DEF Room
<1>4. j # s => j % q # s % q
    BY <1>1, <1>3, ModInjective
<1>5. (j # s => (j < s + 1 <=> j < s)) /\ (j = s => j < s + 1 /\ ~(j < s))
    BY <1>1
<1> QED
    BY <1>2, <1>4, <1>5

\* The places of one turn before the next one.
LEMMA BeforeNext ==
    ASSUME NEW q, NEW s, NEW r, Room(q, s, r)
    PROVE  /\ s \in r .. r + q - 1 /\ r <= s + 1 /\ s + 1 <= r + q /\ ~(s < s)
           /\ \A j \in r .. s - 1 : /\ j \in r .. r + q - 1 /\ j # s /\ j < s /\ j < s + 1
                                    /\ j + 1 \in 1 .. s
BY DEF Room

\* The places of a turn that follow the oldest one, and where each came from.
LEMMA NextTurn ==
    ASSUME NEW q, NEW s, NEW r, Used(q, s, r), NEW j \in r + 1 .. r + q
    PROVE  /\ r % q \in 0 .. q - 1 /\ j % q \in 0 .. q - 1 /\ r < s
           /\ j = r + q => j % q = r % q /\ ~(j < s)
           /\ j # r + q => j % q # r % q /\ j \in r .. r + q - 1 /\ j # r
           /\ r \in r .. r + q - 1
PROOF
<1>1. q \in Nat /\ q > 0 /\ r \in Int /\ j \in Int /\ r < s /\ r \in r .. r + q - 1
    BY DEF Used
<1>2. r % q \in 0 .. q - 1 /\ j % q \in 0 .. q - 1
    BY <1>1, ModProp
<1>3. j = r + q => j % q = r % q
    BY <1>1, ModTurn
<1>4. j = r + q => ~(j < s)
    BY DEF Used
<1>5. j # r + q => j < r + q /\ r < j + q /\ j # r /\ j \in r .. r + q - 1
    BY DEF Used
<1>6. j # r + q => j % q # r % q
    BY <1>1, <1>5, ModInjective
<1> QED
    BY <1>1, <1>2, <1>3, <1>4, <1>5, <1>6

\* The device moves a buffer from the available ring to the used ring.
LEMMA SendSlots ==
    ASSUME NEW q, NEW used, NEW avail, NEW s, NEW r, Rings(q, used, avail), Room(q, s, r),
           NEW j \in r .. r + q - 1
    PROVE  Slot(UsedAfter(q, used, avail, s), avail, s + 1, q, j) = Slot(used, avail, s, q, j)
PROOF
<1>1. used \in [0 .. q - 1 -> 0 .. q - 1]
    BY DEF Rings
<1>2. s % q \in 0 .. q - 1 /\ j % q \in 0 .. q - 1 /\ (j # s => j % q # s % q)
    BY OneTurn, Zenon
<1>3. CASE j = s
    <2>1. j < s + 1 /\ ~(j < s)
        BY <1>3, OneTurn, Zenon
    <2>2. UsedAfter(q, used, avail, s)[s % q] = avail[s % q]
        BY <1>1, <1>2 DEF UsedAfter
    <2> QED
        BY <1>3, <2>1, <2>2, Zenon DEF Slot
<1>4. CASE j # s
    <2>1. UsedAfter(q, used, avail, s)[j % q] = used[j % q]
        BY <1>1, <1>2, <1>4 DEF UsedAfter
    <2>2. j < s + 1 <=> j < s
        BY <1>4, OneTurn, Zenon
    <2> QED
        BY <2>1, <2>2, Zenon DEF Slot
<1> QED
    BY <1>3, <1>4

\* Where the buffer at place j was before the driver returned the oldest one.
CameFrom(q, r, j) == IF j = r + q THEN r ELSE j

\* The driver returns the oldest used buffer to the end of the available ring.
LEMMA ReturnSlots ==
    ASSUME NEW q, NEW used, NEW avail, NEW s, NEW r, Rings(q, used, avail), Used(q, s, r),
           NEW j \in r + 1 .. r + q
    PROVE  Slot(used, AvailAfter(q, used, avail, r), s, q, j)
               = Slot(used, avail, s, q, CameFrom(q, r, j))
PROOF
<1>1. avail \in [0 .. q - 1 -> 0 .. q - 1]
    BY DEF Rings
<1>2. r % q \in 0 .. q - 1 /\ j % q \in 0 .. q - 1 /\ r < s
    BY NextTurn, Zenon
<1>3. CASE j = r + q
    <2>1. j % q = r % q /\ ~(j < s)
        BY <1>3, NextTurn, Zenon
    <2>2. AvailAfter(q, used, avail, r)[r % q] = used[r % q]
        BY <1>1, <1>2 DEF AvailAfter
    <2>3. CameFrom(q, r, j) = r
        BY <1>3, Zenon DEF CameFrom
    <2> QED
        BY <1>2, <2>1, <2>2, <2>3, Zenon DEF Slot
<1>4. CASE j # r + q
    <2>1. j % q # r % q
        BY <1>4, NextTurn, Zenon
    <2>2. AvailAfter(q, used, avail, r)[j % q] = avail[j % q]
        BY <1>1, <1>2, <2>1 DEF AvailAfter
    <2>3. CameFrom(q, r, j) = j
        BY <1>4, Zenon DEF CameFrom
    <2> QED
        BY <2>2, <2>3, Zenon DEF Slot
<1> QED
    BY <1>3, <1>4

\* After the device's step the buffers circulate, and the one it filled is none of those
\* that hold an event already.
LEMMA SendCirculates ==
    ASSUME NEW q, NEW used, NEW avail, NEW s, NEW r, Rings(q, used, avail), Room(q, s, r),
           Circulate(used, avail, s, r, q)
    PROVE  /\ Circulate(UsedAfter(q, used, avail, s), avail, s + 1, r, q)
           /\ \A j \in r .. s - 1 : /\ UsedAfter(q, used, avail, s)[j % q] = used[j % q]
                                    /\ used[j % q] # avail[s % q]
                                    /\ used[j % q] \in 0 .. q - 1 /\ j + 1 \in 1 .. s
PROOF
<1>1. used \in [0 .. q - 1 -> 0 .. q - 1]
    BY DEF Rings
<1>2. PICK u2 : u2 = UsedAfter(q, used, avail, s)
    OBVIOUS
<1>3. ASSUME NEW j \in r .. r + q - 1
      PROVE  Slot(u2, avail, s + 1, q, j) = Slot(used, avail, s, q, j)
    <2>1. Slot(UsedAfter(q, used, avail, s), avail, s + 1, q, j) = Slot(used, avail, s, q, j)
        BY SendSlots
    <2> QED
        BY <1>2, <2>1
<1>4. Circulate(u2, avail, s + 1, r, q)
    BY <1>3, Zenon DEF Circulate
<1>5. ASSUME NEW j \in r .. s - 1
      PROVE  /\ u2[j % q] = used[j % q] /\ used[j % q] # avail[s % q]
             /\ used[j % q] \in 0 .. q - 1 /\ j + 1 \in 1 .. s
    <2>1. /\ j \in r .. r + q - 1 /\ s \in r .. r + q - 1 /\ j # s /\ j < s /\ j < s + 1
          /\ j + 1 \in 1 .. s /\ ~(s < s)
        BY BeforeNext, Zenon
    <2>2. j % q \in 0 .. q - 1
        BY <2>1, OneTurn, Zenon
    <2>3. Slot(u2, avail, s + 1, q, j) = Slot(used, avail, s, q, j)
        BY <1>3, <2>1
    <2>4. Slot(used, avail, s, q, s) # Slot(used, avail, s, q, j)
        BY <2>1, Zenon DEF Circulate
    <2>6. /\ Slot(used, avail, s, q, s) = avail[s % q] /\ Slot(used, avail, s, q, j) = used[j % q]
          /\ Slot(u2, avail, s + 1, q, j) = u2[j % q]
        BY <2>1, Zenon DEF Slot
    <2>7. used[j % q] \in 0 .. q - 1
        BY <1>1, <2>2, Zenon
    <2> QED
        BY <2>1, <2>3, <2>4, <2>6, <2>7, Zenon
<1> QED
    BY <1>2, <1>4, <1>5, Zenon

\* ... and so after a buffer came back.
LEMMA ReturnCirculates ==
    ASSUME NEW q, NEW used, NEW avail, NEW s, NEW r, Rings(q, used, avail), Used(q, s, r),
           Circulate(used, avail, s, r, q)
    PROVE  Circulate(used, AvailAfter(q, used, avail, r), s, r + 1, q)
PROOF
<1>2. PICK a2 : a2 = AvailAfter(q, used, avail, r)
    OBVIOUS
<1>3. ASSUME NEW j \in r + 1 .. r + q
      PROVE  Slot(used, a2, s, q, j) = Slot(used, avail, s, q, CameFrom(q, r, j))
    <2>1. Slot(used, AvailAfter(q, used, avail, r), s, q, j)
              = Slot(used, avail, s, q, CameFrom(q, r, j))
        BY ReturnSlots
    <2> QED
        BY <1>2, <2>1
<1>4. ASSUME NEW j \in r + 1 .. r + q
      PROVE  /\ CameFrom(q, r, j) \in r .. r + q - 1
             /\ j # r + q => j # r
    BY NextTurn, Zenon DEF CameFrom
<1>5. \A i, j \in r + 1 .. r + q : CameFrom(q, r, i) = CameFrom(q, r, j) => i = j
    BY <1>4, Zenon DEF CameFrom
<1>6. r + 1 .. r + 1 + q - 1 = r + 1 .. r + q
    BY DEF Used
<1>7. \A i, j \in r + 1 .. r + q : Slot(used, a2, s, q, i) = Slot(used, a2, s, q, j) => i = j
    BY <1>3, <1>4, <1>5, Zenon DEF Circulate
<1> QED
    BY <1>2, <1>6, <1>7, Zenon DEF Circulate

\* A counter that wraps at Word16 still tells a queue's length of numbers apart, and names
\* the same slot as the number.
LEMMA WrapFacts ==
    ASSUME NEW q \in Nat \ {0}, Word16 % q = 0, q < Word16, NEW a \in Nat
    PROVE  /\ a % Word16 \in 0 .. Word16 - 1
           /\ (a % Word16) % q = a % q
           /\ ((a % Word16) + 1) % Word16 = (a + 1) % Word16
           /\ \A b \in a .. a + q : b % Word16 = a % Word16 => b = a
PROOF
<1>1. Word16 \in Nat /\ Word16 > 0 /\ q \in Nat /\ q > 0 /\ a \in Int /\ 1 \in Int
    BY TabletAssumption
<1>2. ASSUME NEW b \in a .. a + q, b % Word16 = a % Word16 PROVE b = a
    <2>1. b \in Int /\ b < a + Word16 /\ a < b + Word16
        BY <1>1
    <2> QED
        BY <1>1, <1>2, <2>1, ModInjective
<1>3. (a % Word16) % q = a % q
    BY <1>1, ModMod
<1>4. ((a % Word16) + 1) % Word16 = (a + 1) % Word16
    BY <1>1, ModAdd
<1>5. a % Word16 \in 0 .. Word16 - 1
    BY <1>1, ModProp
<1> QED
    BY <1>2, <1>3, <1>4, <1>5

\* setup_vq(): the queue's size is at least two and divides the number the indices wrap at.
LEMMA SizeProp ==
    ASSUME NEW n \in Nat, n >= 2
    PROVE  /\ QueueSize(n) \in Powers \ {1} /\ QueueSize(n) < Word16
           /\ Word16 % QueueSize(n) = 0
PROOF
<1>1. QueueWant \in {2, 4, 8, 16} /\ Word16 \in Nat /\ QueueWant < Word16 /\ Word16 % QueueWant = 0
    BY TabletAssumption DEF Powers
<1>2. PICK most \in 2 .. 16 : most = IF QueueWant > n THEN n ELSE QueueWant
    BY <1>1
<1>3. \E p \in Powers : p <= most /\ most < 2 * p
    <2>1. most \in 2 .. 3 \/ most \in 4 .. 7 \/ most \in 8 .. 15 \/ most = 16
        OBVIOUS
    <2> QED
        BY <2>1 DEF Powers
<1>4. PICK p \in Powers : p = QueueSize(n) /\ p <= most /\ most < 2 * p
    BY <1>2, <1>3 DEF QueueSize
<1>5. p \in {2, 4, 8, 16} /\ p <= QueueWant
    BY <1>1, <1>2, <1>4 DEF Powers
<1>6. Word16 % p = 0
    BY <1>1, <1>5
<1> QED
    BY <1>1, <1>4, <1>5, <1>6 DEF Powers

-----------------------------------------------------------------------------
(* The queue's invariant, as long as no two polls overlap. *)

\* Nobody but p is polling.
Alone(p) == \A x \in Pollers \ {p} : tpoll[x].pc = "idle"
Solo == \A p \in Pollers : tpoll[p].pc # "idle" => Alone(p)

Sizes == {q \in Powers \ {1} : q < Word16 /\ Word16 % q = 0}
NoEvent == [kind |-> "none", code |-> "none", v |-> 0]
QueueType(q) ==
    [size : {q}, availIdx : Nat, usedIdx : Nat, avail : [0 .. q - 1 -> 0 .. q - 1],
     used : [0 .. q - 1 -> 0 .. q - 1], buf : [0 .. q - 1 -> Events \cup {NoEvent}]]
DevType == [seen : Nat, todo : Seq(Events), sent : Seq(Events)]
PollType == [pc : {"idle", "next", "return"}, used : Nat, id : Nat]
TabType ==
    [active : BOOLEAN, last : Nat, range : Int \X Int, absX : Int, absY : Int, haveX : BOOLEAN,
     haveY : BOOLEAN, outX : Int, outY : Int, btn : SUBSET STRING]

\* Buffers given back: that of an event just decoded is still to be.
Returned == IF \E p \in Pollers : tpoll[p].pc = "return" THEN Len(handled) - 1 ELSE Len(handled)

\* The ring page v and the device d after r buffers came back.
QueueInv(v, d, last, r) ==
    /\ v.size \in Sizes /\ v \in QueueType(v.size)
    /\ r \in Nat /\ r <= Len(d.sent) /\ Len(d.sent) <= r + v.size
    /\ v.usedIdx = Len(d.sent) % Word16 /\ d.seen = Len(d.sent) % Word16
    /\ last = r % Word16 /\ v.availIdx = (r + v.size) % Word16
    /\ Circulate(v.used, v.avail, Len(d.sent), r, v.size)
    /\ \A j \in r .. Len(d.sent) - 1 : v.buf[v.used[j % v.size]] = d.sent[j + 1]

\* The poller has seen the index of some number of events between r and those sent.
PollerInv(t, v, s, r) ==
    /\ t.pc = "next" => \E m \in r .. s : t.used = m % Word16
    /\ t.pc = "return" => /\ t.id = v.used[r % v.size]
                          /\ \E m \in r + 1 .. s : t.used = m % Word16

OrderInv(d, h) == Len(h) <= Len(d.sent) /\ \A i \in 1 .. Len(h) : h[i] = d.sent[i]

Blank ==
    /\ dev.seen = 0 /\ dev.sent = <<>> /\ handled = <<>> /\ tab.last = 0 /\ ~tab.active
    /\ \A p \in Pollers : tpoll[p].pc = "idle"

TabletInv ==
    /\ machine \in Machines
    /\ dev \in DevType /\ handled \in Seq(Events) /\ tpoll \in [Pollers -> PollType]
    /\ tab \in TabType
    /\ setup = "start" => vq.size = 0
    /\ vq.size = 0 => Blank
    /\ vq.size # 0 => /\ QueueInv(vq, dev, tab.last, Returned)
                      /\ \A p \in Pollers : PollerInv(tpoll[p], vq, Len(dev.sent), Returned)
                      /\ tab.range[2] > tab.range[1]
    /\ OrderInv(dev, handled)

\* The size of a queue in use.
LEMMA SizesProp == ASSUME NEW q \in Sizes PROVE q \in Nat \ {0} /\ q < Word16 /\ Word16 % q = 0 /\ q >= 2
BY DEF Sizes, Powers

-----------------------------------------------------------------------------
(* The device's step and the driver's return of a buffer, on the queue alone. *)

\* The device fills the next available buffer.
Filled(v, d) ==
    LET id == v.avail[d.seen % v.size]
    IN  [v EXCEPT !.buf[id] = Head(d.todo), !.used[v.usedIdx % v.size] = id,
                  !.usedIdx = (@ + 1) % Word16]
SentBy(d) ==
    [seen |-> (d.seen + 1) % Word16, todo |-> Tail(d.todo), sent |-> Append(d.sent, Head(d.todo))]
SentFrom(v, d, w, e, last, r) ==
    /\ e \in DevType /\ Len(e.sent) = Len(d.sent) + 1
    /\ \A i \in 1 .. Len(d.sent) : e.sent[i] = d.sent[i]
    /\ w.size = v.size /\ \A j \in r .. Len(d.sent) - 1 : w.used[j % v.size] = v.used[j % v.size]
    /\ QueueInv(w, e, last, r)

LEMMA SendQueue ==
    ASSUME NEW v, NEW d \in DevType, NEW last, NEW r, QueueInv(v, d, last, r),
           d.todo # <<>>, d.seen # v.availIdx
    PROVE  SentFrom(v, d, Filled(v, d), SentBy(d), last, r)
PROOF
<1>0. PICK id, w, e :
          /\ id = v.avail[d.seen % v.size]
          /\ w = [v EXCEPT !.buf[id] = Head(d.todo), !.used[v.usedIdx % v.size] = id,
                           !.usedIdx = (@ + 1) % Word16]
          /\ e = [seen |-> (d.seen + 1) % Word16, todo |-> Tail(d.todo),
                  sent |-> Append(d.sent, Head(d.todo))]
          /\ w = Filled(v, d) /\ e = SentBy(d)
    BY Zenon DEF Filled, SentBy
<1>1. PICK q \in Sizes : q = v.size
    BY DEF QueueInv
<1>2. q \in Nat \ {0} /\ q < Word16 /\ Word16 % q = 0 /\ Word16 \in Nat
    BY SizesProp, TabletAssumption
<1>3. PICK s \in Nat : s = Len(d.sent)
    <2>1. Len(d.sent) \in Nat
        BY DEF DevType
    <2> QED
        BY <2>1
<1>4. PICK n \in Nat : n = r
    BY DEF QueueInv
<1>5. /\ n <= s /\ s <= n + q /\ v.usedIdx = s % Word16 /\ d.seen = s % Word16
      /\ v.availIdx = (n + q) % Word16
    BY <1>1, <1>3, <1>4 DEF QueueInv
<1>6. s < n + q
    <2>1. (n + q) % Word16 # s % Word16
        BY <1>5
    <2> QED
        BY <1>2, <1>5, <2>1
<1>7. (s % Word16) % q = s % q /\ ((s % Word16) + 1) % Word16 = (s + 1) % Word16
    BY <1>2, WrapFacts, Zenon
<1>a. Room(q, s, n) /\ n <= s + 1 /\ s + 1 <= n + q
    <2>1. Room(q, s, n)
        BY <1>2, <1>5, <1>6, Zenon DEF Room
    <2> QED
        BY <2>1, BeforeNext, Zenon
<1>8. PICK used \in [0 .. q - 1 -> 0 .. q - 1], avail \in [0 .. q - 1 -> 0 .. q - 1],
           buf \in [0 .. q - 1 -> Events \cup {NoEvent}] :
           used = v.used /\ avail = v.avail /\ buf = v.buf
    <2>1. v \in QueueType(q)
        BY <1>1 DEF QueueInv
    <2> QED
        BY <2>1 DEF QueueType
<1>9. s % q \in 0 .. q - 1
    <2>1. q \in Nat /\ q > 0 /\ s \in Int
        BY <1>2
    <2> QED
        BY <2>1, ModProp, Zenon
<1>10. id = avail[s % q] /\ id \in 0 .. q - 1
    BY <1>0, <1>1, <1>5, <1>7, <1>8, <1>9, Zenon
<1>11. PICK ev \in Events, todo \in Seq(Events), sent \in Seq(Events) :
           ev = Head(d.todo) /\ todo = Tail(d.todo) /\ sent = Append(d.sent, ev)
    <2>1. d.todo \in Seq(Events) /\ d.sent \in Seq(Events)
        BY DEF DevType
    <2>2. Head(d.todo) \in Events /\ Tail(d.todo) \in Seq(Events)
        BY <2>1
    <2>3. Append(d.sent, Head(d.todo)) \in Seq(Events)
        BY <2>1, <2>2
    <2> QED
        BY <2>2, <2>3, Zenon
<1>12. /\ Len(sent) = s + 1 /\ sent[s + 1] = ev /\ \A i \in 1 .. s : sent[i] = d.sent[i]
    <2>1. d.sent \in Seq(Events)
        BY DEF DevType
    <2> QED
        BY <1>3, <1>11, <2>1
<1>13. (s + 1) % Word16 \in Nat
    BY <1>2
<1>14. e = [seen |-> (s + 1) % Word16, todo |-> todo, sent |-> sent]
    BY <1>0, <1>5, <1>7, <1>11, Zenon
<1>15. e \in DevType
    BY <1>13, <1>14 DEF DevType
<1>16. PICK u2 \in [0 .. q - 1 -> 0 .. q - 1], b2 \in [0 .. q - 1 -> Events \cup {NoEvent}] :
           u2 = UsedAfter(q, used, avail, s) /\ b2 = [buf EXCEPT ![id] = ev]
    <2>1. UsedAfter(q, used, avail, s) \in [0 .. q - 1 -> 0 .. q - 1]
        BY <1>9, <1>10 DEF UsedAfter
    <2>2. [buf EXCEPT ![id] = ev] \in [0 .. q - 1 -> Events \cup {NoEvent}]
        BY <1>10
    <2> QED
        BY <2>1, <2>2, Zenon
<1>17. PICK i2 \in Nat : i2 = (s + 1) % Word16
    BY <1>13
<1>18. w = [v EXCEPT !.buf = b2, !.used = u2, !.usedIdx = i2]
    <2>1. v.usedIdx % v.size = s % q /\ (v.usedIdx + 1) % Word16 = i2
        BY <1>1, <1>5, <1>7, <1>17
    <2>2. v \in QueueType(q)
        BY <1>1 DEF QueueInv
    <2> QED
        BY <1>0, <1>8, <1>10, <1>11, <1>16, <2>1, <2>2, Zenon DEF QueueType, UsedAfter
<1>19. w \in QueueType(q) /\ w.size = q /\ w.used = u2 /\ w.buf = b2 /\ w.avail = avail
       /\ w.usedIdx = i2 /\ w.availIdx = v.availIdx
    <2>1. v \in QueueType(q)
        BY <1>1 DEF QueueInv
    <2> QED
        BY <1>8, <1>18, <2>1, Zenon DEF QueueType
<1>20. Rings(q, used, avail) /\ Circulate(used, avail, s, n, q)
    <2>1. Rings(q, used, avail)
        BY Zenon DEF Rings
    <2> QED
        BY <1>1, <1>3, <1>4, <1>8, <2>1 DEF QueueInv
<1>22. Circulate(u2, avail, s + 1, n, q)
    BY <1>16, <1>20, <1>a, SendCirculates, Zenon
<1>23. \A j \in n .. s - 1 : /\ u2[j % q] = used[j % q] /\ used[j % q] # id
                             /\ used[j % q] \in 0 .. q - 1 /\ j + 1 \in 1 .. s
    <2>1. \A j \in n .. s - 1 : /\ UsedAfter(q, used, avail, s)[j % q] = used[j % q]
                                /\ used[j % q] # avail[s % q]
                                /\ used[j % q] \in 0 .. q - 1 /\ j + 1 \in 1 .. s
        BY <1>20, <1>a, SendCirculates, ZenonT(30)
    <2> QED
        BY <1>10, <1>16, <2>1, Zenon
<1>24. \A j \in n .. s - 1 : b2[u2[j % q]] = sent[j + 1]
    <2> SUFFICES ASSUME NEW j \in n .. s - 1 PROVE b2[u2[j % q]] = sent[j + 1]
        OBVIOUS
    <2>1. b2[used[j % q]] = buf[used[j % q]]
        BY <1>16, <1>23
    <2>2. buf[used[j % q]] = d.sent[j + 1]
        BY <1>1, <1>3, <1>4, <1>8 DEF QueueInv
    <2>3. sent[j + 1] = d.sent[j + 1]
        BY <1>12, <1>23, ZenonT(30)
    <2> QED
        BY <1>23, <2>1, <2>2, <2>3
<1>25. b2[u2[s % q]] = sent[s + 1]
    BY <1>9, <1>10, <1>12, <1>16 DEF UsedAfter
<1>26. \A j \in n .. s : b2[u2[j % q]] = sent[j + 1]
    BY <1>24, <1>25
<1>27. Len(e.sent) = s + 1 /\ e.seen = (s + 1) % Word16 /\ e.sent = sent
    BY <1>12, <1>14
<1>28. QueueInv(w, e, last, r)
    <2>1. w.size \in Sizes /\ w \in QueueType(w.size) /\ n <= s + 1 /\ s + 1 <= n + q
        BY <1>19, <1>a, ZenonT(30)
    <2>2. w.usedIdx = Len(e.sent) % Word16 /\ e.seen = Len(e.sent) % Word16
        BY <1>17, <1>19, <1>27
    <2>3. last = n % Word16 /\ w.availIdx = (n + w.size) % Word16
        BY <1>1, <1>4, <1>19 DEF QueueInv
    <2>4. Circulate(w.used, w.avail, Len(e.sent), n, w.size)
        BY <1>19, <1>22, <1>27
    <2>5. \A j \in n .. Len(e.sent) - 1 : w.buf[w.used[j % w.size]] = e.sent[j + 1]
        <3>1. n .. Len(e.sent) - 1 = n .. s
            BY <1>27
        <3> QED
            BY <1>19, <1>26, <1>27, <3>1, Zenon
    <2> QED
        BY <1>4, <1>19, <1>27, <2>1, <2>2, <2>3, <2>4, <2>5 DEF QueueInv
<1>29. SentFrom(v, d, w, e, last, r)
    BY <1>1, <1>3, <1>4, <1>8, <1>12, <1>15, <1>19, <1>23, <1>27, <1>28 DEF SentFrom
<1> QED
    BY <1>0, <1>29, Zenon

\* The driver offers the oldest used buffer again.
Offered(v, id) == [v EXCEPT !.avail[v.availIdx % v.size] = id, !.availIdx = (@ + 1) % Word16]
ReturnedTo(v, w, d, last, r) ==
    w.size = v.size /\ w.used = v.used /\ QueueInv(w, d, (last + 1) % Word16, r + 1)
LEMMA ReturnQueue ==
    ASSUME NEW v, NEW d \in DevType, NEW last, NEW r, QueueInv(v, d, last, r), r < Len(d.sent),
           NEW id, id = v.used[r % v.size]
    PROVE  ReturnedTo(v, Offered(v, id), d, last, r)
PROOF
<1>0. PICK w : /\ w = [v EXCEPT !.avail[v.availIdx % v.size] = id, !.availIdx = (@ + 1) % Word16]
               /\ w = Offered(v, id)
    BY ZenonT(30) DEF Offered
<1>1. PICK q \in Sizes : q = v.size
    BY DEF QueueInv
<1>2. q \in Nat \ {0} /\ q < Word16 /\ Word16 % q = 0 /\ Word16 \in Nat
    BY SizesProp, TabletAssumption
<1>3. PICK s \in Nat : s = Len(d.sent)
    <2>1. Len(d.sent) \in Nat
        BY DEF DevType
    <2> QED
        BY <2>1
<1>4. PICK n \in Nat : n = r
    BY DEF QueueInv
<1>5. n < s /\ s <= n + q
    BY <1>1, <1>3, <1>4 DEF QueueInv
<1>6. PICK used \in [0 .. q - 1 -> 0 .. q - 1], avail \in [0 .. q - 1 -> 0 .. q - 1] :
           used = v.used /\ avail = v.avail
    <2>1. v \in QueueType(q)
        BY <1>1 DEF QueueInv
    <2> QED
        BY <2>1 DEF QueueType
<1>7. n % q \in 0 .. q - 1 /\ (n + q) % q = n % q
    <2>1. q \in Nat /\ q > 0 /\ n \in Int
        BY <1>2
    <2> QED
        BY <2>1, ModProp, ModTurn, Zenon
<1>8. /\ ((n + q) % Word16) % q = (n + q) % q /\ (((n + q) % Word16) + 1) % Word16 = (n + q + 1) % Word16
      /\ ((n % Word16) + 1) % Word16 = (n + 1) % Word16
    <2>1. n + q \in Nat
        BY <1>2
    <2> QED
        BY <1>2, <2>1, WrapFacts, Zenon
<1>9. id = used[n % q] /\ id \in 0 .. q - 1
    BY <1>1, <1>4, <1>6, <1>7, Zenon
<1>10. PICK a2 \in [0 .. q - 1 -> 0 .. q - 1] : a2 = AvailAfter(q, used, avail, n)
    <2>1. AvailAfter(q, used, avail, n) \in [0 .. q - 1 -> 0 .. q - 1]
        BY <1>7 DEF AvailAfter
    <2> QED
        BY <2>1
<1>11. PICK i2 \in Nat : i2 = (n + q + 1) % Word16
    <2>1. (n + q + 1) % Word16 \in Nat
        BY <1>2
    <2> QED
        BY <2>1
<1>12. v.availIdx = (n + q) % Word16 /\ last = n % Word16
    BY <1>1, <1>4 DEF QueueInv
<1>13. w = [v EXCEPT !.avail = a2, !.availIdx = i2]
    <2>1. v.availIdx % v.size = n % q /\ (v.availIdx + 1) % Word16 = i2
        BY <1>1, <1>7, <1>8, <1>11, <1>12
    <2>2. v \in QueueType(q)
        BY <1>1 DEF QueueInv
    <2> QED
        BY <1>0, <1>6, <1>9, <1>10, <2>1, <2>2, Zenon DEF QueueType, AvailAfter
<1>14. w \in QueueType(q) /\ w.size = q /\ w.used = used /\ w.buf = v.buf /\ w.avail = a2
       /\ w.usedIdx = v.usedIdx /\ w.availIdx = i2
    <2>1. v \in QueueType(q)
        BY <1>1 DEF QueueInv
    <2> QED
        BY <1>6, <1>13, <2>1, Zenon DEF QueueType
<1>15. Rings(q, used, avail) /\ Used(q, s, n) /\ Circulate(used, avail, s, n, q)
    <2>1. Rings(q, used, avail)
        BY Zenon DEF Rings
    <2>2. Used(q, s, n)
        BY <1>2, <1>5, Zenon DEF Used
    <2> QED
        BY <1>1, <1>3, <1>4, <1>6, <2>1, <2>2 DEF QueueInv
<1>16. Circulate(used, a2, s, n + 1, q)
    <2>1. Circulate(used, AvailAfter(q, used, avail, n), s, n + 1, q)
        BY <1>15, ReturnCirculates
    <2> QED
        BY <1>10, <2>1
<1>17. n + 1 \in Nat /\ n + 1 <= s /\ s <= n + 1 + q /\ n + 1 + q = n + q + 1
    BY <1>2, <1>5
<1>18. \A j \in n + 1 .. s - 1 : v.buf[used[j % q]] = d.sent[j + 1]
    <2>1. \A j \in n .. s - 1 : v.buf[used[j % q]] = d.sent[j + 1]
        BY <1>1, <1>3, <1>4, <1>6 DEF QueueInv
    <2>2. \A j \in n + 1 .. s - 1 : j \in n .. s - 1
        OBVIOUS
    <2> QED
        BY <2>1, <2>2, Zenon
<1>19. v.usedIdx = s % Word16 /\ d.seen = s % Word16
    BY <1>3 DEF QueueInv
<1>20. (last + 1) % Word16 = (n + 1) % Word16 /\ i2 = (n + 1 + q) % Word16
    BY <1>8, <1>11, <1>12, <1>17
<1>21. QueueInv(w, d, (last + 1) % Word16, n + 1)
    BY <1>1, <1>3, <1>14, <1>16, <1>17, <1>18, <1>19, <1>20 DEF QueueInv
<1> QED
    BY <1>0, <1>1, <1>4, <1>6, <1>14, <1>21 DEF ReturnedTo

\* setup_vq() leaves every buffer on offer.
LEMMA FreshInv ==
    ASSUME NEW n \in Nat, n >= 2, NEW d \in DevType, d.seen = 0, d.sent = <<>>
    PROVE  FreshQueue(n).size # 0 /\ QueueInv(FreshQueue(n), d, 0, 0)
PROOF
<1>1. PICK q \in Sizes : q = QueueSize(n)
    BY SizeProp DEF Sizes
<1>2. q \in Nat \ {0} /\ q < Word16 /\ Word16 \in Nat /\ Word16 > 0
    BY SizesProp, TabletAssumption
<1>3. PICK avail \in [0 .. q - 1 -> 0 .. q - 1], used \in [0 .. q - 1 -> 0 .. q - 1],
           buf \in [0 .. q - 1 -> Events \cup {NoEvent}] :
           /\ avail = [i \in 0 .. q - 1 |-> i] /\ used = [i \in 0 .. q - 1 |-> 0]
           /\ buf = [i \in 0 .. q - 1 |-> NoEvent]
    <2>1. [i \in 0 .. q - 1 |-> 0] \in [0 .. q - 1 -> 0 .. q - 1]
        BY <1>2
    <2> QED
        BY <2>1, Zenon
<1>4. PICK v : v = FreshQueue(n)
    OBVIOUS
<1>5. v = [size |-> q, availIdx |-> q, usedIdx |-> 0, avail |-> avail, used |-> used, buf |-> buf]
    BY <1>1, <1>3, <1>4, Zenon DEF FreshQueue, NoEvent
<1>6. v.size = q /\ v.availIdx = q /\ v.usedIdx = 0 /\ v.avail = avail /\ v.used = used /\ v \in QueueType(q)
    BY <1>2, <1>5 DEF QueueType
<1>7. Len(d.sent) = 0
    OBVIOUS
<1>8. 0 % Word16 = 0 /\ (0 + q) % Word16 = q
    <2>1. 0 \in 0 .. Word16 - 1 /\ q \in 0 .. Word16 - 1 /\ 0 + q = q
        BY <1>2
    <2> QED
        BY <1>2, <2>1, ModSmall, Zenon
<1>9. ASSUME NEW j \in 0 .. q - 1 PROVE Slot(used, avail, 0, q, j) = j
    <2>1. j % q = j
        BY <1>2, ModSmall, Zenon
    <2>2. ~(j < 0)
        OBVIOUS
    <2> QED
        BY <1>3, <2>1, <2>2 DEF Slot
<1>10. Circulate(used, avail, 0, 0, q)
    <2>1. 0 .. 0 + q - 1 = 0 .. q - 1
        BY <1>2
    <2> QED
        BY <1>9, <2>1, Zenon DEF Circulate
<1>11. 0 .. Len(d.sent) - 1 = {} /\ 0 <= Len(d.sent) /\ Len(d.sent) <= 0 + q
    BY <1>2, <1>7
<1>12. QueueInv(v, d, 0, 0)
    BY <1>6, <1>7, <1>8, <1>10, <1>11 DEF QueueInv
<1> QED
    BY <1>2, <1>4, <1>6, <1>12

-----------------------------------------------------------------------------
(* The driver's globals. *)

\* scale_abs() with a range that is not empty.
LEMMA ScaleType ==
    ASSUME NEW a \in Int, NEW range \in Int \X Int, range[2] > range[1], NEW max \in Nat
    PROVE  ScaleAbs(a, range, max) \in 0 .. max
PROOF
<1>1. PICK n \in Int : n = (a - range[1]) * max
    <2>1. a - range[1] \in Int
        OBVIOUS
    <2> QED
        BY <2>1
<1>2. PICK k \in Nat : k = range[2] - range[1] /\ k > 0
    OBVIOUS
<1>3. n \div k \in Int
    BY <1>2
<1> QED
    BY <1>1, <1>2, <1>3 DEF ScaleAbs, Clip

\* handle_event() leaves the queue's place, the range and the device alone.
LEMMA DecodedKeeps ==
    ASSUME NEW t \in TabType, t.range[2] > t.range[1], NEW ev \in Events
    PROVE  /\ Decoded(t, ev) \in TabType
           /\ Decoded(t, ev).last = t.last /\ Decoded(t, ev).range = t.range
           /\ Decoded(t, ev).active = t.active
PROOF
<1>1. ev.v \in Int /\ ev.code \in STRING
    BY DEF Events
<1>2. PICK x \in Int, y \in Int :
          /\ x = IF t.haveX THEN ScaleAbs(t.absX, t.range, ScreenMax[1]) ELSE t.outX
          /\ y = IF t.haveY THEN ScaleAbs(t.absY, t.range, ScreenMax[2]) ELSE t.outY
    <2>1. t.absX \in Int /\ t.absY \in Int /\ t.range \in Int \X Int /\ t.outX \in Int /\ t.outY \in Int
        BY DEF TabType
    <2>2. ScreenMax[1] \in Nat /\ ScreenMax[2] \in Nat
        BY TabletAssumption
    <2>3. /\ ScaleAbs(t.absX, t.range, ScreenMax[1]) \in 0 .. ScreenMax[1]
          /\ ScaleAbs(t.absY, t.range, ScreenMax[2]) \in 0 .. ScreenMax[2]
        BY <2>1, <2>2, ScaleType, Zenon
    <2>4. 0 .. ScreenMax[1] \subseteq Int /\ 0 .. ScreenMax[2] \subseteq Int
        OBVIOUS
    <2> QED
        BY <2>1, <2>3, <2>4
<1>3. Inject(t) = [t EXCEPT !.outX = x, !.outY = y, !.haveX = FALSE, !.haveY = FALSE]
    BY <1>2 DEF Inject, TabType
<1>4. PICK b \in SUBSET STRING : b = IF ev.v # 0 THEN t.btn \cup {ev.code} ELSE t.btn \ {ev.code}
    BY <1>1, ZenonT(30) DEF TabType
<1>5. \/ Decoded(t, ev) = [t EXCEPT !.absX = ev.v, !.haveX = TRUE]
      \/ Decoded(t, ev) = [t EXCEPT !.absY = ev.v, !.haveY = TRUE]
      \/ Decoded(t, ev) = [t EXCEPT !.btn = b]
      \/ Decoded(t, ev) = [t EXCEPT !.outX = x, !.outY = y, !.haveX = FALSE, !.haveY = FALSE]
      \/ Decoded(t, ev) = t
    BY <1>3, <1>4 DEF Decoded
<1> QED
    BY <1>1, <1>5, Zenon DEF TabType

\* What a step that leaves the tablet alone preserves.
LEMMA TabletIdle ==
    ASSUME TabletInv, UNCHANGED <<machine, vq, dev, tab, tpoll, handled>>,
           setup' = "start" => setup = "start"
    PROVE  TabletInv'
PROOF
<1>1. Returned' = Returned /\ (Blank => Blank')
    BY DEF Returned, Blank
<1> QED
    BY <1>1 DEF TabletInv

LEMMA TabletInitInv == Init => TabletInv
PROOF
<1> SUFFICES ASSUME Init PROVE TabletInv
    OBVIOUS
<1>1. machine \in Machines /\ machine.events \in Seq(Events)
    BY PointersAssumption, SMTT(30) DEF Init
<1>2. dev \in DevType /\ handled \in Seq(Events) /\ dev.seen = 0 /\ dev.sent = <<>> /\ handled = <<>>
    <2>0. <<>> \in Seq(Events)
        OBVIOUS
    <2>1. PICK e \in Seq(Events), todo \in Seq(Events) : e = <<>> /\ todo = machine.events
        BY <1>1, <2>0, Zenon
    <2>2. dev = [seen |-> 0, todo |-> todo, sent |-> e] /\ handled = e
        BY <2>1 DEF Init, TabletInit
    <2> QED
        BY <2>1, <2>2 DEF DevType
<1>3. tpoll \in [Pollers -> PollType] /\ \A p \in Pollers : tpoll[p].pc = "idle"
    <2>1. NotPolling \in PollType /\ NotPolling.pc = "idle"
        BY DEF NotPolling, PollType
    <2>2. tpoll = [p \in Pollers |-> NotPolling]
        BY Zenon DEF Init, TabletInit
    <2> QED
        BY <2>1, <2>2, Zenon
<1>4. tab \in TabType /\ tab.last = 0 /\ ~tab.active
    BY DEF Init, TabletInit, ShutDown, TabType
<1>5. vq.size = 0
    BY DEF Init, TabletInit, NoQueue
<1>6. OrderInv(dev, handled)
    BY <1>2 DEF OrderInv
<1> QED
    BY <1>1, <1>2, <1>3, <1>4, <1>5, <1>6 DEF TabletInv, Blank

\* virtio_tablet_probe_and_init()
LEMMA TryVirtioStep ==
    ASSUME TabletInv, TryVirtio PROVE TabletInv'
PROOF
<1>1. /\ setup = "start" /\ setup' # "start" /\ vq.size = 0 /\ Blank
      /\ UNCHANGED <<machine, dev, tpoll, handled>> /\ machine \in Machines
    BY Zenon DEF TabletInv, TryVirtio, Done
<1>2. Returned' = 0 /\ Returned = 0 /\ Len(handled) = 0
    BY <1>1 DEF Returned, Blank
<1>3. CASE vq' = vq /\ tab' = tab
    BY <1>1, <1>3, TabletIdle
<1>4. CASE vq' = NoQueue /\ tab' = ShutDown
    <2>1. tab' \in TabType /\ tab'.last = 0 /\ ~tab'.active /\ vq'.size = 0
        BY <1>4 DEF NoQueue, ShutDown, TabType
    <2>2. Blank'
        BY <1>1, <2>1 DEF Blank
    <2> QED
        BY <1>1, <2>1, <2>2, ZenonT(30) DEF TabletInv
<1>5. CASE /\ machine.qmax >= 2 /\ vq' = FreshQueue(machine.qmax)
           /\ tab' = [ShutDown EXCEPT !.active = TRUE, !.range = AxisRange(machine.range),
                                      !.outX = (ScreenMax[1] + 1) \div 2,
                                      !.outY = (ScreenMax[2] + 1) \div 2]
    <2>1. machine.qmax \in Nat /\ machine.range \in Int \X Int
        BY <1>1, PointersAssumption
    <2>2. PICK range \in Int \X Int : range = AxisRange(machine.range) /\ range[2] > range[1]
        <3>1. PICK m \in Int \X Int : m = machine.range
            BY <2>1
        <3>2. PICK d \in Int \X Int : d = <<0, 32767>> /\ d[2] > d[1]
            <4>1. <<0, 32767>> \in Int \X Int
                OBVIOUS
            <4> QED
                BY <4>1
        <3>3. AxisRange(machine.range) = IF m[2] > m[1] THEN m ELSE d
            BY <3>1, <3>2 DEF AxisRange
        <3> QED
            BY <3>3, <3>2
    <2>3. PICK x \in Int, y \in Int : x = (ScreenMax[1] + 1) \div 2 /\ y = (ScreenMax[2] + 1) \div 2
        BY TabletAssumption
    <2>4. tab' = [ShutDown EXCEPT !.active = TRUE, !.range = range, !.outX = x, !.outY = y]
        BY <1>5, <2>2, <2>3
    <2>5. tab' \in TabType /\ tab'.last = 0 /\ tab'.range[2] > tab'.range[1]
        <3>1. tab' = [active |-> TRUE, last |-> 0, range |-> range, absX |-> 0, absY |-> 0,
                      haveX |-> FALSE, haveY |-> FALSE, outX |-> x, outY |-> y, btn |-> {}]
            BY <2>4, Zenon DEF ShutDown
        <3>2. PICK b \in SUBSET STRING : b = {}
            BY Zenon
        <3>3. tab' \in TabType
            <4>1. 0 \in Nat /\ 0 \in Int /\ range \in Int \X Int
                BY <2>2
            <4> QED
                BY <3>1, <3>2, <4>1, Zenon DEF TabType
        <3>4. tab'.last = 0 /\ tab'.range = range
            BY <3>1, Zenon
        <3> QED
            BY <2>2, <3>3, <3>4, Zenon
    <2>6. dev \in DevType /\ dev.seen = 0 /\ dev.sent = <<>>
        BY <1>1, Zenon DEF TabletInv, Blank
    <2>7. vq'.size # 0 /\ QueueInv(vq', dev, 0, 0)
        BY <1>5, <2>1, <2>6, FreshInv
    <2>8. \A p \in Pollers : tpoll[p].pc = "idle"
        BY <1>1 DEF Blank
    <2>9. \A p \in Pollers : PollerInv(tpoll[p], vq', Len(dev.sent), 0)
        BY <2>8 DEF PollerInv
    <2> QED
        BY <1>1, <1>2, <2>5, <2>7, <2>9, Zenon DEF TabletInv
<1> QED
    BY <1>3, <1>4, <1>5 DEF TryVirtio, TabletProbe, WalkCapsFails

-----------------------------------------------------------------------------
(* The device's step and those of virtio_tablet_poll(). *)

\* The invariant of a queue in use, without the variables' primes.
LEMMA QueueInUse ==
    ASSUME TabletInv, vq.size # 0
    PROVE  /\ QueueInv(vq, dev, tab.last, Returned) /\ dev \in DevType /\ tab \in TabType
           /\ \A p \in Pollers : PollerInv(tpoll[p], vq, Len(dev.sent), Returned)
           /\ OrderInv(dev, handled) /\ tab.range[2] > tab.range[1]
           /\ Len(dev.sent) \in Nat /\ Returned \in Nat /\ Returned <= Len(dev.sent)
PROOF
<1>1. dev \in DevType
    BY DEF TabletInv
<1>2. Len(dev.sent) \in Nat
    BY <1>1 DEF DevType
<1> QED
    BY <1>2, ZenonT(30) DEF TabletInv, QueueInv

\* A longer list of events sent changes nothing for the poller.
LEMMA PollerKeeps ==
    ASSUME NEW t \in PollType, NEW v, NEW w, NEW s \in Nat, NEW u \in Nat, NEW r \in Nat, s <= u,
           PollerInv(t, v, s, r), w.size = v.size,
           r < s => w.used[r % v.size] = v.used[r % v.size]
    PROVE  PollerInv(t, w, u, r)
PROOF
<1>1. (r .. s) \subseteq (r .. u) /\ (r + 1 .. s) \subseteq (r + 1 .. u)
    OBVIOUS
<1>2. ASSUME t.pc = "return" PROVE r < s
    BY <1>2 DEF PollerInv
<1> QED
    BY <1>1, <1>2, Zenon DEF PollerInv

LEMMA SendStep ==
    ASSUME TabletInv, DeviceSends PROVE TabletInv'
PROOF
<1>1. /\ vq.size > 0 /\ vq.size # 0 /\ dev.todo # <<>> /\ machine' = machine /\ setup' = setup
      /\ UNCHANGED <<tab, tpoll, handled>> /\ Returned' = Returned
    <2>1. vq.size > 0 => vq.size # 0
        OBVIOUS
    <2> QED
        BY <2>1 DEF DeviceSends, TabletSends, setupVars, Returned
<1>2. PICK r \in Nat, s \in Nat, d \in DevType : r = Returned /\ s = Len(dev.sent) /\ d = dev /\ r <= s
    BY <1>1, QueueInUse, ZenonT(30)
<1>3. /\ QueueInv(vq, d, tab.last, r) /\ OrderInv(d, handled)
      /\ \A p \in Pollers : PollerInv(tpoll[p], vq, s, r)
    BY <1>1, <1>2, QueueInUse, Zenon
<1>4. CASE dev.seen = vq.availIdx
    <2>1. vq' = vq /\ dev' = [d EXCEPT !.todo = Tail(@)]
        BY <1>2, <1>4 DEF DeviceSends, TabletSends
    <2>2. PICK todo \in Seq(Events) : todo = Tail(d.todo)
        <3>1. d.todo \in Seq(Events) /\ d.todo # <<>>
            BY <1>1, <1>2 DEF DevType
        <3>2. Tail(d.todo) \in Seq(Events)
            BY <3>1
        <3> QED
            BY <3>2, Zenon
    <2>3. dev' = [d EXCEPT !.todo = todo]
        BY <2>1, <2>2 DEF DevType
    <2>4. dev' \in DevType /\ dev'.sent = d.sent /\ dev'.seen = d.seen
        BY <2>3 DEF DevType
    <2>5. QueueInv(vq, dev', tab.last, r) /\ OrderInv(dev', handled)
        BY <1>3, <2>4, ZenonT(30) DEF QueueInv, OrderInv
    <2> QED
        BY <1>1, <1>2, <1>3, <2>1, <2>4, <2>5 DEF TabletInv
<1>5. CASE dev.seen # vq.availIdx
    <2>1. PICK w, e : w = Filled(vq, d) /\ e = SentBy(d)
        OBVIOUS
    <2>2. vq' = w /\ dev' = e
        BY <1>2, <1>5, <2>1 DEF DeviceSends, TabletSends, Filled, SentBy
    <2>3. d.todo # <<>> /\ d.seen # vq.availIdx
        BY <1>1, <1>2, <1>5
    <2>4. /\ e \in DevType /\ Len(e.sent) = s + 1
          /\ \A i \in 1 .. s : e.sent[i] = d.sent[i]
          /\ w.size = vq.size /\ \A j \in r .. s - 1 : w.used[j % vq.size] = vq.used[j % vq.size]
          /\ QueueInv(w, e, tab.last, r)
        <3>1. SentFrom(vq, d, Filled(vq, d), SentBy(d), tab.last, r)
            BY <1>3, <2>3, SendQueue, Zenon
        <3>2. SentFrom(vq, d, w, e, tab.last, r) /\ s = Len(d.sent)
            BY <1>2, <2>1, <3>1
        <3> QED
            BY <3>2, Zenon DEF SentFrom
    <2>5. r < s => w.used[r % vq.size] = vq.used[r % vq.size]
        BY <2>4
    <2>6. s + 1 \in Nat /\ s <= s + 1
        OBVIOUS
    <2>7. \A p \in Pollers : PollerInv(tpoll[p], w, s + 1, r)
        <3>1. \A p \in Pollers : tpoll[p] \in PollType
            BY DEF TabletInv
        <3> QED
            BY <1>3, <2>4, <2>5, <2>6, <3>1, PollerKeeps, ZenonT(30)
    <2>8. OrderInv(e, handled)
        <3>1. Len(handled) \in Nat
            BY DEF TabletInv
        <3> QED
            BY <1>2, <1>3, <2>4, <3>1 DEF OrderInv
    <2> QED
        BY <1>1, <1>2, <2>2, <2>4, <2>7, <2>8, QueueInUse, Zenon DEF TabletInv
<1> QED
    BY <1>4, <1>5

\* The state of the only poller is all there is to know of the pollers.
LEMMA TheReturned ==
    ASSUME NEW p \in Pollers, Alone(p), Alone(p)'
    PROVE  /\ Returned = IF tpoll[p].pc = "return" THEN Len(handled) - 1 ELSE Len(handled)
           /\ Returned' = IF tpoll'[p].pc = "return" THEN Len(handled') - 1 ELSE Len(handled')
PROOF
<1>1. (\E x \in Pollers : tpoll[x].pc = "return") <=> tpoll[p].pc = "return"
    BY DEF Alone
<1>2. (\E x \in Pollers : tpoll'[x].pc = "return") <=> tpoll'[p].pc = "return"
    BY DEF Alone
<1> QED
    BY <1>1, <1>2, Zenon DEF Returned

\* A step of the only poller
LEMMA OthersPoll ==
    ASSUME NEW p \in Pollers, Alone(p), tpoll \in [Pollers -> PollType], NEW n \in PollType,
           tpoll' = [tpoll EXCEPT ![p] = n]
    PROVE  tpoll' \in [Pollers -> PollType] /\ tpoll'[p] = n /\ Alone(p)' /\ Solo'
PROOF
<1>1. /\ tpoll' \in [Pollers -> PollType] /\ tpoll'[p] = n
      /\ \A x \in Pollers \ {p} : tpoll'[x] = tpoll[x]
    BY Zenon
<1>2. Alone(p)'
    BY <1>1 DEF Alone
<1>3. Solo'
    BY <1>2, Zenon DEF Solo, Alone
<1> QED
    BY <1>1, <1>2, <1>3

LEMMA AllPollers ==
    ASSUME NEW p \in Pollers, Alone(p)', NEW v, NEW s, NEW r, PollerInv(tpoll'[p], v, s, r)
    PROVE  \A x \in Pollers : PollerInv(tpoll'[x], v, s, r)
PROOF
<1>1. ASSUME NEW x \in Pollers, x # p PROVE PollerInv(tpoll'[x], v, s, r)
    <2>1. tpoll'[x].pc = "idle"
        BY <1>1 DEF Alone
    <2> QED
        BY <2>1 DEF PollerInv
<1> QED
    BY <1>1

LEMMA PollStartStep ==
    ASSUME TabletInv, NEW p \in Pollers, Alone(p), TabletPollStart(p), UNCHANGED <<machine, setup>>
    PROVE  TabletInv' /\ Solo'
PROOF
<1>1. vq.size # 0
    BY DEF TabletInv, Blank, TabletPollStart
<1>2. PICK t \in PollType, s \in Nat, r \in Nat : t = tpoll[p] /\ s = Len(dev.sent) /\ r = Returned /\ r <= s
    BY <1>1, QueueInUse, ZenonT(30) DEF TabletInv
<1>3. QueueInv(vq, dev, tab.last, r)
    BY <1>1, <1>2, QueueInUse, ZenonT(30)
<1>4. vq.usedIdx \in Nat /\ vq.usedIdx = s % Word16
    <2>1. vq \in QueueType(vq.size)
        BY <1>3 DEF QueueInv
    <2> QED
        BY <1>2, <1>3, <2>1 DEF QueueInv, QueueType
<1>5. PICK n \in PollType : n = [t EXCEPT !.pc = "next", !.used = vq.usedIdx] /\ n.pc = "next" /\ n.used = vq.usedIdx
    <2>1. PICK u \in Nat : u = vq.usedIdx
        BY <1>4
    <2>2. [t EXCEPT !.pc = "next", !.used = u] \in PollType
        BY Zenon DEF PollType
    <2>3. [t EXCEPT !.pc = "next", !.used = u].pc = "next" /\ [t EXCEPT !.pc = "next", !.used = u].used = u
        BY DEF PollType
    <2> QED
        BY <2>1, <2>2, <2>3, Zenon
<1>6. tpoll' = [tpoll EXCEPT ![p] = n]
    BY <1>2, <1>5 DEF TabletPollStart
<1>7. tpoll' \in [Pollers -> PollType] /\ tpoll'[p] = n /\ Alone(p)' /\ Solo'
    BY <1>6, OthersPoll, Zenon DEF TabletInv
<1>8. UNCHANGED <<vq, dev, tab, handled>> /\ tpoll[p].pc = "idle"
    BY DEF TabletPollStart
<1>9. Returned' = r
    BY <1>2, <1>5, <1>7, <1>8, TheReturned, Zenon
<1>10. PollerInv(n, vq, s, r)
    <2>1. s \in r .. s
        BY <1>2
    <2> QED
        BY <1>4, <1>5, <2>1 DEF PollerInv
<1>11. \A x \in Pollers : PollerInv(tpoll'[x], vq', Len(dev'.sent), r)
    BY <1>2, <1>7, <1>8, <1>10, AllPollers, Zenon
<1> QED
    BY <1>1, <1>3, <1>7, <1>8, <1>9, <1>11, Zenon DEF TabletInv

LEMMA PollEndStep ==
    ASSUME TabletInv, NEW p \in Pollers, Alone(p), TabletPollEnd(p), UNCHANGED <<machine, setup>>
    PROVE  TabletInv' /\ Solo'
PROOF
<1>1. vq.size # 0
    BY DEF TabletInv, Blank, TabletPollEnd
<1>2. PICK n \in PollType : n = NotPolling /\ n.pc = "idle"
    <2>1. NotPolling \in PollType /\ NotPolling.pc = "idle"
        BY DEF PollType, NotPolling
    <2> QED
        BY <2>1, Zenon
<1>3. tpoll' = [tpoll EXCEPT ![p] = n]
    BY <1>2 DEF TabletPollEnd
<1>4. tpoll' \in [Pollers -> PollType] /\ tpoll'[p] = n /\ Alone(p)' /\ Solo'
    BY <1>3, OthersPoll, Zenon DEF TabletInv
<1>5. UNCHANGED <<vq, dev, tab, handled>> /\ tpoll[p].pc = "next"
    BY DEF TabletPollEnd
<1>6. Returned' = Returned
    BY <1>2, <1>4, <1>5, TheReturned, ZenonT(30)
<1>7. \A x \in Pollers : PollerInv(tpoll'[x], vq', Len(dev'.sent), Returned')
    <2>1. PollerInv(n, vq', Len(dev'.sent), Returned')
        BY <1>2 DEF PollerInv
    <2> QED
        BY <1>4, <2>1, AllPollers, Zenon
<1> QED
    BY <1>1, <1>4, <1>5, <1>6, <1>7, Zenon DEF TabletInv

\* The next used buffer holds the event that follows those decoded.
EventAt(v, d, last, r, t) ==
    /\ v.used[last % v.size] = v.used[r % v.size] /\ v.used[last % v.size] \in Nat
    /\ v.buf[v.used[last % v.size]] = d.sent[r + 1]
    /\ r + 1 <= Len(d.sent) /\ d.sent[r + 1] \in Events
    /\ \E m \in r + 1 .. Len(d.sent) : t.used = m % Word16
LEMMA NextEvent ==
    ASSUME NEW v, NEW d \in DevType, NEW last, NEW r, QueueInv(v, d, last, r),
           NEW t, t.pc = "next", PollerInv(t, v, Len(d.sent), r), last # t.used
    PROVE  EventAt(v, d, last, r, t)
PROOF
<1>1. PICK q \in Sizes : q = v.size
    BY DEF QueueInv
<1>2. q \in Nat \ {0} /\ q \in Nat /\ q > 0 /\ q < Word16 /\ Word16 % q = 0
    BY SizesProp
<1>3. PICK s \in Nat : s = Len(d.sent)
    <2>1. Len(d.sent) \in Nat
        BY DEF DevType
    <2> QED
        BY <2>1
<1>4. PICK n \in Nat : n = r
    BY DEF QueueInv
<1>5. last = n % Word16
    BY <1>4 DEF QueueInv
<1>6. PICK m \in n .. s : t.used = m % Word16
    BY <1>3, <1>4 DEF PollerInv
<1>7. m # n
    BY <1>5, <1>6
<1>8. m \in n + 1 .. s /\ n + 1 <= s /\ n \in n .. s - 1 /\ n + 1 \in 1 .. s
    BY <1>7
<1>9. last % q = n % q
    <2>1. (n % Word16) % q = n % q
        BY <1>2, WrapFacts, Zenon
    <2> QED
        BY <1>5, <2>1
<1>10. n % q \in 0 .. q - 1
    <2>1. n \in Int
        OBVIOUS
    <2> QED
        BY <1>2, <2>1, ModProp
<1>11. v.used[n % q] \in Nat
    <2>1. v.used \in [0 .. q - 1 -> 0 .. q - 1]
        BY <1>1, SMTT(30) DEF QueueInv, QueueType
    <2>2. v.used[n % q] \in 0 .. q - 1
        BY <1>10, <2>1, ZenonT(30)
    <2> QED
        BY <2>2
<1>12. v.buf[v.used[n % q]] = d.sent[n + 1]
    BY <1>1, <1>3, <1>4, <1>8 DEF QueueInv
<1>13. d.sent[n + 1] \in Events
    BY <1>3, <1>8 DEF DevType
<1> QED
    BY <1>1, <1>3, <1>4, <1>6, <1>8, <1>9, <1>11, <1>12, <1>13, ZenonT(30) DEF EventAt

LEMMA PollEventStep ==
    ASSUME TabletInv, NEW p \in Pollers, Alone(p), TabletPollEvent(p), UNCHANGED <<machine, setup>>
    PROVE  TabletInv' /\ Solo'
PROOF
<1>1. vq.size # 0
    BY ZenonT(30) DEF TabletInv, Blank, TabletPollEvent
<1>2. PICK t \in PollType, s \in Nat, r \in Nat, d \in DevType, g \in TabType :
          t = tpoll[p] /\ s = Len(dev.sent) /\ r = Returned /\ r <= s /\ d = dev /\ g = tab
    BY <1>1, QueueInUse, ZenonT(30) DEF TabletInv
<1>3. /\ QueueInv(vq, d, g.last, r) /\ PollerInv(t, vq, Len(d.sent), r) /\ OrderInv(d, handled)
      /\ g.range[2] > g.range[1] /\ t.pc = "next" /\ g.last # t.used /\ s = Len(d.sent)
    BY <1>1, <1>2, QueueInUse, ZenonT(30) DEF TabletPollEvent
<1>4. r = Len(handled) /\ handled \in Seq(Events)
    <2>1. \A x \in Pollers : tpoll[x].pc # "return"
        BY <1>2, <1>3 DEF Alone
    <2> QED
        BY <1>2, <2>1, Zenon DEF Returned, TabletInv
<1>5. /\ vq.used[g.last % vq.size] = vq.used[r % vq.size]
      /\ vq.used[g.last % vq.size] \in Nat
      /\ vq.buf[vq.used[g.last % vq.size]] = d.sent[r + 1]
      /\ r + 1 <= Len(d.sent) /\ d.sent[r + 1] \in Events
      /\ \E m \in r + 1 .. Len(d.sent) : t.used = m % Word16
    <2>1. EventAt(vq, d, g.last, r, t)
        BY <1>3, NextEvent, ZenonT(30)
    <2> QED
        BY <2>1, Zenon DEF EventAt
<1>6. PICK id \in Nat, ev \in Events :
          /\ id = vq.used[r % vq.size] /\ id = vq.used[tab.last % vq.size]
          /\ ev = d.sent[r + 1] /\ ev = vq.buf[id]
    BY <1>2, <1>5
<1>7. PICK n \in PollType : n = [t EXCEPT !.pc = "return", !.id = id] /\ n.pc = "return" /\ n.id = id
                            /\ n.used = t.used
    <2>1. [t EXCEPT !.pc = "return", !.id = id] \in PollType
        BY Zenon DEF PollType
    <2>2. /\ [t EXCEPT !.pc = "return", !.id = id].pc = "return"
          /\ [t EXCEPT !.pc = "return", !.id = id].id = id
          /\ [t EXCEPT !.pc = "return", !.id = id].used = t.used
        BY DEF PollType
    <2> QED
        BY <2>1, <2>2, Zenon
<1>8. /\ tpoll' = [tpoll EXCEPT ![p] = n] /\ tab' = Decoded(g, ev)
      /\ handled' = Append(handled, ev) /\ UNCHANGED <<vq, dev>>
    BY <1>2, <1>6, <1>7, ZenonT(30) DEF TabletPollEvent
<1>9. tpoll' \in [Pollers -> PollType] /\ tpoll'[p] = n /\ Alone(p)' /\ Solo'
    BY <1>8, OthersPoll, ZenonT(30) DEF TabletInv
<1>10. /\ tab' \in TabType /\ tab'.last = g.last /\ tab'.range = g.range
    BY <1>3, <1>8, DecodedKeeps, ZenonT(30)
<1>11. /\ handled' \in Seq(Events) /\ Len(handled') = r + 1 /\ handled'[r + 1] = ev
       /\ \A i \in 1 .. r : handled'[i] = handled[i]
    BY <1>4, <1>8
<1>12. Returned' = r
    <2>1. Returned' = Len(handled') - 1
        BY <1>7, <1>9, TheReturned, Zenon
    <2> QED
        BY <1>11, <2>1
<1>13. OrderInv(dev', handled')
    <2>1. \A i \in 1 .. r : handled'[i] = d.sent[i]
        BY <1>3, <1>4, <1>11 DEF OrderInv
    <2>2. \A i \in 1 .. r + 1 : handled'[i] = d.sent[i]
        <3> SUFFICES ASSUME NEW i \in 1 .. r + 1 PROVE handled'[i] = d.sent[i]
            OBVIOUS
        <3>1. i \in 1 .. r \/ i = r + 1
            OBVIOUS
        <3>2. CASE i = r + 1
            BY <1>6, <1>11, <3>2, ZenonT(30)
        <3> QED
            BY <2>1, <3>1, <3>2
    <2> QED
        BY <1>2, <1>5, <1>8, <1>11, <2>2 DEF OrderInv
<1>14. PollerInv(n, vq, s, r)
    BY <1>3, <1>5, <1>6, <1>7 DEF PollerInv
<1>15. \A x \in Pollers : PollerInv(tpoll'[x], vq', Len(dev'.sent), r)
    BY <1>2, <1>8, <1>9, <1>14, AllPollers, Zenon
<1>16. QueueInv(vq', dev', tab'.last, r) /\ tab'.range[2] > tab'.range[1] /\ dev' \in DevType
    BY <1>2, <1>3, <1>8, <1>10
<1> QED
    BY <1>1, <1>8, <1>9, <1>10, <1>11, <1>12, <1>13, <1>15, <1>16, ZenonT(30) DEF TabletInv

LEMMA PollReturnStep ==
    ASSUME TabletInv, NEW p \in Pollers, Alone(p), TabletPollReturn(p), UNCHANGED <<machine, setup>>
    PROVE  TabletInv' /\ Solo'
PROOF
<1>1. vq.size # 0
    BY DEF TabletInv, Blank, TabletPollReturn
<1>2. PICK t \in PollType, s \in Nat, r \in Nat, d \in DevType, g \in TabType :
          t = tpoll[p] /\ s = Len(dev.sent) /\ r = Returned /\ r <= s /\ d = dev /\ g = tab
    BY <1>1, QueueInUse, Zenon DEF TabletInv
<1>3. /\ QueueInv(vq, d, g.last, r) /\ PollerInv(t, vq, s, r) /\ t.pc = "return" /\ s = Len(d.sent)
      /\ g.range[2] > g.range[1]
    BY <1>1, <1>2, QueueInUse DEF TabletPollReturn
<1>4. PICK m \in r + 1 .. s : t.used = m % Word16
    BY <1>3, Zenon DEF PollerInv
<1>5. r < s /\ t.id = vq.used[r % vq.size]
    BY <1>3, <1>4 DEF PollerInv
<1>6. PICK last \in Nat : last = (g.last + 1) % Word16
    <2>1. g.last \in Nat /\ Word16 \in Nat \ {0}
        BY TabletAssumption DEF TabType, Powers
    <2>2. (g.last + 1) % Word16 \in Nat
        BY <2>1
    <2> QED
        BY <2>2
<1>w. PICK w : w = Offered(vq, t.id)
    OBVIOUS
<1>7. w.size = vq.size /\ w.used = vq.used /\ QueueInv(w, d, last, r + 1)
    <2>1. ReturnedTo(vq, Offered(vq, t.id), d, g.last, r)
        BY <1>3, <1>5, ReturnQueue, Zenon
    <2>2. ReturnedTo(vq, w, d, g.last, r)
        BY <1>w, <2>1
    <2> QED
        BY <1>6, <2>2 DEF ReturnedTo
<1>8. PICK n \in PollType : n = [t EXCEPT !.pc = "next"] /\ n.pc = "next" /\ n.used = t.used
    <2>1. [t EXCEPT !.pc = "next"] \in PollType
        BY DEF PollType
    <2>2. [t EXCEPT !.pc = "next"].pc = "next" /\ [t EXCEPT !.pc = "next"].used = t.used
        BY DEF PollType
    <2> QED
        BY <2>1, <2>2, Zenon
<1>9. /\ tpoll' = [tpoll EXCEPT ![p] = n] /\ tab' = [g EXCEPT !.last = last] /\ vq' = w
      /\ UNCHANGED <<dev, handled>>
    BY <1>2, <1>6, <1>8, <1>w DEF TabletPollReturn, TabType, Offered
<1>10. tpoll' \in [Pollers -> PollType] /\ tpoll'[p] = n /\ Alone(p)' /\ Solo'
    BY <1>9, OthersPoll, Zenon DEF TabletInv
<1>11. tab' \in TabType /\ tab'.last = last /\ tab'.range = g.range
    BY <1>9 DEF TabType
<1>12. Returned' = r + 1
    <2>0. handled \in Seq(Events)
        BY Zenon DEF TabletInv
    <2>1. r = Len(handled) - 1
        BY <1>2, <1>3, <1>10, TheReturned, Zenon
    <2>2. Returned' = Len(handled)
        <3>1. tpoll'[p].pc # "return" /\ handled' = handled
            BY <1>8, <1>9, <1>10
        <3> QED
            BY <1>10, <3>1, TheReturned, Zenon
    <2>3. Len(handled) \in Nat
        BY <2>0
    <2> QED
        BY <2>1, <2>2, <2>3
<1>13. PollerInv(n, w, s, r + 1)
    BY <1>4, <1>8 DEF PollerInv
<1>14. \A x \in Pollers : PollerInv(tpoll'[x], vq', Len(dev'.sent), r + 1)
    BY <1>2, <1>9, <1>10, <1>13, AllPollers, Zenon
<1>15. QueueInv(vq', dev', tab'.last, r + 1) /\ tab'.range[2] > tab'.range[1]
    BY <1>2, <1>3, <1>7, <1>9, <1>11
<1> QED
    BY <1>1, <1>7, <1>9, <1>10, <1>11, <1>12, <1>14, <1>15 DEF TabletInv

\* Nothing is claimed once two polls have overlapped.
SoloInv == ~overlap => TabletInv /\ Solo

LEMMA TabletStep ==
    ASSUME SoloInv, [Next]_vars, ~overlap' PROVE ~overlap /\ TabletInv' /\ Solo'
PROOF
<1>1. CASE TryVirtio
    <2>1. ~overlap /\ tpoll' = tpoll
        BY <1>1 DEF TryVirtio
    <2> QED
        BY <1>1, <2>1, TryVirtioStep DEF SoloInv, Solo, Alone
<1>2. CASE DeviceSends
    <2>1. ~overlap /\ tpoll' = tpoll
        BY <1>2 DEF DeviceSends, TabletSends
    <2> QED
        BY <1>2, <2>1, SendStep DEF SoloInv, Solo, Alone
<1>3. ASSUME NEW p \in Pollers, PollTablet(p) PROVE ~overlap /\ TabletInv' /\ Solo'
    <2>1. TabletPoll(p) /\ UNCHANGED <<machine, setup>>
        BY <1>3 DEF PollTablet, setupVars
    <2>2. CASE TabletPollStart(p)
        <3>1. ~overlap /\ Alone(p)
            BY <2>2 DEF TabletPollStart, Alone
        <3> QED
            BY <2>1, <2>2, <3>1, PollStartStep DEF SoloInv
    <2>3. CASE TabletPollEvent(p) \/ TabletPollReturn(p) \/ TabletPollEnd(p)
        <3>1. ~overlap /\ tpoll[p].pc # "idle"
            BY <2>3 DEF TabletPollEvent, TabletPollReturn, TabletPollEnd
        <3>2. TabletInv /\ Alone(p)
            BY <3>1 DEF SoloInv, Solo
        <3> QED
            BY <2>1, <2>3, <3>1, <3>2, PollEventStep, PollReturnStep, PollEndStep, Zenon
    <2> QED
        BY <2>1, <2>2, <2>3 DEF TabletPoll
<1>4. ASSUME \/ SkipI2c \/ TryUsb \/ InitPs2Aux \/ NoTouchpad \/ ProbeBind \/ ProbeBegin \/ ProbeEnd
             \/ (\E p \in Pollers : PollPadBegin(p) \/ PollPadEnd(p)) \/ BusWork \/ UNCHANGED vars
      PROVE  ~overlap /\ TabletInv' /\ Solo'
    <2>1. /\ UNCHANGED <<machine, vq, dev, tab, tpoll, handled, overlap>>
          /\ setup' = "start" => setup = "start"
        BY <1>4, Zenon, ZenonT(60) DEF SkipI2c, TryUsb, InitPs2Aux, NoTouchpad, ProbeBind, ProbeBegin, ProbeEnd,
                    GiveUp, PollPadBegin, PollPadEnd, BusWork, vars, setupVars, tabletVars, Done
    <2>2. ~overlap /\ (Solo => Solo')
        BY <2>1 DEF Solo, Alone
    <2> QED
        BY <2>1, <2>2, TabletIdle DEF SoloInv
<1> QED
    BY <1>1, <1>2, <1>3, <1>4 DEF Next, SetupStep, Polls

LEMMA SoloInit == Init => SoloInv
PROOF
<1>1. Init => Solo
    BY DEF Init, TabletInit, NotPolling, Solo, Alone
<1> QED
    BY <1>1, TabletInitInv DEF SoloInv

\* The driver decodes every event the device delivered once, unchanged and in order, for
\* any number of threads that poll, every length of run, every queue size setup_vq() can
\* choose and however often the 16-bit ring indices wrap (virtio_tablet_poll, setup_vq):
\* as long as no poll begins while another is under way.
THEOREM TabletInOrder == Spec => []EventsInOrder
PROOF
<1>1. SoloInv => EventsInOrder
    <2> SUFFICES ASSUME SoloInv, ~overlap PROVE EventsInOrder
        BY DEF EventsInOrder
    <2>1. handled \in Seq(Events) /\ OrderInv(dev, handled)
        BY DEF SoloInv, TabletInv
    <2>2. DOMAIN handled = 1 .. Len(handled)
        BY <2>1
    <2> QED
        BY <2>1, <2>2 DEF OrderInv, EventsInOrder
<1>2. SoloInv /\ [Next]_vars => SoloInv'
    BY TabletStep DEF SoloInv
<1> QED
    BY <1>1, <1>2, SoloInit, PTL DEF Spec

-----------------------------------------------------------------------------
(* The pointer: what the driver's globals remember of the events decoded.  *)

Is(ev, kind, code) == ev.kind = kind /\ ev.code = code

\* Event i is the last of its kind among the first m.
Newest(h, m, kind, code, i) ==
    i \in 1 .. m /\ Is(h[i], kind, code) /\ \A j \in i + 1 .. m : ~Is(h[j], kind, code)

\* The last report is at m; none yet: 0.
ReportAt(h, m) == (m # 0 => h[m].kind = "syn") /\ \A j \in m + 1 .. Len(h) : h[j].kind # "syn"

\* The axis stands where the newest coordinate before the report at m puts it; one that
\* came later waits in abs.
AxisInv(h, m, code, range, have, abs, out, max) ==
    /\ \A i \in 1 .. m : Newest(h, m, "abs", code, i) => out = ScaleAbs(h[i].v, range, max)
    /\ (\A i \in 1 .. m : ~Newest(h, m, "abs", code, i)) => out = (max + 1) \div 2
    /\ have => \E i \in 1 .. Len(h) : Newest(h, Len(h), "abs", code, i) /\ abs = h[i].v
    /\ ~have => \A i \in m + 1 .. Len(h) : ~Is(h[i], "abs", code)
    /\ out \in 0 .. max

BtnInv(h, m, b, set) == b \in set <=> \E i \in 1 .. m : Newest(h, m, "key", b, i) /\ h[i].v # 0

Buttons == {"left", "right", "middle"}
FollowAt(h, m, t, mo) ==
    /\ ReportAt(h, m)
    /\ AxisInv(h, m, "x", t.range, t.haveX, t.absX, t.outX, ScreenMax[1])
    /\ AxisInv(h, m, "y", t.range, t.haveY, t.absY, t.outY, ScreenMax[2])
    /\ \A b \in Buttons : BtnInv(h, Len(h), b, t.btn)
    /\ m # 0 => /\ mo.x = t.outX /\ mo.y = t.outY
                /\ \A b \in Buttons : BtnInv(h, m, b, mo.btn)

\* g is h and one more event.
Appended(h, ev, g, n) ==
    /\ n \in Nat /\ Len(h) = n /\ Len(g) = n + 1 /\ g[n + 1] = ev
    /\ \A i \in 1 .. n : g[i] = h[i]

\* Numbers up to n and the next one.
LEMMA UpTo ==
    ASSUME NEW n \in Nat, NEW m \in 0 .. n
    PROVE  /\ \A i \in 1 .. m : i \in 1 .. n /\ i \in 1 .. n + 1 /\ i # n + 1
           /\ \A i \in 1 .. m : \A j \in i + 1 .. m : j \in 1 .. n /\ j \in i + 1 .. n
           /\ \A i \in 1 .. n : i \in 1 .. n + 1 /\ i # n + 1 /\ n + 1 \in i + 1 .. n + 1
           /\ \A i \in 1 .. n : \A j \in i + 1 .. n + 1 : j = n + 1 \/ j \in i + 1 .. n
           /\ \A i \in 1 .. n : \A j \in i + 1 .. n : j \in 1 .. n /\ j \in i + 1 .. n + 1
           /\ \A i \in 1 .. n + 1 : i = n + 1 \/ i \in 1 .. n
           /\ \A i \in 1 .. n : i \in 1 .. m \/ i \in m + 1 .. n
           /\ \A i \in m + 1 .. n : i \in 1 .. n
           /\ \A i \in m + 1 .. n + 1 : i = n + 1 \/ i \in m + 1 .. n
           /\ \A i \in 1 .. m : \A j \in m + 1 .. n : j \in i + 1 .. n
           /\ \A i \in 1 .. m : \A j \in i + 1 .. n : j \in i + 1 .. m \/ j \in m + 1 .. n
           /\ n + 1 \in 1 .. n + 1 /\ n + 1 + 1 .. n + 1 = {} /\ n \in 0 .. n /\ m \in 0 .. n + 1
           /\ n + 1 \in 0 .. n + 1 /\ n + 1 # 0
           /\ \A i, j \in 1 .. n : i = j \/ i \in j + 1 .. n \/ j \in i + 1 .. n
OBVIOUS

\* The newest event of a kind is one.
LEMMA NewestOne ==
    ASSUME NEW h, NEW n \in Nat, NEW kind, NEW code, NEW i, NEW j,
           Newest(h, n, kind, code, i), Newest(h, n, kind, code, j)
    PROVE  i = j
PROOF
<1>1. n \in 0 .. n
    OBVIOUS
<1> QED
    BY <1>1, UpTo, Zenon DEF Newest

\* What one more event does to the newest of a kind.
LEMMA NewestBefore ==
    ASSUME NEW h, NEW ev, NEW g, NEW n, Appended(h, ev, g, n), NEW m \in 0 .. n,
           NEW kind, NEW code, NEW i
    PROVE  Newest(g, m, kind, code, i) <=> Newest(h, m, kind, code, i)
PROOF
<1>1. n \in Nat
    BY DEF Appended
<1> QED
    BY <1>1, UpTo DEF Newest, Appended, Is

LEMMA NewestLast ==
    ASSUME NEW h, NEW ev, NEW g, NEW n, Appended(h, ev, g, n), NEW kind, NEW code,
           Is(ev, kind, code), NEW i
    PROVE  Newest(g, n + 1, kind, code, i) <=> i = n + 1
PROOF
<1>1. n \in Nat /\ n \in 0 .. n
    BY DEF Appended
<1>2. Newest(g, n + 1, kind, code, n + 1)
    BY <1>1, UpTo, Zenon DEF Newest, Appended
<1>3. n + 1 \in Nat
    BY <1>1
<1> QED
    BY <1>2, <1>3, NewestOne, Zenon

LEMMA NewestSame ==
    ASSUME NEW h, NEW ev, NEW g, NEW n, Appended(h, ev, g, n), NEW kind, NEW code,
           ~Is(ev, kind, code), NEW i
    PROVE  Newest(g, n + 1, kind, code, i) <=> Newest(h, n, kind, code, i)
PROOF
<1>1. n \in Nat /\ n \in 0 .. n
    BY DEF Appended
<1>2. ASSUME Newest(g, n + 1, kind, code, i) PROVE Newest(h, n, kind, code, i)
    <2>1. i \in 1 .. n /\ g[i] = h[i]
        BY <1>1, <1>2, UpTo, Zenon DEF Newest, Appended
    <2> QED
        BY <1>1, <1>2, <2>1, UpTo, ZenonT(30) DEF Newest, Appended, Is
<1>3. ASSUME Newest(h, n, kind, code, i) PROVE Newest(g, n + 1, kind, code, i)
    <2>1. i \in 1 .. n /\ g[i] = h[i]
        BY <1>3, Zenon DEF Newest, Appended
    <2> QED
        BY <1>1, <1>3, <2>1, UpTo, ZenonT(30) DEF Newest, Appended, Is
<1> QED
    BY <1>2, <1>3

\* Events that are not of the kind change nothing.
LEMMA NewestSince ==
    ASSUME NEW h, NEW n \in Nat, NEW m \in 0 .. n, NEW kind, NEW code,
           \A j \in m + 1 .. n : ~Is(h[j], kind, code), NEW i
    PROVE  Newest(h, n, kind, code, i) <=> Newest(h, m, kind, code, i)
BY UpTo, ZenonT(30) DEF Newest

\* An event that is neither the axis' nor a report.
LEMMA AxisKept ==
    ASSUME NEW h, NEW ev, NEW g, NEW n, Appended(h, ev, g, n), NEW m \in 0 .. n, NEW code,
           NEW range, NEW have, NEW abs, NEW out, NEW max,
           AxisInv(h, m, code, range, have, abs, out, max), ~Is(ev, "abs", code)
    PROVE  AxisInv(g, m, code, range, have, abs, out, max)
PROOF
<1>1. n \in Nat /\ Len(h) = n /\ Len(g) = n + 1 /\ \A i \in 1 .. n : g[i] = h[i]
    BY DEF Appended
<1>2. g[n + 1] = ev
    BY DEF Appended
<1>3. \A i \in 1 .. m : i \in 1 .. n /\ g[i] = h[i]
    BY <1>1, UpTo, Zenon
<1>4. \A i \in 1 .. m : Newest(g, m, "abs", code, i) => out = ScaleAbs(g[i].v, range, max)
    BY <1>3, NewestBefore, Zenon DEF AxisInv
<1>5. (\A i \in 1 .. m : ~Newest(g, m, "abs", code, i)) => out = (max + 1) \div 2
    BY <1>3, NewestBefore, Zenon DEF AxisInv
<1>6. have => \E i \in 1 .. n + 1 : Newest(g, n + 1, "abs", code, i) /\ abs = g[i].v
    <2> SUFFICES ASSUME have PROVE \E i \in 1 .. n + 1 : Newest(g, n + 1, "abs", code, i) /\ abs = g[i].v
        OBVIOUS
    <2>1. PICK i \in 1 .. n : Newest(h, n, "abs", code, i) /\ abs = h[i].v
        BY <1>1, Zenon DEF AxisInv
    <2>2. Newest(g, n + 1, "abs", code, i)
        BY <2>1, NewestSame, ZenonT(30)
    <2>3. i \in 1 .. n + 1 /\ g[i] = h[i]
        BY <1>1, <2>1
    <2> QED
        BY <2>1, <2>2, <2>3, Zenon
<1>7. ~have => \A i \in m + 1 .. n + 1 : ~Is(g[i], "abs", code)
    <2> SUFFICES ASSUME ~have, NEW i \in m + 1 .. n + 1 PROVE ~Is(g[i], "abs", code)
        OBVIOUS
    <2>1. i = n + 1 \/ i \in m + 1 .. n
        BY <1>1, UpTo, Zenon
    <2>2. CASE i = n + 1
        BY <1>2, <2>2, Zenon
    <2>3. CASE i \in m + 1 .. n
        <3>1. i \in 1 .. n
            BY <1>1, <2>3, UpTo, Zenon
        <3>2. ~Is(h[i], "abs", code)
            BY <1>1, <2>3, Zenon DEF AxisInv
        <3> QED
            BY <1>1, <3>1, <3>2, Zenon
    <2> QED
        BY <2>1, <2>2, <2>3
<1>8. out \in 0 .. max
    BY DEF AxisInv
<1> QED
    BY <1>1, <1>4, <1>5, <1>6, <1>7, <1>8, Zenon DEF AxisInv

\* A coordinate of the axis waits for the report.
LEMMA AxisMoves ==
    ASSUME NEW h, NEW ev, NEW g, NEW n, Appended(h, ev, g, n), NEW m \in 0 .. n, NEW code,
           NEW range, NEW have, NEW abs, NEW out, NEW max,
           AxisInv(h, m, code, range, have, abs, out, max), Is(ev, "abs", code)
    PROVE  AxisInv(g, m, code, range, TRUE, ev.v, out, max)
PROOF
<1>1. n \in Nat /\ Len(g) = n + 1 /\ g[n + 1] = ev /\ \A i \in 1 .. n : g[i] = h[i]
    BY Zenon DEF Appended
<1>2. \A i \in 1 .. m : i \in 1 .. n /\ g[i] = h[i]
    BY <1>1, UpTo, Zenon
<1>3. \A i \in 1 .. m : Newest(g, m, "abs", code, i) => out = ScaleAbs(g[i].v, range, max)
    BY <1>2, NewestBefore, Zenon DEF AxisInv
<1>4. (\A i \in 1 .. m : ~Newest(g, m, "abs", code, i)) => out = (max + 1) \div 2
    BY <1>2, NewestBefore, ZenonT(30) DEF AxisInv
<1>5. n + 1 \in 1 .. n + 1 /\ Newest(g, n + 1, "abs", code, n + 1) /\ ev.v = g[n + 1].v
    <2>1. n + 1 \in 1 .. n + 1
        BY <1>1
    <2> QED
        <3>1. \A i : Newest(g, n + 1, "abs", code, i) <=> i = n + 1
            BY NewestLast, ZenonT(30)
        <3> QED
            BY <1>1, <2>1, <3>1
<1>6. out \in 0 .. max
    BY DEF AxisInv
<1> QED
    BY <1>1, <1>3, <1>4, <1>5, <1>6, ZenonT(30) DEF AxisInv

\* What an event that is no report does to a coordinate that waits.
Waiting(ev, code, have, abs, have2, abs2) ==
    /\ Is(ev, "abs", code) => have2 = TRUE /\ abs2 = ev.v
    /\ ~Is(ev, "abs", code) => have2 = have /\ abs2 = abs

\* An event that is no report: what waits changes only with a coordinate of the axis.
LEMMA AxisEvent ==
    ASSUME NEW h, NEW ev, NEW g, NEW n, Appended(h, ev, g, n), NEW m \in 0 .. n, NEW code,
           NEW range, NEW have, NEW abs, NEW out, NEW max, NEW have2, NEW abs2,
           AxisInv(h, m, code, range, have, abs, out, max),
           Waiting(ev, code, have, abs, have2, abs2)
    PROVE  AxisInv(g, m, code, range, have2, abs2, out, max)
PROOF
<1>1. CASE Is(ev, "abs", code)
    <2>1. AxisInv(g, m, code, range, TRUE, ev.v, out, max)
        BY <1>1, AxisMoves, Zenon
    <2> QED
        BY <1>1, <2>1, Zenon DEF Waiting
<1>2. CASE ~Is(ev, "abs", code)
    <2>1. AxisInv(g, m, code, range, have, abs, out, max)
        BY <1>2, AxisKept, Zenon
    <2> QED
        BY <1>2, <2>1 DEF Waiting
<1> QED
    BY <1>1, <1>2

\* A report puts the axis where the newest coordinate says.
LEMMA AxisReports ==
    ASSUME NEW h, NEW ev, NEW g, NEW n, Appended(h, ev, g, n), NEW m \in 0 .. n, ev.kind = "syn",
           NEW range \in Int \X Int, range[2] > range[1]
    PROVE  \A code, have, out : \A abs \in Int, max \in Nat :
               AxisInv(h, m, code, range, have, abs, out, max)
               => AxisInv(g, n + 1, code, range, FALSE, abs,
                          IF have THEN ScaleAbs(abs, range, max) ELSE out, max)
PROOF
<1> SUFFICES ASSUME NEW code, NEW have, NEW out, NEW abs \in Int, NEW max \in Nat,
                    AxisInv(h, m, code, range, have, abs, out, max),
                    NEW new, new = IF have THEN ScaleAbs(abs, range, max) ELSE out
             PROVE  AxisInv(g, n + 1, code, range, FALSE, abs, new, max)
    BY ZenonT(30)
<1>1. n \in Nat /\ Len(h) = n /\ Len(g) = n + 1 /\ g[n + 1] = ev /\ \A i \in 1 .. n : g[i] = h[i]
    BY DEF Appended
<1>2. ~Is(ev, "abs", code)
    BY DEF Is
<1>3. n + 1 + 1 .. n + 1 = {}
    BY <1>1, SMTT(30)
<1>4. new \in 0 .. max
    BY ScaleType DEF AxisInv
<1>5. ASSUME NEW i \in 1 .. n + 1, Newest(g, n + 1, "abs", code, i)
      PROVE  new = ScaleAbs(g[i].v, range, max)
    <2>1. Newest(h, n, "abs", code, i)
        BY <1>2, <1>5, NewestSame, Zenon
    <2>2. g[i] = h[i]
        BY <1>1, <2>1, ZenonT(30) DEF Newest
    <2>3. CASE have
        <3>1. PICK k \in 1 .. n : Newest(h, n, "abs", code, k) /\ abs = h[k].v
            BY <1>1, <2>3, Zenon DEF AxisInv
        <3>2. i = k
            BY <1>1, <2>1, <3>1, NewestOne, ZenonT(30)
        <3> QED
            BY <2>2, <2>3, <3>1, <3>2
    <2>4. CASE ~have
        <3>1. \A j \in m + 1 .. n : ~Is(h[j], "abs", code)
            BY <1>1, <2>4, Zenon DEF AxisInv
        <3>2. Newest(h, m, "abs", code, i)
            BY <1>1, <2>1, <3>1, NewestSince, Zenon
        <3>3. i \in 1 .. m
            BY <3>2, Zenon DEF Newest
        <3>4. out = ScaleAbs(h[i].v, range, max)
            BY <3>2, <3>3, Zenon DEF AxisInv
        <3> QED
            BY <2>2, <2>4, <3>4
    <2> QED
        BY <2>3, <2>4, Zenon
<1>6. ASSUME \A i \in 1 .. n + 1 : ~Newest(g, n + 1, "abs", code, i) PROVE new = (max + 1) \div 2
    <2>1. \A i \in 1 .. n : i \in 1 .. n + 1
        BY <1>1
    <2>2. \A i \in 1 .. n : ~Newest(h, n, "abs", code, i)
        BY <1>2, <1>6, <2>1, NewestSame, Zenon
    <2>3. ~have
        BY <1>1, <2>2, Zenon DEF AxisInv
    <2>4. \A i \in 1 .. m : i \in 1 .. n
        BY <1>1
    <2>5. \A j \in m + 1 .. n : ~Is(h[j], "abs", code)
        BY <1>1, <2>3, Zenon DEF AxisInv
    <2>6. \A i \in 1 .. m : ~Newest(h, m, "abs", code, i)
        BY <1>1, <2>2, <2>4, <2>5, NewestSince, Zenon
    <2>7. out = (max + 1) \div 2
        BY <2>6, Zenon DEF AxisInv
    <2> QED
        BY <2>3, <2>7
<1> QED
    BY <1>1, <1>3, <1>4, <1>5, <1>6, Zenon DEF AxisInv

\* A button no event names keeps its state; one an event names takes it from the event.
LEMMA ButtonKept ==
    ASSUME NEW h, NEW ev, NEW g, NEW n, Appended(h, ev, g, n), NEW b, NEW set,
           BtnInv(h, n, b, set), ~Is(ev, "key", b)
    PROVE  BtnInv(g, n + 1, b, set)
PROOF
<1>1. n \in Nat /\ \A i \in 1 .. n : g[i] = h[i]
    BY DEF Appended
<1>2. \A i \in 1 .. n : i \in 1 .. n + 1
    BY <1>1
<1>3. \A i : Newest(g, n + 1, "key", b, i) <=> Newest(h, n, "key", b, i)
    BY NewestSame, Zenon
<1>4. \A i : Newest(h, n, "key", b, i) => i \in 1 .. n
    BY Zenon DEF Newest
<1> QED
    BY <1>1, <1>2, <1>3, <1>4, Zenon DEF BtnInv

LEMMA ButtonBefore ==
    ASSUME NEW h, NEW ev, NEW g, NEW n, Appended(h, ev, g, n), NEW m \in 0 .. n, NEW b, NEW set,
           BtnInv(h, m, b, set)
    PROVE  BtnInv(g, m, b, set)
PROOF
<1>1. n \in Nat /\ \A i \in 1 .. n : g[i] = h[i]
    BY DEF Appended
<1>2. \A i \in 1 .. m : i \in 1 .. n
    BY <1>1
<1>3. \A i : Newest(g, m, "key", b, i) <=> Newest(h, m, "key", b, i)
    BY NewestBefore, Zenon
<1> QED
    BY <1>1, <1>2, <1>3, Zenon DEF BtnInv

LEMMA ButtonMoves ==
    ASSUME NEW h, NEW ev, NEW g, NEW n, Appended(h, ev, g, n), NEW b, NEW set, Is(ev, "key", b)
    PROVE  BtnInv(g, n + 1, b, IF ev.v # 0 THEN set \cup {b} ELSE set \ {b})
PROOF
<1>1. n \in Nat /\ g[n + 1] = ev
    BY DEF Appended
<1>2. n + 1 \in 1 .. n + 1
    BY <1>1
<1>3. \A i : Newest(g, n + 1, "key", b, i) <=> i = n + 1
    BY NewestLast, Zenon
<1> QED
    BY <1>1, <1>2, <1>3, Zenon DEF BtnInv

\* What handle_event() changes of the globals, kind by kind.
Decodes(t, ev, u) ==
    /\ u.range = t.range
    /\ Is(ev, "abs", "x") => u.absX = ev.v /\ u.haveX = TRUE /\ u.outX = t.outX
    /\ Is(ev, "abs", "y") => u.absY = ev.v /\ u.haveY = TRUE /\ u.outY = t.outY
    /\ ~Is(ev, "abs", "x") /\ ev.kind # "syn" =>
           u.absX = t.absX /\ u.haveX = t.haveX /\ u.outX = t.outX
    /\ ~Is(ev, "abs", "y") /\ ev.kind # "syn" =>
           u.absY = t.absY /\ u.haveY = t.haveY /\ u.outY = t.outY
    /\ ev.kind = "key" => u.btn = IF ev.v # 0 THEN t.btn \cup {ev.code} ELSE t.btn \ {ev.code}
    /\ ev.kind # "key" => u.btn = t.btn
    /\ ev.kind = "syn" =>
           /\ u.absX = t.absX /\ u.haveX = FALSE
           /\ u.outX = IF t.haveX THEN ScaleAbs(t.absX, t.range, ScreenMax[1]) ELSE t.outX
           /\ u.absY = t.absY /\ u.haveY = FALSE
           /\ u.outY = IF t.haveY THEN ScaleAbs(t.absY, t.range, ScreenMax[2]) ELSE t.outY

LEMMA DecodedFields ==
    ASSUME NEW t \in TabType, NEW ev \in Events PROVE Decodes(t, ev, Decoded(t, ev))
PROOF
<1>0. PICK u : u = Decoded(t, ev)
    OBVIOUS
<1> SUFFICES Decodes(t, ev, u)
    BY <1>0
<1>1. CASE ev.kind = "abs" /\ ev.code = "x"
    <2>1. u = [t EXCEPT !.absX = ev.v, !.haveX = TRUE]
        BY <1>0, <1>1 DEF Decoded
    <2> QED
        BY <1>1, <2>1 DEF TabType, Is, Decodes
<1>2. CASE ev.kind = "abs" /\ ev.code = "y"
    <2>1. u = [t EXCEPT !.absY = ev.v, !.haveY = TRUE]
        BY <1>0, <1>2 DEF Decoded
    <2> QED
        BY <1>2, <2>1 DEF TabType, Is, Decodes
<1>3. CASE ev.kind = "key"
    <2>1. PICK b : b = IF ev.v # 0 THEN t.btn \cup {ev.code} ELSE t.btn \ {ev.code}
        BY Zenon
    <2>2. u = [t EXCEPT !.btn = b]
        BY <1>0, <1>3, <2>1 DEF Decoded, TabType
    <2> QED
        BY <1>3, <2>1, <2>2 DEF TabType, Is, Decodes
<1>4. CASE ev.kind = "syn"
    <2>1. PICK x, y : /\ x = IF t.haveX THEN ScaleAbs(t.absX, t.range, ScreenMax[1]) ELSE t.outX
                      /\ y = IF t.haveY THEN ScaleAbs(t.absY, t.range, ScreenMax[2]) ELSE t.outY
        OBVIOUS
    <2>2. u = [t EXCEPT !.outX = x, !.outY = y, !.haveX = FALSE, !.haveY = FALSE]
        BY <1>0, <1>4, <2>1 DEF Decoded, Inject, TabType
    <2> QED
        BY <1>4, <2>1, <2>2 DEF TabType, Is, Decodes
<1>5. CASE /\ ~(ev.kind = "abs" /\ ev.code = "x") /\ ~(ev.kind = "abs" /\ ev.code = "y")
           /\ ev.kind # "key" /\ ev.kind # "syn"
    <2>1. u = t
        BY <1>0, <1>5 DEF Decoded
    <2> QED
        BY <1>5, <2>1 DEF Is, Decodes
<1> QED
    BY <1>1, <1>2, <1>3, <1>4, <1>5

\* No button is moved by an event that does not name it.
LEMMA ButtonsDecoded ==
    ASSUME NEW t \in TabType, NEW ev \in Events, NEW u, Decodes(t, ev, u),
           NEW h, NEW g, NEW n, Appended(h, ev, g, n), NEW b, BtnInv(h, n, b, t.btn)
    PROVE  BtnInv(g, n + 1, b, u.btn)
PROOF
<1>1. CASE Is(ev, "key", b)
    <2>1. BtnInv(g, n + 1, b, IF ev.v # 0 THEN t.btn \cup {b} ELSE t.btn \ {b})
        BY <1>1, ButtonMoves, Zenon
    <2>2. u.btn = IF ev.v # 0 THEN t.btn \cup {b} ELSE t.btn \ {b}
        BY <1>1, Zenon DEF Is, Decodes
    <2> QED
        BY <2>1, <2>2
<1>2. CASE ~Is(ev, "key", b)
    <2>1. BtnInv(g, n + 1, b, t.btn)
        BY <1>2, ButtonKept, ZenonT(30)
    <2>2. b \in u.btn <=> b \in t.btn
        BY <1>2, Zenon DEF Is, Decodes
    <2> QED
        BY <2>1, <2>2, Zenon DEF BtnInv
<1> QED
    BY <1>1, <1>2, ZenonT(30)

\* An event that is no report.
LEMMA FollowEvent ==
    ASSUME NEW t \in TabType, NEW ev \in Events, NEW u, Decodes(t, ev, u), ev.kind # "syn",
           NEW h, NEW g, NEW n, Appended(h, ev, g, n), NEW mo, NEW m \in 0 .. n, FollowAt(h, m, t, mo)
    PROVE  FollowAt(g, m, u, mo)
PROOF
<1>1. n \in Nat /\ Len(h) = n /\ Len(g) = n + 1 /\ g[n + 1] = ev /\ \A i \in 1 .. n : g[i] = h[i]
    BY Zenon DEF Appended
<1>2. ReportAt(g, m)
    <2>1. \A j \in m + 1 .. n + 1 : j = n + 1 \/ (j \in m + 1 .. n /\ j \in 1 .. n)
        BY <1>1
    <2>2. m # 0 => m \in 1 .. n
        BY <1>1
    <2>3. ReportAt(h, m)
        BY Zenon DEF FollowAt
    <2> QED
        BY <1>1, <2>1, <2>2, <2>3, ZenonT(30) DEF ReportAt
<1>a. \A code, range, have, abs, out, max, have2, abs2 :
          /\ AxisInv(h, m, code, range, have, abs, out, max)
          /\ Waiting(ev, code, have, abs, have2, abs2)
          => AxisInv(g, m, code, range, have2, abs2, out, max)
    BY AxisEvent, ZenonT(30)
<1>3. AxisInv(g, m, "x", u.range, u.haveX, u.absX, u.outX, ScreenMax[1])
    <2>1. AxisInv(h, m, "x", t.range, t.haveX, t.absX, t.outX, ScreenMax[1])
        BY Zenon DEF FollowAt
    <2>2. u.range = t.range /\ u.outX = t.outX
        BY Zenon DEF Decodes
    <2>3. Waiting(ev, "x", t.haveX, t.absX, u.haveX, u.absX)
        BY ZenonT(30) DEF Decodes, Waiting
    <2>4. AxisInv(g, m, "x", t.range, u.haveX, u.absX, t.outX, ScreenMax[1])
        BY <1>a, <2>1, <2>3, Zenon
    <2> QED
        BY <2>2, <2>4, Zenon
<1>4. AxisInv(g, m, "y", u.range, u.haveY, u.absY, u.outY, ScreenMax[2])
    <2>1. AxisInv(h, m, "y", t.range, t.haveY, t.absY, t.outY, ScreenMax[2])
        BY Zenon DEF FollowAt
    <2>2. u.range = t.range /\ u.outY = t.outY
        BY Zenon DEF Decodes
    <2>3. Waiting(ev, "y", t.haveY, t.absY, u.haveY, u.absY)
        BY ZenonT(30) DEF Decodes, Waiting
    <2>4. AxisInv(g, m, "y", t.range, u.haveY, u.absY, t.outY, ScreenMax[2])
        BY <1>a, <2>1, <2>3, Zenon
    <2> QED
        BY <2>2, <2>4, ZenonT(30)
<1>5. \A b \in Buttons : BtnInv(g, n + 1, b, u.btn)
    <2>1. \A b \in Buttons : BtnInv(h, n, b, t.btn)
        BY <1>1, Zenon DEF FollowAt
    <2> QED
        BY <2>1, ButtonsDecoded, ZenonT(30)
<1>6. m # 0 => /\ mo.x = u.outX /\ mo.y = u.outY
               /\ \A b \in Buttons : BtnInv(g, m, b, mo.btn)
    <2>1. u.outX = t.outX /\ u.outY = t.outY
        BY Zenon DEF Decodes
    <2>2. ASSUME m # 0, NEW b \in Buttons PROVE BtnInv(g, m, b, mo.btn)
        <3>1. BtnInv(h, m, b, mo.btn)
            BY <2>2, Zenon DEF FollowAt
        <3> QED
            BY <3>1, ButtonBefore, Zenon
    <2> QED
        BY <2>1, <2>2, Zenon DEF FollowAt
<1> QED
    BY <1>1, <1>2, <1>3, <1>4, <1>5, <1>6, ZenonT(30) DEF FollowAt

Pointed(t) == t.range[2] > t.range[1]

LEMMA ClipInside == ASSUME NEW hi \in Nat, NEW v \in 0 .. hi PROVE Clip(v, 0, hi) = v
BY DEF Clip

\* A report: the pointer is put where the newest coordinates say.
LEMMA FollowReport ==
    ASSUME NEW t \in TabType, Pointed(t), NEW ev \in Events, NEW u, Decodes(t, ev, u), ev.kind = "syn",
           NEW h, NEW g, NEW n, Appended(h, ev, g, n), NEW mo, NEW m \in 0 .. n, FollowAt(h, m, t, mo)
    PROVE  FollowAt(g, n + 1, u, AbsoluteInject(u))
PROOF
<1>1. n \in Nat /\ Len(h) = n /\ Len(g) = n + 1 /\ g[n + 1] = ev /\ n + 1 # 0 /\ n + 1 + 1 .. n + 1 = {}
    BY DEF Appended
<1>2. ReportAt(g, n + 1)
    BY <1>1, Zenon DEF ReportAt
<1>3. /\ t.range \in Int \X Int /\ t.absX \in Int /\ t.absY \in Int
      /\ ScreenMax[1] \in Nat /\ ScreenMax[2] \in Nat /\ t.range[2] > t.range[1]
    BY TabletAssumption DEF TabType, Pointed
<1>4. /\ u.range = t.range /\ u.absX = t.absX /\ u.haveX = FALSE /\ u.absY = t.absY /\ u.haveY = FALSE
      /\ u.outX = IF t.haveX THEN ScaleAbs(t.absX, t.range, ScreenMax[1]) ELSE t.outX
      /\ u.outY = IF t.haveY THEN ScaleAbs(t.absY, t.range, ScreenMax[2]) ELSE t.outY
    BY Zenon DEF Decodes
<1>5. \A code, have, out : \A abs \in Int, max \in Nat :
               AxisInv(h, m, code, t.range, have, abs, out, max)
               => AxisInv(g, n + 1, code, t.range, FALSE, abs,
                          IF have THEN ScaleAbs(abs, t.range, max) ELSE out, max)
    BY <1>3, AxisReports, Zenon
<1>6. AxisInv(g, n + 1, "x", u.range, u.haveX, u.absX, u.outX, ScreenMax[1])
    <2>1. AxisInv(h, m, "x", t.range, t.haveX, t.absX, t.outX, ScreenMax[1])
        BY ZenonT(30) DEF FollowAt
    <2>2. AxisInv(g, n + 1, "x", t.range, FALSE, t.absX,
                  IF t.haveX THEN ScaleAbs(t.absX, t.range, ScreenMax[1]) ELSE t.outX, ScreenMax[1])
        BY <1>3, <1>5, <2>1, Zenon
    <2> QED
        BY <1>4, <2>2, ZenonT(30)
<1>7. AxisInv(g, n + 1, "y", u.range, u.haveY, u.absY, u.outY, ScreenMax[2])
    <2>1. AxisInv(h, m, "y", t.range, t.haveY, t.absY, t.outY, ScreenMax[2])
        BY ZenonT(30) DEF FollowAt
    <2>2. AxisInv(g, n + 1, "y", t.range, FALSE, t.absY,
                  IF t.haveY THEN ScaleAbs(t.absY, t.range, ScreenMax[2]) ELSE t.outY, ScreenMax[2])
        BY <1>3, <1>5, <2>1, Zenon
    <2> QED
        BY <1>4, <2>2, ZenonT(30)
<1>8. \A b \in Buttons : BtnInv(g, n + 1, b, u.btn)
    <2>1. \A b \in Buttons : BtnInv(h, n, b, t.btn)
        BY <1>1, Zenon DEF FollowAt
    <2> QED
        BY <2>1, ButtonsDecoded, ZenonT(30)
<1>9. u.outX \in 0 .. ScreenMax[1] /\ u.outY \in 0 .. ScreenMax[2]
    BY <1>6, <1>7, ZenonT(30) DEF AxisInv
<1>10. Clip(u.outX, 0, ScreenMax[1]) = u.outX /\ Clip(u.outY, 0, ScreenMax[2]) = u.outY
    BY <1>3, <1>9, ClipInside, Zenon
<1>11. AbsoluteInject(u).x = u.outX /\ AbsoluteInject(u).y = u.outY /\ AbsoluteInject(u).btn = u.btn
    BY <1>10, Zenon DEF AbsoluteInject
<1> QED
    BY <1>1, <1>2, <1>6, <1>7, <1>8, <1>11, ZenonT(30) DEF FollowAt

-----------------------------------------------------------------------------
(* The pointer's invariant: while the tablet is the backend, nothing else moves it. *)

FollowsNow(h, t, mo) == Pointed(t) /\ \E m \in 0 .. Len(h) : FollowAt(h, m, t, mo)
NoTransfer == \A p \in Masters : xfer[p].pc = "idle"
PtrInv ==
    /\ tab.active => setup = "done" /\ NoTransfer /\ FollowsNow(handled, tab, mouse)
    /\ setup = "start" => NoTransfer

\* The events decoded, and one more.
LEMMA AppendedTo ==
    ASSUME NEW h \in Seq(Events), NEW ev, NEW g \in Seq(Events), g = Append(h, ev)
    PROVE  ev \in Events /\ Appended(h, ev, g, Len(h))
PROOF
<1>1. /\ Len(h) \in Nat /\ Len(g) = Len(h) + 1 /\ g[Len(h) + 1] = ev
      /\ \A i \in 1 .. Len(h) : g[i] = h[i]
    OBVIOUS
<1>2. g[Len(h) + 1] \in Events
    <2>1. Len(h) + 1 \in 1 .. Len(g)
        BY <1>1
    <2> QED
        BY <2>1
<1> QED
    BY <1>1, <1>2 DEF Appended

\* handle_event()
LEMMA FollowDecode ==
    ASSUME NEW t \in TabType, NEW ev \in Events, NEW h, NEW g, NEW n, Appended(h, ev, g, n), NEW mo,
           FollowsNow(h, t, mo)
    PROVE  FollowsNow(g, Decoded(t, ev), IF ev.kind = "syn" THEN AbsoluteInject(Decoded(t, ev)) ELSE mo)
PROOF
<1>0. PICK u : u = Decoded(t, ev)
    OBVIOUS
<1>1. Decodes(t, ev, u)
    BY <1>0, DecodedFields
<1>2. n \in Nat /\ Len(h) = n /\ Len(g) = n + 1
    BY DEF Appended
<1>3. PICK m \in 0 .. n : FollowAt(h, m, t, mo)
    BY <1>2 DEF FollowsNow
<1>4. Pointed(t) /\ Pointed(u)
    BY <1>1, Zenon DEF FollowsNow, Pointed, Decodes
<1>5. CASE ev.kind = "syn"
    <2>1. FollowAt(g, n + 1, u, AbsoluteInject(u))
        BY <1>1, <1>3, <1>4, <1>5, FollowReport, Zenon
    <2>2. n + 1 \in 0 .. Len(g)
        BY <1>2
    <2>3. FollowsNow(g, u, AbsoluteInject(u))
        BY <1>4, <2>1, <2>2, Zenon DEF FollowsNow
    <2> QED
        BY <1>0, <1>5, <2>3, Zenon
<1>6. CASE ev.kind # "syn"
    <2>1. FollowAt(g, m, u, mo)
        BY <1>1, <1>3, <1>6, FollowEvent, Zenon
    <2>2. m \in 0 .. Len(g)
        BY <1>2
    <2>3. FollowsNow(g, u, mo)
        BY <1>4, <2>1, <2>2, Zenon DEF FollowsNow
    <2> QED
        BY <1>0, <1>6, <2>3, Zenon
<1> QED
    BY <1>5, <1>6

\* The place in the ring is no part of what the pointer follows.
LEMMA FollowLast ==
    ASSUME NEW t \in TabType, NEW last, NEW h, NEW mo, FollowsNow(h, t, mo)
    PROVE  FollowsNow(h, [t EXCEPT !.last = last], mo)
PROOF
<1>1. PICK u : u = [t EXCEPT !.last = last]
    BY Zenon
<1>2. /\ u.range = t.range /\ u.haveX = t.haveX /\ u.absX = t.absX /\ u.outX = t.outX
      /\ u.haveY = t.haveY /\ u.absY = t.absY /\ u.outY = t.outY /\ u.btn = t.btn
    BY <1>1 DEF TabType
<1>3. FollowsNow(h, u, mo)
    BY <1>2, Zenon DEF FollowsNow, Pointed, FollowAt
<1> QED
    BY <1>1, <1>3

\* After virtio_tablet_probe_and_init() the pointer is to stand in the middle.
LEMMA FollowFresh ==
    ASSUME NEW range \in Int \X Int, range[2] > range[1], NEW t, NEW mo,
           t.range = range, t.haveX = FALSE, t.haveY = FALSE, t.btn = {},
           t.outX = (ScreenMax[1] + 1) \div 2, t.outY = (ScreenMax[2] + 1) \div 2
    PROVE  FollowsNow(<<>>, t, mo)
PROOF
<1>1. Len(<<>>) = 0 /\ 1 .. 0 = {} /\ 0 + 1 .. 0 = {} /\ 0 \in 0 .. 0
    OBVIOUS
<1>2. ASSUME NEW max \in Nat PROVE (max + 1) \div 2 \in 0 .. max
    BY <1>2
<1>3. ASSUME NEW code, NEW abs, NEW max \in Nat
      PROVE  AxisInv(<<>>, 0, code, range, FALSE, abs, (max + 1) \div 2, max)
    BY <1>1, <1>2, Zenon DEF AxisInv
<1>4. ScreenMax[1] \in Nat /\ ScreenMax[2] \in Nat
    BY TabletAssumption
<1>5. /\ AxisInv(<<>>, 0, "x", t.range, t.haveX, t.absX, t.outX, ScreenMax[1])
      /\ AxisInv(<<>>, 0, "y", t.range, t.haveY, t.absY, t.outY, ScreenMax[2])
    <2>1. AxisInv(<<>>, 0, "x", range, FALSE, t.absX, (ScreenMax[1] + 1) \div 2, ScreenMax[1])
        BY <1>3, <1>4, Zenon
    <2>2. AxisInv(<<>>, 0, "y", range, FALSE, t.absY, (ScreenMax[2] + 1) \div 2, ScreenMax[2])
        BY <1>3, <1>4, Zenon
    <2> QED
        BY <2>1, <2>2, Zenon
<1>6. \A b \in Buttons : BtnInv(<<>>, 0, b, t.btn)
    BY <1>1, Zenon DEF BtnInv
<1>7. ReportAt(<<>>, 0)
    BY <1>1, Zenon DEF ReportAt
<1>8. FollowAt(<<>>, 0, t, mo)
    BY <1>1, <1>5, <1>6, <1>7, Zenon DEF FollowAt
<1> QED
    BY <1>1, <1>8, Zenon DEF FollowsNow, Pointed

\* A step of the tablet's own.
LEMMA PtrTryVirtio == ASSUME TabletInv, PtrInv, TryVirtio PROVE PtrInv'
PROOF
<1>1. /\ setup = "start" /\ setup' # "start" /\ Blank /\ handled' = <<>> /\ machine \in Machines
      /\ NoTransfer' /\ (tab'.active => tab.active \/ setup' = "done")
    BY Zenon DEF TabletInv, PtrInv, NoTransfer, TryVirtio, Done, Blank, busVars
<1>2. CASE tab' = tab \/ tab' = ShutDown
    <2>1. ~tab'.active
        BY <1>1, <1>2 DEF Blank, ShutDown
    <2> QED
        BY <1>1, <2>1 DEF PtrInv
<1>3. CASE tab' = [ShutDown EXCEPT !.active = TRUE, !.range = AxisRange(machine.range),
                                   !.outX = (ScreenMax[1] + 1) \div 2,
                                   !.outY = (ScreenMax[2] + 1) \div 2]
    <2>1. PICK m \in Int \X Int : m = machine.range
        BY <1>1, PointersAssumption
    <2>2. PICK d \in Int \X Int : d = <<0, 32767>> /\ d[2] > d[1]
        <3>1. <<0, 32767>> \in Int \X Int
            OBVIOUS
        <3> QED
            BY <3>1
    <2>3. PICK range \in Int \X Int : range = AxisRange(machine.range) /\ range[2] > range[1]
        <3>1. AxisRange(machine.range) = IF m[2] > m[1] THEN m ELSE d
            BY <2>1, <2>2 DEF AxisRange
        <3> QED
            BY <2>2, <3>1
    <2>4. /\ tab'.range = range /\ tab'.haveX = FALSE /\ tab'.haveY = FALSE /\ tab'.btn = {}
          /\ tab'.outX = (ScreenMax[1] + 1) \div 2 /\ tab'.outY = (ScreenMax[2] + 1) \div 2
          /\ tab'.active
        BY <1>3, <2>3 DEF ShutDown
    <2>5. FollowsNow(handled', tab', mouse')
        BY <1>1, <2>3, <2>4, FollowFresh, Zenon
    <2>6. setup' = "done"
        BY <1>1, <2>4 DEF Blank
    <2> QED
        BY <1>1, <2>5, <2>6 DEF PtrInv
<1> QED
    BY <1>2, <1>3 DEF TryVirtio, TabletProbe, WalkCapsFails

LEMMA PtrPoll ==
    ASSUME TabletInv, TabletInv', PtrInv, NEW p \in Pollers, PollTablet(p) PROVE PtrInv'
PROOF
<1>1. /\ setup = "done" /\ setup' = "done" /\ tab.active /\ TabletPoll(p)
      /\ NoTransfer' /\ FollowsNow(handled, tab, mouse)
    BY DEF PollTablet, Polled, setupVars, busVars, PtrInv, NoTransfer
<1>2. CASE TabletPollStart(p) \/ TabletPollEnd(p)
    <2>1. UNCHANGED <<tab, handled, mouse>>
        BY <1>2 DEF TabletPollStart, TabletPollEnd
    <2> QED
        BY <1>1, <2>1 DEF PtrInv
<1>3. CASE TabletPollReturn(p)
    <2>1. tab' = [tab EXCEPT !.last = (tab.last + 1) % Word16] /\ UNCHANGED <<handled, mouse>>
        BY <1>3 DEF TabletPollReturn, TabletInv, TabType
    <2>2. tab \in TabType
        BY Zenon DEF TabletInv
    <2>3. FollowsNow(handled, [tab EXCEPT !.last = (tab.last + 1) % Word16], mouse)
        BY <1>1, <2>2, FollowLast
    <2> QED
        BY <1>1, <2>1, <2>3 DEF PtrInv
<1>4. CASE TabletPollEvent(p)
    <2>1. PICK ev : /\ tab' = Decoded(tab, ev) /\ handled' = Append(handled, ev)
                    /\ mouse' = IF ev.kind = "syn" THEN AbsoluteInject(tab') ELSE mouse
        BY <1>4, ZenonT(30) DEF TabletPollEvent
    <2>2. handled \in Seq(Events) /\ handled' \in Seq(Events) /\ tab \in TabType
        BY Zenon DEF TabletInv
    <2>3. ev \in Events /\ Appended(handled, ev, handled', Len(handled))
        BY <2>1, <2>2, AppendedTo, Zenon
    <2>4. FollowsNow(handled', Decoded(tab, ev), IF ev.kind = "syn" THEN AbsoluteInject(Decoded(tab, ev)) ELSE mouse)
        BY <1>1, <2>2, <2>3, FollowDecode
    <2>5. FollowsNow(handled', tab', mouse')
        BY <2>1, <2>4
    <2> QED
        BY <1>1, <2>5 DEF PtrInv
<1> QED
    BY <1>1, <1>2, <1>3, <1>4 DEF TabletPoll

LEMMA PtrStep == ASSUME PadInv, TabletInv, TabletInv', PtrInv, [Next]_vars PROVE PtrInv'
PROOF
<1>1. CASE TryVirtio
    BY <1>1, PtrTryVirtio
<1>2. ASSUME NEW p \in Pollers, PollTablet(p) PROVE PtrInv'
    BY <1>2, PtrPoll
<1>3. CASE SkipI2c \/ TryUsb \/ InitPs2Aux \/ NoTouchpad \/ ProbeBind \/ ProbeBegin \/ ProbeEnd
    <2>1. setup \in {"i2c", "usb", "ps2"} /\ setup' # "start" /\ tab' = tab
        BY <1>3, Zenon DEF SkipI2c, TryUsb, InitPs2Aux, NoTouchpad, ProbeBind, ProbeBegin, ProbeEnd, Trying, GiveUp,
                    setupVars, tabletVars, Done
    <2> QED
        BY <2>1 DEF PtrInv
<1>4. ASSUME NEW p \in Pollers, PollPadBegin(p) \/ PollPadEnd(p) PROVE PtrInv'
    <2>0. p \in Masters
        BY MastersAre
    <2>1. setup' = "done" /\ tab' = tab /\ ~tab.active
        BY <1>4, <2>0, Zenon DEF PollPadBegin, PollPadEnd, Polled, setupVars, tabletVars, PtrInv, NoTransfer
    <2> QED
        BY <2>1 DEF PtrInv
<1>5. CASE DeviceSends \/ BusWork \/ UNCHANGED vars
    <2>1. UNCHANGED <<setup, tab, handled, mouse>>
        BY <1>5 DEF DeviceSends, TabletSends, BusWork, vars, setupVars, tabletVars
    <2>2. NoTransfer => NoTransfer'
        <3>1. CASE xfer' = xfer
            BY <3>1 DEF NoTransfer
        <3>2. ASSUME NoTransfer, NEW p \in Masters, Master(p) PROVE FALSE
            BY <3>2, Zenon DEF NoTransfer, Master, PushCommand, PushTimeout, PushDone, WaitStop, ReadByte, ReadDone
        <3>3. BusCommand \/ BusAbort \/ DeviceSends \/ UNCHANGED vars => xfer' = xfer
            BY DEF BusCommand, BusAbort, DeviceSends, vars, busVars
        <3> QED
            BY <1>5, <3>1, <3>2, <3>3, Zenon DEF BusWork
    <2> QED
        BY <2>1, <2>2 DEF PtrInv
<1> QED
    BY <1>1, <1>2, <1>3, <1>4, <1>5 DEF Next, SetupStep, Polls

\* Where the last report is, and the newest event of a kind before it.
LEMMA LastReportAt ==
    ASSUME handled \in Seq(Events), NEW m \in 0 .. Len(handled), ReportAt(handled, m)
    PROVE  LastReport = IF m = 0 THEN {} ELSE {m}
PROOF
<1>0. PICK n \in Nat : n = Len(handled) /\ DOMAIN handled = 1 .. n
    OBVIOUS
<1>1. \A i \in 1 .. n : i \in m + 1 .. n \/ i = m \/ m \in i + 1 .. n
    BY <1>0
<1>2. m # 0 => m \in 1 .. n
    BY <1>0
<1>3. \A i \in 1 .. n : i # m => i \notin LastReport
    <2> SUFFICES ASSUME NEW i \in 1 .. n, i # m, i \in LastReport PROVE FALSE
        OBVIOUS
    <2>1. handled[i].kind = "syn" /\ \A j \in i + 1 .. n : handled[j].kind # "syn"
        BY <1>0, Zenon DEF LastReport
    <2>2. i \notin m + 1 .. n
        BY <1>0, <2>1, Zenon DEF ReportAt
    <2>3. m \in i + 1 .. n
        BY <1>1, <2>2, Zenon
    <2>4. m # 0
        BY <2>3
    <2> QED
        BY <2>1, <2>3, <2>4, Zenon DEF ReportAt
<1>4. m # 0 => m \in LastReport
    BY <1>0, <1>2, Zenon DEF LastReport, ReportAt
<1>5. \A i \in LastReport : i \in 1 .. n
    BY <1>0, Zenon DEF LastReport
<1>6. 0 \notin 1 .. n
    OBVIOUS
<1>7. CASE m = 0
    BY <1>3, <1>5, <1>6, <1>7
<1>8. CASE m # 0
    BY <1>3, <1>4, <1>5, <1>8
<1> QED
    BY <1>7, <1>8

LEMMA LastOfNewest ==
    ASSUME handled \in Seq(Events), NEW m \in 1 .. Len(handled), ReportAt(handled, m),
           NEW kind, kind # "syn", NEW code
    PROVE  \A ev : ev \in LastOf(kind, code) <=>
                       \E i \in 1 .. m : Newest(handled, m, kind, code, i) /\ ev = handled[i]
PROOF
<1>0. PICK n \in Nat : n = Len(handled) /\ DOMAIN handled = 1 .. n
    OBVIOUS
<1>1. m \in 0 .. n /\ m # 0 /\ \A i \in 1 .. m : i \in 1 .. n /\ (i # m => i < m)
    BY <1>0
<1>2. LastReport = {m}
    BY <1>0, <1>1, LastReportAt
<1>3. handled[m].kind # kind
    BY <1>1 DEF ReportAt
<1>4. \A i \in 1 .. n : i < m => i \in 1 .. m
    OBVIOUS
<1>5. ASSUME NEW i \in 1 .. m, Newest(handled, m, kind, code, i) PROVE handled[i] \in LastOf(kind, code)
    <2>1. i # m
        BY <1>3, <1>5, Zenon DEF Newest, Is
    <2>2. i \in DOMAIN handled /\ i < m /\ m \in LastReport
        BY <1>0, <1>1, <1>2, <2>1
    <2> QED
        BY <1>5, <2>2, Zenon DEF LastOf, Newest, Is
<1>6. ASSUME NEW ev \in LastOf(kind, code)
      PROVE  \E i \in 1 .. m : Newest(handled, m, kind, code, i) /\ ev = handled[i]
    <2>1. PICK i \in DOMAIN handled :
              /\ ev = handled[i] /\ handled[i].kind = kind /\ handled[i].code = code
              /\ \E r \in LastReport : i < r
                    /\ \A j \in i + 1 .. r : ~(handled[j].kind = kind /\ handled[j].code = code)
        BY Zenon DEF LastOf
    <2>2. i < m /\ \A j \in i + 1 .. m : ~(handled[j].kind = kind /\ handled[j].code = code)
        BY <1>2, <2>1, Zenon
    <2>3. i \in 1 .. m
        BY <1>0, <1>4, <2>2
    <2> QED
        BY <2>1, <2>2, <2>3, Zenon DEF Newest, Is
<1> QED
    BY <1>5, <1>6, Zenon

LEMMA AxisFollows ==
    ASSUME handled \in Seq(Events), NEW m \in 1 .. Len(handled), ReportAt(handled, m),
           NEW code, NEW k, NEW have, NEW abs, NEW out,
           AxisInv(handled, m, code, tab.range, have, abs, out, ScreenMax[k])
    PROVE  out \in Axis(code, k)
PROOF
<1>1. \A ev : ev \in LastOf("abs", code) <=>
                  \E i \in 1 .. m : Newest(handled, m, "abs", code, i) /\ ev = handled[i]
    BY LastOfNewest
<1>2. CASE \E i \in 1 .. m : Newest(handled, m, "abs", code, i)
    <2>1. PICK i \in 1 .. m : Newest(handled, m, "abs", code, i)
        BY <1>2
    <2>2. handled[i] \in LastOf("abs", code)
        BY <1>1, <2>1, Zenon
    <2>3. out = ScaleAbs(handled[i].v, tab.range, ScreenMax[k])
        BY <2>1, Zenon DEF AxisInv
    <2> QED
        BY <2>2, <2>3 DEF Axis
<1>3. CASE \A i \in 1 .. m : ~Newest(handled, m, "abs", code, i)
    <2>1. LastOf("abs", code) = {}
        BY <1>1, <1>3
    <2>2. out = (ScreenMax[k] + 1) \div 2
        BY <1>3, Zenon DEF AxisInv
    <2> QED
        BY <2>1, <2>2 DEF Axis
<1> QED
    BY <1>2, <1>3

\* While the virtio tablet is the backend, the pointer stands where the last complete report
\* of its driver put it: each axis where the newest coordinate before that report says, or
\* in the middle of the screen, and the buttons as last reported.  No other driver moves it,
\* and it does not move between reports (handle_event, inject_mouse, mouse_init), up to the
\* first overlap of two polls.
THEOREM PointerFollowsReports == Spec => []PointerFollows
PROOF
<1>1. TabletInv /\ PtrInv => PointerFollows
    <2> SUFFICES ASSUME TabletInv, PtrInv, tab.active, LastReport # {}
                 PROVE  /\ mouse.x \in Axis("x", 1) /\ mouse.y \in Axis("y", 2)
                        /\ \A b \in Buttons : b \in mouse.btn <=> \E ev \in LastOf("key", b) : ev.v # 0
        BY DEF PointerFollows, Buttons
    <2>1. handled \in Seq(Events)
        BY DEF TabletInv
    <2>2. PICK m \in 0 .. Len(handled) : FollowAt(handled, m, tab, mouse)
        BY Zenon DEF PtrInv, FollowsNow
    <2>3. ReportAt(handled, m)
        BY <2>2, Zenon DEF FollowAt
    <2>4. m # 0 /\ m \in 1 .. Len(handled)
        <3>1. m # 0
            BY <2>1, <2>3, LastReportAt
        <3> QED
            BY <2>1, <3>1
    <2>5. mouse.x \in Axis("x", 1)
        <3>1. AxisInv(handled, m, "x", tab.range, tab.haveX, tab.absX, tab.outX, ScreenMax[1])
            BY <2>2, Zenon DEF FollowAt
        <3>2. tab.outX \in Axis("x", 1)
            BY <2>1, <2>3, <2>4, <3>1, AxisFollows, Zenon
        <3> QED
            BY <2>2, <2>4, <3>2, Zenon DEF FollowAt
    <2>6. mouse.y \in Axis("y", 2)
        <3>1. AxisInv(handled, m, "y", tab.range, tab.haveY, tab.absY, tab.outY, ScreenMax[2])
            BY <2>2, Zenon DEF FollowAt
        <3>2. tab.outY \in Axis("y", 2)
            BY <2>1, <2>3, <2>4, <3>1, AxisFollows
        <3> QED
            BY <2>2, <2>4, <3>2, Zenon DEF FollowAt
    <2>7. ASSUME NEW b \in Buttons PROVE b \in mouse.btn <=> \E ev \in LastOf("key", b) : ev.v # 0
        <3>1. BtnInv(handled, m, b, mouse.btn)
            BY <2>2, <2>4, Zenon DEF FollowAt
        <3>2. \A ev : ev \in LastOf("key", b) <=>
                          \E i \in 1 .. m : Newest(handled, m, "key", b, i) /\ ev = handled[i]
            BY <2>1, <2>3, <2>4, LastOfNewest
        <3>3. (\E i \in 1 .. m : Newest(handled, m, "key", b, i) /\ handled[i].v # 0)
              => \E ev \in LastOf("key", b) : ev.v # 0
            BY <3>2
        <3>4. (\E ev \in LastOf("key", b) : ev.v # 0)
              => \E i \in 1 .. m : Newest(handled, m, "key", b, i) /\ handled[i].v # 0
            BY <3>2
        <3> QED
            BY <3>1, <3>3, <3>4, Zenon DEF BtnInv
    <2> QED
        BY <2>5, <2>6, <2>7
<1>2. Init => PtrInv
    <2> SUFFICES ASSUME Init PROVE PtrInv
        OBVIOUS
    <2>1. ~tab.active
        BY Zenon DEF Init, TabletInit, ShutDown
    <2>2. NoTransfer
        BY FreshTypes DEF Init, BusInit, NoTransfer
    <2> QED
        BY <2>1, <2>2, Zenon DEF PtrInv
<1>3. ASSUME PadInv, SoloInv, ~overlap => PtrInv, [Next]_vars PROVE ~overlap' => PtrInv'
    <2> SUFFICES ASSUME ~overlap' PROVE PtrInv'
        OBVIOUS
    <2>1. ~overlap /\ TabletInv'
        BY <1>3, TabletStep
    <2> QED
        BY <1>3, <2>1, PtrStep DEF SoloInv
<1>4. SoloInv /\ [Next]_vars => SoloInv'
    BY TabletStep DEF SoloInv
<1>5. SoloInv /\ (~overlap => PtrInv) => PointerFollows
    BY <1>1 DEF SoloInv, PointerFollows
<1> QED
    BY <1>2, <1>3, <1>4, <1>5, PadInit, PadStep, SoloInit, PTL DEF Spec
=============================================================================
