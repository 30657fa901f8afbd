------------------------ MODULE ParallelComposeProofs ------------------------
(***************************************************************************)
(* Safety of the compose barrier for any number of APs, any frame heights  *)
(* and any counter width, by an inductive invariant.                       *)
(***************************************************************************)
EXTENDS ParallelCompose, FiniteSetTheorems, TLAPS

-----------------------------------------------------------------------------
(* Quotients: the cuts of a frame into slices. *)

\* The quotient of naturals lies between its bounds.
LEMMA Quotient ==
    ASSUME NEW m \in Nat, NEW n \in Nat, n > 0
    PROVE  /\ m \div n \in Nat
           /\ n * (m \div n) <= m
           /\ m < n * (m \div n) + n
OBVIOUS

\* A multiple below another one has a smaller factor.
LEMMA SmallerFactor ==
    ASSUME NEW n \in Nat, NEW q \in Int, NEW r \in Int, n * q < n * r
    PROVE  q < r
PROOF
<1>1. ASSUME r <= q PROVE FALSE
    <2>1. PICK d \in Nat : q = r + d
        BY <1>1
    <2>2. n * q = n * r + n * d /\ n * d \in Nat /\ n * r \in Int
        BY <2>1
    <2> QED
        BY <2>2
<1> QED
    BY <1>1

\* Adding at least the divisor moves the quotient on by at least one.
LEMMA QuotientGrows ==
    ASSUME NEW x \in Nat, NEW y \in Nat, NEW n \in Nat, n > 0, x + n <= y
    PROVE  x \div n < y \div n
PROOF
<1>1. PICK q \in Nat : q = x \div n
    BY Quotient
<1>2. PICK r \in Nat : r = y \div n
    BY Quotient
<1>3. n * q <= x /\ y < n * r + n /\ n * q \in Nat /\ n * r \in Nat
    BY <1>1, <1>2, Quotient
<1>4. n * q < n * r
    BY <1>3
<1> QED
    BY <1>1, <1>2, <1>4, SmallerFactor

-----------------------------------------------------------------------------
(* The inductive invariant. *)

\* Where AP a stands with respect to the current epoch.
Done(a) == apPc[a] = "spin" /\ seen[a] = epoch
Waiting(a) == apPc[a] \in {"spin", "load"} /\ seen[a] # epoch
Busy(a) == apPc[a] \in {"claim", "check", "compose", "post"} /\ seen[a] = epoch

\* The CPU has claimed band b and has not composed it yet.
ApHolds(a, b) == apPc[a] \in {"check", "compose"} /\ tile[a] = b
BspHolds(b) == pc \in {"check", "steal"} /\ bspTile = b

\* The barrier flag is up from before the publication to the return, and the
\* thread that put it up keeps the CPU.
FlagInv ==
    /\ pc \in {"publish", "own", "claim", "check", "steal", "wait", "leave"} => active
    /\ active => running

\* Boot order: no AP runs before smp_init(), and a frame started after it
\* waits for all of them (except under VirtualBox).
BootInv ==
    /\ settled => booted
    /\ pc = "smp" => ~booted
    /\ (~booted /\ pc # "smp") => /\ online = 0
                                  /\ \A a \in AP : apPc[a] = "parked"
    /\ (booted /\ pc # "idle") => settled
    /\ booted => online >= Cardinality(AP) + 1
    /\ pc \notin {"idle", "smp"} => IF VirtualBox \/ ~settled
                                    THEN nAps = 0
                                    ELSE nAps >= Cardinality(AP)

\* A frame planned for one CPU has no band that an AP could claim.
NarrowInv ==
    (VirtualBox \/ ~settled) =>
        /\ bandCount <= 1
        /\ \/ nextTile >= 1
           \/ /\ epoch = 0 /\ pc \in {"idle", "smp", "tile"}
              /\ \A a \in AP : apPc[a] \in {"parked", "kicked", "spin"} /\ seen[a] = 0
        /\ \A a \in AP : /\ apPc[a] # "compose"
                         /\ apPc[a] = "check" => tile[a] >= 1

\* done_count counts the APs that have finished the current epoch.
BarrierInv ==
    (settled /\ ~VirtualBox) =>
        /\ pc \in {"idle", "tile", "done", "flag", "publish", "leave"} => AllSettled
        /\ pc \in {"flag", "publish"} => doneCount = 0
        /\ \A a \in AP : Done(a) \/ Waiting(a) \/ Busy(a)
        /\ InFrame => doneCount = Cardinality({a \in AP : Done(a)})

\* Every band is unclaimed, held by one CPU, or composed once.
TileInv ==
    /\ pc \in {"tile", "done", "flag", "publish"} =>
           \A b \in BandIds : composed[b] = 0
    /\ pc \in {"done", "flag", "publish"} => nextTile >= 1
    /\ (pc \in {"done", "flag", "publish"} /\ ~VirtualBox) => nextTile = 1
    /\ InFrame =>
        /\ nextTile >= 1
        /\ bandCount > 0 => composed[0] = IF pc = "own" THEN 0 ELSE 1
        /\ pc \in {"check", "steal"} => bspTile >= 1 /\ bspTile < nextTile
        /\ pc \in {"wait", "leave"} => nextTile >= bandCount
        /\ \A a \in AP : apPc[a] \in {"check", "compose"} => tile[a] >= 1
        /\ \A b \in BandIds : (b >= 1 /\ b < bandCount) =>
            /\ b >= nextTile => composed[b] = 0
            /\ b < nextTile => \/ composed[b] = 1
                               \/ BspHolds(b)
                               \/ \E a \in AP : ApHolds(a, b)
            /\ BspHolds(b) => composed[b] = 0
            /\ \A a \in AP : ApHolds(a, b) =>
                /\ b < nextTile /\ composed[b] = 0 /\ ~BspHolds(b)
                /\ \A c \in AP : ApHolds(c, b) => c = a

IInv == TypeOK /\ FlagInv /\ BootInv /\ NarrowInv /\ BarrierInv /\ TileInv

-----------------------------------------------------------------------------
(* Arithmetic. *)

\* The number of APs is a number.
LEMMA APCount == Cardinality(AP) \in Nat
  BY APAssumption, FS_CardinalityType

\* A counter taken modulo W32 is a uint32_t.
LEMMA ModRange == ASSUME NEW n \in Nat PROVE n % W32 \in 0 .. W32 - 1
  BY SizeAssumption

\* Bumping the epoch changes it, wrap-around included.
LEMMA EpochMoves == ASSUME NEW e \in 0 .. W32 - 1 PROVE (e + 1) % W32 # e
  BY SizeAssumption

-----------------------------------------------------------------------------
(* Each conjunct is preserved.  In every proof the actions that touch what  *)
(* the conjunct is about have a step of their own.                          *)

\* Every step keeps the types (ap_tiles_total and the band claimed by an AP
\* are the two that need an argument).
LEMMA TypeStep ==
    ASSUME TypeOK, [Next]_vars
    PROVE  TypeOK'
<1> USE SizeAssumption DEF TypeOK, BspPlaces, ApPlaces, BandIds,
        ctxVars, bspVars, bootVars, apVars, statVars
<1>1. ASSUME NEW h \in Heights, StartFrame(h) PROVE TypeOK'
  <2>1. nAps' \in Nat /\ bandCount' \in 0 .. MaxBands /\ bandsTotal' \in 0 .. W32 - 1
    BY <1>1 DEF StartFrame, BandsFor, Cpus, Lesser, Greater
  <2>2. height' \in Nat /\ bootLeft' \in Nat /\ settled' \in BOOLEAN
    BY <1>1 DEF StartFrame
  <2>3. composed' = [b \in 0 .. MaxBands - 1 |-> 0] /\ pc' = "tile"
    BY <1>1, Zenon DEF StartFrame
  <2>4. composed' \in [0 .. MaxBands - 1 -> Nat]
    BY ONLY <2>3, SMT
  <2>5. UNCHANGED <<epoch, nextTile, doneCount, active, bspTile, bspTiles,
                    bspTotal, apTotal, online, booted, running, apVars>>
    BY <1>1, Zenon DEF StartFrame
  <2> QED
    BY <2>1, <2>2, <2>3, <2>4, <2>5, Zenon
<1>2. CASE ResetTile
  BY <1>2 DEF ResetTile, FirstTile
<1>3. CASE ResetDone
  BY <1>3 DEF ResetDone
<1>4. CASE RaiseFlag
  BY <1>4 DEF RaiseFlag
<1>5. CASE Publish
  BY <1>5 DEF Publish
<1>6. CASE ComposeOwn
  BY <1>6 DEF ComposeOwn, ComposeBand, OwnTiles
<1>7. CASE BspClaim
  BY <1>7 DEF BspClaim
<1>8. CASE BspCheck
  BY <1>8 DEF BspCheck
<1>9. CASE BspSteal
  BY <1>9 DEF BspSteal, ComposeBand
<1>10. CASE BspWait
  BY <1>10 DEF BspWait
<1>11. CASE Leave
  BY <1>11, Zenon DEF Leave
<1>12. CASE KickAPs
  BY <1>12 DEF KickAPs
<1>13. CASE SmpReady
  BY <1>13 DEF SmpReady
<1>14. CASE Preempt
  BY <1>14, Zenon DEF Preempt
<1>15. CASE Resume
  BY <1>15 DEF Resume
<1>16. ASSUME NEW a \in AP, ApOnline(a) PROVE TypeOK'
  BY <1>16 DEF ApOnline
<1>17. ASSUME NEW a \in AP, ApNotice(a) PROVE TypeOK'
  BY <1>17 DEF ApNotice
<1>18. ASSUME NEW a \in AP, ApLoad(a) PROVE TypeOK'
  BY <1>18 DEF ApLoad
<1>19. ASSUME NEW a \in AP, ApClaim(a) PROVE TypeOK'
  BY <1>19 DEF ApClaim
<1>20. ASSUME NEW a \in AP, ApPost(a) PROVE TypeOK'
  BY <1>20 DEF ApPost
<1>21. ASSUME NEW a \in AP, ApCheck(a) PROVE TypeOK'
  <2>1. apTotal + myTiles[a] \in Nat
    OBVIOUS
  <2>2. (apTotal + myTiles[a]) % W32 \in 0 .. W32 - 1
    BY <2>1, ModRange, Zenon
  <2>3. /\ apTotal' \in {apTotal, (apTotal + myTiles[a]) % W32}
        /\ myTiles' \in {myTiles, [myTiles EXCEPT ![a] = 0]}
        /\ \E place \in {"post", "compose"} : apPc' = [apPc EXCEPT ![a] = place]
    BY <1>21, Zenon DEF ApCheck
  <2>4. apTotal' \in 0 .. W32 - 1
    BY <2>2, <2>3
  <2>5. apPc' \in [AP -> ApPlaces]
    BY <2>3
  <2>7. myTiles' \in [AP -> Nat]
    <3>1. [myTiles EXCEPT ![a] = 0] \in [AP -> Nat]
      OBVIOUS
    <3> QED
      BY <2>3, <3>1
  <2>6. UNCHANGED <<ctxVars, bspVars, bootVars, seen, tile, bspTotal, bandsTotal,
                    pc, running, composed>>
    BY <1>21 DEF ApCheck
  <2> QED
    BY <2>4, <2>5, <2>6, <2>7
<1>22. ASSUME NEW a \in AP, ApCompose(a) PROVE TypeOK'
  <2>1. composed' \in [BandIds -> Nat]
    BY <1>22 DEF ApCompose, ComposeBand
  <2>2. myTiles' \in [AP -> Nat] /\ apPc' \in [AP -> ApPlaces]
    BY <1>22 DEF ApCompose
  <2> QED
    BY <1>22, <2>1, <2>2 DEF ApCompose
<1>23. CASE UNCHANGED vars
  BY <1>23 DEF vars
<1> QED
  BY <1>1, <1>2, <1>3, <1>4, <1>5, <1>6, <1>7, <1>8, <1>9, <1>10, <1>11, <1>12, ZenonT(30),
     <1>13, <1>14, <1>15, <1>16, <1>17, <1>18, <1>19, <1>20, <1>21, <1>22, <1>23, Zenon
     DEF Next, BspStep, ApStep

\* Every step keeps the flag up while it must be; Preempt is the action that
\* could break it, and is disabled by the flag.
LEMMA FlagStep ==
    ASSUME TypeOK, FlagInv, [Next]_vars
    PROVE  FlagInv'
<1> USE DEF FlagInv, ctxVars, bspVars, bootVars, apVars, statVars
<1>1. ASSUME NEW h \in Heights, StartFrame(h) PROVE FlagInv'
  BY <1>1 DEF StartFrame
<1>2. CASE ResetTile \/ ResetDone \/ RaiseFlag \/ Publish
  BY <1>2 DEF ResetTile, ResetDone, RaiseFlag, Publish
<1>3. CASE ComposeOwn \/ BspClaim \/ BspCheck \/ BspSteal \/ BspWait \/ Leave
  BY <1>3 DEF ComposeOwn, BspClaim, BspCheck, BspSteal, BspWait, Leave
<1>4. CASE KickAPs \/ SmpReady
  BY <1>4 DEF KickAPs, SmpReady
<1>5. CASE Preempt \/ Resume
  BY <1>5 DEF Preempt, Resume, TimerYields
<1>6. ASSUME NEW a \in AP, ApStep(a) PROVE FlagInv'
  BY <1>6 DEF ApStep, ApOnline, ApNotice, ApLoad, ApClaim, ApCheck, ApCompose, ApPost
<1>7. CASE UNCHANGED vars
  BY <1>7 DEF vars
<1> QED
  BY <1>1, <1>2, <1>3, <1>4, <1>5, <1>6, <1>7 DEF Next, BspStep

\* Every step keeps the boot order; StartFrame fixes the number of APs the
\* frame waits for, ApOnline and SmpReady the number it relies on.
LEMMA BootStep ==
    ASSUME TypeOK, BootInv, [Next]_vars
    PROVE  BootInv'
<1> USE APCount DEF TypeOK, BootInv, ctxVars, bspVars, bootVars, apVars, statVars
<1>1. ASSUME NEW h \in Heights, StartFrame(h) PROVE BootInv'
  BY <1>1 DEF StartFrame, Cpus, Greater
<1>2. CASE ResetTile \/ ResetDone \/ RaiseFlag \/ Publish \/ Leave
  BY <1>2 DEF ResetTile, ResetDone, RaiseFlag, Publish, Leave
<1>3. CASE ComposeOwn \/ BspClaim \/ BspCheck \/ BspSteal \/ BspWait
  BY <1>3 DEF ComposeOwn, BspClaim, BspCheck, BspSteal, BspWait
<1>4. CASE KickAPs
  BY <1>4 DEF KickAPs
<1>5. CASE SmpReady
  BY <1>5 DEF SmpReady
<1>6. CASE Preempt \/ Resume
  BY <1>6 DEF Preempt, Resume
<1>7. ASSUME NEW a \in AP, ApOnline(a) PROVE BootInv'
  BY <1>7 DEF ApOnline
<1>8. ASSUME NEW a \in AP, ApNotice(a) \/ ApLoad(a) \/ ApClaim(a) \/ ApCheck(a)
                           \/ ApCompose(a) \/ ApPost(a)
      PROVE  BootInv'
  BY <1>8 DEF ApNotice, ApLoad, ApClaim, ApCheck, ApCompose, ApPost
<1>9. CASE UNCHANGED vars
  BY <1>9 DEF vars
<1> QED
  BY <1>1, <1>2, <1>3, <1>4, <1>5, <1>6, <1>7, <1>8, <1>9 DEF Next, BspStep, ApStep

\* Every step keeps single-CPU frames out of the APs' reach; ApClaim hands out
\* tile numbers from 1 on, StartFrame plans one band.
LEMMA NarrowStep ==
    ASSUME TypeOK, BootInv, NarrowInv, [Next]_vars
    PROVE  NarrowInv'
<1> USE SizeAssumption, FlagAssumption DEF TypeOK, BootInv, NarrowInv,
        ctxVars, bspVars, bootVars, apVars, statVars
<1>1. ASSUME NEW h \in Heights, StartFrame(h) PROVE NarrowInv'
  BY <1>1 DEF StartFrame, BandsFor, Cpus, Lesser, Greater
<1>2. CASE ResetTile \/ ResetDone \/ RaiseFlag \/ Publish
  BY <1>2 DEF ResetTile, FirstTile, ResetDone, RaiseFlag, Publish
<1>3. CASE ComposeOwn \/ BspClaim \/ BspCheck \/ BspSteal \/ BspWait \/ Leave
  BY <1>3 DEF ComposeOwn, BspClaim, BspCheck, BspSteal, BspWait, Leave
<1>4. CASE KickAPs \/ SmpReady \/ Preempt \/ Resume
  BY <1>4 DEF KickAPs, SmpReady, Preempt, Resume
<1>5. ASSUME NEW a \in AP, ApOnline(a) \/ ApNotice(a) \/ ApLoad(a) \/ ApPost(a)
      PROVE  NarrowInv'
  BY <1>5 DEF ApOnline, ApNotice, ApLoad, ApPost
<1>6. ASSUME NEW a \in AP, ApClaim(a) PROVE NarrowInv'
  BY <1>6 DEF ApClaim
<1>7. ASSUME NEW a \in AP, ApCheck(a) PROVE NarrowInv'
  BY <1>7 DEF ApCheck
<1>8. ASSUME NEW a \in AP, ApCompose(a) PROVE NarrowInv'
  BY <1>8 DEF ApCompose
<1>9. CASE UNCHANGED vars
  BY <1>9 DEF vars
<1> QED
  BY <1>1, <1>2, <1>3, <1>4, <1>5, <1>6, <1>7, <1>8, <1>9 DEF Next, BspStep, ApStep

\* Every step keeps done_count equal to the number of APs done with the epoch.
\* Publish makes the set empty, ApPost adds the AP that posts, and BspWait ends
\* only when the set is all of AP.
LEMMA BarrierStep ==
    ASSUME TypeOK, BootInv, BarrierInv, SettleFirst \/ VirtualBox, [Next]_vars
    PROVE  BarrierInv'
<1> USE FlagAssumption, APCount DEF TypeOK, BootInv, BarrierInv, AllSettled,
        InFrame, Done, Waiting, Busy, ctxVars, bspVars, bootVars, apVars, statVars
<1>1. ASSUME NEW h \in Heights, StartFrame(h) PROVE BarrierInv'
  BY <1>1 DEF StartFrame
<1>2. CASE ResetTile \/ ResetDone \/ RaiseFlag \/ Leave
  BY <1>2, Zenon DEF ResetTile, ResetDone, RaiseFlag, Leave
<1>3. CASE Publish
  <2> SUFFICES ASSUME settled, ~VirtualBox PROVE BarrierInv'
    BY <1>3 DEF Publish
  <2>1. epoch' # epoch
    BY <1>3, EpochMoves DEF Publish
  <2>2. \A a \in AP : Waiting(a)' /\ ~Done(a)'
    BY <1>3, <2>1 DEF Publish
  <2>3. {a \in AP : Done(a)}' = {}
    BY <2>2
  <2>4. doneCount' = Cardinality({a \in AP : Done(a)}')
    BY <1>3, <2>3, FS_EmptySet DEF Publish
  <2> QED
    BY <1>3, <2>2, <2>4 DEF Publish
<1>4. CASE ComposeOwn \/ BspClaim \/ BspCheck \/ BspSteal
  BY <1>4, Zenon DEF ComposeOwn, BspClaim, BspCheck, BspSteal
<1>5. CASE BspWait
  <2> SUFFICES ASSUME settled, ~VirtualBox PROVE BarrierInv'
    BY <1>5 DEF BspWait
  <2> DEFINE D == {a \in AP : Done(a)}
  <2>1. /\ D \in SUBSET AP
        /\ Cardinality(D) >= Cardinality(AP)
    BY <1>5 DEF BspWait, AllPosted
  <2>2. D = AP
    <3> HIDE DEF D
    <3>1. /\ Cardinality(D) <= Cardinality(AP)
          /\ Cardinality(AP) = Cardinality(D) => AP = D
      BY <2>1, APAssumption, FS_Subset
    <3>2. Cardinality(D) \in Nat
      BY <2>1, APAssumption, FS_Subset, FS_CardinalityType
    <3> QED
      BY <2>1, <3>1, <3>2
  <2>3. AllSettled
    BY <2>2
  <2> QED
    BY <1>5, <2>3 DEF BspWait
<1>6. CASE KickAPs \/ SmpReady \/ Preempt \/ Resume
  BY <1>6, Zenon DEF KickAPs, SmpReady, Preempt, Resume
<1>7. ASSUME NEW a \in AP, ApOnline(a) \/ ApNotice(a) PROVE BarrierInv'
  <2>1. CASE ApOnline(a)
    BY <2>1, Zenon DEF ApOnline
  <2>2. CASE ApNotice(a)
    BY <2>2, Zenon DEF ApNotice
  <2> QED
    BY <1>7, <2>1, <2>2, Zenon
<1>8. ASSUME NEW a \in AP, ApLoad(a) PROVE BarrierInv'
  BY <1>8, Zenon DEF ApLoad
<1>9. ASSUME NEW a \in AP, ApClaim(a) \/ ApCheck(a) \/ ApCompose(a) PROVE BarrierInv'
  <2>1. CASE ApClaim(a)
    BY <2>1, Zenon DEF ApClaim
  <2>2. CASE ApCheck(a)
    BY <2>2, Zenon DEF ApCheck
  <2>3. CASE ApCompose(a)
    BY <2>3, Zenon DEF ApCompose
  <2> QED
    BY <1>9, <2>1, <2>2, <2>3, Zenon
<1>10. ASSUME NEW a \in AP, ApPost(a) PROVE BarrierInv'
  <2> SUFFICES ASSUME settled, ~VirtualBox PROVE BarrierInv'
    BY <1>10 DEF ApPost
  <2> DEFINE D == {c \in AP : Done(c)}
  <2>1. Busy(a) /\ ~Done(a) /\ Done(a)'
    BY <1>10 DEF ApPost
  <2>2. \A c \in AP \ {a} : (Done(c)' <=> Done(c)) /\ (Waiting(c)' <=> Waiting(c))
                            /\ (Busy(c)' <=> Busy(c))
    BY <1>10 DEF ApPost
  <2>3. D' = D \cup {a} /\ a \notin D
    BY <2>1, <2>2
  <2>4. Cardinality(D \cup {a}) = Cardinality(D) + 1
    <3>1. IsFiniteSet(D)
      BY APAssumption, FS_Subset
    <3> HIDE DEF D
    <3> QED
      BY <2>3, <3>1, FS_AddElement, Zenon
  <2>5. InFrame /\ pc # "leave"
    BY <2>1 DEF BspPlaces
  <2>6. doneCount' = Cardinality({c \in AP : Done(c)}')
    BY <1>10, <2>3, <2>4, <2>5, Zenon DEF ApPost
  <2>7. \A c \in AP : (Done(c) \/ Waiting(c) \/ Busy(c))'
    BY <2>1, <2>2
  <2> QED
    BY <1>10, <2>5, <2>6, <2>7 DEF ApPost
<1>11. CASE UNCHANGED vars
  BY <1>11 DEF vars
<1> QED
  BY <1>1, <1>2, <1>3, <1>4, <1>5, <1>6, <1>7, <1>8, <1>9, <1>10, <1>11, ZenonT(30)
     DEF Next, BspStep, ApStep

\* The steps of an AP that claim or compose nothing change no holder.
LEMMA HoldersKept ==
    ASSUME TypeOK, NEW a \in AP, NEW b \in BandIds, NEW c \in AP,
           \/ ApOnline(a) \/ ApNotice(a) \/ ApLoad(a) \/ ApPost(a)
           \/ ApCheck(a) /\ b < bandCount
    PROVE  ApHolds(c, b)' <=> ApHolds(c, b)
<1> USE DEF TypeOK, ApHolds, BandIds
<1>1. CASE ApOnline(a) \/ ApNotice(a) \/ ApLoad(a)
  BY <1>1 DEF ApOnline, ApNotice, ApLoad
<1>2. CASE ApPost(a)
  BY <1>2 DEF ApPost
<1>3. CASE ApCheck(a) /\ b < bandCount
  BY <1>3 DEF ApCheck
<1> QED
  BY <1>1, <1>2, <1>3

\* Every step of an AP keeps each band unclaimed, held by one CPU or composed
\* once: a claim takes the next number, composing ends the claim.
LEMMA TileApStep ==
    ASSUME TypeOK, BootInv, NarrowInv, BarrierInv, TileInv, NEW a \in AP, ApStep(a)
    PROVE  TileInv'
<1> USE SizeAssumption, FlagAssumption
<1>1. CASE ApOnline(a) \/ ApNotice(a) \/ ApLoad(a) \/ ApPost(a) \/ ApCheck(a)
  <2>1. \A b \in BandIds : b < bandCount =>
            \A c \in AP : ApHolds(c, b)' <=> ApHolds(c, b)
    BY <1>1, HoldersKept
  <2>2. UNCHANGED <<pc, bandCount, nextTile, bspTile, composed>>
    BY <1>1 DEF ApOnline, ApNotice, ApLoad, ApPost, ApCheck, ctxVars, bspVars
  <2>3. \A c \in AP : apPc'[c] \in {"check", "compose"} =>
            apPc[c] \in {"check", "compose"} /\ tile'[c] = tile[c]
    <3>1. tile' = tile /\ \E place \in {"spin", "load", "claim", "post"} :
              \/ apPc' = [apPc EXCEPT ![a] = place]
              \/ apPc[a] = "check" /\ apPc' = [apPc EXCEPT ![a] = "compose"]
      BY <1>1, Zenon DEF ApOnline, ApNotice, ApLoad, ApPost, ApCheck
    <3> QED
      BY <3>1 DEF TypeOK
  <2> QED
    BY <2>1, <2>2, <2>3, Zenon DEF TypeOK, TileInv, InFrame, BspHolds, BandIds
<1>2. CASE ApClaim(a)
  <2>1. /\ nextTile' = nextTile + 1 /\ apPc[a] = "claim"
        /\ UNCHANGED <<pc, bandCount, bspTile, composed>>
    BY <1>2 DEF ApClaim, bspVars
  <2>2. \A c \in AP : apPc'[c] \in {"check", "compose"} =>
            \/ tile'[c] = nextTile
            \/ apPc[c] \in {"check", "compose"} /\ tile'[c] = tile[c]
    BY <1>2 DEF ApClaim, TypeOK
  <2>3. CASE VirtualBox \/ ~settled
    <3>1. \A b \in BandIds : ~(b >= 1 /\ b < bandCount)
      BY <2>3 DEF NarrowInv, TypeOK, BandIds
    <3>2. pc \in {"done", "flag", "publish"} => VirtualBox
      BY <2>1, <2>3 DEF BootInv
    <3> QED
      BY <2>1, <2>2, <3>1, <3>2 DEF TypeOK, TileInv, InFrame
  <2>4. CASE ~VirtualBox /\ settled
    <3>1. pc \notin {"idle", "tile", "done", "flag", "publish", "leave"}
      BY <2>1, <2>4, Zenon DEF BarrierInv, AllSettled
    <3>2. \A b \in BandIds : \A c \in AP :
              ApHolds(c, b)' <=> IF c = a THEN b = nextTile ELSE ApHolds(c, b)
      BY <1>2 DEF ApClaim, ApHolds, TypeOK
    <3>3. \A b \in BandIds : ~ApHolds(a, b)
      BY <2>1 DEF ApHolds
    <3>4. InFrame => \A b \in BandIds : (b >= 1 /\ b < bandCount) =>
              \A c \in AP : ApHolds(c, b)' =>
                  /\ b < nextTile' /\ composed'[b] = 0 /\ ~BspHolds(b)'
                  /\ \A d \in AP : ApHolds(d, b)' => d = c
      BY <2>1, <3>2, <3>3 DEF TypeOK, TileInv, InFrame, BspHolds, BandIds
    <3>5. InFrame => \A b \in BandIds : (b >= 1 /\ b < bandCount) =>
              /\ b >= nextTile' => composed'[b] = 0
              /\ b < nextTile' => \/ composed'[b] = 1
                                  \/ BspHolds(b)'
                                  \/ \E c \in AP : ApHolds(c, b)'
              /\ BspHolds(b)' => composed'[b] = 0
      BY <2>1, <3>2, <3>3 DEF TypeOK, TileInv, InFrame, BspHolds, BandIds
    <3>6. InFrame => /\ nextTile' >= 1
                     /\ pc \in {"check", "steal"} => bspTile >= 1 /\ bspTile < nextTile'
                     /\ pc \in {"wait", "leave"} => nextTile' >= bandCount
                     /\ \A c \in AP : apPc'[c] \in {"check", "compose"} => tile'[c] >= 1
      BY <2>1, <2>2 DEF TypeOK, TileInv
    <3> QED
      BY <2>1, <3>1, <3>4, <3>5, <3>6, Zenon DEF TileInv, InFrame
  <2> QED
    BY <2>3, <2>4
<1>3. CASE ApCompose(a)
  <2>1. /\ apPc[a] = "compose" /\ ~VirtualBox /\ settled
        /\ UNCHANGED <<pc, bandCount, nextTile, bspTile>>
    BY <1>3 DEF ApCompose, NarrowInv, ctxVars, bspVars
  <2>2. InFrame /\ pc # "leave"
    BY <2>1 DEF BarrierInv, BootInv, AllSettled, InFrame, TypeOK, BspPlaces
  <2>3. /\ \A b \in BandIds : \A c \in AP : ApHolds(c, b)' <=> c # a /\ ApHolds(c, b)
        /\ \A b \in BandIds : ApHolds(a, b) <=> b = tile[a]
        /\ \A c \in AP : apPc'[c] \in {"check", "compose"} =>
               apPc[c] \in {"check", "compose"} /\ tile'[c] = tile[c]
    BY <1>3 DEF ApCompose, ApHolds, TypeOK
  <2>4. \A b \in BandIds : composed'[b] =
            IF b = tile[a] /\ b < bandCount THEN composed[b] + 1 ELSE composed[b]
    BY <1>3 DEF ApCompose, ComposeBand, TypeOK, BandIds
  <2>5. tile[a] \in Nat /\ tile[a] >= 1
    BY <2>1, <2>2 DEF TypeOK, TileInv
  <2>6. \A b \in BandIds : (b >= 1 /\ b < bandCount) =>
            /\ b >= nextTile => composed'[b] = 0
            /\ b < nextTile => \/ composed'[b] = 1
                               \/ BspHolds(b)
                               \/ \E c \in AP : ApHolds(c, b)'
            /\ BspHolds(b) => composed'[b] = 0
            /\ \A c \in AP : ApHolds(c, b)' =>
                /\ b < nextTile /\ composed'[b] = 0 /\ ~BspHolds(b)
                /\ \A d \in AP : ApHolds(d, b)' => d = c
    <3> SUFFICES ASSUME NEW b \in BandIds, b >= 1, b < bandCount
                 PROVE  /\ b >= nextTile => composed'[b] = 0
                        /\ b < nextTile => \/ composed'[b] = 1
                                           \/ BspHolds(b)
                                           \/ \E c \in AP : ApHolds(c, b)'
                        /\ BspHolds(b) => composed'[b] = 0
                        /\ \A c \in AP : ApHolds(c, b)' =>
                            /\ b < nextTile /\ composed'[b] = 0 /\ ~BspHolds(b)
                            /\ \A d \in AP : ApHolds(d, b)' => d = c
      OBVIOUS
    <3>1. /\ b >= nextTile => composed[b] = 0
          /\ b < nextTile => \/ composed[b] = 1
                             \/ BspHolds(b)
                             \/ \E c \in AP : ApHolds(c, b)
          /\ BspHolds(b) => composed[b] = 0
          /\ \A c \in AP : ApHolds(c, b) =>
              /\ b < nextTile /\ composed[b] = 0 /\ ~BspHolds(b)
              /\ \A d \in AP : ApHolds(d, b) => d = c
      BY <2>2 DEF TileInv
    <3>2. /\ ApHolds(a, b) <=> b = tile[a]
          /\ \A c \in AP : ApHolds(c, b)' <=> c # a /\ ApHolds(c, b)
      BY <2>3
    <3>3. CASE b = tile[a]
      <4>1. ApHolds(a, b) /\ composed[b] = 0 /\ ~BspHolds(b) /\ b < nextTile
        BY <3>1, <3>2, <3>3
      <4>2. \A c \in AP : ~ApHolds(c, b)'
        BY <3>1, <3>2, <4>1
      <4>3. composed'[b] = 1
        BY <2>4, <3>3, <4>1
      <4>4. ~(b >= nextTile)
        BY <4>1 DEF TypeOK, BandIds
      <4> QED
        BY <4>1, <4>2, <4>3, <4>4
    <3>4. CASE b # tile[a]
      <4>1. composed'[b] = composed[b]
        BY <2>4, <3>4
      <4>2. \A c \in AP : ApHolds(c, b)' <=> ApHolds(c, b)
        BY <3>2, <3>4
      <4> QED
        BY <3>1, <4>1, <4>2
    <3> QED
      BY <3>3, <3>4
  <2> QED
    BY <2>1, <2>2, <2>3, <2>4, <2>5, <2>6 DEF TypeOK, TileInv, InFrame, BspHolds, BandIds
<1> QED
  BY <1>1, <1>2, <1>3 DEF ApStep

\* Every step keeps each band unclaimed, held by one CPU or composed once.
LEMMA TileStep ==
    ASSUME TypeOK, BootInv, NarrowInv, BarrierInv, TileInv, [Next]_vars
    PROVE  TileInv'
<1> USE SizeAssumption, FlagAssumption DEF TypeOK, TileInv, InFrame, ApHolds,
        BspHolds, BandIds, ctxVars, bspVars, apVars
<1>1. ASSUME NEW h \in Heights, StartFrame(h) PROVE TileInv'
  BY <1>1 DEF StartFrame
<1>2. CASE ResetTile
  BY <1>2 DEF ResetTile, FirstTile
<1>3. CASE ResetDone \/ RaiseFlag
  BY <1>3 DEF ResetDone, RaiseFlag
<1>4. CASE Publish
  <2>1. \A a \in AP : apPc[a] \in {"check", "compose"} => tile[a] >= 1 /\ bandCount <= 1
    <3>1. CASE VirtualBox \/ ~settled
      BY <3>1 DEF NarrowInv
    <3>2. CASE ~VirtualBox /\ settled
      BY <1>4, <3>2 DEF Publish, BarrierInv, AllSettled
    <3> QED
      BY <3>1, <3>2
  <2>2. VirtualBox => bandCount <= 1
    BY DEF NarrowInv
  <2>3. pc = "publish" /\ pc' = "own"
        /\ UNCHANGED <<bandCount, nextTile, bspTile, composed, apPc, tile>>
    BY <1>4 DEF Publish
  <2> QED
    BY <2>1, <2>2, <2>3
<1>5. CASE ComposeOwn
  BY <1>5 DEF ComposeOwn, ComposeBand
<1>6. CASE BspClaim
  BY <1>6 DEF BspClaim
<1>7. CASE BspCheck
  BY <1>7 DEF BspCheck
<1>8. CASE BspSteal
  BY <1>8 DEF BspSteal, ComposeBand
<1>9. CASE BspWait
  BY <1>9 DEF BspWait
<1>10. CASE Leave
  BY <1>10 DEF Leave
<1>11. CASE KickAPs \/ SmpReady
  BY <1>11, Zenon DEF KickAPs, SmpReady
<1>12. CASE Preempt \/ Resume \/ UNCHANGED vars
  <2>1. UNCHANGED <<pc, bandCount, nextTile, bspTile, composed, apPc, tile>>
    BY <1>12 DEF Preempt, Resume, vars
  <2> QED
    BY <2>1
<1>13. ASSUME NEW a \in AP, ApStep(a) PROVE TileInv'
  BY <1>13, TileApStep, Zenon
<1> QED
  BY <1>1, <1>2, <1>3, <1>4, <1>5, <1>6, <1>7, <1>8, <1>9, <1>10, <1>11, <1>12, ZenonT(30),
     <1>13, Zenon DEF Next, BspStep

-----------------------------------------------------------------------------
(* The theorems. *)

\* The invariant holds when the kernel starts.
LEMMA InvInit == Init => IInv
<1> SUFFICES ASSUME Init PROVE IInv
  OBVIOUS
<1> USE SizeAssumption, FlagAssumption, BootAssumption DEF Init
<1>1. TypeOK
  <2>1. 0 \in 0 .. W32 - 1 /\ 0 \in 0 .. MaxBands
    OBVIOUS
  <2>2. /\ apPc \in [AP -> ApPlaces] /\ seen \in [AP -> 0 .. W32 - 1]
        /\ tile \in [AP -> Nat] /\ myTiles \in [AP -> Nat]
        /\ composed \in [BandIds -> Nat]
    BY <2>1 DEF ApPlaces
  <2> QED
    BY <2>1, <2>2, Zenon DEF TypeOK, BspPlaces
<1>2. FlagInv /\ BootInv /\ NarrowInv /\ BarrierInv /\ TileInv
  BY DEF FlagInv, BootInv, NarrowInv, BarrierInv, TileInv, InFrame
<1> QED
  BY <1>1, <1>2 DEF IInv

\* The invariant is inductive, provided the APs reach their spin loop before
\* the first frame of the compositor thread, or are not waited for at all.
LEMMA InvStep ==
    ASSUME SettleFirst \/ VirtualBox, IInv, [Next]_vars
    PROVE  IInv'
  BY TypeStep, FlagStep, BootStep, NarrowStep, BarrierStep, TileStep DEF IInv

\* parallel_compose() is a correct barrier for any number of CPUs, any band
\* limit and any epoch width: no AP paints outside the frame that published its
\* work, the frame is complete when the BSP leaves, every AP has posted by then,
\* and the BSP is not preempted on the way.
THEOREM BarrierSafety ==
    ASSUME SettleFirst \/ VirtualBox
    PROVE  Spec => [](TypeOK /\ NoPaintOutsideFrame /\ FrameComplete
                      /\ ReturnsAfterAllDone /\ BarrierNotPreempted)
<1>1. IInv => TypeOK /\ BarrierNotPreempted
  BY DEF IInv, FlagInv, BarrierNotPreempted, InFrame
<1>2. IInv => NoPaintOutsideFrame
  BY FlagAssumption DEF IInv, TypeOK, BspPlaces, BootInv, NarrowInv, BarrierInv,
     AllSettled, InFrame, NoPaintOutsideFrame
<1>3. IInv => ReturnsAfterAllDone
  BY FlagAssumption DEF IInv, TypeOK, BootInv, BarrierInv, ReturnsAfterAllDone
<1>4. ASSUME IInv, pc = "leave" PROVE FrameComplete
  <2>1. \A a \in AP, b \in BandIds : (b >= 1 /\ b < bandCount) => ~ApHolds(a, b)
    <3>1. CASE VirtualBox \/ ~settled
      BY <1>4, <3>1 DEF IInv, NarrowInv, TypeOK, BandIds
    <3>2. CASE ~VirtualBox /\ settled
      BY <1>4, <3>2 DEF IInv, BarrierInv, AllSettled, ApHolds
    <3> QED
      BY <3>1, <3>2
  <2>2. \A b \in BandIds : ~BspHolds(b)
    BY <1>4 DEF BspHolds
  <2> QED
    BY <1>4, <2>1, <2>2, SizeAssumption
       DEF IInv, TypeOK, TileInv, InFrame, FrameComplete, BandIds
<1>5. IInv => FrameComplete
  BY <1>4 DEF FrameComplete
<1> QED
  BY <1>1, <1>2, <1>3, <1>5, InvInit, InvStep, PTL DEF Spec

\* parallel_compose() implements FramePaint: whatever the CPUs interleave, its
\* caller sees one call that paints every band once and then returns.
THEOREM PaintRefinement ==
    ASSUME SettleFirst \/ VirtualBox
    PROVE  Spec => PaintsFrames
<1>1. Init => Painter!PaintInit
  BY DEF Init, Painter!PaintInit, BandIds, Painter!BandIds
<1>2. ASSUME IInv, [Next]_vars
      PROVE  [Painter!PaintNext]_(Painter!paintVars)
  <2> USE <1>2, SizeAssumption DEF IInv, TypeOK, BandIds, Painter!BandIds,
          Painter!PaintNext, Painter!paintVars,
          ctxVars, bspVars, bootVars, apVars, statVars
  <2>1. ASSUME NEW h \in Heights, StartFrame(h)
        PROVE  \E n \in 0 .. MaxBands : Painter!Call(n)
    <3>1. BandsFor(h) \in 0 .. MaxBands
      BY DEF BandsFor, Cpus, Lesser, Greater
    <3> QED
      BY <2>1, <3>1 DEF StartFrame, Painter!Call
  <2>2. CASE ComposeOwn
    <3>1. CASE bandCount > 0
      <4>1. 0 \in BandIds /\ composed[0] = 0
        BY <2>2, <3>1 DEF ComposeOwn, TileInv, InFrame
      <4>2. Painter!Paint(0)
        BY <2>2, <3>1, <4>1 DEF ComposeOwn, ComposeBand, Painter!Paint
      <4> QED
        BY <4>1, <4>2
    <3>2. CASE ~(bandCount > 0)
      BY <2>2, <3>2 DEF ComposeOwn, ComposeBand
    <3> QED
      BY <3>1, <3>2
  <2>3. CASE BspSteal
    <3>1. CASE bspTile < bandCount
      <4>1. bspTile \in BandIds /\ composed[bspTile] = 0
        BY <2>3, <3>1 DEF BspSteal, TileInv, InFrame, BspHolds
      <4>2. Painter!Paint(bspTile)
        BY <2>3, <3>1, <4>1 DEF BspSteal, ComposeBand, Painter!Paint
      <4> QED
        BY <4>1, <4>2
    <3>2. CASE ~(bspTile < bandCount)
      BY <2>3, <3>2 DEF BspSteal, ComposeBand
    <3> QED
      BY <3>1, <3>2
  <2>4. CASE Leave
    <3>1. \A b \in BandIds : b < bandCount => composed[b] = 1
      <4>1. \A a \in AP, b \in BandIds : (b >= 1 /\ b < bandCount) => ~ApHolds(a, b)
        BY <2>4 DEF Leave, NarrowInv, BarrierInv, AllSettled, ApHolds
      <4>2. InFrame /\ pc = "leave" /\ nextTile >= bandCount
        BY <2>4 DEF Leave, TileInv, InFrame
      <4>3. \A b \in BandIds : ~BspHolds(b)
        BY <4>2 DEF BspHolds
      <4>4. bandCount > 0 => composed[0] = 1
        BY <4>2 DEF TileInv
      <4>5. \A b \in BandIds : (b >= 1 /\ b < bandCount) => composed[b] = 1
        <5> SUFFICES ASSUME NEW b \in BandIds, b >= 1, b < bandCount
                     PROVE  composed[b] = 1
          OBVIOUS
        <5>1. b < nextTile
          BY <4>2 DEF TypeOK, BandIds
        <5>2. b < nextTile => \/ composed[b] = 1
                              \/ BspHolds(b)
                              \/ \E a \in AP : ApHolds(a, b)
          BY <4>2 DEF TileInv
        <5> QED
          BY <4>1, <4>3, <5>1, <5>2
      <4> QED
        BY <4>4, <4>5 DEF TypeOK, BandIds
    <3> QED
      BY <2>4, <3>1 DEF Leave, Painter!Return
  <2>5. ASSUME NEW a \in AP, ApCompose(a)
        PROVE  [Painter!PaintNext]_(Painter!paintVars)
    <3>1. InFrame
      BY <2>5, FlagAssumption DEF ApCompose, NarrowInv, BarrierInv, BootInv,
         AllSettled, InFrame, BspPlaces
    <3>2. tile[a] \in Nat /\ tile[a] >= 1
      BY <2>5, <3>1 DEF ApCompose, TileInv
    <3>3. CASE tile[a] < bandCount
      <4>1. tile[a] \in BandIds /\ composed[tile[a]] = 0
        BY <2>5, <3>1, <3>2, <3>3 DEF ApCompose, TileInv, ApHolds
      <4>2. Painter!Paint(tile[a])
        BY <2>5, <3>1, <3>3, <4>1 DEF ApCompose, ComposeBand, InFrame, Painter!Paint
      <4> QED
        BY <4>1, <4>2
    <3>4. CASE ~(tile[a] < bandCount)
      BY <2>5, <3>4 DEF ApCompose, ComposeBand
    <3> QED
      BY <3>3, <3>4
  <2>6. CASE ResetTile \/ ResetDone \/ RaiseFlag \/ Publish \/ BspClaim \/ BspCheck
             \/ BspWait \/ KickAPs \/ SmpReady
    BY <2>6, Zenon DEF ResetTile, ResetDone, RaiseFlag, Publish, BspClaim, BspCheck,
       BspWait, KickAPs, SmpReady
  <2>7. ASSUME NEW a \in AP, ApOnline(a) \/ ApNotice(a) \/ ApLoad(a) \/ ApClaim(a)
                             \/ ApCheck(a) \/ ApPost(a)
        PROVE  UNCHANGED Painter!paintVars
    BY <2>7, Zenon DEF ApOnline, ApNotice, ApLoad, ApClaim, ApCheck, ApPost
  <2>8. CASE Preempt \/ Resume \/ UNCHANGED vars
    BY <2>8 DEF Preempt, Resume, vars
  <2> QED
    BY <2>1, <2>2, <2>3, <2>4, <2>5, <2>6, <2>7, <2>8 DEF Next, BspStep, ApStep
<1> QED
  BY <1>1, <1>2, InvInit, InvStep, PTL DEF Spec, PaintsFrames, Painter!PaintSpec

-----------------------------------------------------------------------------
(* The cut of the bbox into bands. *)

\* A frame never has more bands than rows: BandsFor() caps them by h / min_rows,
\* rounded up to one.
RowsInv == bandCount \in Nat /\ height \in Nat /\ bandCount <= height

\* (n * h) / n is h.
LEMMA QuotientExact ==
    ASSUME NEW h \in Nat, NEW n \in Nat, n > 0
    PROVE  (h * n) \div n = h
PROOF
<1>1. PICK q \in Nat : q = (h * n) \div n
  BY Quotient
<1>2. n * q <= h * n /\ h * n < n * q + n
  BY <1>1, Quotient
<1>3. CASE q < h
  <2>1. PICK d \in Nat : h = q + 1 + d
    BY <1>3
  <2>2. h * n = n * q + n + n * d /\ n * d \in Nat
    BY <2>1
  <2> QED
    BY <1>2, <2>2
<1>4. CASE q > h
  <2>1. PICK d \in Nat : q = h + 1 + d
    BY <1>4
  <2>2. n * q = h * n + n + n * d /\ n * d \in Nat /\ h * n \in Nat
    BY <2>1
  <2> QED
    BY <1>2, <2>2
<1> QED
  BY <1>1, <1>3, <1>4

\* With no more bands than rows, the cut has no gap, no overlap and no empty band.
LEMMA CutIsExact == RowsInv => BandsCoverBox
PROOF
<1> SUFFICES ASSUME RowsInv, bandCount > 0 PROVE BandsCoverBox
  BY DEF BandsCoverBox
<1>0. PICK h \in Nat, n \in Nat : h = height /\ n = bandCount
  BY DEF RowsInv
<1>1. n > 0 /\ n <= h
  BY <1>0 DEF RowsInv
<1>2. (h * 0) \div n = 0
  <2>1. h * 0 = 0 * n
    OBVIOUS
  <2>2. (0 * n) \div n = 0
    BY <1>1, QuotientExact
  <2> QED
    BY <2>1, <2>2
<1>3. (h * n) \div n = h
  BY <1>1, QuotientExact
<1>4. ASSUME NEW i \in 0 .. n - 1 PROVE (h * i) \div n < (h * (i + 1)) \div n
  <2>1. h * i \in Nat /\ h * (i + 1) \in Nat /\ h * (i + 1) = h * i + h
    OBVIOUS
  <2>2. h * i + n <= h * (i + 1)
    BY <1>1, <2>1
  <2> QED
    BY <1>1, <2>1, <2>2, QuotientGrows
<1> QED
  BY <1>0, <1>2, <1>3, <1>4 DEF BandsCoverBox, BandTop

\* parallel_compose() cuts the damage box exactly, for every number of CPUs, every height,
\* every minimum and maximum of bands: the rows y0 + h * i / N it computes for consecutive
\* bands meet, and no band is empty.
THEOREM BandsExact == Spec => []BandsCoverBox
PROOF
<1>1. Init => RowsInv
  BY DEF Init, RowsInv
<1>2. TypeOK /\ RowsInv /\ [Next]_vars => RowsInv'
  <2> SUFFICES ASSUME TypeOK, RowsInv, [Next]_vars PROVE RowsInv'
    OBVIOUS
  <2>1. ASSUME NEW h \in Heights, StartFrame(h) PROVE RowsInv'
    <3>1. h \in Nat /\ h \div MinRows \in Nat /\ h \div MinRows <= h
      <4>1. h \in Nat /\ MinRows \in Nat /\ MinRows > 0
        BY SizeAssumption
      <4>2. PICK q \in Nat : q = h \div MinRows
        BY <4>1, Quotient
      <4>3. MinRows * q <= h
        BY <4>1, <4>2, Quotient
      <4>4. PICK k \in Nat : MinRows = 1 + k
        BY <4>1
      <4>5. MinRows * q = q + k * q /\ k * q \in Nat
        BY <4>4
      <4> QED
        BY <4>1, <4>2, <4>3, <4>5
    <3>2. BandsFor(h) \in Nat /\ BandsFor(h) <= h
      BY <3>1, SizeAssumption DEF BandsFor, Cpus, Lesser, Greater, TypeOK
    <3> QED
      BY <2>1, <3>1, <3>2 DEF StartFrame, RowsInv
  <2>2. CASE UNCHANGED <<height, bandCount>>
    BY <2>2 DEF RowsInv
  <2>3. ASSUME NEW a \in AP, ApStep(a) PROVE UNCHANGED <<height, bandCount>>
    BY <2>3, Zenon DEF ApStep, ApOnline, ApNotice, ApLoad, ApClaim, ApCheck, ApCompose, ApPost,
       ctxVars
  <2>4. CASE ResetTile \/ ResetDone \/ RaiseFlag \/ Publish \/ ComposeOwn \/ BspClaim
             \/ BspCheck \/ BspSteal \/ BspWait \/ Leave \/ KickAPs \/ SmpReady
    BY <2>2, <2>4, Zenon DEF ResetTile, ResetDone, RaiseFlag, Publish, ComposeOwn, BspClaim,
       BspCheck, BspSteal, BspWait, Leave, KickAPs, SmpReady, ctxVars
  <2>5. CASE Preempt \/ Resume \/ UNCHANGED vars
    BY <2>2, <2>5 DEF Preempt, Resume, vars, ctxVars
  <2> QED
    BY <2>1, <2>2, <2>3, <2>4, <2>5 DEF Next, BspStep
<1>3. IInv => TypeOK
  BY DEF IInv
<1> QED
  BY <1>1, <1>2, <1>3, CutIsExact, InvInit, TypeStep, PTL DEF Spec

=============================================================================
