-------------------------- MODULE ScullPipeProofs --------------------------
(***************************************************************************)
(* Proofs about the scullpipe driver, for every number of processes, every *)
(* buffer size and every choice of who blocks, polls or gets signals.      *)
(*                                                                         *)
(* Core (types, lock, pointers) is proved first, one case per action; on   *)
(* top of it the cleanliness of the wait queues and DataInv, which says    *)
(* why a reader that tests rp != wp without the lock is always woken.      *)
(* SpaceInv says the same of writers.                                      *)
(*                                                                         *)
(* The second half is about the buffer and what passes through it: it is   *)
(* allocated exactly while the device is open, only the holder of the      *)
(* semaphore changes it, only open files are on the list for SIGIO, and    *)
(* the device as a whole implements the bounded queue of PipeFifo.  Each   *)
(* step of the driver either is one of the four that open, close or        *)
(* (de)register a file, or leaves all of that alone (Footprint); the       *)
(* inductive invariants then need to be looked at for those four only.     *)
(***************************************************************************)
EXTENDS ScullPipe, FiniteSetTheorems, SequenceTheorems, TLAPS

\* The two cases of % that spacefree() meets: below the modulus ...
LEMMA ModBelow == \A n \in Nat \ {0} : \A x \in 0 .. n - 1 : x % n = x
  OBVIOUS

\* ... and in the range just above it.
LEMMA ModAbove == \A n \in Nat \ {0} : \A x \in n .. 2 * n - 1 : x % n = x - n
  OBVIOUS

\* What spacefree() in scull_pipe.c computes, without the %: the cells from wp up to
\* rp, less the one that is kept free.
LEMMA SpacefreeValue ==
  ASSUME NEW r \in Cells, NEW w \in Cells
  PROVE  spacefree(r, w) = IF r > w THEN r - w - 1 ELSE r - w + BufferSize - 1
  BY ModBelow, ModAbove, SizeAssumption DEF spacefree, Cells

\* A pointer is at dev->end only inside the critical section of the process that
\* moved it there and is about to wrap it around.
RingInv ==
  /\ rp = BufferSize => \E p \in Procs : pc[p] = "rd_wrap"
  /\ wp = BufferSize => \E p \in Procs : pc[p] = "wr_wrap"

\* Types, the lock and the pointers: inductive together, since a pointer stays in
\* range only because no second process moves it before it wraps.
Core == TypeOK /\ MutualExclusion /\ RingInv

\* Steps that neither take nor release dev->sem keep mutual exclusion, ...
LEMMA LockKept ==
  ASSUME ProcsOK, MutualExclusion, NEW p \in Procs, NEW l,
         pc[p] \in Locked <=> l \in Locked, Goto(p, l), sem' = sem
  PROVE  MutualExclusion'
  BY DEF ProcsOK, MutualExclusion, Goto

\* ... and so do down() ...
LEMMA LockTaken ==
  ASSUME ProcsOK, DeviceOK, MutualExclusion, NEW p \in Procs, NEW l \in Locked,
         sem > 0, Goto(p, l), sem' = sem - 1
  PROVE  MutualExclusion'
  BY DEF ProcsOK, DeviceOK, MutualExclusion, Goto

\* ... and up() by the holder.
LEMMA LockReleased ==
  ASSUME ProcsOK, MutualExclusion, NEW p \in Procs, NEW l,
         pc[p] \in Locked, l \notin Locked, Goto(p, l), up
  PROVE  MutualExclusion'
  BY DEF ProcsOK, MutualExclusion, Goto, up

\* A step outside the two wrapping points that moves no pointer keeps RingInv.
LEMMA RingKept ==
  ASSUME ProcsOK, RingInv, NEW p \in Procs, NEW l,
         pc[p] \notin {"rd_wrap", "wr_wrap"},
         Goto(p, l), rp' = rp, wp' = wp
  PROVE  RingInv'
  BY DEF ProcsOK, RingInv, Goto

\* Returning to user mode, a step that keeps its arguments, and one that forgets
\* what it loaded without the lock all keep the types of the local variables.
LEMMA ReturnType ==
  ASSUME ProcsOK, NEW p \in Procs, NEW l \in Labels, Return(p, l)
  PROVE  ProcsOK'
<1>1. pc' \in [Procs -> Labels] /\ sig' \in [Procs -> BOOLEAN]
  BY DEF ProcsOK, Return, Goto
<1>2. arg' \in [Procs -> Nat] /\ seen' \in [Procs -> 0 .. BufferSize]
  BY SizeAssumption DEF ProcsOK, Return
<1>3. ubuf' \in [Procs -> Seq(Data \cup {Junk})]
  BY DEF ProcsOK, Return
<1> QED BY <1>1, <1>2, <1>3 DEF ProcsOK

\* (a step that keeps its arguments)
LEMMA StayType ==
  ASSUME ProcsOK, NEW p \in Procs, NEW l \in Labels, Stay(p, l)
  PROVE  ProcsOK'
  BY DEF ProcsOK, Stay, Goto

\* (a step that forgets what it loaded without the lock)
LEMMA ForgetType ==
  ASSUME ProcsOK, NEW p \in Procs, NEW l \in Labels, Forget(p, l)
  PROVE  ProcsOK'
  BY SizeAssumption DEF ProcsOK, Forget, Goto

\* finish_wait() keeps the types of the wait queues.
LEMMA FinishWaitType ==
  ASSUME QueuesOK, NEW p \in Procs, FinishWait(p), asyncq' = asyncq
  PROVE  QueuesOK'
  BY DEF QueuesOK, FinishWait

\* So does a step that leaves them alone.
LEMMA QueuesKept ==
  ASSUME QueuesOK, UNCHANGED <<asyncq, waitVars>>
  PROVE  QueuesOK'
  BY DEF QueuesOK, waitVars

\* A step that moves at most the semaphore keeps the types of the device.
LEMMA DeviceKept ==
  ASSUME DeviceOK, sem' \in Nat, UNCHANGED <<devVars, cntVars>>
  PROVE  DeviceOK'
  BY DEF DeviceOK, devVars, cntVars

\* up() and down() keep the count of dev->sem a natural number.
LEMMA UpDown ==
  ASSUME DeviceOK
  PROVE  /\ up => sem' \in Nat
         /\ sem > 0 => sem - 1 \in Nat
  BY DEF DeviceOK, up

\* A freshly allocated buffer is a buffer.
LEMMA FreshType == Fresh \in [Cells -> Data \cup {Junk}]
  BY DEF Fresh

\* Whoever holds dev->sem is the only one who does.
LEMMA HolderAlone ==
  ASSUME MutualExclusion, NEW p \in Procs, pc[p] \in Locked,
         NEW q \in Procs, pc[q] \in Locked
  PROVE  q = p
  BY DEF MutualExclusion

\* scull_p_init() leaves every device in a state that satisfies Core.
LEMMA CoreInit == Init => Core
<1> SUFFICES ASSUME Init PROVE Core
  OBVIOUS
<1>1. DeviceOK
  <2>1. alloc \in BOOLEAN
    BY Zenon DEF Init
  <2>2. buffer \in [Cells -> Data \cup {Junk}]
    BY FreshType DEF Init
  <2> QED BY <2>1, <2>2, SizeAssumption DEF Init, DeviceOK
<1>2. QueuesOK
  BY DEF Init, QueuesOK
<1>3. ProcsOK
  BY SizeAssumption DEF Init, ProcsOK, Labels
<1>4. MutualExclusion
  BY DEF Init, MutualExclusion, Locked
<1>5. RingInv
  BY SizeAssumption DEF Init, RingInv
<1> QED BY <1>1, <1>2, <1>3, <1>4, <1>5 DEF Core, TypeOK

\* Every step of every operation of scull_pipe.c preserves types, mutual exclusion
\* and RingInv.
LEMMA CoreStep == Core /\ Next => Core'
<1> SUFFICES ASSUME Core, NEW p \in Procs, UserCall(p) \/ Driver(p) \/ Signal(p)
             PROVE Core'
  BY DEF Next
<1>1. CASE OpenCall(p)
  <2>1. ProcsOK'
    BY <1>1, StayType DEF OpenCall, Labels, Locked, Core, TypeOK
  <2>2. QueuesOK' /\ DeviceOK'
    BY <1>1, QueuesKept, DeviceKept, UpDown DEF OpenCall, Core, TypeOK, DeviceOK
  <2>4. MutualExclusion'
    BY <1>1, LockKept DEF OpenCall, Stay, Locked, Core, TypeOK
  <2>5. RingInv'
    BY <1>1, RingKept DEF OpenCall, Stay, devVars, Core, TypeOK
  <2> QED BY <2>1, <2>2, <2>4, <2>5 DEF Core, TypeOK
<1>2. CASE ReleaseCall(p)
  <2>1. ProcsOK'
    BY <1>2, StayType DEF ReleaseCall, Labels, Locked, Core, TypeOK
  <2>2. QueuesOK'
    BY <1>2 DEF ReleaseCall, Core, TypeOK, QueuesOK, waitVars
  <2>3. DeviceOK'
    BY <1>2, DeviceKept DEF ReleaseCall, Core, TypeOK, DeviceOK
  <2>4. MutualExclusion'
    BY <1>2, LockKept DEF ReleaseCall, Stay, Locked, Core, TypeOK
  <2>5. RingInv'
    BY <1>2, RingKept DEF ReleaseCall, Stay, devVars, Core, TypeOK
  <2> QED BY <2>1, <2>2, <2>3, <2>4, <2>5 DEF Core, TypeOK
<1>3. CASE Fasync(p)
  <2>1. DeviceOK' /\ QueuesOK' /\ ProcsOK'
    BY <1>3 DEF Fasync, Core, TypeOK, DeviceOK, QueuesOK, ProcsOK, devVars, cntVars, waitVars
  <2>2. MutualExclusion' /\ RingInv'
    BY <1>3 DEF Fasync, Core, MutualExclusion, RingInv, devVars
  <2> QED BY <2>1, <2>2 DEF Core, TypeOK
<1>4. CASE ReadCall(p)
  <2>1. ProcsOK'
    BY <1>4, SizeAssumption DEF ReadCall, Call, Goto, Labels, Locked, Core, TypeOK, ProcsOK, DeviceOK
  <2>2. QueuesOK' /\ DeviceOK'
    BY <1>4, QueuesKept, DeviceKept DEF ReadCall, Call, waitVars, Core, TypeOK, DeviceOK
  <2>4. MutualExclusion'
    BY <1>4, LockKept DEF ReadCall, Call, Locked, Core, TypeOK
  <2>5. RingInv'
    BY <1>4, RingKept DEF ReadCall, Call, devVars, Core, TypeOK
  <2> QED BY <2>1, <2>2, <2>4, <2>5 DEF Core, TypeOK
<1>5. CASE WriteCall(p)
  <2>1. ProcsOK'
    BY <1>5, SizeAssumption DEF WriteCall, Call, Goto, Labels, Locked, Core, TypeOK, ProcsOK, DeviceOK
  <2>2. QueuesOK' /\ DeviceOK'
    BY <1>5, QueuesKept, DeviceKept DEF WriteCall, Call, waitVars, Core, TypeOK, DeviceOK
  <2>4. MutualExclusion'
    BY <1>5, LockKept DEF WriteCall, Call, Locked, Core, TypeOK
  <2>5. RingInv'
    BY <1>5, RingKept DEF WriteCall, Call, devVars, Core, TypeOK
  <2> QED BY <2>1, <2>2, <2>4, <2>5 DEF Core, TypeOK
<1>6. CASE PollCall(p)
  <2>1. ProcsOK'
    BY <1>6, SizeAssumption DEF PollCall, Call, POLLIN, POLLOUT, Goto, Labels, Locked, Core, TypeOK, ProcsOK, DeviceOK
  <2>2. QueuesOK'
    BY <1>6 DEF PollCall, Call, Core, TypeOK, QueuesOK, waitVars
  <2>3. DeviceOK'
    BY <1>6, DeviceKept DEF PollCall, Call, Core, TypeOK, DeviceOK
  <2>4. MutualExclusion'
    BY <1>6, LockKept DEF PollCall, Call, Locked, Core, TypeOK
  <2>5. RingInv'
    BY <1>6, RingKept DEF PollCall, Call, devVars, Core, TypeOK
  <2> QED BY <2>1, <2>2, <2>3, <2>4, <2>5 DEF Core, TypeOK
<1>7. CASE OpenDown(p)
  <2>1. ProcsOK'
    BY <1>7, ReturnType, StayType DEF OpenDown, Down, DownInterrupted, Labels, Locked, Core, TypeOK
  <2>2. QueuesOK' /\ DeviceOK'
    BY <1>7, QueuesKept, DeviceKept, UpDown DEF OpenDown, Down, DownInterrupted, Core, TypeOK, DeviceOK
  <2>4. MutualExclusion'
    BY <1>7, LockTaken, LockKept DEF OpenDown, Down, DownInterrupted, Return, Stay, Locked, Core, TypeOK
  <2>5. RingInv'
    BY <1>7, RingKept DEF OpenDown, Down, DownInterrupted, Return, Stay, devVars, Core, TypeOK
  <2> QED BY <2>1, <2>2, <2>4, <2>5 DEF Core, TypeOK
<1>8. CASE OpenNoMem(p)
  <2>1. ProcsOK'
    BY <1>8, ReturnType DEF OpenNoMem, Labels, Locked, Core, TypeOK
  <2>2. QueuesOK' /\ DeviceOK'
    BY <1>8, QueuesKept, DeviceKept, UpDown DEF OpenNoMem, Core, TypeOK
  <2>4. MutualExclusion'
    BY <1>8, LockReleased DEF OpenNoMem, Return, Locked, Core, TypeOK
  <2>5. RingInv'
    BY <1>8, RingKept DEF OpenNoMem, Return, devVars, Core, TypeOK
  <2> QED BY <2>1, <2>2, <2>4, <2>5 DEF Core, TypeOK
<1>9. CASE OpenBody(p)
  <2>1. ProcsOK'
    BY <1>9, ReturnType DEF OpenBody, Labels, Locked, Core, TypeOK
  <2>2. QueuesOK'
    BY <1>9, QueuesKept DEF OpenBody, Core, TypeOK
  <2>3. DeviceOK'
    BY <1>9, UpDown, FreshType, SizeAssumption DEF OpenBody, Core, TypeOK, DeviceOK
  <2>4. MutualExclusion'
    BY <1>9, LockReleased DEF OpenBody, Return, Locked, Core, TypeOK
  <2>5. RingInv'
    BY <1>9, HolderAlone, SizeAssumption DEF OpenBody, Return, Goto, Locked, Core, TypeOK, ProcsOK, RingInv
  <2> QED BY <2>1, <2>2, <2>3, <2>4, <2>5 DEF Core, TypeOK
<1>10. CASE ReleaseDown(p)
  <2>1. ProcsOK'
    BY <1>10, StayType DEF ReleaseDown, Down, Labels, Locked, Core, TypeOK
  <2>2. QueuesOK' /\ DeviceOK'
    BY <1>10, QueuesKept, DeviceKept, UpDown DEF ReleaseDown, Down, Core, TypeOK, DeviceOK
  <2>4. MutualExclusion'
    BY <1>10, LockTaken DEF ReleaseDown, Down, Stay, Locked, Core, TypeOK
  <2>5. RingInv'
    BY <1>10, RingKept DEF ReleaseDown, Down, Stay, devVars, Core, TypeOK
  <2> QED BY <2>1, <2>2, <2>4, <2>5 DEF Core, TypeOK
<1>11. CASE ReleaseBody(p)
  <2>1. ProcsOK'
    BY <1>11, ReturnType DEF ReleaseBody, Labels, Locked, Core, TypeOK
  <2>2. QueuesOK'
    BY <1>11, QueuesKept DEF ReleaseBody, Core, TypeOK
  <2>3. DeviceOK'
    <3>1. alloc' \in BOOLEAN /\ buffer' \in [Cells -> Data \cup {Junk}]
      BY <1>11, FreshType DEF ReleaseBody, Core, TypeOK, DeviceOK
    <3>2. nreaders' \in Int /\ nwriters' \in Int
      BY <1>11 DEF ReleaseBody, Core, TypeOK, DeviceOK
    <3> QED BY <1>11, <3>1, <3>2, UpDown DEF ReleaseBody, Core, TypeOK, DeviceOK
  <2>4. MutualExclusion'
    BY <1>11, LockReleased DEF ReleaseBody, Return, Locked, Core, TypeOK
  <2>5. RingInv'
    BY <1>11, RingKept DEF ReleaseBody, Return, devVars, Core, TypeOK
  <2> QED BY <2>1, <2>2, <2>3, <2>4, <2>5 DEF Core, TypeOK
<1>12. CASE ReadDown(p)
  <2>1. ProcsOK'
    BY <1>12, ReturnType, StayType DEF ReadDown, Down, DownInterrupted, Labels, Locked, Core, TypeOK
  <2>2. QueuesOK' /\ DeviceOK'
    BY <1>12, QueuesKept, DeviceKept, UpDown DEF ReadDown, Down, DownInterrupted, Core, TypeOK, DeviceOK
  <2>4. MutualExclusion'
    BY <1>12, LockTaken, LockKept DEF ReadDown, Down, DownInterrupted, Return, Stay, Locked, Core, TypeOK
  <2>5. RingInv'
    BY <1>12, RingKept DEF ReadDown, Down, DownInterrupted, Return, Stay, devVars, Core, TypeOK
  <2> QED BY <2>1, <2>2, <2>4, <2>5 DEF Core, TypeOK
<1>13. CASE ReadEmpty(p)
  <2>1. ProcsOK'
    BY <1>13, ReturnType, StayType DEF ReadEmpty, Labels, Locked, Core, TypeOK
  <2>2. QueuesOK' /\ DeviceOK'
    BY <1>13, QueuesKept, DeviceKept, UpDown DEF ReadEmpty, Core, TypeOK
  <2>4. MutualExclusion'
    BY <1>13, LockReleased DEF ReadEmpty, Return, Stay, Locked, Core, TypeOK
  <2>5. RingInv'
    BY <1>13, RingKept DEF ReadEmpty, Return, Stay, devVars, Core, TypeOK
  <2> QED BY <2>1, <2>2, <2>4, <2>5 DEF Core, TypeOK
<1>14. CASE ReadCopy(p)
  <2> DEFINE n == ReadCount(p)
             bytes == [i \in 1 .. n |-> buffer[rp + i - 1]]
  <2>1. n \in Nat /\ rp + n \in 0 .. BufferSize
    BY SizeAssumption DEF ReadCount, min, Core, TypeOK, DeviceOK, ProcsOK
  <2>2. ASSUME NEW i \in 1 .. n PROVE buffer[rp + i - 1] \in Data \cup {Junk}
    BY <2>1, SizeAssumption DEF Cells, Core, TypeOK, DeviceOK
  <2>3. bytes \in Seq(Data \cup {Junk})
    BY <2>1, <2>2
  <2>4. rp' = rp + n /\ ubuf' = [ubuf EXCEPT ![p] = bytes]
    BY <1>14 DEF ReadCopy
  <2> HIDE DEF n, bytes
  <2>5. ProcsOK'
    BY ZenonT(60), <1>14, <2>3, <2>4 DEF ReadCopy, Goto, Labels, Locked, Core, TypeOK, ProcsOK
  <2>6. QueuesOK' /\ DeviceOK'
    BY <1>14, <2>1, <2>4 DEF ReadCopy, Core, TypeOK, QueuesOK, DeviceOK, cntVars, waitVars
  <2>7. MutualExclusion'
    BY <1>14, LockKept DEF ReadCopy, Locked, Core, TypeOK
  <2>8. RingInv'
    BY <1>14 DEF ReadCopy, Goto, Core, TypeOK, ProcsOK, RingInv
  <2> QED BY <2>5, <2>6, <2>7, <2>8 DEF Core, TypeOK
<1>15. CASE CopyFault(p)
  <2>1. ProcsOK'
    BY <1>15, ReturnType DEF CopyFault, Labels, Locked, Core, TypeOK
  <2>2. QueuesOK' /\ DeviceOK'
    BY <1>15, QueuesKept, DeviceKept, UpDown DEF CopyFault, Core, TypeOK
  <2>4. MutualExclusion'
    BY <1>15, LockReleased DEF CopyFault, Return, Locked, Core, TypeOK
  <2>5. RingInv'
    BY <1>15, RingKept DEF CopyFault, Return, devVars, Core, TypeOK
  <2> QED BY <2>1, <2>2, <2>4, <2>5 DEF Core, TypeOK
<1>16. CASE ReadWrap(p)
  <2>1. ProcsOK'
    BY <1>16, StayType DEF ReadWrap, Labels, Locked, Core, TypeOK
  <2>2. QueuesOK'
    BY <1>16, QueuesKept DEF ReadWrap, Core, TypeOK
  <2>3. DeviceOK'
    BY <1>16, UpDown, SizeAssumption DEF ReadWrap, cntVars, Core, TypeOK, DeviceOK
  <2>4. MutualExclusion'
    BY <1>16, LockReleased DEF ReadWrap, Stay, Locked, Core, TypeOK
  <2>5. RingInv'
    BY <1>16, HolderAlone, SizeAssumption DEF ReadWrap, Stay, Goto, Locked, Core, TypeOK, ProcsOK, RingInv
  <2> QED BY <2>1, <2>2, <2>3, <2>4, <2>5 DEF Core, TypeOK
<1>17. CASE ReadWake(p)
  <2>1. ProcsOK'
    BY <1>17, ReturnType DEF ReadWake, Woken, Remaining, Labels, Locked, Core, TypeOK
  <2>2. QueuesOK'
    BY <1>17 DEF ReadWake, Woken, Remaining, Core, TypeOK, QueuesOK, waitVars
  <2>3. DeviceOK'
    BY <1>17, DeviceKept DEF ReadWake, Core, TypeOK, DeviceOK
  <2>4. MutualExclusion'
    BY <1>17, LockKept DEF ReadWake, Woken, Remaining, Return, Locked, Core, TypeOK
  <2>5. RingInv'
    BY <1>17, RingKept DEF ReadWake, Woken, Remaining, Return, devVars, Core, TypeOK
  <2> QED BY <2>1, <2>2, <2>3, <2>4, <2>5 DEF Core, TypeOK
<1>18. CASE ReadWaitLoad(p)
  <2>1. ProcsOK'
    BY ZenonT(60), <1>18, SizeAssumption DEF ReadWaitLoad, Load, Goto, Labels, Locked, Core, TypeOK, ProcsOK, DeviceOK
  <2>2. QueuesOK' /\ DeviceOK'
    BY <1>18, QueuesKept, DeviceKept, UpDown DEF ReadWaitLoad, Load, Core, TypeOK, DeviceOK
  <2>4. MutualExclusion'
    BY <1>18, LockKept DEF ReadWaitLoad, Load, Locked, Core, TypeOK
  <2>5. RingInv'
    BY <1>18, RingKept DEF ReadWaitLoad, Load, devVars, Core, TypeOK
  <2> QED BY <2>1, <2>2, <2>4, <2>5 DEF Core, TypeOK
<1>19. CASE ReadWaitCond(p)
  <2>1. ProcsOK'
    BY <1>19, ForgetType DEF ReadWaitCond, Labels, Locked, Core, TypeOK
  <2>2. QueuesOK' /\ DeviceOK'
    BY <1>19, QueuesKept, DeviceKept, UpDown DEF ReadWaitCond, Core, TypeOK, DeviceOK
  <2>4. MutualExclusion'
    BY <1>19, LockKept DEF ReadWaitCond, Forget, Locked, Core, TypeOK
  <2>5. RingInv'
    BY <1>19, RingKept DEF ReadWaitCond, Forget, devVars, Core, TypeOK
  <2> QED BY <2>1, <2>2, <2>4, <2>5 DEF Core, TypeOK
<1>20. CASE ReadPrepare(p)
  <2>1. ProcsOK'
    BY <1>20, StayType DEF ReadPrepare, Labels, Locked, Core, TypeOK
  <2>2. QueuesOK'
    BY <1>20 DEF ReadPrepare, Core, TypeOK, QueuesOK, waitVars
  <2>3. DeviceOK'
    BY <1>20, DeviceKept DEF ReadPrepare, Core, TypeOK, DeviceOK
  <2>4. MutualExclusion'
    BY <1>20, LockKept DEF ReadPrepare, Stay, Locked, Core, TypeOK
  <2>5. RingInv'
    BY <1>20, RingKept DEF ReadPrepare, Stay, devVars, Core, TypeOK
  <2> QED BY <2>1, <2>2, <2>3, <2>4, <2>5 DEF Core, TypeOK
<1>21. CASE ReadWaitCheck(p)
  <2>1. ProcsOK'
    BY <1>21, ReturnType, ForgetType DEF ReadWaitCheck, Labels, Locked, Core, TypeOK
  <2>2. QueuesOK' /\ DeviceOK'
    BY <1>21, FinishWaitType, QueuesKept, DeviceKept DEF ReadWaitCheck, Core, TypeOK, DeviceOK
  <2>4. MutualExclusion'
    BY <1>21, LockKept DEF ReadWaitCheck, Return, Forget, Locked, Core, TypeOK
  <2>5. RingInv'
    BY <1>21, RingKept DEF ReadWaitCheck, Return, Forget, devVars, Core, TypeOK
  <2> QED BY <2>1, <2>2, <2>4, <2>5 DEF Core, TypeOK
<1>22. CASE ReadSleep(p)
  <2>1. ProcsOK'
    BY <1>22, StayType DEF ReadSleep, Labels, Locked, Core, TypeOK
  <2>2. QueuesOK'
    BY <1>22 DEF ReadSleep, Core, TypeOK, QueuesOK, waitVars
  <2>3. DeviceOK'
    BY <1>22, DeviceKept DEF ReadSleep, Core, TypeOK, DeviceOK
  <2>4. MutualExclusion'
    BY <1>22, LockKept DEF ReadSleep, Stay, Locked, Core, TypeOK
  <2>5. RingInv'
    BY <1>22, RingKept DEF ReadSleep, Stay, devVars, Core, TypeOK
  <2> QED BY <2>1, <2>2, <2>3, <2>4, <2>5 DEF Core, TypeOK
<1>23. CASE WriteDown(p)
  <2>1. ProcsOK'
    BY <1>23, ReturnType, StayType DEF WriteDown, Down, DownInterrupted, Labels, Locked, Core, TypeOK
  <2>2. QueuesOK' /\ DeviceOK'
    BY <1>23, QueuesKept, DeviceKept, UpDown DEF WriteDown, Down, DownInterrupted, Core, TypeOK, DeviceOK
  <2>4. MutualExclusion'
    BY <1>23, LockTaken, LockKept DEF WriteDown, Down, DownInterrupted, Return, Stay, Locked, Core, TypeOK
  <2>5. RingInv'
    BY <1>23, RingKept DEF WriteDown, Down, DownInterrupted, Return, Stay, devVars, Core, TypeOK
  <2> QED BY <2>1, <2>2, <2>4, <2>5 DEF Core, TypeOK
<1>24. CASE WriteFull(p)
  <2>1. ProcsOK'
    BY <1>24, ReturnType, StayType DEF WriteFull, Labels, Locked, Core, TypeOK
  <2>2. QueuesOK' /\ DeviceOK'
    BY <1>24, QueuesKept, DeviceKept, UpDown DEF WriteFull, Core, TypeOK
  <2>4. MutualExclusion'
    BY <1>24, LockReleased DEF WriteFull, Return, Stay, Locked, Core, TypeOK
  <2>5. RingInv'
    BY <1>24, RingKept DEF WriteFull, Return, Stay, devVars, Core, TypeOK
  <2> QED BY <2>1, <2>2, <2>4, <2>5 DEF Core, TypeOK
<1>25. CASE WritePrepare(p)
  <2>1. ProcsOK'
    BY <1>25, StayType DEF WritePrepare, Labels, Locked, Core, TypeOK
  <2>2. QueuesOK'
    BY <1>25 DEF WritePrepare, Core, TypeOK, QueuesOK, waitVars
  <2>3. DeviceOK'
    BY <1>25, DeviceKept DEF WritePrepare, Core, TypeOK, DeviceOK
  <2>4. MutualExclusion'
    BY <1>25, LockKept DEF WritePrepare, Stay, Locked, Core, TypeOK
  <2>5. RingInv'
    BY <1>25, RingKept DEF WritePrepare, Stay, devVars, Core, TypeOK
  <2> QED BY <2>1, <2>2, <2>3, <2>4, <2>5 DEF Core, TypeOK
<1>26. CASE WriteLoad(p)
  <2>1. ProcsOK'
    BY <1>26, SizeAssumption DEF WriteLoad, Load, Goto, Labels, Locked, Core, TypeOK, ProcsOK, DeviceOK
  <2>2. QueuesOK' /\ DeviceOK'
    BY <1>26, QueuesKept, DeviceKept, UpDown DEF WriteLoad, Load, Core, TypeOK, DeviceOK
  <2>4. MutualExclusion'
    BY <1>26, LockKept DEF WriteLoad, Load, Locked, Core, TypeOK
  <2>5. RingInv'
    BY <1>26, RingKept DEF WriteLoad, Load, devVars, Core, TypeOK
  <2> QED BY <2>1, <2>2, <2>4, <2>5 DEF Core, TypeOK
<1>27. CASE WriteCheck(p)
  <2>1. ProcsOK'
    BY <1>27, ForgetType DEF WriteCheck, Labels, Locked, Core, TypeOK
  <2>2. QueuesOK' /\ DeviceOK'
    BY <1>27, QueuesKept, DeviceKept, UpDown DEF WriteCheck, Core, TypeOK, DeviceOK
  <2>4. MutualExclusion'
    BY <1>27, LockKept DEF WriteCheck, Forget, Locked, Core, TypeOK
  <2>5. RingInv'
    BY <1>27, RingKept DEF WriteCheck, Forget, devVars, Core, TypeOK
  <2> QED BY <2>1, <2>2, <2>4, <2>5 DEF Core, TypeOK
<1>28. CASE WriteSleep(p)
  <2>1. ProcsOK'
    BY <1>28, StayType DEF WriteSleep, Labels, Locked, Core, TypeOK
  <2>2. QueuesOK'
    BY <1>28 DEF WriteSleep, Core, TypeOK, QueuesOK, waitVars
  <2>3. DeviceOK'
    BY <1>28, DeviceKept DEF WriteSleep, Core, TypeOK, DeviceOK
  <2>4. MutualExclusion'
    BY <1>28, LockKept DEF WriteSleep, Stay, Locked, Core, TypeOK
  <2>5. RingInv'
    BY <1>28, RingKept DEF WriteSleep, Stay, devVars, Core, TypeOK
  <2> QED BY <2>1, <2>2, <2>3, <2>4, <2>5 DEF Core, TypeOK
<1>29. CASE WriteFinishWait(p)
  <2>1. ProcsOK'
    BY <1>29, ReturnType, StayType DEF WriteFinishWait, Labels, Locked, Core, TypeOK
  <2>2. QueuesOK' /\ DeviceOK'
    BY <1>29, FinishWaitType, QueuesKept, DeviceKept DEF WriteFinishWait, Core, TypeOK, DeviceOK
  <2>4. MutualExclusion'
    BY <1>29, LockKept DEF WriteFinishWait, Return, Stay, Locked, Core, TypeOK
  <2>5. RingInv'
    BY <1>29, RingKept DEF WriteFinishWait, Return, Stay, devVars, Core, TypeOK
  <2> QED BY <2>1, <2>2, <2>4, <2>5 DEF Core, TypeOK
<1>30. CASE WriteCopy(p)
  <2> DEFINE n == WriteCount(p)
  <2>1. rp \in Cells /\ wp \in Cells
    BY <1>30, HolderAlone, SizeAssumption DEF WriteCopy, Cells, Locked, Core, TypeOK, DeviceOK, RingInv
  <2>2. spacefree(rp, wp) \in Nat /\ spacefree(rp, wp) <= BufferSize
    BY <2>1, SpacefreeValue, SizeAssumption DEF Cells
  <2>3. n \in Nat /\ wp + n \in 0 .. BufferSize
    BY SMTT(60), <2>1, <2>2, SizeAssumption DEF WriteCount, min, Cells, Core, TypeOK, ProcsOK
  <2>4. PICK bytes \in [1 .. n -> Data] :
          buffer' = [i \in Cells |->
                       IF i \in wp .. wp + n - 1 THEN bytes[i - wp + 1] ELSE buffer[i]]
    BY <1>30 DEF WriteCopy
  <2>5. wp' = wp + n
    BY <1>30 DEF WriteCopy
  <2> HIDE DEF n
  <2>6. ASSUME NEW i \in wp .. wp + n - 1 PROVE bytes[i - wp + 1] \in Data
    BY <2>1, <2>3 DEF Cells
  <2>7. buffer' \in [Cells -> Data \cup {Junk}]
    BY <2>4, <2>6 DEF Core, TypeOK, DeviceOK
  <2>8. ProcsOK'
    BY <1>30, StayType DEF WriteCopy, Labels, Locked, Core, TypeOK
  <2>9. QueuesOK' /\ DeviceOK'
    BY <1>30, <2>3, <2>5, <2>7 DEF WriteCopy, Core, TypeOK, QueuesOK, DeviceOK, cntVars, waitVars
  <2>10. MutualExclusion'
    BY <1>30, LockKept DEF WriteCopy, Stay, Locked, Core, TypeOK
  <2>11. RingInv'
    BY <1>30, <2>1, SizeAssumption DEF WriteCopy, Stay, Goto, Cells, Core, TypeOK, ProcsOK, RingInv
  <2> QED BY <2>8, <2>9, <2>10, <2>11 DEF Core, TypeOK
<1>31. CASE WriteWrap(p)
  <2>1. ProcsOK'
    BY <1>31, StayType DEF WriteWrap, Labels, Locked, Core, TypeOK
  <2>2. QueuesOK'
    BY <1>31, QueuesKept DEF WriteWrap, Core, TypeOK
  <2>3. DeviceOK'
    BY <1>31, UpDown, SizeAssumption DEF WriteWrap, cntVars, Core, TypeOK, DeviceOK
  <2>4. MutualExclusion'
    BY <1>31, LockReleased DEF WriteWrap, Stay, Locked, Core, TypeOK
  <2>5. RingInv'
    BY <1>31, HolderAlone, SizeAssumption DEF WriteWrap, Stay, Goto, Locked, Core, TypeOK, ProcsOK, RingInv
  <2> QED BY <2>1, <2>2, <2>3, <2>4, <2>5 DEF Core, TypeOK
<1>32. CASE WriteWake(p)
  <2>1. ProcsOK'
    BY <1>32, StayType DEF WriteWake, Woken, Remaining, Labels, Locked, Core, TypeOK
  <2>2. QueuesOK'
    BY <1>32 DEF WriteWake, Woken, Remaining, Core, TypeOK, QueuesOK, waitVars
  <2>3. DeviceOK'
    BY <1>32, DeviceKept DEF WriteWake, Core, TypeOK, DeviceOK
  <2>4. MutualExclusion'
    BY <1>32, LockKept DEF WriteWake, Woken, Remaining, Stay, Locked, Core, TypeOK
  <2>5. RingInv'
    BY <1>32, RingKept DEF WriteWake, Woken, Remaining, Stay, devVars, Core, TypeOK
  <2> QED BY <2>1, <2>2, <2>3, <2>4, <2>5 DEF Core, TypeOK
<1>33. CASE WriteAsync(p)
  <2>1. ProcsOK'
    BY <1>33, SizeAssumption DEF WriteAsync, Woken, Goto, Labels, Locked, Core, TypeOK, ProcsOK, DeviceOK
  <2>2. QueuesOK'
    BY <1>33 DEF WriteAsync, Woken, Core, TypeOK, QueuesOK, waitVars
  <2>3. DeviceOK'
    BY <1>33, DeviceKept DEF WriteAsync, Core, TypeOK, DeviceOK
  <2>4. MutualExclusion'
    BY <1>33, LockKept DEF WriteAsync, Woken, Locked, Core, TypeOK
  <2>5. RingInv'
    BY <1>33, RingKept DEF WriteAsync, Woken, devVars, Core, TypeOK
  <2> QED BY <2>1, <2>2, <2>3, <2>4, <2>5 DEF Core, TypeOK
<1>34. CASE PollDown(p)
  <2>1. ProcsOK'
    BY <1>34, StayType DEF PollDown, Down, Labels, Locked, Core, TypeOK
  <2>2. QueuesOK' /\ DeviceOK'
    BY <1>34, QueuesKept, DeviceKept, UpDown DEF PollDown, Down, Core, TypeOK, DeviceOK
  <2>4. MutualExclusion'
    BY <1>34, LockTaken DEF PollDown, Down, Stay, Locked, Core, TypeOK
  <2>5. RingInv'
    BY <1>34, RingKept DEF PollDown, Down, Stay, devVars, Core, TypeOK
  <2> QED BY <2>1, <2>2, <2>4, <2>5 DEF Core, TypeOK
<1>35. CASE PollScan(p)
  <2>1. ProcsOK'
    BY <1>35, ReturnType, StayType DEF PollScan, Labels, Locked, Core, TypeOK
  <2>2. QueuesOK'
    BY <1>35, FinishWaitType DEF PollScan, Core, TypeOK, QueuesOK
  <2>3. DeviceOK'
    BY <1>35, DeviceKept, UpDown DEF PollScan, Core, TypeOK
  <2>4. MutualExclusion'
    BY <1>35, LockReleased DEF PollScan, Return, Stay, Locked, Core, TypeOK
  <2>5. RingInv'
    BY <1>35, RingKept DEF PollScan, Return, Stay, devVars, Core, TypeOK
  <2> QED BY <2>1, <2>2, <2>3, <2>4, <2>5 DEF Core, TypeOK
<1>36. CASE PollSleep(p)
  <2>1. ProcsOK'
    BY <1>36, StayType DEF PollSleep, Labels, Locked, Core, TypeOK
  <2>2. QueuesOK'
    BY <1>36 DEF PollSleep, Core, TypeOK, QueuesOK, waitVars
  <2>3. DeviceOK'
    BY <1>36, DeviceKept DEF PollSleep, Core, TypeOK, DeviceOK
  <2>4. MutualExclusion'
    BY <1>36, LockKept DEF PollSleep, Stay, Locked, Core, TypeOK
  <2>5. RingInv'
    BY <1>36, RingKept DEF PollSleep, Stay, devVars, Core, TypeOK
  <2> QED BY <2>1, <2>2, <2>3, <2>4, <2>5 DEF Core, TypeOK
<1>37. CASE Signal(p)
  <2>1. DeviceOK' /\ QueuesOK' /\ ProcsOK'
    BY <1>37 DEF Signal, Core, TypeOK, DeviceOK, QueuesOK, ProcsOK, devVars, cntVars, waitVars
  <2>2. MutualExclusion' /\ RingInv'
    BY <1>37 DEF Signal, Core, MutualExclusion, RingInv, devVars
  <2> QED BY <2>1, <2>2 DEF Core, TypeOK
<1> QED BY <1>1, <1>2, <1>3, <1>4, <1>5, <1>6, <1>7, <1>8, <1>9, <1>10, <1>11, <1>12, <1>13, <1>14, <1>15, <1>16, <1>17, <1>18, <1>19, <1>20, <1>21, <1>22, <1>23, <1>24, <1>25, <1>26, <1>27, <1>28, <1>29, <1>30, <1>31, <1>32, <1>33, <1>34, <1>35, <1>36, <1>37 DEF UserCall, Driver

\* prepare_to_wait() and finish_wait() are paired on every path, so every step keeps
\* the queues clean.
LEMMA QueuedStep == Core /\ QueuedOnlyWhileWaiting /\ Next => QueuedOnlyWhileWaiting'
<1> SUFFICES ASSUME Core, QueuedOnlyWhileWaiting,
                    NEW p \in Procs, UserCall(p) \/ Driver(p) \/ Signal(p)
             PROVE  QueuedOnlyWhileWaiting'
  BY DEF Next
<1> USE DEF Core, TypeOK
<1>1. CASE OpenCall(p)
  BY <1>1 DEF OpenCall, Stay, Goto, waitVars, ProcsOK, QueuesOK, QueuedOnlyWhileWaiting, Polling
<1>2. CASE ReleaseCall(p)
  BY <1>2 DEF ReleaseCall, Stay, Goto, waitVars, ProcsOK, QueuesOK, QueuedOnlyWhileWaiting, Polling
<1>3. CASE Fasync(p)
  BY <1>3 DEF Fasync, waitVars, ProcsOK, QueuesOK, QueuedOnlyWhileWaiting, Polling
<1>4. CASE ReadCall(p)
  BY <1>4 DEF ReadCall, Call, Goto, waitVars, ProcsOK, QueuesOK, QueuedOnlyWhileWaiting, Polling
<1>5. CASE WriteCall(p)
  BY <1>5 DEF WriteCall, Call, Goto, waitVars, ProcsOK, QueuesOK, QueuedOnlyWhileWaiting, Polling
<1>6. CASE PollCall(p)
  BY <1>6 DEF PollCall, Call, Goto, ProcsOK, QueuesOK, QueuedOnlyWhileWaiting, Polling
<1>7. CASE OpenDown(p)
  BY <1>7 DEF OpenDown, Down, DownInterrupted, Return, Stay, Goto, waitVars, ProcsOK, QueuesOK, QueuedOnlyWhileWaiting, Polling
<1>8. CASE OpenNoMem(p)
  BY <1>8 DEF OpenNoMem, Return, Goto, waitVars, ProcsOK, QueuesOK, QueuedOnlyWhileWaiting, Polling
<1>9. CASE OpenBody(p)
  BY <1>9 DEF OpenBody, Return, Goto, waitVars, ProcsOK, QueuesOK, QueuedOnlyWhileWaiting, Polling
<1>10. CASE ReleaseDown(p)
  BY <1>10 DEF ReleaseDown, Down, Stay, Goto, waitVars, ProcsOK, QueuesOK, QueuedOnlyWhileWaiting, Polling
<1>11. CASE ReleaseBody(p)
  BY <1>11 DEF ReleaseBody, Return, Goto, waitVars, ProcsOK, QueuesOK, QueuedOnlyWhileWaiting, Polling
<1>12. CASE ReadDown(p)
  BY <1>12 DEF ReadDown, Down, DownInterrupted, Return, Stay, Goto, waitVars, ProcsOK, QueuesOK, QueuedOnlyWhileWaiting, Polling
<1>13. CASE ReadEmpty(p)
  BY ZenonT(60), <1>13 DEF ReadEmpty, Return, Stay, Goto, waitVars, ProcsOK, QueuesOK, QueuedOnlyWhileWaiting, Polling
<1>14. CASE ReadCopy(p)
  BY <1>14 DEF ReadCopy, Goto, waitVars, ProcsOK, QueuesOK, QueuedOnlyWhileWaiting, Polling
<1>15. CASE CopyFault(p)
  BY <1>15 DEF CopyFault, Return, Goto, waitVars, ProcsOK, QueuesOK, QueuedOnlyWhileWaiting, Polling
<1>16. CASE ReadWrap(p)
  BY <1>16 DEF ReadWrap, Stay, Goto, waitVars, ProcsOK, QueuesOK, QueuedOnlyWhileWaiting, Polling
<1>17. CASE ReadWake(p)
  BY <1>17 DEF ReadWake, Woken, Remaining, Return, Goto, ProcsOK, QueuesOK, QueuedOnlyWhileWaiting, Polling
<1>18. CASE ReadWaitLoad(p)
  BY <1>18 DEF ReadWaitLoad, Load, Goto, waitVars, ProcsOK, QueuesOK, QueuedOnlyWhileWaiting, Polling
<1>19. CASE ReadWaitCond(p)
  BY <1>19 DEF ReadWaitCond, Forget, Goto, waitVars, ProcsOK, QueuesOK, QueuedOnlyWhileWaiting, Polling
<1>20. CASE ReadPrepare(p)
  BY <1>20 DEF ReadPrepare, Stay, Goto, ProcsOK, QueuesOK, QueuedOnlyWhileWaiting, Polling
<1>21. CASE ReadWaitCheck(p)
  BY ZenonT(60), <1>21 DEF ReadWaitCheck, FinishWait, Return, Forget, Goto, waitVars, ProcsOK, QueuesOK, QueuedOnlyWhileWaiting, Polling
<1>22. CASE ReadSleep(p)
  BY <1>22 DEF ReadSleep, Stay, Goto, ProcsOK, QueuesOK, QueuedOnlyWhileWaiting, Polling
<1>23. CASE WriteDown(p)
  BY <1>23 DEF WriteDown, Down, DownInterrupted, Return, Stay, Goto, waitVars, ProcsOK, QueuesOK, QueuedOnlyWhileWaiting, Polling
<1>24. CASE WriteFull(p)
  BY ZenonT(60), <1>24 DEF WriteFull, Return, Stay, Goto, waitVars, ProcsOK, QueuesOK, QueuedOnlyWhileWaiting, Polling
<1>25. CASE WritePrepare(p)
  BY <1>25 DEF WritePrepare, Stay, Goto, ProcsOK, QueuesOK, QueuedOnlyWhileWaiting, Polling
<1>26. CASE WriteLoad(p)
  BY <1>26 DEF WriteLoad, Load, Goto, waitVars, ProcsOK, QueuesOK, QueuedOnlyWhileWaiting, Polling
<1>27. CASE WriteCheck(p)
  BY <1>27 DEF WriteCheck, Forget, Goto, waitVars, ProcsOK, QueuesOK, QueuedOnlyWhileWaiting, Polling
<1>28. CASE WriteSleep(p)
  BY <1>28 DEF WriteSleep, Stay, Goto, ProcsOK, QueuesOK, QueuedOnlyWhileWaiting, Polling
<1>29. CASE WriteFinishWait(p)
  BY <1>29 DEF WriteFinishWait, FinishWait, Return, Stay, Goto, waitVars, ProcsOK, QueuesOK, QueuedOnlyWhileWaiting, Polling
<1>30. CASE WriteCopy(p)
  BY <1>30 DEF WriteCopy, Stay, Goto, waitVars, ProcsOK, QueuesOK, QueuedOnlyWhileWaiting, Polling
<1>31. CASE WriteWrap(p)
  BY <1>31 DEF WriteWrap, Stay, Goto, waitVars, ProcsOK, QueuesOK, QueuedOnlyWhileWaiting, Polling
<1>32. CASE WriteWake(p)
  BY <1>32 DEF WriteWake, Woken, Remaining, Stay, Goto, ProcsOK, QueuesOK, QueuedOnlyWhileWaiting, Polling
<1>33. CASE WriteAsync(p)
  BY <1>33 DEF WriteAsync, Woken, Goto, ProcsOK, QueuesOK, QueuedOnlyWhileWaiting, Polling
<1>34. CASE PollDown(p)
  BY <1>34 DEF PollDown, Down, Stay, Goto, waitVars, ProcsOK, QueuesOK, QueuedOnlyWhileWaiting, Polling
<1>35. CASE PollScan(p)
  BY SMTT(60), <1>35 DEF PollScan, FinishWait, Return, Stay, Goto, waitVars, ProcsOK, QueuesOK, QueuedOnlyWhileWaiting, Polling
<1>36. CASE PollSleep(p)
  BY <1>36 DEF PollSleep, Stay, Goto, ProcsOK, QueuesOK, QueuedOnlyWhileWaiting, Polling
<1>37. CASE Signal(p)
  BY <1>37 DEF Signal, ProcsOK, QueuesOK, QueuedOnlyWhileWaiting, Polling
<1> QED BY <1>1, <1>2, <1>3, <1>4, <1>5, <1>6, <1>7, <1>8, <1>9, <1>10, <1>11, <1>12, <1>13, <1>14, <1>15, <1>16, <1>17, <1>18, <1>19, <1>20, <1>21, <1>22, <1>23, <1>24, <1>25, <1>26, <1>27, <1>28, <1>29, <1>30, <1>31, <1>32, <1>33, <1>34, <1>35, <1>36, <1>37 DEF UserCall, Driver

\* Some write() has stored data and not yet called wake_up_interruptible().
WakePending == \E q \in Procs : pc[q] \in {"wr_wrap", "wr_wake"}

\* What makes the unlocked test of rp != wp safe, for each reader that may fall
\* asleep: it is on dev->inq before it loads rp, and if what it loaded equals wp then
\* the pipe is empty or the wake-up is still to come.
DataInv ==
  \A p \in Procs : task[p] = "INTERRUPTIBLE" =>
    /\ pc[p] \in {"rd_load", "rd_check", "rd_sleep", "poll_sleep"} => p \in inq
    /\ \/ pc[p] = "rd_check" /\ seen[p] = wp
       \/ pc[p] = "rd_sleep"
       \/ pc[p] = "poll_sleep" /\ arg[p] = POLLIN
       => rp = wp \/ WakePending

\* A step of p that moves no pointer, puts nobody else to sleep and takes nobody else
\* off dev->inq keeps DataInv, unless p was about to wake the readers.
LEMMA DataKept ==
  ASSUME ProcsOK, QueuesOK, DataInv, NEW p \in Procs, NEW l, Goto(p, l),
         l \notin {"rd_load", "rd_check", "rd_sleep", "poll_sleep"},
         pc[p] \notin {"wr_wrap", "wr_wake"},
         rp' = rp, wp' = wp,
         \A q \in Procs \ {p} :
           /\ task'[q] \in {task[q], "RUNNING"}
           /\ q \in inq => q \in inq'
           /\ arg'[q] = arg[q] /\ seen'[q] = seen[q]
  PROVE  DataInv'
  BY DEF DataInv, WakePending, Goto, ProcsOK, QueuesOK

\* Every step preserves DataInv: a write() that makes the pipe non-empty has its
\* wake-up pending, and the wake-up leaves no reader asleep.
LEMMA DataStep == Core /\ DataInv /\ Next => DataInv'
<1> SUFFICES ASSUME Core, DataInv, NEW p \in Procs, UserCall(p) \/ Driver(p) \/ Signal(p)
             PROVE  DataInv'
  BY DEF Next
<1> USE DEF Core, TypeOK
<1>1. CASE OpenCall(p)
  BY <1>1, DataKept DEF OpenCall, Stay, waitVars, devVars, ProcsOK, QueuesOK
<1>2. CASE ReleaseCall(p)
  BY <1>2, DataKept DEF ReleaseCall, Stay, waitVars, devVars, ProcsOK, QueuesOK
<1>3. CASE Fasync(p)
  BY <1>3 DEF Fasync, waitVars, devVars, ProcsOK, QueuesOK, DataInv, WakePending
<1>4. CASE ReadCall(p)
  BY <1>4, DataKept DEF ReadCall, Call, waitVars, devVars, ProcsOK, QueuesOK
<1>5. CASE WriteCall(p)
  BY <1>5, DataKept DEF WriteCall, Call, waitVars, devVars, ProcsOK, QueuesOK
<1>6. CASE PollCall(p)
  BY <1>6, DataKept DEF PollCall, Call, waitVars, devVars, ProcsOK, QueuesOK
<1>7. CASE OpenDown(p)
  BY <1>7, DataKept DEF OpenDown, Down, DownInterrupted, Return, Stay, waitVars, devVars, ProcsOK, QueuesOK
<1>8. CASE OpenNoMem(p)
  BY <1>8, DataKept DEF OpenNoMem, Return, waitVars, devVars, ProcsOK, QueuesOK
<1>9. CASE OpenBody(p)
  BY <1>9 DEF OpenBody, Return, Goto, waitVars, devVars, ProcsOK, QueuesOK, DataInv, WakePending
<1>10. CASE ReleaseDown(p)
  BY <1>10, DataKept DEF ReleaseDown, Down, Stay, waitVars, devVars, ProcsOK, QueuesOK
<1>11. CASE ReleaseBody(p)
  BY <1>11, DataKept DEF ReleaseBody, Return, waitVars, devVars, ProcsOK, QueuesOK
<1>12. CASE ReadDown(p)
  BY <1>12, DataKept DEF ReadDown, Down, DownInterrupted, Return, Stay, waitVars, devVars, ProcsOK, QueuesOK
<1>13. CASE ReadEmpty(p)
  BY <1>13, DataKept DEF ReadEmpty, Return, Stay, waitVars, devVars, ProcsOK, QueuesOK
<1>14. CASE ReadCopy(p)
  BY <1>14 DEF ReadCopy, Goto, waitVars, devVars, ProcsOK, QueuesOK, DataInv, WakePending
<1>15. CASE CopyFault(p)
  BY <1>15, DataKept DEF CopyFault, Return, waitVars, devVars, ProcsOK, QueuesOK
<1>16. CASE ReadWrap(p)
  <2>1. wp # BufferSize
    BY <1>16, HolderAlone DEF ReadWrap, RingInv, Locked
  <2>2. rp = wp => rp' = wp'
    BY <1>16, <2>1 DEF ReadWrap
  <2>3. WakePending => WakePending'
    BY <1>16 DEF ReadWrap, Stay, Goto, ProcsOK, WakePending
  <2> QED BY <1>16, <2>2, <2>3 DEF ReadWrap, Stay, Goto, waitVars, ProcsOK, QueuesOK, DataInv
<1>17. CASE ReadWake(p)
  BY <1>17, DataKept DEF ReadWake, Woken, Remaining, Return, waitVars, devVars, ProcsOK, QueuesOK
<1>18. CASE ReadWaitLoad(p)
  <2>1. CASE Load(p, "rd_wait", "rd_cond")
    BY <2>1, DataKept DEF Load, waitVars, devVars, ProcsOK, QueuesOK
  <2>2. CASE Load(p, "rd_load", "rd_check")
    <3>1. WakePending => WakePending'
      BY <2>2 DEF Load, Goto, ProcsOK, WakePending
    <3>2. seen'[p] = rp /\ \A q \in Procs \ {p} : seen'[q] = seen[q]
      BY <2>2 DEF Load, ProcsOK
    <3> QED BY <2>2, <3>1, <3>2 DEF Load, Goto, waitVars, devVars, ProcsOK, QueuesOK, DataInv
  <2> QED BY <1>18, <2>1, <2>2 DEF ReadWaitLoad
<1>19. CASE ReadWaitCond(p)
  BY <1>19, DataKept DEF ReadWaitCond, Forget, waitVars, devVars, ProcsOK, QueuesOK
<1>20. CASE ReadPrepare(p)
  BY <1>20 DEF ReadPrepare, Stay, Goto, waitVars, devVars, ProcsOK, QueuesOK, DataInv, WakePending
<1>21. CASE ReadWaitCheck(p)
  BY ZenonT(60), <1>21 DEF ReadWaitCheck, FinishWait, Return, Forget, Goto, waitVars, devVars, ProcsOK, QueuesOK, DataInv, WakePending
<1>22. CASE ReadSleep(p)
  BY <1>22, DataKept DEF ReadSleep, Stay, waitVars, devVars, ProcsOK, QueuesOK
<1>23. CASE WriteDown(p)
  BY <1>23, DataKept DEF WriteDown, Down, DownInterrupted, Return, Stay, waitVars, devVars, ProcsOK, QueuesOK
<1>24. CASE WriteFull(p)
  BY <1>24, DataKept DEF WriteFull, Return, Stay, waitVars, devVars, ProcsOK, QueuesOK
<1>25. CASE WritePrepare(p)
  BY <1>25, DataKept DEF WritePrepare, Stay, waitVars, devVars, ProcsOK, QueuesOK
<1>26. CASE WriteLoad(p)
  BY <1>26, DataKept DEF WriteLoad, Load, waitVars, devVars, ProcsOK, QueuesOK
<1>27. CASE WriteCheck(p)
  BY <1>27, DataKept DEF WriteCheck, Forget, waitVars, devVars, ProcsOK, QueuesOK
<1>28. CASE WriteSleep(p)
  BY <1>28, DataKept DEF WriteSleep, Stay, waitVars, devVars, ProcsOK, QueuesOK
<1>29. CASE WriteFinishWait(p)
  BY <1>29, DataKept DEF WriteFinishWait, FinishWait, Return, Stay, waitVars, devVars, ProcsOK, QueuesOK
<1>30. CASE WriteCopy(p)
  BY <1>30 DEF WriteCopy, Stay, Goto, waitVars, devVars, ProcsOK, QueuesOK, DataInv, WakePending
<1>31. CASE WriteWrap(p)
  BY <1>31 DEF WriteWrap, Stay, Goto, waitVars, devVars, ProcsOK, QueuesOK, DataInv, WakePending
<1>32. CASE WriteWake(p)
  BY <1>32 DEF WriteWake, Woken, Remaining, Stay, Goto, waitVars, devVars, ProcsOK, QueuesOK, DataInv, WakePending
<1>33. CASE WriteAsync(p)
  BY <1>33, DataKept DEF WriteAsync, Woken, waitVars, devVars, ProcsOK, QueuesOK
<1>34. CASE PollDown(p)
  BY <1>34, DataKept DEF PollDown, Down, Stay, waitVars, devVars, ProcsOK, QueuesOK
<1>35. CASE PollScan(p)
  <2>1. CASE FinishWait(p) /\ Return(p, "idle")
    BY <1>35, <2>1, DataKept DEF PollScan, FinishWait, Return, devVars, ProcsOK, QueuesOK
  <2>2. CASE /\ arg[p] \notin PollMask
             /\ inq' = inq \cup {p} /\ Stay(p, "poll_sleep") /\ UNCHANGED task
    <3>1. arg[p] = POLLIN => rp = wp
      BY <2>2 DEF PollMask
    <3>2. WakePending => WakePending'
      BY <1>35, <2>2 DEF PollScan, Stay, Goto, ProcsOK, WakePending
    <3> QED BY <1>35, <2>2, <3>1, <3>2
            DEF PollScan, Stay, Goto, devVars, ProcsOK, QueuesOK, DataInv
  <2> QED BY <1>35, <2>1, <2>2 DEF PollScan
<1>36. CASE PollSleep(p)
  BY <1>36, DataKept DEF PollSleep, Stay, waitVars, devVars, ProcsOK, QueuesOK
<1>37. CASE Signal(p)
  BY <1>37 DEF Signal, waitVars, devVars, ProcsOK, QueuesOK, DataInv, WakePending
<1> QED BY <1>1, <1>2, <1>3, <1>4, <1>5, <1>6, <1>7, <1>8, <1>9, <1>10, <1>11, <1>12, <1>13, <1>14, <1>15, <1>16, <1>17, <1>18, <1>19, <1>20, <1>21, <1>22, <1>23, <1>24, <1>25, <1>26, <1>27, <1>28, <1>29, <1>30, <1>31, <1>32, <1>33, <1>34, <1>35, <1>36, <1>37 DEF UserCall, Driver

\* The inductive invariant.
IInv == Core /\ QueuedOnlyWhileWaiting /\ DataInv

\* The inductive invariant holds in every reachable state of the driver.
THEOREM Invariance == Spec => []IInv
<1>1. Init => IInv
  BY CoreInit DEF Init, IInv, QueuedOnlyWhileWaiting, DataInv
<1>2. IInv /\ Next => IInv'
  BY CoreStep, QueuedStep, DataStep DEF IInv
<1>3. IInv /\ UNCHANGED vars => IInv'
  BY DEF IInv, Core, TypeOK, DeviceOK, QueuesOK, ProcsOK, MutualExclusion, RingInv,
         QueuedOnlyWhileWaiting, DataInv, WakePending, vars, devVars, cntVars, waitVars
<1> QED BY <1>1, <1>2, <1>3, PTL DEF Spec

\* For every buffer size and every set of processes, rp and wp stay inside the buffer
\* (or at its end, before they wrap) and all variables keep their types.
THEOREM TypeCorrect == Spec => []TypeOK
<1>1. IInv => TypeOK
  BY DEF IInv, Core
<1> QED BY <1>1, Invariance, PTL

\* At most one process is between down() and up() of dev->sem in scull_pipe.c, on
\* every path, error returns included, and the semaphore is free when none is.
THEOREM SemaphoreExcludes == Spec => []MutualExclusion
<1>1. IInv => MutualExclusion
  BY DEF IInv, Core
<1> QED BY <1>1, Invariance, PTL

\* No operation of scull_pipe.c returns with its wait entry on dev->inq or dev->outq.
THEOREM QueuesAreClean == Spec => []QueuedOnlyWhileWaiting
<1>1. IInv => QueuedOnlyWhileWaiting
  BY DEF IInv
<1> QED BY <1>1, Invariance, PTL

\* scull_p_read() and scull_p_poll(): nobody sleeps for data while there is some,
\* unless a writer has yet to wake dev->inq.
THEOREM NoReaderIsStranded == Spec => []NoLostDataWakeup
<1>1. IInv => NoLostDataWakeup
  BY DEF IInv, DataInv, WakePending, NoLostDataWakeup, WaitsForData, Asleep
<1> QED BY <1>1, Invariance, PTL

-----------------------------------------------------------------------------
(* Sleeping writers.  The theorem is about users who do not open the device   *)
(* while another one is inside write() or poll(): an open() empties the pipe  *)
(* without a wake-up.                                                         *)

\* Nobody opens the device while another process writes or polls.
OpenApart == \A p, q \in Procs : ~(Opening(p) /\ Writing(q))

\* The program points of open(), and of write() and poll().
OpenPoints == {"open_down", "open_cs"}
WritePoints == Polling \cup
  {"wr_down", "wr_test", "wr_prep", "wr_load", "wr_check", "wr_sleep", "wr_finish",
   "wr_wrap", "wr_wake", "wr_async"}

\* Some read() has made room and not yet called wake_up_interruptible().
SpacePending == \E q \in Procs : pc[q] \in {"rd_wrap", "rd_wake"}

\* What makes the unlocked spacefree() safe, for each writer that may fall asleep: it
\* is on dev->outq before it loads rp, what it loaded is still rp when it compares it
\* with wp, and after that the pipe is full, or else the wake-up is still to come.
SpaceInv ==
  \A p \in Procs : task[p] = "INTERRUPTIBLE" =>
    /\ pc[p] \in {"wr_load", "wr_check", "wr_sleep", "poll_sleep"} => p \in outq
    /\ pc[p] = "wr_check" => seen[p] = rp \/ SpacePending
    /\ \/ pc[p] = "wr_sleep"
       \/ pc[p] = "poll_sleep" /\ arg[p] = POLLOUT
       => spacefree(rp, wp) = 0 \/ SpacePending

\* Wrapping wp around does not make a full pipe look otherwise.
LEMMA WrapKeepsFull ==
  ASSUME NEW r \in Cells, spacefree(r, BufferSize) = 0
  PROVE  spacefree(r, 0) = 0
<1>1. r # BufferSize /\ r % BufferSize = r
  BY ModBelow, SizeAssumption DEF Cells
<1>2. spacefree(r, BufferSize) = r - 1
  BY <1>1, SizeAssumption DEF spacefree, Cells
<1> QED BY <1>1, <1>2, SpacefreeValue, SizeAssumption DEF Cells

\* A step of p that moves no pointer, puts nobody else to sleep and takes nobody else
\* off dev->outq keeps SpaceInv, unless p was about to wake the writers.
LEMMA SpaceKept ==
  ASSUME ProcsOK, QueuesOK, SpaceInv, NEW p \in Procs, NEW l, Goto(p, l),
         l \notin {"wr_load", "wr_check", "wr_sleep", "poll_sleep"},
         pc[p] \notin {"rd_wrap", "rd_wake"},
         rp' = rp, wp' = wp,
         \A q \in Procs \ {p} :
           /\ task'[q] \in {task[q], "RUNNING"}
           /\ q \in outq => q \in outq'
           /\ arg'[q] = arg[q] /\ seen'[q] = seen[q]
  PROVE  SpaceInv'
<1>1. SpacePending => SpacePending'
  BY DEF SpacePending, Goto, ProcsOK
<1>2. spacefree(rp, wp)' = spacefree(rp, wp)
  OBVIOUS
<1> QED BY <1>1, <1>2 DEF SpaceInv, Goto, ProcsOK, QueuesOK

\* A step of p that does not newly enter open(), write() or poll() keeps them apart.
LEMMA ApartKept ==
  ASSUME ProcsOK, OpenApart, NEW p \in Procs, NEW l, Goto(p, l),
         l \in OpenPoints => pc[p] \in OpenPoints,
         l \in WritePoints => pc[p] \in WritePoints
  PROVE  OpenApart'
  BY DEF OpenApart, OpenPoints, WritePoints, Opening, Writing, Goto, ProcsOK

\* scull_p_open() is kept apart from write() and poll() by every step.
LEMMA ApartStep == Core /\ ~OpenDuringWrite /\ OpenApart /\ Next => OpenApart'
<1> SUFFICES ASSUME Core, ~OpenDuringWrite, OpenApart, NEW p \in Procs,
                    UserCall(p) \/ Driver(p) \/ Signal(p)
             PROVE  OpenApart'
  BY DEF Next
<1> USE DEF Core, TypeOK
<1>1. CASE OpenCall(p)
  BY <1>1 DEF OpenCall, Stay, Goto, ProcsOK, OpenApart, Opening, Writing, Polling
<1>2. CASE ReleaseCall(p)
  BY <1>2, ApartKept DEF ReleaseCall, Stay, OpenPoints, WritePoints, Polling
<1>3. CASE Fasync(p)
  BY <1>3 DEF Fasync, OpenApart, Opening, Writing, Polling
<1>4. CASE ReadCall(p)
  BY <1>4, ApartKept DEF ReadCall, Call, OpenPoints, WritePoints, Polling
<1>5. CASE WriteCall(p)
  BY <1>5 DEF WriteCall, Call, Goto, ProcsOK, OpenApart, Opening, Writing, Polling
<1>6. CASE PollCall(p)
  BY <1>6 DEF PollCall, Call, Goto, ProcsOK, OpenApart, Opening, Writing, Polling
<1>7. CASE OpenDown(p)
  BY <1>7, ApartKept DEF OpenDown, Down, DownInterrupted, Return, Stay, OpenPoints, WritePoints, Polling
<1>8. CASE OpenNoMem(p)
  BY <1>8, ApartKept DEF OpenNoMem, Return, OpenPoints, WritePoints, Polling
<1>9. CASE OpenBody(p)
  BY <1>9, ApartKept DEF OpenBody, Return, OpenPoints, WritePoints, Polling
<1>10. CASE ReleaseDown(p)
  BY <1>10, ApartKept DEF ReleaseDown, Down, Stay, OpenPoints, WritePoints, Polling
<1>11. CASE ReleaseBody(p)
  BY <1>11, ApartKept DEF ReleaseBody, Return, OpenPoints, WritePoints, Polling
<1>12. CASE ReadDown(p)
  BY <1>12, ApartKept DEF ReadDown, Down, DownInterrupted, Return, Stay, OpenPoints, WritePoints, Polling
<1>13. CASE ReadEmpty(p)
  BY <1>13, ApartKept DEF ReadEmpty, Return, Stay, OpenPoints, WritePoints, Polling
<1>14. CASE ReadCopy(p)
  BY <1>14, ApartKept DEF ReadCopy, OpenPoints, WritePoints, Polling
<1>15. CASE CopyFault(p)
  BY <1>15, ApartKept DEF CopyFault, Return, OpenPoints, WritePoints, Polling
<1>16. CASE ReadWrap(p)
  BY <1>16, ApartKept DEF ReadWrap, Stay, OpenPoints, WritePoints, Polling
<1>17. CASE ReadWake(p)
  BY <1>17, ApartKept DEF ReadWake, Woken, Remaining, Return, OpenPoints, WritePoints, Polling
<1>18. CASE ReadWaitLoad(p)
  BY <1>18, ApartKept DEF ReadWaitLoad, Load, OpenPoints, WritePoints, Polling
<1>19. CASE ReadWaitCond(p)
  BY <1>19, ApartKept DEF ReadWaitCond, Forget, OpenPoints, WritePoints, Polling
<1>20. CASE ReadPrepare(p)
  BY <1>20, ApartKept DEF ReadPrepare, Stay, OpenPoints, WritePoints, Polling
<1>21. CASE ReadWaitCheck(p)
  BY <1>21, ApartKept DEF ReadWaitCheck, FinishWait, Return, Forget, OpenPoints, WritePoints, Polling
<1>22. CASE ReadSleep(p)
  BY <1>22, ApartKept DEF ReadSleep, Stay, OpenPoints, WritePoints, Polling
<1>23. CASE WriteDown(p)
  BY <1>23, ApartKept DEF WriteDown, Down, DownInterrupted, Return, Stay, OpenPoints, WritePoints, Polling
<1>24. CASE WriteFull(p)
  BY <1>24, ApartKept DEF WriteFull, Return, Stay, OpenPoints, WritePoints, Polling
<1>25. CASE WritePrepare(p)
  BY <1>25, ApartKept DEF WritePrepare, Stay, OpenPoints, WritePoints, Polling
<1>26. CASE WriteLoad(p)
  BY <1>26, ApartKept DEF WriteLoad, Load, OpenPoints, WritePoints, Polling
<1>27. CASE WriteCheck(p)
  BY <1>27, ApartKept DEF WriteCheck, Forget, OpenPoints, WritePoints, Polling
<1>28. CASE WriteSleep(p)
  BY <1>28, ApartKept DEF WriteSleep, Stay, OpenPoints, WritePoints, Polling
<1>29. CASE WriteFinishWait(p)
  BY <1>29, ApartKept DEF WriteFinishWait, FinishWait, Return, Stay, OpenPoints, WritePoints, Polling
<1>30. CASE WriteCopy(p)
  BY <1>30, ApartKept DEF WriteCopy, Stay, OpenPoints, WritePoints, Polling
<1>31. CASE WriteWrap(p)
  BY <1>31, ApartKept DEF WriteWrap, Stay, OpenPoints, WritePoints, Polling
<1>32. CASE WriteWake(p)
  BY <1>32, ApartKept DEF WriteWake, Woken, Remaining, Stay, OpenPoints, WritePoints, Polling
<1>33. CASE WriteAsync(p)
  BY <1>33, ApartKept DEF WriteAsync, Woken, OpenPoints, WritePoints, Polling
<1>34. CASE PollDown(p)
  BY <1>34, ApartKept DEF PollDown, Down, Stay, OpenPoints, WritePoints, Polling
<1>35. CASE PollScan(p)
  BY <1>35, ApartKept DEF PollScan, FinishWait, Return, Stay, OpenPoints, WritePoints, Polling
<1>36. CASE PollSleep(p)
  BY <1>36, ApartKept DEF PollSleep, Stay, OpenPoints, WritePoints, Polling
<1>37. CASE Signal(p)
  BY <1>37 DEF Signal, ProcsOK, OpenApart, Opening, Writing, Polling
<1> QED BY <1>1, <1>2, <1>3, <1>4, <1>5, <1>6, <1>7, <1>8, <1>9, <1>10, <1>11, <1>12, <1>13, <1>14, <1>15, <1>16, <1>17, <1>18, <1>19, <1>20, <1>21, <1>22, <1>23, <1>24, <1>25, <1>26, <1>27, <1>28, <1>29, <1>30, <1>31, <1>32, <1>33, <1>34, <1>35, <1>36, <1>37 DEF UserCall, Driver

\* Readers make room before they wake the writers, and a writer is on the queue before
\* it looks: every step keeps SpaceInv.
LEMMA SpaceStep == Core /\ SpaceInv /\ OpenApart /\ Next => SpaceInv'
<1> SUFFICES ASSUME Core, SpaceInv, OpenApart, NEW p \in Procs,
                    UserCall(p) \/ Driver(p) \/ Signal(p)
             PROVE  SpaceInv'
  BY DEF Next
<1> USE DEF Core, TypeOK
<1>1. CASE OpenCall(p)
  BY <1>1, SpaceKept DEF OpenCall, Stay, waitVars, devVars, ProcsOK, QueuesOK
<1>2. CASE ReleaseCall(p)
  BY <1>2, SpaceKept DEF ReleaseCall, Stay, waitVars, devVars, ProcsOK, QueuesOK
<1>3. CASE Fasync(p)
  BY <1>3 DEF Fasync, waitVars, devVars, ProcsOK, QueuesOK, SpaceInv, SpacePending
<1>4. CASE ReadCall(p)
  BY <1>4, SpaceKept DEF ReadCall, Call, waitVars, devVars, ProcsOK, QueuesOK
<1>5. CASE WriteCall(p)
  BY <1>5, SpaceKept DEF WriteCall, Call, waitVars, devVars, ProcsOK, QueuesOK
<1>6. CASE PollCall(p)
  BY <1>6, SpaceKept DEF PollCall, Call, waitVars, devVars, ProcsOK, QueuesOK
<1>7. CASE OpenDown(p)
  BY <1>7, SpaceKept DEF OpenDown, Down, DownInterrupted, Return, Stay, waitVars, devVars, ProcsOK, QueuesOK
<1>8. CASE OpenNoMem(p)
  BY <1>8, SpaceKept DEF OpenNoMem, Return, waitVars, devVars, ProcsOK, QueuesOK
<1>9. CASE OpenBody(p)
  <2>1. \A q \in Procs : ~Writing(q)
    BY <1>9 DEF OpenBody, Opening, OpenApart
  <2> QED BY <1>9, <2>1 DEF OpenBody, Return, Goto, waitVars, devVars, ProcsOK, QueuesOK, SpaceInv, Writing, Polling
<1>10. CASE ReleaseDown(p)
  BY <1>10, SpaceKept DEF ReleaseDown, Down, Stay, waitVars, devVars, ProcsOK, QueuesOK
<1>11. CASE ReleaseBody(p)
  BY <1>11, SpaceKept DEF ReleaseBody, Return, waitVars, devVars, ProcsOK, QueuesOK
<1>12. CASE ReadDown(p)
  BY <1>12, SpaceKept DEF ReadDown, Down, DownInterrupted, Return, Stay, waitVars, devVars, ProcsOK, QueuesOK
<1>13. CASE ReadEmpty(p)
  BY <1>13, SpaceKept DEF ReadEmpty, Return, Stay, waitVars, devVars, ProcsOK, QueuesOK
<1>14. CASE ReadCopy(p)
  <2>1. SpacePending'
    BY <1>14 DEF ReadCopy, Goto, ProcsOK, SpacePending
  <2> QED BY <1>14, <2>1 DEF ReadCopy, Goto, waitVars, devVars, ProcsOK, QueuesOK, SpaceInv
<1>15. CASE CopyFault(p)
  BY <1>15, SpaceKept DEF CopyFault, Return, waitVars, devVars, ProcsOK, QueuesOK
<1>16. CASE ReadWrap(p)
  <2>1. SpacePending'
    BY <1>16 DEF ReadWrap, Stay, Goto, ProcsOK, SpacePending
  <2> QED BY <1>16, <2>1 DEF ReadWrap, Stay, Goto, waitVars, ProcsOK, QueuesOK, SpaceInv
<1>17. CASE ReadWake(p)
  BY <1>17 DEF ReadWake, Woken, Remaining, Return, Goto, waitVars, devVars, ProcsOK, QueuesOK, SpaceInv, SpacePending
<1>18. CASE ReadWaitLoad(p)
  BY <1>18, SpaceKept DEF ReadWaitLoad, Load, waitVars, devVars, ProcsOK, QueuesOK
<1>19. CASE ReadWaitCond(p)
  BY <1>19, SpaceKept DEF ReadWaitCond, Forget, waitVars, devVars, ProcsOK, QueuesOK
<1>20. CASE ReadPrepare(p)
  BY <1>20, SpaceKept DEF ReadPrepare, Stay, waitVars, devVars, ProcsOK, QueuesOK
<1>21. CASE ReadWaitCheck(p)
  BY <1>21, SpaceKept DEF ReadWaitCheck, FinishWait, Return, Forget, waitVars, devVars, ProcsOK, QueuesOK
<1>22. CASE ReadSleep(p)
  BY <1>22, SpaceKept DEF ReadSleep, Stay, waitVars, devVars, ProcsOK, QueuesOK
<1>23. CASE WriteDown(p)
  BY <1>23, SpaceKept DEF WriteDown, Down, DownInterrupted, Return, Stay, waitVars, devVars, ProcsOK, QueuesOK
<1>24. CASE WriteFull(p)
  BY <1>24, SpaceKept DEF WriteFull, Return, Stay, waitVars, devVars, ProcsOK, QueuesOK
<1>25. CASE WritePrepare(p)
  BY <1>25 DEF WritePrepare, Stay, Goto, waitVars, devVars, ProcsOK, QueuesOK, SpaceInv, SpacePending
<1>26. CASE WriteLoad(p)
  <2>1. SpacePending => SpacePending'
    BY <1>26 DEF WriteLoad, Load, Goto, ProcsOK, SpacePending
  <2>2. seen'[p] = rp /\ \A q \in Procs \ {p} : seen'[q] = seen[q]
    BY <1>26 DEF WriteLoad, Load, ProcsOK
  <2> QED BY <1>26, <2>1, <2>2 DEF WriteLoad, Load, Goto, waitVars, devVars, ProcsOK, QueuesOK, SpaceInv
<1>27. CASE WriteCheck(p)
  <2>1. SpacePending => SpacePending'
    BY <1>27 DEF WriteCheck, Forget, Goto, ProcsOK, SpacePending
  <2>2. CASE spacefree(seen[p], wp) = 0
    <3>1. UNCHANGED <<rp, wp, outq, task, arg>> /\ Goto(p, "wr_sleep")
      BY <1>27, <2>2 DEF WriteCheck, Forget, waitVars, devVars
    <3>2. \A q \in Procs \ {p} : seen'[q] = seen[q]
      BY <1>27 DEF WriteCheck, Forget, ProcsOK
    <3>3. spacefree(rp, wp)' = spacefree(rp, wp)
      BY <3>1
    <3>4. task[p] = "INTERRUPTIBLE" => p \in outq /\ (seen[p] = rp \/ SpacePending)
      BY <1>27 DEF WriteCheck, SpaceInv
    <3> QED BY <2>1, <2>2, <3>1, <3>2, <3>3, <3>4 DEF Goto, ProcsOK, QueuesOK, SpaceInv
  <2>3. CASE spacefree(seen[p], wp) # 0
    BY <1>27, <2>3, SpaceKept DEF WriteCheck, Forget, waitVars, devVars, ProcsOK, QueuesOK
  <2> QED BY <2>2, <2>3
<1>28. CASE WriteSleep(p)
  BY <1>28, SpaceKept DEF WriteSleep, Stay, waitVars, devVars, ProcsOK, QueuesOK
<1>29. CASE WriteFinishWait(p)
  BY <1>29, SpaceKept DEF WriteFinishWait, FinishWait, Return, Stay, waitVars, devVars, ProcsOK, QueuesOK
<1>30. CASE WriteCopy(p)
  <2>1. SpacePending => SpacePending'
    BY <1>30 DEF WriteCopy, Stay, Goto, ProcsOK, SpacePending
  <2>2. spacefree(rp, wp) # 0
    BY <1>30 DEF WriteCopy
  <2> QED BY <1>30, <2>1, <2>2 DEF WriteCopy, Stay, Goto, waitVars, ProcsOK, QueuesOK, SpaceInv
<1>31. CASE WriteWrap(p)
  <2>1. SpacePending => SpacePending'
    BY <1>31 DEF WriteWrap, Stay, Goto, ProcsOK, SpacePending
  <2>2. rp # BufferSize
    BY <1>31, HolderAlone DEF WriteWrap, RingInv, Locked
  <2>3. spacefree(rp, wp) = 0 => spacefree(rp, wp)' = 0
    BY <1>31, <2>2, WrapKeepsFull DEF WriteWrap, DeviceOK, Cells
  <2> QED BY <1>31, <2>1, <2>3 DEF WriteWrap, Stay, Goto, waitVars, ProcsOK, QueuesOK, SpaceInv
<1>32. CASE WriteWake(p)
  BY <1>32, SpaceKept DEF WriteWake, Woken, Remaining, Stay, waitVars, devVars, ProcsOK, QueuesOK
<1>33. CASE WriteAsync(p)
  BY <1>33, SpaceKept DEF WriteAsync, Woken, waitVars, devVars, ProcsOK, QueuesOK
<1>34. CASE PollDown(p)
  BY <1>34, SpaceKept DEF PollDown, Down, Stay, waitVars, devVars, ProcsOK, QueuesOK
<1>35. CASE PollScan(p)
  <2>1. CASE FinishWait(p) /\ Return(p, "idle")
    BY <1>35, <2>1, SpaceKept DEF PollScan, FinishWait, Return, devVars, ProcsOK, QueuesOK
  <2>2. CASE /\ arg[p] \notin PollMask
             /\ outq' = outq \cup {p} /\ Stay(p, "poll_sleep") /\ UNCHANGED task
    <3>1. arg[p] = POLLOUT => spacefree(rp, wp) = 0
      BY <2>2 DEF PollMask
    <3>2. SpacePending => SpacePending'
      BY <1>35, <2>2 DEF PollScan, Stay, Goto, ProcsOK, SpacePending
    <3>3. spacefree(rp, wp)' = spacefree(rp, wp)
      BY <1>35 DEF PollScan, devVars
    <3> QED BY <1>35, <2>2, <3>1, <3>2, <3>3
            DEF PollScan, Stay, Goto, devVars, ProcsOK, QueuesOK, SpaceInv
  <2> QED BY <1>35, <2>1, <2>2 DEF PollScan
<1>36. CASE PollSleep(p)
  BY <1>36, SpaceKept DEF PollSleep, Stay, waitVars, devVars, ProcsOK, QueuesOK
<1>37. CASE Signal(p)
  BY <1>37 DEF Signal, waitVars, devVars, ProcsOK, QueuesOK, SpaceInv, SpacePending
<1> QED BY <1>1, <1>2, <1>3, <1>4, <1>5, <1>6, <1>7, <1>8, <1>9, <1>10, <1>11, <1>12, <1>13, <1>14, <1>15, <1>16, <1>17, <1>18, <1>19, <1>20, <1>21, <1>22, <1>23, <1>24, <1>25, <1>26, <1>27, <1>28, <1>29, <1>30, <1>31, <1>32, <1>33, <1>34, <1>35, <1>36, <1>37 DEF UserCall, Driver

\* scull_p_write(), scull_getwritespace() and scull_p_poll(), as long as nobody opens the
\* device meanwhile: no process sleeps for space while there is some, unless a reader
\* has yet to wake dev->outq.
THEOREM NoWriterIsStranded == ~OpenDuringWrite /\ Spec => []NoLostSpaceWakeup
<1> SUFFICES ASSUME ~OpenDuringWrite PROVE Spec => []NoLostSpaceWakeup
  OBVIOUS
<1>1. Init => OpenApart /\ SpaceInv
  BY DEF Init, OpenApart, Opening, SpaceInv
<1>2. Core /\ OpenApart /\ SpaceInv /\ Next => OpenApart' /\ SpaceInv'
  BY ApartStep, SpaceStep
<1>3. OpenApart /\ SpaceInv /\ UNCHANGED vars => OpenApart' /\ SpaceInv'
  <2> SUFFICES ASSUME OpenApart, SpaceInv, UNCHANGED vars PROVE OpenApart' /\ SpaceInv'
    OBVIOUS
  <2>1. UNCHANGED <<pc, rp, wp, outq, task, arg, seen>>
    BY DEF vars, devVars, waitVars
  <2> QED BY <2>1 DEF OpenApart, Opening, Writing, SpaceInv, SpacePending, spacefree
<1>4. IInv => Core
  BY DEF IInv
<1>5. SpaceInv => NoLostSpaceWakeup
  BY DEF SpaceInv, SpacePending, NoLostSpaceWakeup, WaitsForSpace, Asleep
<1> QED BY <1>1, <1>2, <1>3, <1>4, <1>5, Invariance, PTL DEF Spec
-----------------------------------------------------------------------------
(* The life of the buffer, and what passes through it. *)

\* Program points of a process that has not opened the device ...
Closed == {"closed", "open_down", "open_cs"}

\* ... and of one that is not, or no longer, able to register for SIGIO.
Leaving == Closed \cup {"rel_down", "rel_cs"}

\* A step of p that neither opens, closes nor registers a file.
Quiet(p) ==
  /\ UNCHANGED <<alloc, cntVars, asyncq>>
  /\ devVars' # devVars => pc[p] \in Locked
  /\ \A q \in Procs : /\ (pc'[q] \in Closed <=> pc[q] \in Closed)
                      /\ (pc'[q] \in Leaving <=> pc[q] \in Leaving)

\* A process that stays on one side of both boundaries changes neither set.
LEMMA BoundaryKept ==
  ASSUME ProcsOK, NEW p \in Procs, NEW l, Goto(p, l),
         (pc[p] \in Closed /\ l \in Closed) \/ (pc[p] \notin Leaving /\ l \notin Leaving)
           \/ (pc[p] \in {"rel_down", "rel_cs"} /\ l \in {"rel_down", "rel_cs"})
  PROVE  \A q \in Procs : /\ (pc'[q] \in Closed <=> pc[q] \in Closed)
                          /\ (pc'[q] \in Leaving <=> pc[q] \in Leaving)
  BY DEF ProcsOK, Goto, Closed, Leaving

\* Of all steps of scull_pipe.c, only the body of scull_p_open, scull_p_fasync and
\* the two halves of scull_p_release touch the open files, the counts and the
\* allocation; any other step that moves rp or wp or fills the buffer holds the lock.
LEMMA Footprint ==
  ASSUME Core, NEW p \in Procs, UserCall(p) \/ Driver(p) \/ Signal(p)
  PROVE  OpenBody(p) \/ ReleaseBody(p) \/ ReleaseCall(p) \/ Fasync(p) \/ Quiet(p)
<1> USE DEF Core, TypeOK
<1>1. CASE OpenCall(p)
  BY <1>1, BoundaryKept DEF OpenCall, Stay, Quiet, devVars, cntVars, Closed, Leaving, Locked
<1>2. CASE ReadCall(p)
  BY <1>2, BoundaryKept DEF ReadCall, Call, Quiet, devVars, cntVars, Closed, Leaving, Locked
<1>3. CASE WriteCall(p)
  BY <1>3, BoundaryKept DEF WriteCall, Call, Quiet, devVars, cntVars, Closed, Leaving, Locked
<1>4. CASE PollCall(p)
  BY <1>4, BoundaryKept DEF PollCall, Call, Quiet, devVars, cntVars, Closed, Leaving, Locked
<1>5. CASE OpenDown(p)
  BY <1>5, BoundaryKept DEF OpenDown, Down, DownInterrupted, Return, Stay, Quiet, devVars, cntVars, Closed, Leaving, Locked
<1>6. CASE OpenNoMem(p)
  BY <1>6, BoundaryKept DEF OpenNoMem, Return, Quiet, devVars, cntVars, Closed, Leaving, Locked
<1>7. CASE ReleaseDown(p)
  BY <1>7, BoundaryKept DEF ReleaseDown, Down, Stay, Quiet, devVars, cntVars, Closed, Leaving, Locked
<1>8. CASE ReadDown(p)
  BY <1>8, BoundaryKept DEF ReadDown, Down, DownInterrupted, Return, Stay, Quiet, devVars, cntVars, Closed, Leaving, Locked
<1>9. CASE ReadEmpty(p)
  BY <1>9, BoundaryKept DEF ReadEmpty, Return, Stay, Quiet, devVars, cntVars, Closed, Leaving, Locked
<1>10. CASE ReadCopy(p)
  BY <1>10, BoundaryKept DEF ReadCopy, Quiet, devVars, cntVars, Closed, Leaving, Locked
<1>11. CASE CopyFault(p)
  BY <1>11, BoundaryKept DEF CopyFault, Return, Quiet, devVars, cntVars, Closed, Leaving, Locked
<1>12. CASE ReadWrap(p)
  BY <1>12, BoundaryKept DEF ReadWrap, Stay, Quiet, devVars, cntVars, Closed, Leaving, Locked
<1>13. CASE ReadWake(p)
  BY <1>13, BoundaryKept DEF ReadWake, Return, Quiet, devVars, cntVars, Closed, Leaving, Locked
<1>14. CASE ReadWaitLoad(p)
  BY <1>14, BoundaryKept DEF ReadWaitLoad, Load, Quiet, devVars, cntVars, Closed, Leaving, Locked
<1>15. CASE ReadWaitCond(p)
  BY <1>15, BoundaryKept DEF ReadWaitCond, Forget, Quiet, devVars, cntVars, Closed, Leaving, Locked
<1>16. CASE ReadPrepare(p)
  BY <1>16, BoundaryKept DEF ReadPrepare, Stay, Quiet, devVars, cntVars, Closed, Leaving, Locked
<1>17. CASE ReadWaitCheck(p)
  BY <1>17, BoundaryKept DEF ReadWaitCheck, Return, Forget, Quiet, devVars, cntVars, Closed, Leaving, Locked
<1>18. CASE ReadSleep(p)
  BY <1>18, BoundaryKept DEF ReadSleep, Stay, Quiet, devVars, cntVars, Closed, Leaving, Locked
<1>19. CASE WriteDown(p)
  BY <1>19, BoundaryKept DEF WriteDown, Down, DownInterrupted, Return, Stay, Quiet, devVars, cntVars, Closed, Leaving, Locked
<1>20. CASE WriteFull(p)
  BY <1>20, BoundaryKept DEF WriteFull, Return, Stay, Quiet, devVars, cntVars, Closed, Leaving, Locked
<1>21. CASE WritePrepare(p)
  BY <1>21, BoundaryKept DEF WritePrepare, Stay, Quiet, devVars, cntVars, Closed, Leaving, Locked
<1>22. CASE WriteLoad(p)
  BY <1>22, BoundaryKept DEF WriteLoad, Load, Quiet, devVars, cntVars, Closed, Leaving, Locked
<1>23. CASE WriteCheck(p)
  BY <1>23, BoundaryKept DEF WriteCheck, Forget, Quiet, devVars, cntVars, Closed, Leaving, Locked
<1>24. CASE WriteSleep(p)
  BY <1>24, BoundaryKept DEF WriteSleep, Stay, Quiet, devVars, cntVars, Closed, Leaving, Locked
<1>25. CASE WriteFinishWait(p)
  BY <1>25, BoundaryKept DEF WriteFinishWait, Return, Stay, Quiet, devVars, cntVars, Closed, Leaving, Locked
<1>26. CASE WriteCopy(p)
  BY <1>26, BoundaryKept DEF WriteCopy, Stay, Quiet, devVars, cntVars, Closed, Leaving, Locked
<1>27. CASE WriteWrap(p)
  BY <1>27, BoundaryKept DEF WriteWrap, Stay, Quiet, devVars, cntVars, Closed, Leaving, Locked
<1>28. CASE WriteWake(p)
  BY <1>28, BoundaryKept DEF WriteWake, Stay, Quiet, devVars, cntVars, Closed, Leaving, Locked
<1>29. CASE WriteAsync(p)
  BY <1>29, BoundaryKept DEF WriteAsync, Quiet, devVars, cntVars, Closed, Leaving, Locked
<1>30. CASE PollDown(p)
  BY <1>30, BoundaryKept DEF PollDown, Down, Stay, Quiet, devVars, cntVars, Closed, Leaving, Locked
<1>31. CASE PollScan(p)
  BY <1>31, BoundaryKept DEF PollScan, Return, Stay, Quiet, devVars, cntVars, Closed, Leaving, Locked
<1>32. CASE PollSleep(p)
  BY <1>32, BoundaryKept DEF PollSleep, Stay, Quiet, devVars, cntVars, Closed, Leaving, Locked
<1>33. CASE Signal(p)
  BY <1>33 DEF Signal, Quiet, devVars, cntVars
<1> QED BY <1>1, <1>2, <1>3, <1>4, <1>5, <1>6, <1>7, <1>8, <1>9, <1>10, <1>11, <1>12, <1>13, <1>14, <1>15, <1>16, <1>17, <1>18, <1>19, <1>20, <1>21, <1>22, <1>23, <1>24, <1>25, <1>26, <1>27, <1>28, <1>29, <1>30, <1>31, <1>32, <1>33 DEF UserCall, Driver

-----------------------------------------------------------------------------
(* Files registered for SIGIO *)

AsyncInv == \A q \in asyncq : pc[q] \notin Leaving

\* scull_p_release takes its file off async_queue before anything else, and
\* scull_p_fasync is only called on a file that is open.
LEMMA AsyncStep == Core /\ AsyncInv /\ Next => AsyncInv'
<1> SUFFICES ASSUME Core, AsyncInv, NEW p \in Procs, UserCall(p) \/ Driver(p) \/ Signal(p)
             PROVE  AsyncInv'
  BY DEF Next
<1> USE DEF Core, TypeOK, ProcsOK, QueuesOK
<1>1. CASE OpenBody(p)
  BY <1>1 DEF OpenBody, Return, Goto, AsyncInv, Leaving, Closed
<1>2. CASE ReleaseBody(p)
  BY <1>2 DEF ReleaseBody, Return, Goto, AsyncInv, Leaving, Closed
<1>3. CASE ReleaseCall(p)
  BY <1>3 DEF ReleaseCall, Stay, Goto, AsyncInv, Leaving, Closed
<1>4. CASE Fasync(p)
  BY <1>4 DEF Fasync, AsyncInv, Leaving, Closed
<1>5. CASE Quiet(p)
  BY <1>5 DEF Quiet, AsyncInv
<1> QED BY <1>1, <1>2, <1>3, <1>4, <1>5, Footprint

-----------------------------------------------------------------------------
(* The counts of readers and writers *)

Users(S) == {q \in S : pc[q] \notin Closed}

CountInv ==
  /\ nreaders = Cardinality(Users(Readers))
  /\ nwriters = Cardinality(Users(Writers))
  /\ (alloc <=> Users(Procs) # {})

\* The set of open files of a kind is finite: its size is a natural number that is
\* 0 only when it is empty.
LEMMA UsersFinite ==
  ASSUME NEW S \in SUBSET Procs
  PROVE  /\ IsFiniteSet(Users(S)) /\ Cardinality(Users(S)) \in Nat
         /\ (Cardinality(Users(S)) = 0 <=> Users(S) = {})
<1>1. IsFiniteSet(Users(S))
  BY FS_Subset, ProcsAssumption DEF Users
<1> QED BY <1>1, FS_CardinalityType, FS_EmptySet

\* The counting in scull_p_open: one more open file of each kind p belongs to.
LEMMA UsersGrow ==
  ASSUME ProcsOK, NEW S \in SUBSET Procs, NEW p \in Procs,
         pc[p] \in Closed, Goto(p, "idle")
  PROVE  Cardinality(Users(S)') =
           IF p \in S THEN Cardinality(Users(S)) + 1 ELSE Cardinality(Users(S))
<1>1. Users(S)' = IF p \in S THEN Users(S) \cup {p} ELSE Users(S)
  BY DEF ProcsOK, Goto, Users, Closed
<1>2. p \notin Users(S)
  BY DEF Users
<1>3. Cardinality(Users(S) \cup {p}) = Cardinality(Users(S)) + 1
  BY <1>2, UsersFinite, FS_AddElement
<1> QED BY <1>1, <1>3

\* The counting in scull_p_release: one fewer.
LEMMA UsersShrink ==
  ASSUME ProcsOK, NEW S \in SUBSET Procs, NEW p \in Procs,
         pc[p] \notin Closed, Goto(p, "closed")
  PROVE  Cardinality(Users(S)') =
           IF p \in S THEN Cardinality(Users(S)) - 1 ELSE Cardinality(Users(S))
<1>1. Users(S)' = IF p \in S THEN Users(S) \ {p} ELSE Users(S)
  BY DEF ProcsOK, Goto, Users, Closed
<1>2. p \in S => p \in Users(S)
  BY DEF Users
<1>3. ASSUME p \in S PROVE Cardinality(Users(S) \ {p}) = Cardinality(Users(S)) - 1
  BY <1>2, <1>3, UsersFinite, FS_RemoveElement
<1> QED BY <1>1, <1>3

\* nreaders and nwriters count the open files, so the buffer goes with the last.
LEMMA CountStep == Core /\ CountInv /\ Next => CountInv'
<1> SUFFICES ASSUME Core, CountInv, NEW p \in Procs, UserCall(p) \/ Driver(p) \/ Signal(p)
             PROVE  CountInv'
  BY DEF Next
<1>0. ProcsOK /\ Readers \in SUBSET Procs /\ Writers \in SUBSET Procs
  BY ProcsAssumption DEF Core, TypeOK
<1>1. CASE OpenBody(p)
  <2>1. pc[p] \in Closed /\ Goto(p, "idle")
    BY <1>1 DEF OpenBody, Return, Closed
  <2>2. nreaders' = Cardinality(Users(Readers)') /\ nwriters' = Cardinality(Users(Writers)')
    BY <1>0, <1>1, <2>1, UsersGrow DEF OpenBody, CountInv
  <2>3. p \in Users(Procs)'
    BY <1>0, <2>1 DEF Goto, ProcsOK, Users, Closed
  <2> QED BY <1>1, <2>2, <2>3 DEF OpenBody, CountInv
<1>2. CASE ReleaseBody(p)
  <2>1. pc[p] \notin Closed /\ Goto(p, "closed")
    BY <1>2 DEF ReleaseBody, Return, Closed
  <2>2. nreaders' = Cardinality(Users(Readers)') /\ nwriters' = Cardinality(Users(Writers)')
    BY <1>0, <1>2, <2>1, UsersShrink DEF ReleaseBody, CountInv
  <2>3. nreaders' + nwriters' = 0 <=> Users(Readers)' = {} /\ Users(Writers)' = {}
    <3>1. \A S \in SUBSET Procs : /\ IsFiniteSet(Users(S)') /\ Cardinality(Users(S)') \in Nat
                                  /\ (Cardinality(Users(S)') = 0 <=> Users(S)' = {})
      <4>1. \A S \in SUBSET Procs : IsFiniteSet(Users(S)')
        BY FS_Subset, ProcsAssumption DEF Users
      <4> QED BY <4>1, FS_CardinalityType, FS_EmptySet
    <3> QED BY <1>0, <2>2, <3>1
  <2>4. Users(Procs)' = Users(Readers)' \cup Users(Writers)'
    BY ProcsAssumption DEF Users
  <2>5. p \in Users(Procs)
    BY <2>1 DEF Users
  <2>6. alloc' <=> nreaders' + nwriters' # 0
    BY <1>2, <2>5 DEF ReleaseBody, CountInv
  <2> QED BY <2>2, <2>3, <2>4, <2>6 DEF CountInv
<1>3. CASE ReleaseCall(p)
  <2>1. \A q \in Procs : pc'[q] \in Closed <=> pc[q] \in Closed
    BY <1>0, <1>3 DEF ReleaseCall, Stay, Goto, ProcsOK, Closed
  <2>2. \A S \in SUBSET Procs : Users(S)' = Users(S)
    BY <2>1 DEF Users
  <2> QED BY <1>0, <1>3, <2>2 DEF ReleaseCall, devVars, cntVars, CountInv
<1>4. CASE Fasync(p)
  BY <1>4 DEF Fasync, devVars, cntVars, CountInv, Users
<1>5. CASE Quiet(p)
  <2>1. \A S \in SUBSET Procs : Users(S)' = Users(S)
    BY <1>5 DEF Quiet, Users
  <2> QED BY <1>0, <1>5, <2>1 DEF Quiet, cntVars, CountInv
<1> QED BY <1>1, <1>2, <1>3, <1>4, <1>5, Footprint

-----------------------------------------------------------------------------
(* The theorems *)

LifeInv == AsyncInv /\ CountInv

\* Both invariants hold in every state.
THEOREM Lifetime == Spec => []LifeInv
<1>1. Init => LifeInv
  <2>1. SUFFICES ASSUME Init PROVE LifeInv
    OBVIOUS
  <2>2. \A S \in SUBSET Procs : Users(S) = {}
    BY <2>1 DEF Init, Users, Closed
  <2>3. Cardinality({}) = 0
    BY FS_EmptySet
  <2>4. CountInv
    BY <2>1, <2>2, <2>3, ProcsAssumption DEF Init, CountInv
  <2> QED BY <2>1, <2>4 DEF Init, LifeInv, AsyncInv
<1>2. Core /\ LifeInv /\ Next => LifeInv'
  BY AsyncStep, CountStep DEF LifeInv
<1>3. LifeInv /\ UNCHANGED vars => LifeInv'
  BY DEF LifeInv, AsyncInv, CountInv, Users, vars, devVars, cntVars
<1>4. IInv => Core
  BY DEF IInv
<1> QED BY <1>1, <1>2, <1>3, <1>4, Invariance, PTL DEF Spec

\* scull_p_open and scull_p_release: for any number of readers and writers, the
\* buffer exists exactly while some process has the device open.
THEOREM BufferLifetime == Spec => []BufferLivesWhileOpen
<1>1. LifeInv => BufferLivesWhileOpen
  BY DEF LifeInv, CountInv, Users, Closed, BufferLivesWhileOpen, IsOpen
<1> QED BY <1>1, Lifetime, PTL

\* scull_p_release and scull_p_fasync: kill_fasync() only ever signals open files.
THEOREM AsyncListIsOpen == Spec => []AsyncOnlyOpen
<1>1. LifeInv => AsyncOnlyOpen
  BY DEF LifeInv, AsyncInv, Leaving, Closed, AsyncOnlyOpen, IsOpen
<1> QED BY <1>1, Lifetime, PTL

\* Every path through the driver: the buffer, rp and wp change only under dev->sem.
THEOREM OnlyHolderChanges == Spec => ChangedUnderLock
<1>1. Core /\ [Next]_vars => (devVars' # devVars => sem = 0)
  <2> SUFFICES ASSUME Core, NEW p \in Procs, UserCall(p) \/ Driver(p) \/ Signal(p),
                      devVars' # devVars
               PROVE  sem = 0
    BY DEF Next, vars
  <2>1. pc[p] \in Locked
    BY Footprint DEF OpenBody, ReleaseBody, ReleaseCall, Fasync, Quiet, Locked
  <2> QED BY <2>1 DEF Core, MutualExclusion
<1>2. IInv => Core
  BY DEF IInv
<1> QED BY <1>1, <1>2, Invariance, PTL DEF Spec, ChangedUnderLock

-----------------------------------------------------------------------------
(* The driver implements PipeFifo.  First what the pointer arithmetic does to *)
(* the bytes in the ring, then one case per step that moves bytes.            *)

\* The bytes from r up to w in buffer b.
Ring(r, w, b) == [i \in 1 .. (w - r) % BufferSize |-> b[(r + i - 1) % BufferSize]]

\* % of a negative number, as in the length of a part that wraps around.
LEMMA ModNeg == \A n \in Nat \ {0} : \A x \in -n .. -1 : x % n = x + n
  OBVIOUS

\* How many bytes lie between r and w.
LEMMA Occupied ==
  ASSUME NEW r \in 0 .. BufferSize, NEW w \in 0 .. BufferSize, ~(r = 0 /\ w = BufferSize)
  PROVE  (w - r) % BufferSize = IF w >= r THEN w - r ELSE w - r + BufferSize
<1>1. CASE w >= r
  <2>1. w - r \in 0 .. BufferSize - 1
    BY <1>1, SizeAssumption
  <2> QED BY <1>1, <2>1, ModBelow, SizeAssumption
<1>2. CASE w < r
  <2>1. w - r \in -BufferSize .. -1
    BY <1>2, SizeAssumption
  <2> QED BY <1>2, <2>1, ModNeg, SizeAssumption
<1> QED BY <1>1, <1>2

\* Where the i-th of them is.
LEMMA CellAt ==
  ASSUME NEW r \in 0 .. BufferSize, NEW i \in 1 .. BufferSize, r + i <= 2 * BufferSize
  PROVE  (r + i - 1) % BufferSize =
           IF r + i <= BufferSize THEN r + i - 1 ELSE r + i - 1 - BufferSize
<1>1. CASE r + i <= BufferSize
  <2>1. r + i - 1 \in 0 .. BufferSize - 1
    BY <1>1, SizeAssumption
  <2> QED BY <1>1, <2>1, ModBelow, SizeAssumption
<1>2. CASE r + i > BufferSize
  <2>1. r + i - 1 \in BufferSize .. 2 * BufferSize - 1
    BY <1>2, SizeAssumption
  <2> QED BY SMTT(60), <1>2, <2>1, ModAbove, SizeAssumption
<1> QED BY <1>1, <1>2, SizeAssumption

\* The part between r and w is a sequence of bytes.
LEMMA RingSeq ==
  ASSUME NEW r \in 0 .. BufferSize, NEW w \in 0 .. BufferSize, ~(r = 0 /\ w = BufferSize),
         NEW D, NEW b \in [Cells -> D]
  PROVE  /\ Ring(r, w, b) \in Seq(D)
         /\ Len(Ring(r, w, b)) = IF w >= r THEN w - r ELSE w - r + BufferSize
<1> DEFINE n == (w - r) % BufferSize
<1>1. n = IF w >= r THEN w - r ELSE w - r + BufferSize
  BY Occupied
<1>2. n \in 0 .. BufferSize - 1
  BY <1>1, SizeAssumption
<1>3. \A i \in 1 .. n : b[(r + i - 1) % BufferSize] \in D
  <2> SUFFICES ASSUME NEW i \in 1 .. n PROVE b[(r + i - 1) % BufferSize] \in D
    OBVIOUS
  <2>1. i \in 1 .. BufferSize /\ r + i <= 2 * BufferSize
    BY <1>2, SizeAssumption
  <2>2. (r + i - 1) % BufferSize \in Cells
    BY <2>1, CellAt, SizeAssumption DEF Cells
  <2> QED BY <2>2
<1>4. Ring(r, w, b) = [i \in 1 .. n |-> b[(r + i - 1) % BufferSize]]
  BY DEF Ring
<1> HIDE DEF n
<1>5. n \in Nat
  BY <1>2, SizeAssumption
<1>6. Ring(r, w, b) \in Seq(D) /\ Len(Ring(r, w, b)) = n
  BY <1>3, <1>4, <1>5
<1> QED BY <1>6, <1>1

\* Moving rp from dev->end to the start of the buffer changes nothing, ...
LEMMA RingReadWrap ==
  ASSUME NEW w \in Cells, NEW b
  PROVE  Ring(BufferSize, w, b) = Ring(0, w, b)
<1>1. (w - BufferSize) % BufferSize = w /\ (w - 0) % BufferSize = w
  <2>1. /\ w \in 0 .. BufferSize /\ 0 \in 0 .. BufferSize
        /\ BufferSize \in 0 .. BufferSize /\ w < BufferSize
    BY SizeAssumption DEF Cells
  <2>2. (w - BufferSize) % BufferSize = w - BufferSize + BufferSize
    BY <2>1, Occupied, SizeAssumption
  <2>3. (w - 0) % BufferSize = w - 0
    BY <2>1, Occupied, SizeAssumption
  <2> QED BY <2>1, <2>2, <2>3, SizeAssumption
<1>2. \A i \in 1 .. w : (BufferSize + i - 1) % BufferSize = (0 + i - 1) % BufferSize
  <2> SUFFICES ASSUME NEW i \in 1 .. w
               PROVE (BufferSize + i - 1) % BufferSize = (0 + i - 1) % BufferSize
    OBVIOUS
  <2>1. i \in 1 .. BufferSize /\ BufferSize + i <= 2 * BufferSize
    BY SizeAssumption DEF Cells
  <2> QED BY <2>1, CellAt, SizeAssumption DEF Cells
<1> QED BY <1>1, <1>2 DEF Ring

\* ... and neither does moving wp, ...
LEMMA RingWriteWrap ==
  ASSUME NEW r \in 1 .. BufferSize - 1, NEW b
  PROVE  Ring(r, BufferSize, b) = Ring(r, 0, b)
<1>1. (BufferSize - r) % BufferSize = BufferSize - r /\ (0 - r) % BufferSize = BufferSize - r
  BY Occupied, SizeAssumption
<1> QED BY <1>1 DEF Ring

\* ... and taking n bytes that lie in one piece takes a prefix, ...
LEMMA RingRead ==
  ASSUME NEW r \in Cells, NEW w \in Cells, r # w,
         NEW n \in Nat \ {0}, n <= BufferSize - r, w > r => n <= w - r,
         NEW D, NEW b \in [Cells -> D]
  PROVE  /\ n <= Len(Ring(r, w, b))
         /\ \A i \in 1 .. n : b[r + i - 1] = SubSeq(Ring(r, w, b), 1, n)[i]
         /\ Ring(r + n, w, b) = SubSeq(Ring(r, w, b), n + 1, Len(Ring(r, w, b)))
<1> DEFINE s == Ring(r, w, b)
           L == Len(s)
           u == Ring(r + n, w, b)
<1>1. s \in Seq(D) /\ L = IF w >= r THEN w - r ELSE w - r + BufferSize
  BY RingSeq, SizeAssumption DEF Cells
<1>2. L \in 1 .. BufferSize - 1 /\ n <= L /\ n \in Nat
  BY <1>1, SizeAssumption DEF Cells
<1>3. \A i \in 1 .. L : s[i] = b[(r + i - 1) % BufferSize]
  BY <1>1, Occupied, SizeAssumption DEF Ring, Cells
<1>4. \A i \in 1 .. n : b[r + i - 1] = SubSeq(s, 1, n)[i]
  <2>1. \A i \in 1 .. n : s[i] = b[r + i - 1]
    <3> SUFFICES ASSUME NEW i \in 1 .. n PROVE s[i] = b[r + i - 1]
      OBVIOUS
    <3>1. r + i <= BufferSize /\ i \in 1 .. BufferSize
      BY SizeAssumption DEF Cells
    <3>2. r \in 0 .. BufferSize /\ r + i <= 2 * BufferSize
      BY <3>1, SizeAssumption DEF Cells
    <3>3. (r + i - 1) % BufferSize = r + i - 1
      BY <3>1, <3>2, CellAt
    <3> QED BY <1>2, <1>3, <3>3
  <2>2. SubSeq(s, 1, n) = [i \in 1 .. n |-> s[i]]
    <3> HIDE DEF s, L
    <3> QED BY <1>1, <1>2
  <2> HIDE DEF s, L
  <2> QED BY <2>1, <2>2, <1>2
<1>5. u = SubSeq(s, n + 1, L)
  <2>1. r + n \in 1 .. BufferSize
    BY <1>2, SizeAssumption DEF Cells
  <2>2. (w - (r + n)) % BufferSize = L - n
    <3>1. /\ w \in 0 .. BufferSize /\ w < BufferSize /\ r + n \in 0 .. BufferSize
          /\ ~(r + n = 0 /\ w = BufferSize)
      BY <2>1, SizeAssumption DEF Cells
    <3>2. (w - (r + n)) % BufferSize =
            IF w >= r + n THEN w - (r + n) ELSE w - (r + n) + BufferSize
      BY <3>1, Occupied
    <3> HIDE DEF L
    <3> QED BY <1>1, <2>1, <3>1, <3>2, SizeAssumption DEF Cells
  <2>3. \A i \in 1 .. L - n : b[(r + n + i - 1) % BufferSize] = s[n + i]
    <3> SUFFICES ASSUME NEW i \in 1 .. L - n
                 PROVE  b[(r + n + i - 1) % BufferSize] = s[n + i]
      OBVIOUS
    <3>1. n + i \in 1 .. L
      BY <1>2
    <3>2. s[n + i] = b[(r + (n + i) - 1) % BufferSize]
      BY <1>3, <3>1
    <3>3. r + (n + i) - 1 = r + n + i - 1
      BY <1>2, SizeAssumption DEF Cells
    <3> HIDE DEF s, L
    <3> QED BY <3>2, <3>3
  <2>4. u = [i \in 1 .. L - n |-> s[n + i]]
    <3>1. u = [i \in 1 .. L - n |-> b[(r + n + i - 1) % BufferSize]]
      BY <2>2 DEF Ring
    <3> HIDE DEF s, L, u
    <3> QED BY <3>1, <2>3
  <2>5. SubSeq(s, n + 1, L) = [i \in 1 .. L - n |-> s[n + i]]
    <3> HIDE DEF s, L
    <3> QED BY <1>1, <1>2
  <2> HIDE DEF s, L, u
  <2> QED BY <2>4, <2>5
<1> QED BY <1>2, <1>4, <1>5
\* ... and storing n bytes in free cells appends them.
LEMMA RingWrite ==
  ASSUME NEW r \in Cells, NEW w \in Cells, NEW n \in Nat \ {0},
         n <= spacefree(r, w),
         n <= IF w >= r THEN BufferSize - w ELSE r - w - 1,
         NEW D, NEW b \in [Cells -> D], NEW bytes \in [1 .. n -> D], NEW c,
         c = [i \in Cells |-> IF i \in w .. w + n - 1 THEN bytes[i - w + 1] ELSE b[i]]
  PROVE  /\ n <= BufferSize - 1 - Len(Ring(r, w, b))
         /\ Ring(r, w + n, c) = Ring(r, w, b) \o bytes
         /\ ~(r = 0 /\ w + n = BufferSize)
<1> DEFINE s == Ring(r, w, b)
           L == Len(s)
           u == Ring(r, w + n, c)
<1>1. s \in Seq(D) /\ L = IF w >= r THEN w - r ELSE w - r + BufferSize
  BY SMTT(60), RingSeq, SizeAssumption DEF Cells
<1>2. /\ n <= BufferSize - 1 - L /\ ~(r = 0 /\ w + n = BufferSize)
      /\ w + n \in 0 .. BufferSize /\ L \in 0 .. BufferSize - 1
  <2> HIDE DEF L
  <2> QED BY <1>1, SpacefreeValue, SizeAssumption DEF Cells
<1>3. \A i \in 1 .. L : s[i] = b[(r + i - 1) % BufferSize]
  BY <1>1, Occupied, SizeAssumption DEF Ring, Cells
<1>4. ((w + n) - r) % BufferSize = L + n
  <2>1. r \in 0 .. BufferSize /\ w \in Int
    BY SizeAssumption DEF Cells
  <2>2. ((w + n) - r) % BufferSize =
          IF w + n >= r THEN (w + n) - r ELSE (w + n) - r + BufferSize
    BY <1>2, <2>1, Occupied
  <2> HIDE DEF L
  <2> QED BY <1>1, <2>1, <2>2, SizeAssumption DEF Cells
<1>5. u = [i \in 1 .. L + n |-> c[(r + i - 1) % BufferSize]]
  BY <1>4 DEF Ring
<1>6. \A i \in 1 .. L + n : c[(r + i - 1) % BufferSize] = IF i <= L THEN s[i] ELSE bytes[i - L]
  <2> SUFFICES ASSUME NEW i \in 1 .. L + n
               PROVE c[(r + i - 1) % BufferSize] = IF i <= L THEN s[i] ELSE bytes[i - L]
    OBVIOUS
  <2> DEFINE j == (r + i - 1) % BufferSize
  <2> HIDE DEF L
  <2>1. i \in 1 .. BufferSize /\ r \in 0 .. BufferSize /\ r + i <= 2 * BufferSize
    BY <1>2, SizeAssumption DEF Cells
  <2>2. j = IF r + i <= BufferSize THEN r + i - 1 ELSE r + i - 1 - BufferSize
    BY <2>1, CellAt
  <2> HIDE DEF j
  <2>3. j \in Cells
    BY <2>1, <2>2, SizeAssumption DEF Cells
  <2>4. CASE i <= L
    <3>1. j \notin w .. w + n - 1
      BY <1>1, <1>2, <2>1, <2>2, <2>4, SizeAssumption, SpacefreeValue DEF Cells
    <3>2. s[i] = b[j]
      BY <1>2, <1>3, <2>4 DEF j
    <3> QED BY <2>3, <2>4, <3>1, <3>2 DEF j
  <2>5. CASE i > L
    <3>1. j \in w .. w + n - 1 /\ j - w + 1 = i - L
      BY <1>1, <1>2, <2>1, <2>2, <2>5, SizeAssumption DEF Cells
    <3> QED BY <1>2, <2>3, <2>5, <3>1 DEF j
  <2> QED BY <1>2, <2>4, <2>5
<1>7. s \o bytes = [i \in 1 .. L + n |-> IF i <= L THEN s[i] ELSE bytes[i - L]]
  <2>1. bytes \in Seq(D) /\ Len(bytes) = n
    OBVIOUS
  <2> HIDE DEF s
  <2>2. /\ s \o bytes \in Seq(D) /\ Len(s \o bytes) = L + n
        /\ \A i \in 1 .. L + n : (s \o bytes)[i] = IF i <= L THEN s[i] ELSE bytes[i - L]
    BY ZenonT(60), <1>1, <2>1, ConcatProperties
  <2> DEFINE t == s \o bytes
  <2> HIDE DEF t
  <2>3. t = [i \in 1 .. L + n |-> t[i]]
    <3>1. t \in Seq(D) /\ Len(t) = L + n
      BY <2>2 DEF t
    <3>2. L + n \in Nat
      BY <1>2, SizeAssumption
    <3> HIDE DEF L
    <3> QED BY <3>1, <3>2
  <2> QED BY <2>2, <2>3 DEF t
<1> HIDE DEF s, L, u
<1>8. u = s \o bytes
  BY <1>5, <1>6, <1>7
<1> QED BY <1>2, <1>8 DEF s, L, u

\* A process has bytes in hand only on its way out of scull_p_read().
UbufInv == \A p \in Procs : pc[p] \notin {"rd_wrap", "rd_wake"} => ubuf[p] = <<>>

\* The ring never holds BufferSize bytes, when full would look like empty.
NeverBrimful == ~(rp = 0 /\ wp = BufferSize)

\* A step of p that opens or closes no file and moves no byte, except that p may be
\* done with the bytes it has read.
Still(p) ==
  /\ UNCHANGED devVars
  /\ \A q \in Procs : pc'[q] \in Closed <=> pc[q] \in Closed
  /\ ubuf' = ubuf \/ ubuf' = [ubuf EXCEPT ![p] = <<>>]
  /\ UbufInv'

\* Such a step leaves p with no bytes unless it stays on its way out of read().
LEMMA StillKept ==
  ASSUME ProcsOK, UbufInv, NEW p \in Procs, NEW l, Goto(p, l), UNCHANGED devVars,
         l \in Closed <=> pc[p] \in Closed,
         \/ ubuf' = ubuf /\ pc[p] \notin {"rd_wrap", "rd_wake"}
         \/ ubuf' = [ubuf EXCEPT ![p] = <<>>]
  PROVE  Still(p)
  BY DEF Still, UbufInv, Goto, ProcsOK

\* Of all steps of scull_pipe.c, only six open or close a file or move a pointer.
LEMMA MovesOrStill ==
  ASSUME Core, UbufInv, NEW p \in Procs, UserCall(p) \/ Driver(p) \/ Signal(p)
  PROVE  \/ OpenBody(p) \/ ReleaseBody(p) \/ ReadCopy(p) \/ ReadWrap(p)
         \/ WriteCopy(p) \/ WriteWrap(p) \/ Still(p)
<1> USE DEF Core, TypeOK
<1>1. CASE OpenCall(p)
  BY <1>1, StillKept DEF OpenCall, Stay, devVars, Closed
<1>2. CASE ReleaseCall(p)
  BY <1>2, StillKept DEF ReleaseCall, Stay, devVars, Closed
<1>3. CASE Fasync(p)
  BY <1>3 DEF Fasync, Still, UbufInv, devVars
<1>4. CASE ReadCall(p)
  BY <1>4, StillKept DEF ReadCall, Call, devVars, Closed
<1>5. CASE WriteCall(p)
  BY <1>5, StillKept DEF WriteCall, Call, devVars, Closed
<1>6. CASE PollCall(p)
  BY <1>6, StillKept DEF PollCall, Call, devVars, Closed
<1>7. CASE OpenDown(p)
  BY <1>7, StillKept DEF OpenDown, Down, DownInterrupted, Return, Stay, devVars, Closed
<1>8. CASE OpenNoMem(p)
  BY <1>8, StillKept DEF OpenNoMem, Return, devVars, Closed
<1>9. CASE ReleaseDown(p)
  BY <1>9, StillKept DEF ReleaseDown, Down, Stay, devVars, Closed
<1>10. CASE ReadDown(p)
  BY <1>10, StillKept DEF ReadDown, Down, DownInterrupted, Return, Stay, devVars, Closed
<1>11. CASE ReadEmpty(p)
  BY <1>11, StillKept DEF ReadEmpty, Return, Stay, devVars, Closed
<1>12. CASE CopyFault(p)
  BY <1>12, StillKept DEF CopyFault, Return, devVars, Closed
<1>13. CASE ReadWake(p)
  BY <1>13, StillKept DEF ReadWake, Return, devVars, Closed
<1>14. CASE ReadWaitLoad(p)
  BY <1>14, StillKept DEF ReadWaitLoad, Load, devVars, Closed
<1>15. CASE ReadWaitCond(p)
  BY <1>15, StillKept DEF ReadWaitCond, Forget, devVars, Closed
<1>16. CASE ReadPrepare(p)
  BY <1>16, StillKept DEF ReadPrepare, Stay, devVars, Closed
<1>17. CASE ReadWaitCheck(p)
  BY <1>17, StillKept DEF ReadWaitCheck, Return, Forget, devVars, Closed
<1>18. CASE ReadSleep(p)
  BY <1>18, StillKept DEF ReadSleep, Stay, devVars, Closed
<1>19. CASE WriteDown(p)
  BY <1>19, StillKept DEF WriteDown, Down, DownInterrupted, Return, Stay, devVars, Closed
<1>20. CASE WriteFull(p)
  BY <1>20, StillKept DEF WriteFull, Return, Stay, devVars, Closed
<1>21. CASE WritePrepare(p)
  BY <1>21, StillKept DEF WritePrepare, Stay, devVars, Closed
<1>22. CASE WriteLoad(p)
  BY <1>22, StillKept DEF WriteLoad, Load, devVars, Closed
<1>23. CASE WriteCheck(p)
  BY <1>23, StillKept DEF WriteCheck, Forget, devVars, Closed
<1>24. CASE WriteSleep(p)
  BY <1>24, StillKept DEF WriteSleep, Stay, devVars, Closed
<1>25. CASE WriteFinishWait(p)
  BY <1>25, StillKept DEF WriteFinishWait, Return, Stay, devVars, Closed
<1>26. CASE WriteWake(p)
  BY <1>26, StillKept DEF WriteWake, Stay, devVars, Closed
<1>27. CASE WriteAsync(p)
  BY <1>27, StillKept DEF WriteAsync, devVars, Closed
<1>28. CASE PollDown(p)
  BY <1>28, StillKept DEF PollDown, Down, Stay, devVars, Closed
<1>29. CASE PollScan(p)
  BY <1>29, StillKept DEF PollScan, Return, Stay, devVars, Closed
<1>30. CASE PollSleep(p)
  BY <1>30, StillKept DEF PollSleep, Stay, devVars, Closed
<1>31. CASE Signal(p)
  BY <1>31 DEF Signal, Still, UbufInv, devVars
<1> QED BY <1>1, <1>2, <1>3, <1>4, <1>5, <1>6, <1>7, <1>8, <1>9, <1>10, <1>11, <1>12, <1>13, <1>14, <1>15, <1>16, <1>17, <1>18, <1>19, <1>20, <1>21, <1>22, <1>23, <1>24, <1>25, <1>26, <1>27, <1>28, <1>29, <1>30, <1>31 DEF UserCall, Driver

\* Every step of the driver is a step of the abstract queue, or leaves it as it is.
LEMMA RefinementStep ==
  ASSUME Core, UbufInv, NeverBrimful, BufferLivesWhileOpen, BufferLivesWhileOpen',
         NEW p \in Procs, UserCall(p) \/ Driver(p) \/ Signal(p)
  PROVE  /\ UbufInv' /\ NeverBrimful'
         /\ Fifo!Next \/ UNCHANGED <<OpenFiles, InFlight, ubuf>>
<1> USE DEF Core, TypeOK
<1>0. Contents = Ring(rp, wp, buffer) /\ Contents' = Ring(rp', wp', buffer')
  BY DEF Contents, Ring
<1>1. CASE OpenBody(p)
  <2>1. ubuf' = ubuf
    <3>1. ubuf[p] = <<>>
      BY <1>1 DEF OpenBody, UbufInv
    <3> QED BY <1>1, <3>1 DEF OpenBody, Return, ProcsOK
  <2>2. UbufInv' /\ NeverBrimful'
    BY <1>1, <2>1, SizeAssumption DEF OpenBody, Return, Goto, ProcsOK, UbufInv, NeverBrimful
  <2>3. p \notin OpenFiles /\ OpenFiles' = OpenFiles \cup {p}
    BY <1>1 DEF OpenBody, Return, Goto, ProcsOK, IsOpen, OpenFiles
  <2>4. InFlight' = <<>>
    <3>1. rp' = 0 /\ wp' = 0 /\ alloc'
      BY <1>1 DEF OpenBody
    <3>2. (0 - 0) % BufferSize = 0
      BY ModBelow, SizeAssumption
    <3> QED BY <1>0, <3>1, <3>2 DEF Ring, InFlight
  <2>5. Fifo!Open(p)
    BY <2>1, <2>3, <2>4 DEF Fifo!Open
  <2> QED BY <2>2, <2>5 DEF Fifo!Next
<1>2. CASE ReleaseBody(p)
  <2>1. ubuf' = ubuf
    <3>1. ubuf[p] = <<>>
      BY <1>2 DEF ReleaseBody, UbufInv
    <3> QED BY <1>2, <3>1 DEF ReleaseBody, Return, ProcsOK
  <2>2. UbufInv' /\ NeverBrimful'
    BY <1>2, <2>1 DEF ReleaseBody, Return, Goto, ProcsOK, UbufInv, NeverBrimful
  <2>3. p \in OpenFiles /\ OpenFiles' = OpenFiles \ {p}
    BY <1>2 DEF ReleaseBody, Return, Goto, ProcsOK, IsOpen, OpenFiles
  <2>4. alloc /\ (alloc' <=> OpenFiles' # {})
    BY <2>3 DEF BufferLivesWhileOpen, OpenFiles, InFlight
  <2>5. alloc' => UNCHANGED devVars
    BY <1>2, <2>4 DEF ReleaseBody, devVars
  <2>6. InFlight' = IF OpenFiles' = {} THEN <<>> ELSE InFlight
    BY <1>0, <2>4, <2>5 DEF devVars, InFlight
  <2>7. Fifo!Close(p)
    BY <2>1, <2>3, <2>6 DEF Fifo!Close
  <2> QED BY <2>2, <2>7 DEF Fifo!Next
<1>3. CASE ReadCopy(p)
  <2> DEFINE n == ReadCount(p)
             t == [i \in 1 .. n |-> buffer[rp + i - 1]]
             m == IF wp > rp THEN wp - rp ELSE BufferSize - rp
  <2>1. rp \in Cells /\ wp \in Cells /\ rp # wp
    BY <1>3, HolderAlone, SizeAssumption DEF ReadCopy, RingInv, Locked, DeviceOK, Cells
  <2>2. n \in 0 .. m
    BY <2>1, SizeAssumption DEF ReadCount, min, ProcsOK, Cells
  <2>3. /\ rp' = rp + n /\ ubuf' = [ubuf EXCEPT ![p] = t]
        /\ UNCHANGED <<wp, buffer, alloc>> /\ Goto(p, "rd_wrap")
    BY <1>3 DEF ReadCopy
  <2>4. UbufInv' /\ NeverBrimful'
    <3>1. NeverBrimful'
      BY <2>1, <2>3, SizeAssumption DEF NeverBrimful, Cells
    <3> HIDE DEF t
    <3>2. UbufInv'
      BY <2>3 DEF UbufInv, Goto, ProcsOK
    <3> QED BY <3>1, <3>2
  <2>5. p \in OpenFiles /\ OpenFiles' = OpenFiles
    BY <1>3, <2>3 DEF ReadCopy, Goto, ProcsOK, IsOpen, OpenFiles
  <2>6. alloc /\ InFlight = Ring(rp, wp, buffer) /\ InFlight' = Ring(rp + n, wp, buffer)
    BY <1>0, <2>3, <2>5 DEF BufferLivesWhileOpen, OpenFiles, InFlight
  <2>7. CASE n = 0
    <3>1. t = <<>>
      BY <2>7
    <3>2. ubuf[p] = <<>>
      BY <1>3 DEF ReadCopy, UbufInv
    <3>3. ubuf' = ubuf
      BY <2>3, <3>1, <3>2 DEF ProcsOK
    <3>4. rp + n = rp
      BY <2>1, <2>7 DEF Cells
    <3> QED BY <2>4, <2>5, <2>6, <3>3, <3>4
  <2>8. CASE n # 0
    <3>1. n \in Nat \ {0} /\ n <= BufferSize - rp /\ (wp > rp => n <= wp - rp)
      BY <2>1, <2>2, <2>8, SizeAssumption DEF Cells
    <3> HIDE DEF n
    <3>2. /\ n <= Len(InFlight) /\ t = SubSeq(InFlight, 1, n)
          /\ InFlight' = SubSeq(InFlight, n + 1, Len(InFlight))
      <4>1. buffer \in [Cells -> Data \cup {Junk}]
        BY DEF DeviceOK
      <4>2. /\ n <= Len(Ring(rp, wp, buffer))
            /\ \A i \in 1 .. n : buffer[rp + i - 1] = SubSeq(Ring(rp, wp, buffer), 1, n)[i]
            /\ Ring(rp + n, wp, buffer) =
                 SubSeq(Ring(rp, wp, buffer), n + 1, Len(Ring(rp, wp, buffer)))
        <5> HIDE DEF m
        <5> QED BY ZenonT(60), <2>1, <3>1, <4>1, RingRead
      <4>3. Ring(rp, wp, buffer) \in Seq(Data \cup {Junk})
        BY <2>1, <4>1, RingSeq, SizeAssumption DEF Cells
      <4>4. SubSeq(Ring(rp, wp, buffer), 1, n) =
              [i \in 1 .. n |-> SubSeq(Ring(rp, wp, buffer), 1, n)[i]]
        <5> DEFINE s == Ring(rp, wp, buffer)
        <5> HIDE DEF s
        <5>1. s \in Seq(Data \cup {Junk}) /\ n \in Nat /\ n <= Len(s)
          BY <3>1, <4>2, <4>3 DEF s
        <5>2. SubSeq(s, 1, n) = [i \in 1 .. n |-> SubSeq(s, 1, n)[i]]
          BY <5>1
        <5> QED BY <5>2 DEF s
      <4>5. t = SubSeq(Ring(rp, wp, buffer), 1, n)
        BY <4>2, <4>4
      <4> HIDE DEF t
      <4> QED BY <2>6, <4>2, <4>5
    <3>3. n \in 1 .. Len(InFlight)
      <4>1. Ring(rp, wp, buffer) \in Seq(Data \cup {Junk})
        BY <2>1, RingSeq, SizeAssumption DEF DeviceOK, Cells
      <4>2. Len(InFlight) \in Nat
        BY <2>6, <4>1
      <4>3. n \in Nat /\ n # 0
        BY <2>1, <3>1, SizeAssumption DEF Cells
      <4> QED BY <3>2, <4>2, <4>3
    <3>4. Fifo!Get(p)
      <4> HIDE DEF t
      <4> QED BY <2>3, <2>5, <3>2, <3>3 DEF Fifo!Get
    <3> QED BY <2>4, <3>4 DEF Fifo!Next
  <2> QED BY <2>7, <2>8
<1>4. CASE ReadWrap(p)
  <2>1. wp \in Cells
    BY <1>4, HolderAlone, SizeAssumption DEF ReadWrap, RingInv, Locked, DeviceOK, Cells
  <2>2. Ring(rp', wp', buffer') = Ring(rp, wp, buffer)
    BY <1>4, <2>1, RingReadWrap DEF ReadWrap
  <2>3. UNCHANGED InFlight
    BY <1>0, <1>4, <2>2 DEF ReadWrap, InFlight
  <2>4. OpenFiles' = OpenFiles /\ ubuf' = ubuf
    BY <1>4 DEF ReadWrap, Stay, Goto, ProcsOK, IsOpen, OpenFiles
  <2>5. UbufInv' /\ NeverBrimful'
    BY <1>4, <2>1, SizeAssumption DEF ReadWrap, Stay, Goto, ProcsOK, UbufInv, NeverBrimful, Cells
  <2> QED BY <2>3, <2>4, <2>5
<1>5. CASE WriteCopy(p)
  <2> DEFINE n == WriteCount(p)
  <2>1. rp \in Cells /\ wp \in Cells
    BY <1>5, HolderAlone, SizeAssumption DEF WriteCopy, RingInv, Locked, DeviceOK, Cells
  <2>2. spacefree(rp, wp) \in Nat
    BY <2>1, SpacefreeValue, SizeAssumption DEF Cells
  <2>3. /\ n \in Nat /\ n <= spacefree(rp, wp)
        /\ n <= IF wp >= rp THEN BufferSize - wp ELSE rp - wp - 1
    BY <2>1, <2>2, SizeAssumption DEF WriteCount, min, ProcsOK, Cells
  <2>4. PICK bytes \in [1 .. n -> Data] :
          buffer' = [i \in Cells |->
                       IF i \in wp .. wp + n - 1 THEN bytes[i - wp + 1] ELSE buffer[i]]
    BY <1>5 DEF WriteCopy
  <2>5. wp' = wp + n /\ UNCHANGED <<rp, alloc>>
    BY <1>5 DEF WriteCopy
  <2>6. p \in OpenFiles /\ OpenFiles' = OpenFiles /\ ubuf' = ubuf
    BY <1>5 DEF WriteCopy, Stay, Goto, ProcsOK, IsOpen, OpenFiles
  <2>7. UbufInv'
    BY <1>5 DEF WriteCopy, Stay, Goto, ProcsOK, UbufInv
  <2>8. alloc /\ InFlight = Ring(rp, wp, buffer) /\ InFlight' = Ring(rp, wp + n, buffer')
    BY <1>0, <2>5, <2>6 DEF BufferLivesWhileOpen, OpenFiles, InFlight
  <2> HIDE DEF n
  <2>9. CASE n = 0
    <3>1. wp + n = wp /\ \A i \in Cells : i \notin wp .. wp + n - 1
      BY <2>1, <2>9, SizeAssumption DEF Cells
    <3>2. buffer' = buffer
      BY <2>4, <3>1 DEF DeviceOK
    <3> QED BY <2>1, <2>5, <2>6, <2>7, <2>8, <3>1, <3>2 DEF NeverBrimful
  <2>10. CASE n # 0
    <3>1. bytes \in [1 .. n -> Data \cup {Junk}] /\ n \in Nat \ {0}
      BY <2>3, <2>10
    <3>2. /\ n <= BufferSize - 1 - Len(Ring(rp, wp, buffer))
          /\ Ring(rp, wp + n, buffer') = Ring(rp, wp, buffer) \o bytes
          /\ ~(rp = 0 /\ wp + n = BufferSize)
      <4>1. buffer \in [Cells -> Data \cup {Junk}]
        BY DEF DeviceOK
      <4>2. \A c : c = [i \in Cells |->
                       IF i \in wp .. wp + n - 1 THEN bytes[i - wp + 1] ELSE buffer[i]]
              => /\ n <= BufferSize - 1 - Len(Ring(rp, wp, buffer))
                 /\ Ring(rp, wp + n, c) = Ring(rp, wp, buffer) \o bytes
                 /\ ~(rp = 0 /\ wp + n = BufferSize)
        BY <2>1, <2>3, <3>1, <4>1, RingWrite
      <4> QED BY <2>4, <4>2
    <3>3. NeverBrimful'
      BY <2>5, <3>2 DEF NeverBrimful
    <3>4. n \in 1 .. (BufferSize - 1) - Len(InFlight)
      <4>1. Ring(rp, wp, buffer) \in Seq(Data \cup {Junk})
        BY <2>1, RingSeq, SizeAssumption DEF DeviceOK, Cells
      <4>2. Len(InFlight) \in Nat /\ n <= BufferSize - 1 - Len(InFlight)
        BY <2>8, <3>2, <4>1
      <4> QED BY <3>1, <4>2, SizeAssumption
    <3>5. OpenFiles # {} /\ InFlight' = InFlight \o bytes
      BY <2>6, <2>8, <3>2
    <3>6. Fifo!Put
      <4>1. \E k \in 1 .. (BufferSize - 1) - Len(InFlight) : \E z \in [1 .. k -> Data] :
              OpenFiles # {} /\ InFlight' = InFlight \o z /\ OpenFiles' = OpenFiles /\ ubuf' = ubuf
        BY <2>6, <3>4, <3>5
      <4> QED BY <4>1 DEF Fifo!Put
    <3> QED BY <2>7, <3>3, <3>6 DEF Fifo!Next
  <2> QED BY <2>9, <2>10
<1>6. CASE WriteWrap(p)
  <2>1. rp \in Cells
    BY <1>6, HolderAlone, SizeAssumption DEF WriteWrap, RingInv, Locked, DeviceOK, Cells
  <2>2. Ring(rp', wp', buffer') = Ring(rp, wp, buffer)
    <3>1. CASE wp = BufferSize
      <4>1. rp \in 1 .. BufferSize - 1
        BY <2>1, <3>1, SizeAssumption DEF NeverBrimful, Cells
      <4> QED BY <1>6, <3>1, <4>1, RingWriteWrap DEF WriteWrap
    <3>2. CASE wp # BufferSize
      BY <1>6, <3>2 DEF WriteWrap
    <3> QED BY <3>1, <3>2
  <2>3. UNCHANGED InFlight
    BY <1>0, <1>6, <2>2 DEF WriteWrap, InFlight
  <2>4. OpenFiles' = OpenFiles /\ ubuf' = ubuf
    BY <1>6 DEF WriteWrap, Stay, Goto, ProcsOK, IsOpen, OpenFiles
  <2>5. UbufInv' /\ NeverBrimful'
    BY <1>6, <2>1, SizeAssumption DEF WriteWrap, Stay, Goto, ProcsOK, UbufInv, NeverBrimful, Cells
  <2> QED BY <2>3, <2>4, <2>5
<1>7. CASE Still(p)
  <2>1. UNCHANGED InFlight /\ NeverBrimful' /\ UbufInv'
    BY <1>0, <1>7 DEF Still, devVars, NeverBrimful, InFlight
  <2>2. OpenFiles' = OpenFiles
    BY <1>7 DEF Still, IsOpen, Closed, OpenFiles
  <2>3. CASE ubuf' = ubuf
    BY <2>1, <2>2, <2>3
  <2>4. CASE ubuf' = [ubuf EXCEPT ![p] = <<>>]
    <3>1. Fifo!Consume(p)
      BY <2>1, <2>2, <2>4 DEF Fifo!Consume
    <3> QED BY <2>1, <3>1 DEF Fifo!Next
  <2> QED BY <1>7, <2>3, <2>4 DEF Still
<1> QED BY <1>1, <1>2, <1>3, <1>4, <1>5, <1>6, <1>7, MovesOrStill

\* scull_pipe.c as a whole: for every buffer size, every number of processes and every
\* interleaving, the device is a bounded first-in first-out queue of bytes.  Readers get
\* what writers put in, once and in order, and only an open() or the last release()
\* throws bytes away.
THEOREM PipeIsFifo == Spec => ImplementsFifo
<1>1. Init => UbufInv /\ NeverBrimful /\ Fifo!Init
  BY SizeAssumption DEF Init, UbufInv, NeverBrimful, Fifo!Init, IsOpen, OpenFiles, InFlight
<1>2. /\ Core /\ BufferLivesWhileOpen /\ BufferLivesWhileOpen' /\ UbufInv /\ NeverBrimful
      /\ [Next]_vars
      => UbufInv' /\ NeverBrimful' /\ [Fifo!Next]_<<OpenFiles, InFlight, ubuf>>
  <2>1. CASE UNCHANGED vars
    BY <2>1 DEF vars, devVars, UbufInv, NeverBrimful, IsOpen, Contents, OpenFiles, InFlight
  <2>2. CASE Next
    BY <2>2, RefinementStep DEF Next
  <2> QED BY <2>1, <2>2
<1>3. IInv => Core
  BY DEF IInv
<1> QED BY <1>1, <1>2, <1>3, Invariance, BufferLifetime, PTL DEF Spec, ImplementsFifo, Fifo!Spec
=============================================================================
