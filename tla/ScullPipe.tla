----------------------------- MODULE ScullPipe -----------------------------
(***************************************************************************)
(* The scullpipe character device, src/7/pipe/scull_pipe.c: a circular     *)
(* buffer shared by every process that opened the device, protected by one *)
(* semaphore, with two wait queues for blocked readers and writers.        *)
(*                                                                         *)
(* A step of the model is a stretch of code that touches shared state      *)
(* once: everything between down() and up() that no unlocked code can see  *)
(* is one step; every unlocked load of rp or wp, every wait-queue call and *)
(* every wake-up is a step of its own.  Pointers into the buffer are       *)
(* offsets from dev->buffer, so dev->end is BufferSize.  Each process has  *)
(* one open file of the device.                                            *)
(***************************************************************************)
EXTENDS Integers, Sequences, FiniteSets

CONSTANTS
  Procs,         \* the processes that use the device
  Readers,       \* those that open it with FMODE_READ ...
  Writers,       \* ... and with FMODE_WRITE (a process may do both)
  NonBlock,      \* those that open it with O_NONBLOCK
  Pollers,       \* those that call poll() ...
  Async,         \* ... and fcntl(F_SETFL, FASYNC) on it
  Signalled,     \* those that may get a signal at any time
  BufferSize,    \* scull_p_buffer
  MaxCount,      \* bound: the largest count asked of read() and write()
  Data,          \* the bytes written
  Junk,          \* what kmalloc leaves in a fresh buffer
  OpenDuringWrite \* may open() overlap a write() or a poll()?

ASSUME ProcsAssumption ==
  /\ IsFiniteSet(Procs)
  /\ Readers \subseteq Procs /\ Writers \subseteq Procs
  /\ Procs = Readers \cup Writers
ASSUME SizeAssumption == BufferSize \in Nat \ {0} /\ MaxCount \in Nat
ASSUME DataAssumption == Junk \notin Data
ASSUME OpenAssumption == OpenDuringWrite \in BOOLEAN

VARIABLES
  sem,       \* count of dev->sem
  alloc,     \* dev->buffer # NULL
  buffer,    \* the contents of the buffer
  rp, wp,    \* where to read, where to write
  nreaders, nwriters,
  asyncq,    \* files on dev->async_queue
  inq, outq, \* tasks on the wait queues
  pc,        \* where each process is in the driver
  task,      \* its task state
  sig,       \* has it a signal pending?
  arg,       \* count of its read() or write(), event of its poll()
  seen,      \* dev->rp as last loaded without the lock
  ubuf       \* what read() has copied to its user buffer

devVars  == <<alloc, buffer, rp, wp>>
cntVars  == <<nreaders, nwriters>>
waitVars == <<inq, outq, task>>
vars == <<sem, devVars, cntVars, asyncq, waitVars, pc, sig, arg, seen, ubuf>>

POLLIN  == 1
POLLOUT == 4
Cells   == 0 .. BufferSize - 1
Fresh   == [i \in Cells |-> Junk]

\* Program points at which dev->sem is held.
Locked ==
  {"open_cs", "rel_cs", "rd_test", "rd_wrap", "wr_test", "wr_wrap", "poll_cs"}

Labels == Locked \cup
  {"closed", "idle", "open_down", "rel_down",
   "rd_down", "rd_wait", "rd_cond", "rd_prep", "rd_load", "rd_check",
   "rd_sleep", "rd_wake",
   "wr_down", "wr_prep", "wr_load", "wr_check", "wr_sleep", "wr_finish",
   "wr_wake", "wr_async",
   "poll_down", "poll_sleep"}

Polling == {"poll_down", "poll_cs", "poll_sleep"}

Init ==
  /\ sem = 1
  /\ alloc = FALSE /\ buffer = Fresh /\ rp = 0 /\ wp = 0
  /\ nreaders = 0 /\ nwriters = 0
  /\ asyncq = {} /\ inq = {} /\ outq = {}
  /\ pc = [p \in Procs |-> "closed"]
  /\ task = [p \in Procs |-> "RUNNING"]
  /\ sig = [p \in Procs |-> FALSE]
  /\ arg = [p \in Procs |-> 0]
  /\ seen = [p \in Procs |-> 0]
  /\ ubuf = [p \in Procs |-> <<>>]

-----------------------------------------------------------------------------
(* Helpers of the driver, and the kernel services it calls. *)

min(a, b) == IF a < b THEN a ELSE b

\* How much space is free, for given values of rp and wp.  C's % truncates, but
\* its left operand is never negative here.
spacefree(r, w) ==
  IF r = w THEN BufferSize - 1
           ELSE ((r + BufferSize - w) % BufferSize) - 1

Goto(p, l) == pc' = [pc EXCEPT ![p] = l]

\* Back to user mode, where a pending signal is handled.
Return(p, l) ==
  /\ Goto(p, l)
  /\ sig' = [sig EXCEPT ![p] = FALSE]
  /\ arg' = [arg EXCEPT ![p] = 0]
  /\ seen' = [seen EXCEPT ![p] = 0]
  /\ ubuf' = [ubuf EXCEPT ![p] = <<>>]

Stay(p, l) == Goto(p, l) /\ UNCHANGED <<sig, arg, seen, ubuf>>

\* As Stay, once the value loaded without the lock has been used.
Forget(p, l) ==
  /\ Goto(p, l)
  /\ seen' = [seen EXCEPT ![p] = 0]
  /\ UNCHANGED <<sig, arg, ubuf>>

up == sem' = sem + 1

\* down(): sleeps until the semaphore is free.
Down(p, from, to) ==
  /\ pc[p] = from /\ sem > 0
  /\ sem' = sem - 1
  /\ Stay(p, to)
  /\ UNCHANGED <<devVars, cntVars, asyncq, waitVars>>

\* down_interruptible() cut short by a signal: -ERESTARTSYS.
DownInterrupted(p, from, to) ==
  /\ pc[p] = from /\ sem = 0 /\ sig[p]
  /\ Return(p, to)
  /\ UNCHANGED <<sem, devVars, cntVars, asyncq, waitVars>>

\* wake_up_interruptible(): every waiter runs again.  The entries of blocked
\* readers and writers remove themselves, those of poll() stay.
Woken(q) == [p \in Procs |-> IF p \in q THEN "RUNNING" ELSE task[p]]
Remaining(q) == {p \in q : pc[p] \in Polling}

\* schedule() returns once the task has been woken or has a signal pending.
Runnable(p) == task[p] = "RUNNING" \/ sig[p]

-----------------------------------------------------------------------------
(* scull_p_open.  When OpenDuringWrite is FALSE the users of the device see   *)
(* to it that nobody opens it while another one is inside write() or poll(). *)

Opening(p) == pc[p] \in {"open_down", "open_cs"}
Writing(p) == pc[p] \in Polling \cup
  {"wr_down", "wr_test", "wr_prep", "wr_load", "wr_check", "wr_sleep", "wr_finish",
   "wr_wrap", "wr_wake", "wr_async"}

OpenCall(p) ==
  /\ pc[p] = "closed"
  /\ OpenDuringWrite \/ \A q \in Procs : ~Writing(q)
  /\ Stay(p, "open_down")
  /\ UNCHANGED <<sem, devVars, cntVars, asyncq, waitVars>>

OpenDown(p) ==
  \/ Down(p, "open_down", "open_cs")
  \/ DownInterrupted(p, "open_down", "closed")

OpenNoMem(p) ==
  /\ pc[p] = "open_cs" /\ ~alloc
  /\ up
  /\ Return(p, "closed")
  /\ UNCHANGED <<devVars, cntVars, asyncq, waitVars>>

\* The two stores of "rp = wp = buffer" are one step: an unlocked observer loads
\* rp before wp, so it can already see the old rp with the new wp.
OpenBody(p) ==
  /\ pc[p] = "open_cs"
  /\ alloc' = TRUE
  /\ buffer' = IF alloc THEN buffer ELSE Fresh
  /\ rp' = 0 /\ wp' = 0
  /\ nreaders' = IF p \in Readers THEN nreaders + 1 ELSE nreaders
  /\ nwriters' = IF p \in Writers THEN nwriters + 1 ELSE nwriters
  /\ up
  /\ Return(p, "idle")
  /\ UNCHANGED <<asyncq, waitVars>>

-----------------------------------------------------------------------------
(* scull_p_release and scull_p_fasync. *)

Fasync(p) ==
  /\ pc[p] = "idle" /\ p \in Async
  /\ \E on \in BOOLEAN : asyncq' = IF on THEN asyncq \cup {p} ELSE asyncq \ {p}
  /\ UNCHANGED <<sem, devVars, cntVars, waitVars, pc, sig, arg, seen, ubuf>>

\* Mutant: the file stays on the list of asynchronous readers.
ReleaseCall_keepsAsync(p) ==
  /\ pc[p] = "idle"
  /\ Stay(p, "rel_down")
  /\ UNCHANGED <<sem, devVars, cntVars, asyncq, waitVars>>

ReleaseCall(p) ==
  /\ pc[p] = "idle"
  /\ asyncq' = asyncq \ {p}
  /\ Stay(p, "rel_down")
  /\ UNCHANGED <<sem, devVars, cntVars, waitVars>>

ReleaseDown(p) == Down(p, "rel_down", "rel_cs")

\* Mutant: the buffer is freed with the last reader.
ReleaseBody_readersOnly(p) ==
  /\ pc[p] = "rel_cs"
  /\ nreaders' = IF p \in Readers THEN nreaders - 1 ELSE nreaders
  /\ nwriters' = IF p \in Writers THEN nwriters - 1 ELSE nwriters
  /\ IF nreaders' = 0
       THEN alloc' = FALSE /\ buffer' = Fresh
       ELSE UNCHANGED <<alloc, buffer>>
  /\ up
  /\ Return(p, "closed")
  /\ UNCHANGED <<rp, wp, asyncq, waitVars>>

ReleaseBody(p) ==
  /\ pc[p] = "rel_cs"
  /\ nreaders' = IF p \in Readers THEN nreaders - 1 ELSE nreaders
  /\ nwriters' = IF p \in Writers THEN nwriters - 1 ELSE nwriters
  /\ IF nreaders' + nwriters' = 0
       THEN alloc' = FALSE /\ buffer' = Fresh
       ELSE UNCHANGED <<alloc, buffer>>
  /\ up
  /\ Return(p, "closed")
  /\ UNCHANGED <<rp, wp, asyncq, waitVars>>

-----------------------------------------------------------------------------
(* scull_p_read *)

\* A system call enters the driver.
Call(p, l, n) ==
  /\ pc[p] = "idle"
  /\ Goto(p, l)
  /\ arg' = [arg EXCEPT ![p] = n]
  /\ UNCHANGED <<sem, devVars, cntVars, asyncq, inq, outq, sig, seen, ubuf>>

ReadCall(p) ==
  /\ p \in Readers
  /\ \E n \in 0 .. MaxCount : Call(p, "rd_down", n)
  /\ UNCHANGED task

\* Mutant: the result of down_interruptible() is ignored.
ReadDown_unchecked(p) ==
  \/ Down(p, "rd_down", "rd_test")
  \/ /\ pc[p] = "rd_down" /\ sem = 0 /\ sig[p]
     /\ Stay(p, "rd_test")
     /\ UNCHANGED <<sem, devVars, cntVars, asyncq, waitVars>>

ReadDown(p) ==
  \/ Down(p, "rd_down", "rd_test")
  \/ DownInterrupted(p, "rd_down", "idle")

\* Mutant: -EAGAIN is returned with the lock held.
ReadEmpty_keepsLock(p) ==
  /\ pc[p] = "rd_test" /\ rp = wp
  /\ IF p \in NonBlock THEN Return(p, "idle") /\ UNCHANGED sem
                       ELSE Stay(p, "rd_wait") /\ up
  /\ UNCHANGED <<devVars, cntVars, asyncq, waitVars>>

\* Nothing to read: release the lock, and return or wait.
ReadEmpty(p) ==
  /\ pc[p] = "rd_test" /\ rp = wp
  /\ up
  /\ IF p \in NonBlock THEN Return(p, "idle") ELSE Stay(p, "rd_wait")
  /\ UNCHANGED <<devVars, cntVars, asyncq, waitVars>>

\* How many bytes there are to read in one piece.
ReadCount(p) == min(arg[p], IF wp > rp THEN wp - rp ELSE BufferSize - rp)

ReadCopy(p) ==
  /\ pc[p] = "rd_test" /\ rp # wp
  /\ LET n == ReadCount(p)
     IN  /\ ubuf' = [ubuf EXCEPT ![p] = [i \in 1 .. n |-> buffer[rp + i - 1]]]
         /\ rp' = rp + n
  /\ Goto(p, "rd_wrap")
  /\ UNCHANGED <<sem, alloc, buffer, wp, cntVars, asyncq, waitVars, sig, arg, seen>>

\* copy_to_user() or copy_from_user() fails: -EFAULT.
CopyFault(p) ==
  /\ \/ pc[p] = "rd_test" /\ rp # wp
     \/ pc[p] = "wr_test" /\ spacefree(rp, wp) # 0
  /\ arg[p] > 0
  /\ up
  /\ Return(p, "idle")
  /\ UNCHANGED <<devVars, cntVars, asyncq, waitVars>>

ReadWrap(p) ==
  /\ pc[p] = "rd_wrap"
  /\ rp' = IF rp = BufferSize THEN 0 ELSE rp
  /\ up
  /\ Stay(p, "rd_wake")
  /\ UNCHANGED <<alloc, buffer, wp, cntVars, asyncq, waitVars>>

\* Mutant: nobody is woken after a read.
ReadWake_none(p) ==
  /\ pc[p] = "rd_wake"
  /\ Return(p, "idle")
  /\ UNCHANGED <<sem, devVars, cntVars, asyncq, waitVars>>

ReadWake(p) ==
  /\ pc[p] = "rd_wake"
  /\ task' = Woken(outq) /\ outq' = Remaining(outq)
  /\ Return(p, "idle")
  /\ UNCHANGED <<sem, devVars, cntVars, asyncq, inq>>

(* wait_event_interruptible(dev->inq, dev->rp != dev->wp): the condition is   *)
(* tested, then tested again after each prepare_to_wait().  Each test loads   *)
(* rp and then wp, with no lock.                                              *)

Load(p, from, to) ==
  /\ pc[p] = from
  /\ seen' = [seen EXCEPT ![p] = rp]
  /\ Goto(p, to)
  /\ UNCHANGED <<sem, devVars, cntVars, asyncq, waitVars, sig, arg, ubuf>>

ReadWaitLoad(p) == Load(p, "rd_wait", "rd_cond") \/ Load(p, "rd_load", "rd_check")

ReadWaitCond(p) ==
  /\ pc[p] = "rd_cond"
  /\ Forget(p, IF seen[p] # wp THEN "rd_down" ELSE "rd_prep")
  /\ UNCHANGED <<sem, devVars, cntVars, asyncq, waitVars>>

\* Mutant: the condition is not tested again once on the queue.
ReadPrepare_sleeps(p) ==
  /\ pc[p] = "rd_prep"
  /\ inq' = inq \cup {p}
  /\ task' = [task EXCEPT ![p] = "INTERRUPTIBLE"]
  /\ Stay(p, "rd_sleep")
  /\ UNCHANGED <<sem, devVars, cntVars, asyncq, outq>>

ReadPrepare(p) ==
  /\ pc[p] = "rd_prep"
  /\ inq' = inq \cup {p}
  /\ task' = [task EXCEPT ![p] = "INTERRUPTIBLE"]
  /\ Stay(p, "rd_load")
  /\ UNCHANGED <<sem, devVars, cntVars, asyncq, outq>>

\* finish_wait(): leave the queue and run.
FinishWait(p) ==
  /\ inq' = inq \ {p} /\ outq' = outq \ {p}
  /\ task' = [task EXCEPT ![p] = "RUNNING"]

ReadWaitCheck(p) ==
  /\ pc[p] = "rd_check"
  /\ \/ seen[p] # wp /\ FinishWait(p) /\ Forget(p, "rd_down")
     \/ seen[p] = wp /\ sig[p] /\ FinishWait(p) /\ Return(p, "idle")
     \/ seen[p] = wp /\ ~sig[p] /\ Forget(p, "rd_sleep") /\ UNCHANGED waitVars
  /\ UNCHANGED <<sem, devVars, cntVars, asyncq>>

ReadSleep(p) ==
  /\ pc[p] = "rd_sleep" /\ Runnable(p)
  /\ task' = [task EXCEPT ![p] = "RUNNING"]
  /\ Stay(p, "rd_prep")
  /\ UNCHANGED <<sem, devVars, cntVars, asyncq, inq, outq>>

-----------------------------------------------------------------------------
(* scull_p_write and scull_getwritespace *)

WriteCall(p) ==
  /\ p \in Writers
  /\ OpenDuringWrite \/ \A q \in Procs : ~Opening(q)
  /\ \E n \in 0 .. MaxCount : Call(p, "wr_down", n)
  /\ UNCHANGED task

WriteDown(p) ==
  \/ Down(p, "wr_down", "wr_test")
  \/ DownInterrupted(p, "wr_down", "idle")

WriteFull(p) ==
  /\ pc[p] = "wr_test" /\ spacefree(rp, wp) = 0
  /\ up
  /\ IF p \in NonBlock THEN Return(p, "idle") ELSE Stay(p, "wr_prep")
  /\ UNCHANGED <<devVars, cntVars, asyncq, waitVars>>

\* Mutant: the space is not tested again once on the queue.
WritePrepare_sleeps(p) ==
  /\ pc[p] = "wr_prep"
  /\ outq' = outq \cup {p}
  /\ task' = [task EXCEPT ![p] = "INTERRUPTIBLE"]
  /\ Stay(p, "wr_sleep")
  /\ UNCHANGED <<sem, devVars, cntVars, asyncq, inq>>

WritePrepare(p) ==
  /\ pc[p] = "wr_prep"
  /\ outq' = outq \cup {p}
  /\ task' = [task EXCEPT ![p] = "INTERRUPTIBLE"]
  /\ Stay(p, "wr_load")
  /\ UNCHANGED <<sem, devVars, cntVars, asyncq, inq>>

WriteLoad(p) == Load(p, "wr_load", "wr_check")

WriteCheck(p) ==
  /\ pc[p] = "wr_check"
  /\ Forget(p, IF spacefree(seen[p], wp) = 0 THEN "wr_sleep" ELSE "wr_finish")
  /\ UNCHANGED <<sem, devVars, cntVars, asyncq, waitVars>>

WriteSleep(p) ==
  /\ pc[p] = "wr_sleep" /\ Runnable(p)
  /\ task' = [task EXCEPT ![p] = "RUNNING"]
  /\ Stay(p, "wr_finish")
  /\ UNCHANGED <<sem, devVars, cntVars, asyncq, inq, outq>>

\* Mutant: an interrupted writer returns without finish_wait().
WriteFinishWait_onlyOnSuccess(p) ==
  /\ pc[p] = "wr_finish"
  /\ \/ sig[p] /\ Return(p, "idle") /\ UNCHANGED waitVars
     \/ ~sig[p] /\ FinishWait(p) /\ Stay(p, "wr_down")
  /\ UNCHANGED <<sem, devVars, cntVars, asyncq>>

WriteFinishWait(p) ==
  /\ pc[p] = "wr_finish"
  /\ FinishWait(p)
  /\ IF sig[p] THEN Return(p, "idle") ELSE Stay(p, "wr_down")
  /\ UNCHANGED <<sem, devVars, cntVars, asyncq>>

\* Mutant: the count is not cut off at the end of the buffer.
WriteCount_pastEnd(p) == min(arg[p], spacefree(rp, wp))

\* Mutant: the buffer is filled up to rp, and so looks empty.
WriteCount_upToRp(p) == min(arg[p], IF wp >= rp THEN BufferSize - wp ELSE rp - wp)

\* How many bytes there is room for in one piece.
WriteCount(p) ==
  min(min(arg[p], spacefree(rp, wp)),
      IF wp >= rp THEN BufferSize - wp ELSE rp - wp - 1)

WriteCopy(p) ==
  /\ pc[p] = "wr_test" /\ spacefree(rp, wp) # 0
  /\ LET n == WriteCount(p)
     IN  /\ \E bytes \in [1 .. n -> Data] :
              buffer' = [i \in Cells |->
                           IF i \in wp .. wp + n - 1 THEN bytes[i - wp + 1] ELSE buffer[i]]
         /\ wp' = wp + n
  /\ Stay(p, "wr_wrap")
  /\ UNCHANGED <<sem, alloc, rp, cntVars, asyncq, waitVars>>

WriteWrap(p) ==
  /\ pc[p] = "wr_wrap"
  /\ wp' = IF wp = BufferSize THEN 0 ELSE wp
  /\ up
  /\ Stay(p, "wr_wake")
  /\ UNCHANGED <<alloc, buffer, rp, cntVars, asyncq, waitVars>>

\* Mutant: nobody is woken after a write.
WriteWake_none(p) ==
  /\ pc[p] = "wr_wake"
  /\ Stay(p, "wr_async")
  /\ UNCHANGED <<sem, devVars, cntVars, asyncq, waitVars>>

WriteWake(p) ==
  /\ pc[p] = "wr_wake"
  /\ task' = Woken(inq) /\ inq' = Remaining(inq)
  /\ Stay(p, "wr_async")
  /\ UNCHANGED <<sem, devVars, cntVars, asyncq, outq>>

\* kill_fasync() sends SIGIO; the writer then returns, its own signals handled.
WriteAsync(p) ==
  /\ pc[p] = "wr_async"
  /\ LET T == {q \in asyncq \ {p} : pc[q] \notin {"closed", "idle"}}
     IN  /\ sig' = [q \in Procs |-> q # p /\ (q \in T \/ sig[q])]
         /\ task' = Woken(T)
  /\ Goto(p, "idle")
  /\ arg' = [arg EXCEPT ![p] = 0] /\ seen' = [seen EXCEPT ![p] = 0]
  /\ UNCHANGED <<sem, devVars, cntVars, asyncq, inq, outq, ubuf>>

-----------------------------------------------------------------------------
(* scull_p_poll, called by select() until the event it waits for is there.   *)
(* For a poller, task "INTERRUPTIBLE" stands for "not triggered since the    *)
(* last scan".                                                               *)

PollCall(p) ==
  /\ p \in Pollers
  /\ OpenDuringWrite \/ \A q \in Procs : ~Opening(q)
  /\ \E ev \in {POLLIN, POLLOUT} : Call(p, "poll_down", ev)
  /\ task' = [task EXCEPT ![p] = "INTERRUPTIBLE"]

PollDown(p) == Down(p, "poll_down", "poll_cs")

PollMask ==
  {ev \in {POLLIN, POLLOUT} : \/ ev = POLLIN  /\ rp # wp
                              \/ ev = POLLOUT /\ spacefree(rp, wp) # 0}

PollScan(p) ==
  /\ pc[p] = "poll_cs"
  /\ up
  /\ IF arg[p] \in PollMask \/ sig[p]
       THEN FinishWait(p) /\ Return(p, "idle")
       ELSE /\ inq' = inq \cup {p} /\ outq' = outq \cup {p}
            /\ Stay(p, "poll_sleep")
            /\ UNCHANGED task
  /\ UNCHANGED <<devVars, cntVars, asyncq>>

PollSleep(p) ==
  /\ pc[p] = "poll_sleep" /\ Runnable(p)
  /\ task' = [task EXCEPT ![p] = "INTERRUPTIBLE"]
  /\ Stay(p, "poll_down")
  /\ UNCHANGED <<sem, devVars, cntVars, asyncq, inq, outq>>

-----------------------------------------------------------------------------
\* A signal arrives while the process is inside the driver.
Signal(p) ==
  /\ p \in Signalled /\ ~sig[p] /\ pc[p] \notin {"closed", "idle"}
  /\ sig' = [sig EXCEPT ![p] = TRUE]
  /\ task' = [task EXCEPT ![p] = "RUNNING"]
  /\ UNCHANGED <<sem, devVars, cntVars, asyncq, inq, outq, pc, arg, seen, ubuf>>

\* What a process does on its own, in user mode.
UserCall(p) ==
  \/ OpenCall(p) \/ ReleaseCall(p) \/ Fasync(p)
  \/ ReadCall(p) \/ WriteCall(p) \/ PollCall(p)

\* What the driver does on its behalf.
Driver(p) ==
  \/ OpenDown(p) \/ OpenNoMem(p) \/ OpenBody(p)
  \/ ReleaseDown(p) \/ ReleaseBody(p)
  \/ ReadDown(p) \/ ReadEmpty(p) \/ ReadCopy(p) \/ CopyFault(p)
  \/ ReadWrap(p) \/ ReadWake(p)
  \/ ReadWaitLoad(p) \/ ReadWaitCond(p) \/ ReadPrepare(p)
  \/ ReadWaitCheck(p) \/ ReadSleep(p)
  \/ WriteDown(p) \/ WriteFull(p) \/ WritePrepare(p) \/ WriteLoad(p)
  \/ WriteCheck(p) \/ WriteSleep(p) \/ WriteFinishWait(p)
  \/ WriteCopy(p) \/ WriteWrap(p) \/ WriteWake(p) \/ WriteAsync(p)
  \/ PollDown(p) \/ PollScan(p) \/ PollSleep(p)

Next == \E p \in Procs : UserCall(p) \/ Driver(p) \/ Signal(p)

Spec == Init /\ [][Next]_vars

\* A process inside the driver keeps running.  Fairness is strong because a
\* kernel semaphore serves its waiters in the order they came: one that waits for
\* a semaphore which is free again and again does get it.
FairSpec == Spec /\ \A p \in Procs : SF_vars(Driver(p))

-----------------------------------------------------------------------------
(* Properties *)

DeviceOK ==
  /\ sem \in Nat /\ alloc \in BOOLEAN
  /\ buffer \in [Cells -> Data \cup {Junk}]
  /\ rp \in 0 .. BufferSize /\ wp \in 0 .. BufferSize
  /\ nreaders \in Int /\ nwriters \in Int

QueuesOK ==
  /\ asyncq \subseteq Procs /\ inq \subseteq Procs /\ outq \subseteq Procs
  /\ task \in [Procs -> {"RUNNING", "INTERRUPTIBLE"}]

ProcsOK ==
  /\ pc \in [Procs -> Labels]
  /\ sig \in [Procs -> BOOLEAN]
  /\ arg \in [Procs -> Nat]
  /\ seen \in [Procs -> 0 .. BufferSize]
  /\ ubuf \in [Procs -> Seq(Data \cup {Junk})]

TypeOK == DeviceOK /\ QueuesOK /\ ProcsOK

\* At most one process is between down() and up(), on every path through the
\* driver, error returns included, and the semaphore is free when none is.
MutualExclusion ==
  /\ \A p, q \in Procs : pc[p] \in Locked /\ pc[q] \in Locked => p = q
  /\ sem = IF \E p \in Procs : pc[p] \in Locked THEN 0 ELSE 1

IsOpen(p) == pc[p] \notin {"closed", "open_down", "open_cs"}

\* scull_p_open and scull_p_release allocate and free the buffer so that it
\* exists exactly while some process has the device open: no read() or write()
\* reaches a freed buffer, and none is left behind.
BufferLivesWhileOpen == alloc <=> \E p \in Procs : IsOpen(p)

\* The wait entries of read() and write() are on the kernel stack: a process is
\* on a queue only at the points between prepare_to_wait() and finish_wait() (or
\* inside poll()), never after it returned, whether it was woken or interrupted.
QueuedOnlyWhileWaiting ==
  \A p \in Procs :
    /\ p \in inq  => pc[p] \in Polling \cup {"rd_prep", "rd_load", "rd_check", "rd_sleep"}
    /\ p \in outq => pc[p] \in Polling \cup {"wr_load", "wr_check", "wr_sleep", "wr_finish"}

\* Only open files are on the list that kill_fasync() signals: scull_p_release
\* takes its file off.
AsyncOnlyOpen == \A p \in asyncq : IsOpen(p)

\* Nobody will wake p before something else happens.
Asleep(p) == task[p] = "INTERRUPTIBLE" /\ ~sig[p]
WaitsForData(p)  == Asleep(p) /\ \/ pc[p] = "rd_sleep"
                                 \/ pc[p] = "poll_sleep" /\ arg[p] = POLLIN
WaitsForSpace(p) == Asleep(p) /\ \/ pc[p] = "wr_sleep"
                                 \/ pc[p] = "poll_sleep" /\ arg[p] = POLLOUT

\* The test of rp != wp runs without the lock, but no wake-up is lost: a reader
\* (or a poll() for POLLIN) sleeps only while the pipe is empty, or while some
\* writer has yet to call wake_up_interruptible(&dev->inq).
NoLostDataWakeup ==
  \A p \in Procs : WaitsForData(p) =>
    /\ p \in inq
    /\ rp = wp \/ \E q \in Procs : pc[q] \in {"wr_wrap", "wr_wake"}

\* The same for writers ("Wait for space for writing"): one sleeps only while the
\* pipe is full, or while some reader has yet to wake dev->outq.
NoLostSpaceWakeup ==
  \A p \in Procs : WaitsForSpace(p) =>
    /\ p \in outq
    /\ spacefree(rp, wp) = 0 \/ \E q \in Procs : pc[q] \in {"rd_wrap", "rd_wake"}

\* The buffer and its two pointers only change while dev->sem is held: a process
\* that waited without the lock takes it again before it touches them.
ChangedUnderLock == [][devVars' # devVars => sem = 0]_vars

\* Whoever waits in down() or down_interruptible() gets past it: no path through
\* the driver keeps the semaphore.
LockGranted ==
  \A p \in Procs :
    LET waiting == pc[p] \in {"open_down", "rel_down", "rd_down", "wr_down", "poll_down"}
    IN  waiting ~> ~waiting

\* With data in the pipe, a sleeping reader resumes, however the unlocked test
\* and the wake-ups interleave.
ReaderResumes ==
  \A p \in Procs : pc[p] = "rd_sleep" /\ rp # wp ~> pc[p] # "rd_sleep"

\* With space in the pipe, a sleeping writer resumes.
WriterResumes ==
  \A p \in Procs : pc[p] = "wr_sleep" /\ spacefree(rp, wp) # 0 ~> pc[p] # "wr_sleep"

-----------------------------------------------------------------------------
(* The pipe as a bounded first-in first-out queue of bytes. *)

Contents == [i \in 1 .. (wp - rp) % BufferSize |-> buffer[(rp + i - 1) % BufferSize]]

OpenFiles == {p \in Procs : IsOpen(p)}
InFlight == IF alloc THEN Contents ELSE <<>>

Fifo == INSTANCE PipeFifo WITH
  Capacity <- BufferSize - 1, users <- OpenFiles, queue <- InFlight, got <- ubuf

\* Readers get the bytes writers put in, each once and in order, whatever the
\* wrap-arounds and short counts; never a byte nobody wrote, never more than
\* BufferSize - 1 bytes in flight; and only scull_p_open and the last
\* scull_p_release throw bytes away.
ImplementsFifo == Fifo!Spec

=============================================================================
