------------------------------ MODULE MyEvent ------------------------------
(***************************************************************************)
(* The event system calls of src/6/kernel/modified/myevent.c: a global     *)
(* linked list of counting semaphores ("events"), opened, waited for,      *)
(* signalled and closed by number.  The code takes no lock of its own.     *)
(*                                                                         *)
(* With Preemptible = FALSE a system call runs until it sleeps, as on one  *)
(* CPU without kernel preemption.  With TRUE system calls interleave       *)
(* between their statements, as on the SMP kernel of the repository: one   *)
(* step is a test, or a store together with the operands it reads.         *)
(***************************************************************************)
EXTENDS Integers, Sequences, SequencesExt, FiniteSets

CONSTANTS
  Procs,
  Nodes,        \* the memory blocks kmalloc() can return
  NULL,
  MaxOpens,     \* bound: how many events are created in all
  MaxValue,     \* bound: no event is signalled beyond this value
  Ops,          \* which of "open", "find", "wait", "signal", "close" are called
  CloseTail,    \* may the most recently created event be closed?
  UnixSignals,  \* may a Unix signal interrupt a sleeping process?
  Preemptible

ASSUME NullAssumption == NULL \notin Nodes
ASSUME BoundAssumption == MaxOpens \in Nat /\ MaxValue \in Nat
ASSUME FlagAssumption == {CloseTail, UnixSignals, Preemptible} \subseteq BOOLEAN

VARIABLES
  head, end,  \* lpmyevent_head, lpmyevent_end
  mem,        \* the nodes: [live, num, value, waitq, next]
  th,         \* each process's system call: [pc, op, arg, cur, prev]
  task,       \* each process's task state
  given,      \* the sleepers that a signal has chosen
  opens,      \* how many events have been created
  bad,        \* the invalid memory accesses so far
  late        \* history: the sleepers that joined the queue of an event while a
              \* close() of it had already woken the queue and not yet freed it

list  == <<head, end, mem>>
other == <<task, given, opens, bad, late>>
vars  == <<list, th, other>>

Idle == [pc |-> "user", op |-> "none", arg |-> 0, cur |-> NULL, prev |-> NULL]

Blank(v) == [live |-> TRUE, num |-> 0, value |-> v, waitq |-> <<>>, next |-> NULL]

Init ==
  /\ head = NULL /\ end = NULL
  /\ mem = [n \in Nodes |-> [Blank(0) EXCEPT !.live = FALSE]]
  /\ th = [p \in Procs |-> Idle]
  /\ task = [p \in Procs |-> "RUNNING"]
  /\ given = {} /\ opens = 0 /\ bad = {} /\ late = {}

-----------------------------------------------------------------------------
(* The scheduler and memory *)

Live == {n \in Nodes : mem[n].live}

\* Without preemption p runs only while nobody else is inside a system call;
\* kmalloc(GFP_KERNEL) and schedule() are the points where a call may be left.
MayRun(p) ==
  Preemptible \/ \A q \in Procs \ {p} : th[q].pc \in {"user", "alloc", "sleep", "oops"}

\* The pointers that the next step of p dereferences.  The result of kmalloc is
\* not checked, so running out of blocks counts as a use of NULL.
Targets(p) ==
  LET t == th[p]
  IN  CASE t.pc = "walk"     -> {t.cur} \ {NULL}
        [] t.pc = "alloc"    -> IF Live = Nodes THEN {NULL} ELSE {}
        [] t.pc \in {"o_number", "o_append"} -> {end}
        [] t.pc = "c_head"   -> {head}
        [] t.pc = "c_middle" -> {t.cur, t.prev}
        [] t.pc \in {"o_value", "w_read", "w_dec", "w_queue", "s_test", "s_inc",
                     "s_wake", "c_wake", "c_free"} -> {t.cur}
        [] OTHER -> {}

At(p, l) == th[p].pc = l /\ MayRun(p) /\ Targets(p) \subseteq Live

\* What happens after an access to NULL or to a freed node is not followed up:
\* the access is recorded and the process stops.
BadAccess(p) ==
  /\ MayRun(p) /\ ~(Targets(p) \subseteq Live)
  /\ bad' = bad \cup {IF NULL \in Targets(p) THEN "null" ELSE "freed"}
  /\ th' = [th EXCEPT ![p].pc = "oops"]
  /\ UNCHANGED <<list, task, given, opens, late>>

\* The queue q without the entries of the tasks of S.
Without(q, S) ==
  LET kept[i \in 0 .. Len(q)] ==
        IF i = 0 THEN <<>>
        ELSE IF q[i] \in S THEN kept[i - 1] ELSE Append(kept[i - 1], q[i])
  IN  kept[Len(q)]

Goto(p, l) == th' = [th EXCEPT ![p].pc = l]
Return(p)  == th' = [th EXCEPT ![p] = Idle]

-----------------------------------------------------------------------------
(* Entry of the system calls.  All but sys_myevent_open(0, value) begin with  *)
(* scheventNum, which walks the list one node at a time.                      *)

\* With CloseTail = FALSE, users only close events that are not the newest.
Allowed(o, num) ==
  /\ o \in Ops
  /\ o = "close"  => CloseTail \/ (end \in Live /\ num < mem[end].num)
  /\ o = "signal" => \A n \in Live : mem[n].num = num => mem[n].value < MaxValue

Call(p) ==
  /\ At(p, "user")
  /\ \E o \in {"find", "wait", "signal", "close"}, i \in 1 .. MaxOpens :
       /\ Allowed(o, 2 * i)
       /\ th' = [th EXCEPT ![p] = [pc |-> "walk", op |-> o, arg |-> 2 * i,
                                   cur |-> head, prev |-> NULL]]
  /\ UNCHANGED <<list, other>>

Found(o) ==
  CASE o = "find" -> "found" [] o = "wait" -> "w_read"
    [] o = "signal" -> "s_test" [] o = "close" -> "c_test"

\* One turn of the loop of scheventNum; every caller returns 0 when it fails.
scheventNum(p) ==
  /\ At(p, "walk")
  /\ LET n == th[p].cur
     IN  \/ n = NULL /\ Return(p)
         \/ n # NULL /\ mem[n].num = th[p].arg /\ Goto(p, Found(th[p].op))
         \/ /\ n # NULL /\ mem[n].num # th[p].arg
            /\ th' = [th EXCEPT ![p].prev = n, ![p].cur = mem[n].next]
  /\ UNCHANGED <<list, other>>

-----------------------------------------------------------------------------
(* sys_myevent_open *)

OpenCall(p) ==
  /\ At(p, "user") /\ "open" \in Ops /\ opens < MaxOpens
  /\ \E v \in 0 .. MaxValue :
       th' = [th EXCEPT ![p] = [Idle EXCEPT !.pc = "alloc", !.op = "open", !.arg = v]]
  /\ opens' = opens + 1
  /\ UNCHANGED <<list, task, given, bad, late>>

\* kmalloc: any free block; its value is not initialised.
OpenAlloc(p) ==
  /\ At(p, "alloc")
  /\ \E n \in Nodes \ Live, junk \in 0 .. MaxValue :
       /\ mem' = [mem EXCEPT ![n] = Blank(junk)]
       /\ th' = [th EXCEPT ![p].pc = "o_test", ![p].cur = n]
  /\ UNCHANGED <<head, end, other>>

\* The number is 2 in an empty list ...
OpenTest(p) ==
  /\ At(p, "o_test")
  /\ IF head = NULL
       THEN mem' = [mem EXCEPT ![th[p].cur].num = 2] /\ Goto(p, "o_first")
       ELSE UNCHANGED mem /\ Goto(p, "o_number")
  /\ UNCHANGED <<head, end, other>>

\* ... and follows that of the tail otherwise.
OpenNumber(p) ==
  /\ At(p, "o_number")
  /\ mem' = [mem EXCEPT ![th[p].cur].num = mem[end].num + 2]
  /\ Goto(p, "o_append")
  /\ UNCHANGED <<head, end, other>>

\* lpmyevent_head = lpmyevent_end = new_event: the right-hand assignment comes first.
OpenFirst(p) ==
  /\ At(p, "o_first")
  /\ end' = th[p].cur
  /\ Goto(p, "o_head")
  /\ UNCHANGED <<head, mem, other>>

OpenHead(p) ==
  /\ At(p, "o_head")
  /\ head' = th[p].cur
  /\ Goto(p, "o_value")
  /\ UNCHANGED <<end, mem, other>>

OpenAppend(p) ==
  /\ At(p, "o_append")
  /\ mem' = [mem EXCEPT ![end].next = th[p].cur]
  /\ Goto(p, "o_end")
  /\ UNCHANGED <<head, end, other>>

OpenEnd(p) ==
  /\ At(p, "o_end")
  /\ end' = th[p].cur
  /\ Goto(p, "o_value")
  /\ UNCHANGED <<head, mem, other>>

\* The value is stored after the node has been linked.
OpenValue(p) ==
  /\ At(p, "o_value")
  /\ mem' = [mem EXCEPT ![th[p].cur].value = th[p].arg]
  /\ Return(p)
  /\ UNCHANGED <<head, end, other>>

\* sys_myevent_open(num, _) of an event that exists returns num.
OpenFound(p) == At(p, "found") /\ Return(p) /\ UNCHANGED <<list, other>>

-----------------------------------------------------------------------------
(* sys_myevent_wait *)

WaitRead(p) ==
  /\ At(p, "w_read")
  /\ Goto(p, IF mem[th[p].cur].value > 0 THEN "w_dec" ELSE "w_queue")
  /\ UNCHANGED <<list, other>>

WaitDec(p) ==
  /\ At(p, "w_dec")
  /\ mem' = [mem EXCEPT ![th[p].cur].value = @ - 1]
  /\ Return(p)
  /\ UNCHANGED <<head, end, other>>

\* A close() of the event n has woken its queue and is about to free it.
Doomed(n) == \E q \in Procs : th[q].pc = "c_free" /\ th[q].cur = n

\* The process goes to sleep in state s, its queue changed to q.
Sleep(p, s, q) ==
  /\ At(p, "w_queue")
  /\ mem' = [mem EXCEPT ![th[p].cur].waitq = q]
  /\ task' = [task EXCEPT ![p] = s]
  /\ Goto(p, "sleep")
  /\ late' = IF Doomed(th[p].cur) THEN late \cup {p} ELSE late
  /\ UNCHANGED <<head, end, given, opens, bad>>

\* Mutant: the process sleeps in the uninterruptible state.
WaitQueue_uninterruptible(p) ==
  Sleep(p, "UNINTERRUPTIBLE", Append(mem[th[p].cur].waitq, p))

\* Mutant: add_wait_queue, which puts the process at the head of the queue.
WaitQueue_atHead(p) == Sleep(p, "INTERRUPTIBLE", <<p>> \o mem[th[p].cur].waitq)

\* set_current_state and add_wait_queue_exclusive, at the tail.
WaitQueue(p) == Sleep(p, "INTERRUPTIBLE", Append(mem[th[p].cur].waitq, p))

\* schedule() returns; finish_wait leaves the queue if the entry is still on it;
\* the last printk reads tmp->value, whether or not the node still exists, and
\* has no influence on what follows.
WaitBack(p) ==
  /\ At(p, "sleep") /\ task[p] = "RUNNING"
  /\ LET n == th[p].cur
     IN  /\ mem' = [mem EXCEPT ![n].waitq = Without(@, {p})]
         /\ bad' = bad \cup {b \in {"printk", "freed"} :
                     n \notin Live /\ (b = "freed" => Contains(mem[n].waitq, p))}
  /\ given' = given \ {p} /\ late' = late \ {p}
  /\ Return(p)
  /\ UNCHANGED <<head, end, task, opens>>

-----------------------------------------------------------------------------
(* sys_myevent_signal *)

\* Mutant: the value is incremented whether or not somebody waits.
SignalTest_always(p) ==
  At(p, "s_test") /\ Goto(p, "s_inc") /\ UNCHANGED <<list, other>>

SignalTest(p) ==
  /\ At(p, "s_test")
  /\ Goto(p, IF mem[th[p].cur].waitq = <<>> THEN "s_inc" ELSE "s_wake")
  /\ UNCHANGED <<list, other>>

SignalInc(p) ==
  /\ At(p, "s_inc")
  /\ mem' = [mem EXCEPT ![th[p].cur].value = @ + 1]
  /\ Return(p)
  /\ UNCHANGED <<head, end, other>>

\* Where a wake-up of the queue of n finds a task asleep; one that a Unix signal has
\* already woken is passed over.
SleeperAt(n) == {i \in DOMAIN mem[n].waitq : task[mem[n].waitq[i]] = "INTERRUPTIBLE"}
Sleepers(n)  == {mem[n].waitq[i] : i \in SleeperAt(n)}

\* The sleeper that has been on the queue for longest, if there is one.
FirstSleeper(n) ==
  {mem[n].waitq[i] : i \in {j \in SleeperAt(n) : \A k \in SleeperAt(n) : j <= k}}

\* The tasks of S run again and are no longer on the queue of n.
WakeUp(n, S) ==
  /\ mem' = [mem EXCEPT ![n].waitq = Without(@, S)]
  /\ task' = [q \in Procs |-> IF q \in S THEN "RUNNING" ELSE task[q]]

\* wake_up: the first sleeper.
SignalWake(p) ==
  /\ At(p, "s_wake")
  /\ WakeUp(th[p].cur, FirstSleeper(th[p].cur))
  /\ given' = given \cup FirstSleeper(th[p].cur)
  /\ Return(p)
  /\ UNCHANGED <<head, end, opens, bad, late>>

-----------------------------------------------------------------------------
(* sys_myevent_close *)

\* The tail is tested first, then the head.
CloseTest(p) ==
  /\ \/ At(p, "c_test")  /\ Goto(p, IF th[p].cur = end THEN "c_tail" ELSE "c_test2")
     \/ At(p, "c_test2") /\ Goto(p, IF th[p].cur = head THEN "c_head" ELSE "c_middle")
  /\ UNCHANGED <<list, other>>

\* Mutant: an event in the middle of the list is not unlinked.
CloseUnlink_notMiddle(p) ==
  /\ \/ At(p, "c_tail") /\ end' = th[p].prev /\ UNCHANGED head
     \/ At(p, "c_head") /\ head' = mem[head].next /\ UNCHANGED end
     \/ At(p, "c_middle") /\ UNCHANGED <<head, end>>
  /\ Goto(p, "c_wake")
  /\ UNCHANGED <<mem, other>>

\* Closing the only event moves end but not head, and closing any tail leaves the
\* next pointer of its predecessor.
CloseUnlink(p) ==
  /\ \/ At(p, "c_tail") /\ end' = th[p].prev /\ UNCHANGED <<head, mem>>
     \/ At(p, "c_head") /\ head' = mem[head].next /\ UNCHANGED <<end, mem>>
     \/ /\ At(p, "c_middle")
        /\ mem' = [mem EXCEPT ![th[p].prev].next = mem[th[p].cur].next]
        /\ UNCHANGED <<head, end>>
  /\ Goto(p, "c_wake")
  /\ UNCHANGED other

\* Mutant: only a waiter that is not the first is woken, as if the head of the queue
\* were skipped.
CloseWake_notFirst(p) ==
  /\ At(p, "c_wake")
  /\ WakeUp(th[p].cur, Sleepers(th[p].cur) \ FirstSleeper(th[p].cur))
  /\ Goto(p, "c_free")
  /\ UNCHANGED <<head, end, given, opens, bad, late>>

\* wake_up_all.
CloseWake(p) ==
  /\ At(p, "c_wake")
  /\ WakeUp(th[p].cur, Sleepers(th[p].cur))
  /\ Goto(p, "c_free")
  /\ UNCHANGED <<head, end, given, opens, bad, late>>

\* kfree, whoever has joined the queue in the meantime.
CloseFree(p) ==
  /\ At(p, "c_free")
  /\ mem' = [mem EXCEPT ![th[p].cur].live = FALSE]
  /\ Return(p)
  /\ UNCHANGED <<head, end, other>>

-----------------------------------------------------------------------------
\* A Unix signal wakes a process that sleeps in sys_myevent_wait.
UnixSignal(p) ==
  /\ UnixSignals /\ th[p].pc = "sleep" /\ task[p] = "INTERRUPTIBLE"
  /\ task' = [task EXCEPT ![p] = "RUNNING"]
  /\ UNCHANGED <<list, th, given, opens, bad, late>>

Kernel(p) ==
  \/ scheventNum(p) \/ BadAccess(p)
  \/ OpenAlloc(p) \/ OpenTest(p) \/ OpenNumber(p) \/ OpenAppend(p) \/ OpenEnd(p)
  \/ OpenFirst(p) \/ OpenHead(p) \/ OpenValue(p) \/ OpenFound(p)
  \/ WaitRead(p) \/ WaitDec(p) \/ WaitQueue(p) \/ WaitBack(p)
  \/ SignalTest(p) \/ SignalInc(p) \/ SignalWake(p)
  \/ CloseTest(p) \/ CloseUnlink(p) \/ CloseWake(p) \/ CloseFree(p)

Next == \E p \in Procs : Call(p) \/ OpenCall(p) \/ Kernel(p) \/ UnixSignal(p)

Spec == Init /\ [][Next]_vars

-----------------------------------------------------------------------------
(* Properties *)

TypeOK ==
  /\ head \in Nodes \cup {NULL} /\ end \in Nodes \cup {NULL}
  /\ mem \in [Nodes -> [live : BOOLEAN, num : Nat, value : Int,
                        waitq : Seq(Procs), next : Nodes \cup {NULL}]]
  /\ \A p \in Procs : /\ th[p].arg \in Nat
                      /\ {th[p].cur, th[p].prev} \subseteq Nodes \cup {NULL}
                      /\ task[p] \in {"RUNNING", "INTERRUPTIBLE"}
  /\ given \subseteq Procs /\ late \subseteq Procs /\ opens \in 0 .. MaxOpens
  /\ bad \subseteq {"null", "freed", "printk"}

\* No system call is in progress.
Quiet == \A p \in Procs : th[p].pc \in {"user", "alloc", "sleep"}

Asleep(p) == th[p].pc = "sleep" /\ task[p] = "INTERRUPTIBLE"

\* The k-th node from the head of the list, NULL beyond its end.
NodeAt == LET at[k \in 0 .. Cardinality(Nodes)] ==
                IF k = 0 THEN head
                ELSE IF at[k - 1] = NULL THEN NULL ELSE mem[at[k - 1]].next
          IN  at

\* Between calls the list that starts at lpmyevent_head holds exactly the events
\* that were created and not closed, in the order of their even numbers, and ends
\* at lpmyevent_end: open's append and close's three cases keep it so.
ListHoldsOpenEvents ==
  Quiet =>
    LET L == {k \in DOMAIN NodeAt : NodeAt[k] # NULL}
    IN  /\ {NodeAt[k] : k \in L} = Live
        /\ \A k \in L : /\ mem[NodeAt[k]].num % 2 = 0
                        /\ k + 1 \in L => mem[NodeAt[k]].num < mem[NodeAt[k + 1]].num
                        /\ (NodeAt[k] = end <=> k + 1 \notin L)

\* sys_myevent_open never follows a NULL pointer to the tail of the list: head and
\* end are NULL together.
NoNullDereference == "null" \notin bad

\* No system call follows a pointer to an event that was closed: scheventNum
\* ("fails with NULL") finds open events and nothing else, and finish_wait finds its
\* entry gone from the queue of a closed event.  The value that wait prints after
\* its sleep is read from the freed node all the same: see ReportsLiveValue.
NoFreedDereference == "freed" \notin bad

\* The event that p sleeps on exists and has p on its queue: a signal or a close
\* can still reach it.
CanBeWoken(p) == th[p].cur \in Live /\ Contains(mem[th[p].cur].waitq, p)

\* Every process that sleeps in sys_myevent_wait can be woken.  So it is as long as
\* system calls run one at a time.
SleepersCanBeWoken == \A p \in Procs : Asleep(p) => CanBeWoken(p)

\* Under any interleaving close() strands no process but those that joined the queue
\* in the one place where it leaves room for them, between its wake_up_all and its
\* kfree: wait joins the queue before it sleeps, and close wakes before it frees.
OnlyLateSleepersAreStranded ==
  \A p \in Procs : Asleep(p) /\ p \notin late => CanBeWoken(p)

\* "If the count is 0 the process has to wait; if it is greater than 0 it is
\* decremented and the call returns at once": between calls nobody sleeps on an
\* event that has a resource to give.
NobodySleepsOnResource ==
  Quiet => \A p \in Procs : Asleep(p) => mem[th[p].cur].value <= 0

\* The test of value and its decrement never take more than there is.
ValueNeverNegative == \A n \in Live : mem[n].value >= 0

\* Events are created with increasing even numbers: no two open events answer to
\* the same one.
NumbersAreUnique ==
  \A m, n \in Live : mem[m].num = mem[n].num /\ mem[m].num # 0 => m = n

\* sys_myevent_wait returns from its sleep, for an event that has not been closed,
\* only if sys_myevent_signal has handed it a unit.
WokenMeansGiven ==
  \A p \in Procs :
    /\ th[p].pc = "sleep" /\ ~Asleep(p)
    /\ th[p].cur \in Live /\ ~Doomed(th[p].cur) /\ mem[th[p].cur].num = th[p].arg
    => p \in given

\* The value that wait prints after it slept ("now i'm back and value is") is that
\* of an existing event.  It is not: closing an event under its waiters breaks this.
ReportsLiveValue == "printk" \notin bad

-----------------------------------------------------------------------------
(* The events as counting semaphores that hand over in arrival order. *)

\* The events that open() has finished and close() has not emptied.
Created == {n \in Live : \A p \in Procs :
              th[p].cur = n => th[p].pc \notin {"o_test", "o_number", "o_append", "o_end",
                                             "o_first", "o_head", "o_value", "c_free"}}

\* Each open event, by number.
Events ==
  [num \in {mem[n].num : n \in Created} |->
     LET n == CHOOSE m \in Created : mem[m].num = num
     IN  [count |-> mem[n].value, queue |-> mem[n].waitq]]

Semaphores == INSTANCE EventSemaphores WITH events <- Events, handed <- given

\* Without preemption the four system calls implement counting semaphores: each
\* unit of an event goes to one process, and waiters get theirs in arrival order.
ImplementsSemaphores == Semaphores!Spec


\* The list of events stays sound through every order of opens and closes: it
\* holds the open events, and no system call follows a pointer that leads
\* elsewhere.
ListSound == ListHoldsOpenEvents /\ NoNullDereference /\ NoFreedDereference

\* Every unit a signal brings is kept in value or handed to one waiter, every wait
\* that succeeds was given one, by the event with its number, and no waiter sleeps
\* where a signal or a close would not find it.
UnitsAccountedFor ==
  /\ SleepersCanBeWoken
  /\ NobodySleepsOnResource /\ ValueNeverNegative /\ NumbersAreUnique /\ WokenMeansGiven
=============================================================================
