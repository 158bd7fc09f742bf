--------------------------- MODULE MyEventProofs ---------------------------
(***************************************************************************)
(* Proofs about the event system calls of myevent.c.                       *)
(*                                                                         *)
(* Types and the wake-up of sleepers hold under every scheduler.  The list *)
(* of events, the account of units and the refinement of EventSemaphores   *)
(* hold on one CPU without kernel preemption (Serial); with it, or when    *)
(* the newest event is closed, they do not, as the runs lostwake and       *)
(* closetail show.                                                         *)
(***************************************************************************)
EXTENDS MyEvent, FiniteSetTheorems, WellFoundedInduction, TLAPS

-----------------------------------------------------------------------------
(* Induction and wait queues *)

\* Induction over the naturals, for a set.
LEMMA SetInduction ==
  ASSUME NEW T, 0 \in T, \A n \in Nat : n \in T => n + 1 \in T
  PROVE  Nat \subseteq T
<1> SUFFICES ASSUME Nat \ T # {} PROVE FALSE
  OBVIOUS
<1> DEFINE U == Nat \ T
<1>1. PICK x \in U : \A y \in U : ~(<<y, x>> \in OpToRel(<, Nat))
  BY NatLessThanWellFounded, WFMin
<1>2. \A y \in U : ~(y < x)
  BY <1>1 DEF OpToRel
<1>3. x \in Nat /\ x # 0
  OBVIOUS
<1>4. x - 1 \in Nat /\ x - 1 \notin U
  BY <1>2, <1>3
<1>5. (x - 1) + 1 \in T
  BY <1>4
<1> QED BY <1>3, <1>5

\* What Without computes when it has looked at the first i entries of q.
Step(f, q, S, i) == IF i = 0 THEN <<>>
                    ELSE IF q[i] \in S THEN f[i - 1] ELSE Append(f[i - 1], q[i])

\* The function that Without defines by recursion exists, for a queue of any length.
LEMMA KeptExists ==
  ASSUME NEW P, NEW q \in Seq(P), NEW S
  PROVE  \E f : f = [i \in 0 .. Len(q) |-> Step(f, q, S, i)]
<1> DEFINE Upto(n) == \E f : f = [i \in 0 .. n |-> Step(f, q, S, i)]
           T == {n \in Nat : Upto(n)}
<1>1. 0 \in T
  <2> DEFINE f == [i \in 0 .. 0 |-> <<>>]
  <2>1. f = [i \in 0 .. 0 |-> Step(f, q, S, i)]
    BY DEF Step
  <2> HIDE DEF f
  <2> QED BY <2>1
<1>2. \A n \in Nat : n \in T => n + 1 \in T
  <2> SUFFICES ASSUME NEW n \in Nat, n \in T PROVE n + 1 \in T
    OBVIOUS
  <2>1. PICK f : f = [i \in 0 .. n |-> Step(f, q, S, i)]
    OBVIOUS
  <2> DEFINE g == [i \in 0 .. n + 1 |-> IF i = n + 1 THEN Step(f, q, S, i) ELSE f[i]]
  <2>2. \A i \in 0 .. n + 1 : Step(g, q, S, i) = Step(f, q, S, i)
    <3> SUFFICES ASSUME NEW i \in 0 .. n + 1 PROVE Step(g, q, S, i) = Step(f, q, S, i)
      OBVIOUS
    <3>1. i # 0 => g[i - 1] = f[i - 1]
      OBVIOUS
    <3> HIDE DEF g
    <3> QED BY <3>1 DEF Step
  <2>3. \A i \in 0 .. n : f[i] = Step(f, q, S, i)
    BY <2>1
  <2>4. g = [i \in 0 .. n + 1 |-> Step(g, q, S, i)]
    <3>1. \A i \in 0 .. n + 1 : g[i] = Step(g, q, S, i)
      BY <2>2, <2>3
    <3>2. g = [i \in 0 .. n + 1 |-> g[i]]
      OBVIOUS
    <3> HIDE DEF g
    <3> QED BY <3>1, <3>2
  <2> HIDE DEF g
  <2>5. Upto(n + 1)
    BY <2>4
  <2> QED BY <2>5
<1>3. Nat \subseteq T
  <2> HIDE DEF T
  <2> QED BY <1>1, <1>2, SetInduction
<1>4. Len(q) \in T
  BY <1>3
<1> QED BY <1>4

\* So Without has the value that its recursion says.
LEMMA WithoutValue ==
  ASSUME NEW P, NEW q \in Seq(P), NEW S
  PROVE  \E f : /\ f = [i \in 0 .. Len(q) |-> Step(f, q, S, i)]
                /\ Without(q, S) = f[Len(q)]
<1> DEFINE h == CHOOSE f : f = [i \in 0 .. Len(q) |-> Step(f, q, S, i)]
<1>1. h = [i \in 0 .. Len(q) |-> Step(h, q, S, i)]
  BY SMTT(60), KeptExists
<1>2. Without(q, S) = h[Len(q)]
  BY DEF Without, Step
<1> HIDE DEF h
<1> QED BY <1>1, <1>2
\* x is among the first n entries of q.
Among(q, n, x) == \E j \in 1 .. n : q[j] = x

\* What is left of a wait queue when the tasks of S have been taken off.
LEMMA WithoutKeeps ==
  ASSUME NEW P, NEW q \in Seq(P), NEW S
  PROVE  /\ Without(q, S) \in Seq(P)
         /\ \A x : Contains(Without(q, S), x) <=> x \notin S /\ Contains(q, x)
<1>1. PICK f : /\ f = [i \in 0 .. Len(q) |-> Step(f, q, S, i)]
               /\ Without(q, S) = f[Len(q)]
  BY WithoutValue
<1>10. \A i \in 0 .. Len(q) : f[i] = Step(f, q, S, i)
  BY <1>1
<1> DEFINE Right(n) == /\ f[n] \in Seq(P)
                       /\ \A x : Among(f[n], Len(f[n]), x) <=> x \notin S /\ Among(q, n, x)
           T == {n \in Nat : n <= Len(q) => Right(n)}
<1>2. 0 \in T
  <2>1. f[0] = <<>>
    BY <1>1 DEF Step
  <2>2. <<>> \in Seq(P) /\ Len(<<>>) = 0
    OBVIOUS
  <2>3. \A x : ~Among(<<>>, 0, x) /\ ~Among(q, 0, x)
    BY DEF Among
  <2>4. Right(0)
    BY <2>1, <2>2, <2>3
  <2> QED BY <2>4
<1>3. \A n \in Nat : n \in T => n + 1 \in T
  <2> SUFFICES ASSUME NEW n \in Nat, n \in T, n + 1 <= Len(q) PROVE Right(n + 1)
    OBVIOUS
  <2> DEFINE g == f[n]
  <2>1. Right(n)
    OBVIOUS
  <2>2. f[n + 1] = IF q[n + 1] \in S THEN g ELSE Append(g, q[n + 1])
    <3>1. f[n + 1] = Step(f, q, S, n + 1)
      BY <1>10
    <3> QED BY <3>1 DEF Step
  <2>3. \A x : Among(q, n + 1, x) <=> Among(q, n, x) \/ x = q[n + 1]
    BY DEF Among
  <2>4. q[n + 1] \in P
    OBVIOUS
  <2> HIDE DEF g, Right
  <2>5. g \in Seq(P) /\ \A x : Among(g, Len(g), x) <=> x \notin S /\ Among(q, n, x)
    BY <2>1 DEF Right, g
  <2>6. CASE q[n + 1] \in S
    BY <2>2, <2>3, <2>5, <2>6 DEF Right
  <2>7. CASE q[n + 1] \notin S
    <3> DEFINE k == Append(g, q[n + 1])
    <3>1. k \in Seq(P) /\ Len(k) = Len(g) + 1 /\ k[Len(g) + 1] = q[n + 1]
      BY <2>4, <2>5
    <3>2. \A j \in 1 .. Len(g) : k[j] = g[j]
      BY <2>4, <2>5
    <3>3. Len(g) \in Nat
      BY <2>5
    <3> HIDE DEF k
    <3>4. \A x : Among(k, Len(k), x) <=> Among(g, Len(g), x) \/ x = q[n + 1]
      BY <3>1, <3>2, <3>3 DEF Among
    <3>5. f[n + 1] = k
      BY <2>2, <2>7 DEF k
    <3> QED BY <2>3, <2>5, <2>7, <3>1, <3>4, <3>5 DEF Right
  <2> QED BY <2>6, <2>7
<1>4. Len(q) \in T
  <2> HIDE DEF T
  <2>1. Nat \subseteq T
    BY <1>2, <1>3, SetInduction
  <2> QED BY <2>1
<1>5. Right(Len(q))
  BY <1>4
<1> QED BY <1>1, <1>5 DEF Contains, Among

-----------------------------------------------------------------------------
(* Types *)

\* Program points at which a system call holds a pointer to a node.
AtNode ==
  {"o_test", "o_number", "o_append", "o_end", "o_first", "o_head", "o_value", "found",
   "w_read", "w_dec", "w_queue", "sleep", "s_test", "s_inc", "s_wake", "c_test", "c_test2",
   "c_tail", "c_head", "c_middle", "c_wake", "c_free"}
Labels == AtNode \cup {"user", "walk", "alloc", "oops"}
Searching == {"find", "wait", "signal", "close"}
Pointers == Nodes \cup {NULL}

CallState == [pc : Labels, op : Searching \cup {"none", "open"}, arg : Nat,
              cur : Pointers, prev : Pointers]
NodeState == [live : BOOLEAN, num : Nat, value : Int, waitq : Seq(Procs), next : Pointers]

Threads ==
  /\ th \in [Procs -> CallState]
  /\ \A p \in Procs : /\ th[p].pc \in AtNode => th[p].cur \in Nodes
                      /\ th[p].pc = "walk" => th[p].op \in Searching

Memory ==
  mem \in [Nodes -> NodeState]

Tasks ==
  /\ task \in [Procs -> {"RUNNING", "INTERRUPTIBLE"}]
  /\ given \subseteq Procs /\ late \subseteq Procs /\ opens \in 0 .. MaxOpens
  /\ bad \subseteq {"null", "freed", "printk"}

Types == head \in Pointers /\ end \in Pointers /\ Threads /\ Memory /\ Tasks

\* A process that moves on inside its system call, ...
LEMMA GotoType ==
  ASSUME Threads, NEW p \in Procs, NEW l \in Labels \ {"walk"}, Goto(p, l),
         l \in AtNode => th[p].cur \in Nodes
  PROVE  Threads'
  BY DEF Threads, Goto, CallState

\* ... one that begins a call or moves to another node, ...
LEMMA ThreadType ==
  ASSUME Threads, NEW p \in Procs, NEW t, th' = [th EXCEPT ![p] = t],
         t \in CallState,
         t.pc \in AtNode => t.cur \in Nodes,
         t.pc = "walk" => t.op \in Searching
  PROVE  Threads'
  BY DEF Threads

\* A process outside system calls.
LEMMA IdleType == Idle \in CallState /\ Idle.pc = "user" /\ Idle.cur = NULL
  BY DEF Idle, CallState, Labels, Pointers

\* ... and one that returns.
LEMMA ReturnType ==
  ASSUME Threads, NEW p \in Procs, Return(p)
  PROVE  Threads'
  BY IdleType, ThreadType DEF Return, AtNode

\* Stores to one field of a node.
LEMMA NodeType ==
  ASSUME Memory, NEW n \in Nodes
  PROVE  /\ \A x \in Nat : mem' = [mem EXCEPT ![n].num = x] => Memory'
         /\ \A x \in Int : mem' = [mem EXCEPT ![n].value = x] => Memory'
         /\ \A x \in Seq(Procs) : mem' = [mem EXCEPT ![n].waitq = x] => Memory'
         /\ \A x \in Pointers : mem' = [mem EXCEPT ![n].next = x] => Memory'
  BY ZenonT(60) DEF Memory, NodeState

\* Every step of every system call keeps the types.
LEMMA TypesStep ==
  ASSUME Types, NEW p \in Procs, Call(p) \/ OpenCall(p) \/ Kernel(p) \/ UnixSignal(p)
  PROVE  Types'
<1> USE DEF Types, other, list
<1>1. CASE Call(p)
  <2>1. PICK o \in Searching, i \in 1 .. MaxOpens :
          th' = [th EXCEPT ![p] = [pc |-> "walk", op |-> o, arg |-> 2 * i,
                                   cur |-> head, prev |-> NULL]]
    BY <1>1 DEF Call, Searching
  <2> DEFINE t == [pc |-> "walk", op |-> o, arg |-> 2 * i, cur |-> head, prev |-> NULL]
  <2>2. t \in CallState /\ t.pc = "walk" /\ t.op \in Searching
    BY BoundAssumption DEF Labels, Pointers, CallState
  <2>3. Threads'
    <3> HIDE DEF t
    <3>1. th' = [th EXCEPT ![p] = t]
      BY <2>1 DEF t
    <3> QED BY <2>2, <3>1, ThreadType DEF AtNode
  <2> QED BY <1>1, <2>3 DEF Call, Memory, NodeState, Tasks
<1>2. CASE OpenCall(p)
  <2>1. PICK v \in 0 .. MaxValue :
          th' = [th EXCEPT ![p] = [Idle EXCEPT !.pc = "alloc", !.op = "open", !.arg = v]]
    BY <1>2 DEF OpenCall
  <2> DEFINE t == [Idle EXCEPT !.pc = "alloc", !.op = "open", !.arg = v]
  <2>3. t \in CallState /\ t.pc = "alloc"
    <3>1. v \in Nat /\ "alloc" \in Labels
      BY BoundAssumption DEF Labels
    <3> QED BY <3>1, IdleType DEF CallState
  <2>4. Threads'
    <3> HIDE DEF t
    <3>1. th' = [th EXCEPT ![p] = t]
      BY <2>1 DEF t
    <3> QED BY <2>3, <3>1, ThreadType DEF AtNode
  <2>5. Tasks'
    <3>0. opens' = opens + 1 /\ opens < MaxOpens /\ opens \in 0 .. MaxOpens
      BY <1>2 DEF OpenCall, Tasks
    <3>1. opens' \in 0 .. MaxOpens
      BY <3>0, BoundAssumption
    <3> QED BY <1>2, <3>1 DEF OpenCall, Tasks
  <2> QED BY <1>2, <2>4, <2>5 DEF OpenCall, Memory, NodeState
<1>3. CASE scheventNum(p)
  <2> DEFINE n == th[p].cur
  <2>0. /\ th[p].pc = "walk" /\ n \in Pointers
        /\ UNCHANGED <<head, end, mem, task, given, opens, bad, late>>
    BY <1>3 DEF scheventNum, At, Threads, CallState
  <2>1. CASE Return(p)
    BY <2>0, <2>1, ReturnType DEF Memory, NodeState, Tasks
  <2>2. CASE n # NULL /\ Goto(p, Found(th[p].op))
    <3>1. th[p].op \in Searching
      BY <2>0 DEF Threads, CallState
    <3>2. Found(th[p].op) \in Labels \ {"walk"}
      BY <3>1 DEF Found, Searching, Labels, AtNode
    <3>3. n \in Nodes
      BY <2>0, <2>2 DEF Pointers
    <3>4. Threads'
      BY <2>2, <3>2, <3>3, GotoType
    <3> QED BY <2>0, <3>4 DEF Memory, NodeState, Tasks
  <2>3. CASE /\ n # NULL /\ th' = [th EXCEPT ![p].prev = n, ![p].cur = mem[n].next]
    <3>1. n \in Nodes /\ mem[n].next \in Pointers
      BY <2>0, <2>3 DEF Pointers, Memory, NodeState
    <3> HIDE DEF n
    <3>2. Threads'
      BY ZenonT(60), <2>0, <2>3, <3>1 DEF Threads, CallState, AtNode, Pointers
    <3> QED BY <2>0, <3>2 DEF Memory, NodeState, Tasks
  <2> QED BY <1>3, <2>1, <2>2, <2>3 DEF scheventNum
<1>4. CASE BadAccess(p)
  <2>1. Threads'
    BY <1>4, GotoType DEF BadAccess, Goto, Labels, AtNode
  <2> QED BY <1>4, <2>1 DEF BadAccess, Memory, NodeState, Tasks
<1>5. CASE OpenAlloc(p)
  <2>1. PICK n \in Nodes, junk \in 0 .. MaxValue :
          /\ mem' = [mem EXCEPT ![n] = Blank(junk)]
          /\ th' = [th EXCEPT ![p].pc = "o_test", ![p].cur = n]
    BY <1>5 DEF OpenAlloc
  <2>2. Blank(junk) \in NodeState
    BY BoundAssumption DEF Blank, Pointers, NodeState
  <2>3. Memory'
    BY <2>1, <2>2 DEF Memory, NodeState
  <2>4. Threads'
    <3> DEFINE t == [th[p] EXCEPT !.pc = "o_test", !.cur = n]
    <3>1. th' = [th EXCEPT ![p] = t]
      BY <2>1 DEF Threads, CallState
    <3>2. t \in CallState /\ t.pc = "o_test" /\ t.cur = n
      BY ZenonT(60) DEF Threads, CallState, Labels, AtNode, Pointers
    <3> HIDE DEF t
    <3> QED BY <3>1, <3>2, ThreadType
  <2> QED BY <1>5, <2>3, <2>4 DEF OpenAlloc, Tasks
<1>6. CASE OpenTest(p)
  <2>1. th[p].pc = "o_test" /\ th[p].cur \in Nodes
    BY <1>6 DEF OpenTest, At, Threads, CallState, AtNode
  <2>2. Memory'
    <3>1. CASE mem' = mem
      BY <3>1 DEF Memory
    <3>2. CASE mem' = [mem EXCEPT ![th[p].cur].num = 2]
      BY <2>1, <3>2, NodeType
    <3> QED BY <1>6, <3>1, <3>2 DEF OpenTest
  <2>3. Threads'
    BY <1>6, <2>1, GotoType DEF OpenTest, Labels, AtNode
  <2> QED BY <1>6, <2>2, <2>3 DEF OpenTest, Tasks
<1>21. CASE OpenNumber(p)
  <2> DEFINE x == mem[end].num + 2
  <2>1. th[p].cur \in Nodes /\ end \in Nodes
    BY <1>21 DEF OpenNumber, At, Threads, CallState, AtNode, Targets, Live
  <2>2. x \in Nat
    BY <2>1 DEF Memory, NodeState
  <2>3. Memory'
    <3> HIDE DEF x
    <3>1. mem' = [mem EXCEPT ![th[p].cur].num = x]
      BY <1>21 DEF OpenNumber, x
    <3> QED BY <2>1, <2>2, <3>1, NodeType
  <2>4. Threads'
    BY <1>21, <2>1, GotoType DEF OpenNumber, Labels, AtNode
  <2> QED BY <1>21, <2>3, <2>4 DEF OpenNumber, Tasks
<1>7. CASE OpenFirst(p)
  <2>1. th[p].cur \in Nodes
    BY <1>7 DEF OpenFirst, At, Threads, CallState, AtNode
  <2>2. Threads'
    BY <1>7, <2>1, GotoType DEF OpenFirst, Labels, AtNode
  <2> QED BY <1>7, <2>1, <2>2 DEF OpenFirst, Memory, NodeState, Tasks, Pointers
<1>22. CASE OpenHead(p)
  <2>1. th[p].cur \in Nodes
    BY <1>22 DEF OpenHead, At, Threads, CallState, AtNode
  <2>2. Threads'
    BY <1>22, <2>1, GotoType DEF OpenHead, Labels, AtNode
  <2> QED BY <1>22, <2>1, <2>2 DEF OpenHead, Memory, NodeState, Tasks, Pointers
<1>8. CASE OpenAppend(p)
  <2>1. th[p].cur \in Nodes /\ end \in Nodes
    BY <1>8 DEF OpenAppend, At, Threads, CallState, AtNode, Targets, Live
  <2>2. Threads'
    BY <1>8, <2>1, GotoType DEF OpenAppend, Labels, AtNode
  <2>3. Memory'
    BY <1>8, <2>1, NodeType DEF OpenAppend, Pointers
  <2> QED BY <1>8, <2>1, <2>2, <2>3 DEF OpenAppend, Tasks, Pointers
<1>23. CASE OpenEnd(p)
  <2>1. th[p].cur \in Nodes
    BY <1>23 DEF OpenEnd, At, Threads, CallState, AtNode
  <2>2. Threads'
    BY <1>23, <2>1, GotoType DEF OpenEnd, Labels, AtNode
  <2> QED BY <1>23, <2>1, <2>2 DEF OpenEnd, Memory, NodeState, Tasks, Pointers
<1>9. CASE OpenValue(p)
  <2>1. th[p].cur \in Nodes /\ th[p].arg \in Int
    BY <1>9 DEF OpenValue, At, Threads, CallState, AtNode
  <2>2. Memory'
    BY <1>9, <2>1, NodeType DEF OpenValue
  <2> QED BY <1>9, <2>2, ReturnType DEF OpenValue, Tasks
<1>10. CASE OpenFound(p)
  BY <1>10, ReturnType DEF OpenFound, Memory, NodeState, Tasks
<1>11. CASE WaitRead(p)
  <2>1. th[p].cur \in Nodes
    BY <1>11 DEF WaitRead, At, Threads, CallState, AtNode
  <2>2. Threads'
    BY <1>11, <2>1, GotoType DEF WaitRead, Labels, AtNode
  <2> QED BY <1>11, <2>2 DEF WaitRead, Memory, NodeState, Tasks
<1>12. CASE WaitDec(p)
  <2>1. th[p].cur \in Nodes
    BY <1>12 DEF WaitDec, At, Threads, CallState, AtNode
  <2>2. Memory'
    <3>1. mem[th[p].cur].value - 1 \in Int
      BY <2>1 DEF Memory, NodeState
    <3> QED BY <1>12, <2>1, <3>1, NodeType DEF WaitDec
  <2> QED BY <1>12, <2>2, ReturnType DEF WaitDec, Tasks
<1>13. CASE WaitQueue(p)
  <2>1. th[p].cur \in Nodes
    BY <1>13 DEF WaitQueue, Sleep, At, Threads, CallState, AtNode
  <2>2. Append(mem[th[p].cur].waitq, p) \in Seq(Procs)
    BY <2>1 DEF Memory, NodeState
  <2>3. Memory'
    BY <1>13, <2>1, <2>2, NodeType DEF WaitQueue, Sleep
  <2>4. Threads'
    BY <1>13, <2>1, GotoType DEF WaitQueue, Sleep, Labels, AtNode
  <2>5. Tasks'
    BY <1>13 DEF WaitQueue, Sleep, Tasks
  <2> QED BY <1>13, <2>3, <2>4, <2>5 DEF WaitQueue, Sleep
<1>14. CASE WaitBack(p)
  <2>1. th[p].cur \in Nodes
    BY <1>14 DEF WaitBack, At, Threads, CallState, AtNode
  <2>2. Without(mem[th[p].cur].waitq, {p}) \in Seq(Procs)
    BY <2>1, WithoutKeeps DEF Memory, NodeState
  <2>3. Memory'
    BY <1>14, <2>1, <2>2, NodeType DEF WaitBack
  <2>4. Tasks'
    BY <1>14 DEF WaitBack, Tasks
  <2> QED BY <1>14, <2>3, <2>4, ReturnType DEF WaitBack
<1>15. CASE SignalTest(p)
  <2>1. th[p].cur \in Nodes
    BY <1>15 DEF SignalTest, At, Threads, CallState, AtNode
  <2>2. Threads'
    BY <1>15, <2>1, GotoType DEF SignalTest, Labels, AtNode
  <2> QED BY <1>15, <2>2 DEF SignalTest, Memory, NodeState, Tasks
<1>16. CASE SignalInc(p)
  <2>1. th[p].cur \in Nodes
    BY <1>16 DEF SignalInc, At, Threads, CallState, AtNode
  <2>2. Memory'
    <3>1. mem[th[p].cur].value + 1 \in Int
      BY <2>1 DEF Memory, NodeState
    <3> QED BY <1>16, <2>1, <3>1, NodeType DEF SignalInc
  <2> QED BY <1>16, <2>2, ReturnType DEF SignalInc, Tasks
<1>17. CASE SignalWake(p)
  <2> DEFINE S == FirstSleeper(th[p].cur)
  <2>1. th[p].cur \in Nodes
    BY <1>17 DEF SignalWake, At, Threads, CallState, AtNode
  <2>2. S \subseteq Procs
    BY <2>1 DEF FirstSleeper, SleeperAt, Memory, NodeState
  <2> HIDE DEF S
  <2>3. Without(mem[th[p].cur].waitq, S) \in Seq(Procs)
    BY <2>1, WithoutKeeps DEF Memory, NodeState
  <2>4. Memory'
    BY <1>17, <2>1, <2>3, NodeType DEF SignalWake, WakeUp, S
  <2>5. Tasks'
    BY <1>17, <2>2 DEF SignalWake, WakeUp, Tasks, S
  <2> QED BY <1>17, <2>4, <2>5, ReturnType DEF SignalWake
<1>24. CASE CloseTest(p)
  <2>1. th[p].cur \in Nodes
    BY <1>24 DEF CloseTest, At, Threads, CallState, AtNode
  <2>2. Threads'
    BY <1>24, <2>1, GotoType DEF CloseTest, Labels, AtNode
  <2> QED BY <1>24, <2>2 DEF CloseTest, Memory, NodeState, Tasks
<1>18. CASE CloseUnlink(p)
  <2> DEFINE n == th[p].cur
  <2>1. /\ n \in Nodes /\ th[p].prev \in Pointers
        /\ th[p].pc \in {"c_tail", "c_head", "c_middle"} /\ Targets(p) \subseteq Live
    BY <1>18 DEF CloseUnlink, At, Threads, CallState, AtNode
  <2>2. Threads'
    BY <1>18, <2>1, GotoType DEF CloseUnlink, Labels, AtNode
  <2>3. CASE end' = th[p].prev /\ UNCHANGED <<head, mem>>
    BY <1>18, <2>1, <2>2, <2>3 DEF CloseUnlink, Memory, NodeState, Tasks
  <2>4. CASE th[p].pc = "c_head" /\ head' = mem[head].next /\ UNCHANGED <<end, mem>>
    <3>1. head \in Nodes
      BY <2>1, <2>4 DEF Targets, Live
    <3>2. head' \in Pointers
      BY <2>4, <3>1 DEF Memory, NodeState
    <3> QED BY <1>18, <2>2, <2>4, <3>2 DEF CloseUnlink, Memory, NodeState, Tasks
  <2>5. CASE /\ th[p].pc = "c_middle"
             /\ mem' = [mem EXCEPT ![th[p].prev].next = mem[n].next]
             /\ UNCHANGED <<head, end>>
    <3>1. th[p].prev \in Nodes
      BY <2>1, <2>5 DEF Targets, Live
    <3>2. mem[n].next \in Pointers
      BY <2>1 DEF Memory, NodeState
    <3>3. Memory'
      BY <2>5, <3>1, <3>2, NodeType
    <3> QED BY <1>18, <2>2, <2>5, <3>3 DEF CloseUnlink, Tasks
  <2> QED BY <1>18, <2>3, <2>4, <2>5 DEF CloseUnlink, At
<1>25. CASE CloseWake(p)
  <2> DEFINE n == th[p].cur
             S == Sleepers(n)
  <2>1. n \in Nodes
    BY <1>25 DEF CloseWake, At, Threads, CallState, AtNode
  <2> HIDE DEF S
  <2>2. Without(mem[n].waitq, S) \in Seq(Procs)
    BY <2>1, WithoutKeeps DEF Memory, NodeState
  <2>3. mem' = [mem EXCEPT ![n].waitq = Without(mem[n].waitq, S)]
    BY <1>25 DEF CloseWake, WakeUp, S
  <2>4. Memory'
    BY <2>1, <2>2, <2>3, NodeType
  <2>5. Tasks'
    BY <1>25 DEF CloseWake, WakeUp, Tasks, S
  <2>6. Threads'
    BY <1>25, <2>1, GotoType DEF CloseWake, Labels, AtNode
  <2> QED BY <1>25, <2>4, <2>5, <2>6 DEF CloseWake
<1>19. CASE CloseFree(p)
  <2>1. th[p].cur \in Nodes
    BY <1>19 DEF CloseFree, At, Threads, CallState, AtNode
  <2>2. Memory'
    BY ZenonT(60), <1>19, <2>1 DEF CloseFree, Memory, NodeState
  <2> QED BY <1>19, <2>2, ReturnType DEF CloseFree, Tasks
<1>20. CASE UnixSignal(p)
  BY <1>20 DEF UnixSignal, Tasks, Memory, NodeState, Threads, CallState
<1> QED BY <1>1, <1>2, <1>3, <1>4, <1>5, <1>6, <1>7, <1>8, <1>9, <1>10, <1>11, <1>12, <1>13,
           <1>14, <1>15, <1>16, <1>17, <1>18, <1>19, <1>20, <1>21, <1>22, <1>23, <1>24,
           <1>25 DEF Kernel

\* The state in which the module is loaded has the types.
LEMMA TypesInit == Init => Types
<1> SUFFICES ASSUME Init PROVE Types
  OBVIOUS
<1>2. Threads
  BY IdleType DEF Init, Threads, CallState, AtNode
<1>3. [Blank(0) EXCEPT !.live = FALSE] \in
        NodeState
  <2>1. Blank(0) \in NodeState
    BY DEF Blank, Pointers, NodeState
  <2> QED BY <2>1 DEF NodeState
<1>4. Memory
  BY <1>3 DEF Init, Memory, NodeState
<1> QED BY <1>2, <1>4, BoundAssumption DEF Init, Types, Tasks, Pointers
-----------------------------------------------------------------------------
(* No waiter is left behind *)

\* Doomed, for the processes of t.
DoomedBy(t, n) == \E q \in Procs : t[q].pc = "c_free" /\ t[q].cur = n

\* Who sleeps on an event that is about to be freed has come too late for the wake-up.
DoomedAreLate == \A p \in Procs : Asleep(p) /\ DoomedBy(th, th[p].cur) => p \in late

\* The invariant of the sleepers.
SleepInv == OnlyLateSleepersAreStranded /\ DoomedAreLate

\* A sleeper keeps its place as long as its queue still holds it and its event lives
\* and is not about to be freed.
LEMMA SleepersKept ==
  ASSUME SleepInv,
         \A q \in Procs : Asleep(q)' =>
           /\ Asleep(q) /\ th'[q].cur = th[q].cur /\ (q \in late => q \in late')
           /\ q \notin late' =>
                /\ th[q].cur \in Live => th[q].cur \in Live'
                /\ Contains(mem[th[q].cur].waitq, q) => Contains(mem'[th[q].cur].waitq, q)
                /\ DoomedBy(th', th[q].cur) => DoomedBy(th, th[q].cur)
  PROVE  SleepInv'
<1>1. ASSUME NEW q \in Procs, Asleep(q)', q \notin late'
      PROVE  CanBeWoken(q)' /\ ~DoomedBy(th', th'[q].cur)
  <2>1. Asleep(q) /\ th'[q].cur = th[q].cur /\ q \notin late
    BY <1>1
  <2>2. CanBeWoken(q) /\ ~DoomedBy(th, th[q].cur)
    BY <2>1 DEF SleepInv, OnlyLateSleepersAreStranded, DoomedAreLate
  <2>3. ~DoomedBy(th', th[q].cur)
    BY <1>1, <2>2
  <2> QED BY <1>1, <2>1, <2>2, <2>3 DEF CanBeWoken
<1> QED BY <1>1 DEF SleepInv, OnlyLateSleepersAreStranded, DoomedAreLate

\* Only the end of its wake-up brings a close() to the point before its kfree.
LEMMA DoomedBefore ==
  ASSUME NEW p \in Procs, \A q \in Procs \ {p} : th'[q] = th[q], th'[p].pc # "c_free", NEW n
  PROVE  DoomedBy(th', n) => DoomedBy(th, n)
  BY DEF DoomedBy

\* A step that neither sleeps nor touches a queue or frees a node keeps every sleeper.
LEMMA QueuesUntouched ==
  ASSUME Types, SleepInv, NEW p \in Procs, th'[p].pc \notin {"sleep", "c_free"},
         \A q \in Procs \ {p} : th'[q] = th[q],
         task' = task, late' = late,
         \A n \in Live : mem'[n].live /\ mem'[n].waitq = mem[n].waitq
  PROVE  SleepInv'
<1>1. ASSUME NEW q \in Procs, Asleep(q)'
      PROVE  /\ Asleep(q) /\ th'[q].cur = th[q].cur /\ (q \in late => q \in late')
             /\ q \notin late' =>
                  /\ th[q].cur \in Live => th[q].cur \in Live'
                  /\ Contains(mem[th[q].cur].waitq, q) => Contains(mem'[th[q].cur].waitq, q)
                  /\ DoomedBy(th', th[q].cur) => DoomedBy(th, th[q].cur)
  <2>1. Asleep(q) /\ th'[q] = th[q]
    BY <1>1 DEF Asleep
  <2>2. q \notin late' => CanBeWoken(q)
    BY <2>1 DEF SleepInv, OnlyLateSleepersAreStranded
  <2>3. DoomedBy(th', th[q].cur) => DoomedBy(th, th[q].cur)
    BY DoomedBefore
  <2> QED BY <2>1, <2>2, <2>3 DEF CanBeWoken, Live
<1> QED BY <1>1, SleepersKept

\* Every step of every system call leaves the sleepers on the queue of a living event,
\* those aside that come late: wait joins the queue before it sleeps, and close wakes
\* everybody before it frees.
LEMMA SleepersStep ==
  ASSUME Types, SleepInv, NEW p \in Procs,
         Call(p) \/ OpenCall(p) \/ Kernel(p) \/ UnixSignal(p)
  PROVE  SleepInv'
<1> USE DEF Types, other, list
<1>0. Idle.pc = "user"
  BY IdleType
<1>1. CASE Call(p)
  BY <1>1, QueuesUntouched DEF Call, Threads, Live
<1>2. CASE OpenCall(p)
  <2>1. th'[p].pc = "alloc"
    BY ZenonT(60), <1>2, IdleType DEF OpenCall, Threads, CallState
  <2>2. \A q \in Procs \ {p} : th'[q] = th[q]
    BY <1>2 DEF OpenCall, Threads
  <2> QED BY <1>2, <2>1, <2>2, QueuesUntouched DEF OpenCall, Live
<1>3. CASE scheventNum(p)
  <2>1. th'[p].pc \notin {"sleep", "c_free"} /\ \A q \in Procs \ {p} : th'[q] = th[q]
    <3>1. th[p].pc = "walk" /\ th[p].op \in Searching
      BY <1>3 DEF scheventNum, At, Threads
    <3>2. Found(th[p].op) \notin {"sleep", "c_free"}
      BY <3>1 DEF Found, Searching
    <3> QED BY <1>0, <1>3, <3>1, <3>2 DEF scheventNum, Threads, CallState, Goto, Return
  <2> QED BY <1>3, <2>1, QueuesUntouched DEF scheventNum, Live
<1>4. CASE BadAccess(p)
  BY <1>4, QueuesUntouched DEF BadAccess, Threads, CallState, Live
<1>5. CASE OpenAlloc(p)
  <2>1. PICK n \in Nodes \ Live, junk \in 0 .. MaxValue :
          /\ mem' = [mem EXCEPT ![n] = Blank(junk)]
          /\ th' = [th EXCEPT ![p].pc = "o_test", ![p].cur = n]
    BY <1>5 DEF OpenAlloc
  <2>2. \A m \in Live : mem'[m] = mem[m]
    BY <2>1 DEF Live, Memory
  <2>3. th'[p].pc = "o_test" /\ \A q \in Procs \ {p} : th'[q] = th[q]
    BY <2>1 DEF Threads, CallState
  <2> QED BY <1>5, <2>2, <2>3, QueuesUntouched DEF OpenAlloc, Live
<1>6. CASE OpenTest(p)
  <2>1. \A n \in Nodes : mem'[n].live = mem[n].live /\ mem'[n].waitq = mem[n].waitq
    <3>1. CASE mem' = mem
      BY <3>1
    <3>2. CASE mem' = [mem EXCEPT ![th[p].cur].num = 2]
      BY <3>2 DEF Memory, NodeState
    <3> QED BY <1>6, <3>1, <3>2 DEF OpenTest
  <2>2. th'[p].pc \notin {"sleep", "c_free"} /\ \A q \in Procs \ {p} : th'[q] = th[q]
    BY <1>6 DEF OpenTest, Goto, Threads, CallState
  <2> QED BY <1>6, <2>1, <2>2, QueuesUntouched DEF OpenTest, Live
<1>21. CASE OpenNumber(p)
  <2> DEFINE x == mem[end].num + 2
  <2>1. mem' = [mem EXCEPT ![th[p].cur].num = x]
    BY <1>21 DEF OpenNumber
  <2> HIDE DEF x
  <2>2. \A n \in Nodes : mem'[n].live = mem[n].live /\ mem'[n].waitq = mem[n].waitq
    BY <2>1 DEF Memory, NodeState
  <2>3. th'[p].pc \notin {"sleep", "c_free"} /\ \A q \in Procs \ {p} : th'[q] = th[q]
    BY <1>21 DEF OpenNumber, Goto, Threads, CallState
  <2> QED BY <1>21, <2>2, <2>3, QueuesUntouched DEF OpenNumber, Live
<1>7. CASE OpenFirst(p)
  BY <1>7, QueuesUntouched DEF OpenFirst, Goto, Threads, CallState, Live
<1>22. CASE OpenHead(p)
  BY <1>22, QueuesUntouched DEF OpenHead, Goto, Threads, CallState, Live
<1>8. CASE OpenAppend(p)
  BY <1>8, QueuesUntouched DEF OpenAppend, Goto, Threads, CallState, Memory, NodeState, Live
<1>23. CASE OpenEnd(p)
  BY <1>23, QueuesUntouched DEF OpenEnd, Goto, Threads, CallState, Live
<1>9. CASE OpenValue(p)
  BY <1>0, <1>9, QueuesUntouched DEF OpenValue, Return, Threads, CallState, Memory, NodeState, Live
<1>10. CASE OpenFound(p)
  BY <1>0, <1>10, QueuesUntouched DEF OpenFound, Return, Threads, Live
<1>11. CASE WaitRead(p)
  BY <1>11, QueuesUntouched DEF WaitRead, Goto, Threads, CallState, Live
<1>12. CASE WaitDec(p)
  BY <1>0, <1>12, QueuesUntouched DEF WaitDec, Return, Threads, CallState, Memory, NodeState, Live
<1>13. CASE WaitQueue(p)
  <2> DEFINE n == th[p].cur
             s == mem[n].waitq
             t == Append(s, p)
  <2>1. n \in Nodes /\ n \in Live /\ th[p].pc = "w_queue"
    BY <1>13 DEF WaitQueue, Sleep, At, Threads, AtNode, Targets
  <2>2. s \in Seq(Procs)
    BY <2>1 DEF Memory, NodeState
  <2> HIDE DEF n, s
  <2>3. Contains(t, p) /\ \A q : Contains(s, q) => Contains(t, q)
    <3>1. t \in Seq(Procs) /\ Len(t) = Len(s) + 1 /\ t[Len(s) + 1] = p
      BY <2>2
    <3>2. \A j \in 1 .. Len(s) : t[j] = s[j]
      BY <2>2
    <3>3. Len(s) \in Nat
      BY <2>2
    <3> HIDE DEF t
    <3> QED BY <3>1, <3>2, <3>3 DEF Contains
  <2> HIDE DEF t
  <2>4. mem' = [mem EXCEPT ![n].waitq = t]
    BY <1>13 DEF WaitQueue, Sleep, n, s, t
  <2>5. mem'[n].waitq = t /\ \A m \in Nodes : /\ mem'[m].live = mem[m].live
                                              /\ m # n => mem'[m] = mem[m]
    BY <2>1, <2>4 DEF Memory, NodeState
  <2>0. Live' = Live
    BY <2>5 DEF Live
  <2>6. th'[p].cur = n /\ \A q \in Procs \ {p} : th'[q] = th[q] /\ task'[q] = task[q]
    BY <1>13 DEF WaitQueue, Sleep, Goto, Threads, CallState, Tasks, n
  <2>10. late' = IF DoomedBy(th, n) THEN late \cup {p} ELSE late
    BY <1>13 DEF WaitQueue, Sleep, n, Doomed, DoomedBy
  <2>11. \A m : DoomedBy(th', m) => DoomedBy(th, m)
    <3>1. th'[p].pc = "sleep"
      BY <1>13 DEF WaitQueue, Sleep, Goto, Threads, CallState
    <3> QED BY <2>6, <3>1, DoomedBefore
  <2>7. ASSUME NEW q \in Procs, Asleep(q)', q \notin late'
        PROVE  CanBeWoken(q)' /\ ~DoomedBy(th', th'[q].cur)
    <3>1. CASE q = p
      <4>1. ~DoomedBy(th, n)
        BY <2>7, <2>10, <3>1
      <4> QED BY <2>0, <2>1, <2>3, <2>5, <2>6, <2>11, <3>1, <4>1 DEF CanBeWoken
    <3>2. CASE q # p
      <4>1. Asleep(q) /\ th'[q] = th[q] /\ q \notin late
        BY <2>6, <2>7, <2>10, <3>2 DEF Asleep
      <4>2. th[q].cur \in Live /\ Contains(mem[th[q].cur].waitq, q) /\ ~DoomedBy(th, th[q].cur)
        BY <4>1 DEF SleepInv, OnlyLateSleepersAreStranded, DoomedAreLate, CanBeWoken
      <4>5. ~DoomedBy(th', th'[q].cur)
        <5>1. ~DoomedBy(th', th[q].cur)
          BY <2>11, <4>2
        <5> QED BY <4>1, <5>1 DEF DoomedBy
      <4>3. CASE th[q].cur = n
        BY <2>0, <2>3, <2>5, <4>1, <4>2, <4>3, <4>5 DEF s, CanBeWoken
      <4>4. CASE th[q].cur # n
        <5>1. mem'[th[q].cur] = mem[th[q].cur]
          BY <2>5, <4>2, <4>4 DEF Live
        <5> QED BY <2>0, <4>1, <4>2, <4>5, <5>1 DEF CanBeWoken
      <4> QED BY <4>3, <4>4
    <3> QED BY <3>1, <3>2
  <2> QED BY <2>7 DEF SleepInv, OnlyLateSleepersAreStranded, DoomedAreLate
<1>14. CASE WaitBack(p)
  <2> DEFINE n == th[p].cur
             t == Without(mem[n].waitq, {p})
  <2>1. n \in Nodes
    BY <1>14 DEF WaitBack, At, Threads, AtNode
  <2>2. \A q : Contains(t, q) <=> q # p /\ Contains(mem[n].waitq, q)
    BY <2>1, WithoutKeeps DEF Memory, NodeState
  <2>3. mem' = [mem EXCEPT ![n].waitq = t]
    BY <1>14 DEF WaitBack
  <2> HIDE DEF t
  <2>4. mem'[n].waitq = t /\ \A m \in Nodes : /\ mem'[m].live = mem[m].live
                                              /\ m # n => mem'[m] = mem[m]
    BY <2>1, <2>3 DEF Memory, NodeState
  <2>5. th'[p].pc = "user" /\ \A q \in Procs \ {p} : th'[q] = th[q] /\ task'[q] = task[q]
    BY <1>0, <1>14 DEF WaitBack, Return, Threads
  <2>0. Live' = Live
    BY <2>4 DEF Live
  <2>9. ASSUME NEW q \in Procs, Asleep(q)'
        PROVE  /\ Asleep(q) /\ th'[q].cur = th[q].cur /\ (q \in late => q \in late')
               /\ q \notin late' =>
                    /\ th[q].cur \in Live => th[q].cur \in Live'
                    /\ Contains(mem[th[q].cur].waitq, q) => Contains(mem'[th[q].cur].waitq, q)
                    /\ DoomedBy(th', th[q].cur) => DoomedBy(th, th[q].cur)
    <3>1. q # p /\ Asleep(q) /\ th'[q] = th[q]
      BY <2>5, <2>9 DEF Asleep
    <3>2. th[q].cur \in Nodes
      BY <3>1 DEF Asleep, Threads, AtNode
    <3>5. late' = late \ {p} /\ (DoomedBy(th', th[q].cur) => DoomedBy(th, th[q].cur))
      BY <1>14, <2>5, DoomedBefore DEF WaitBack
    <3>3. CASE th[q].cur = n
      BY <2>0, <2>2, <2>4, <3>1, <3>2, <3>3, <3>5
    <3>4. CASE th[q].cur # n
      BY <2>0, <2>4, <3>1, <3>2, <3>4, <3>5
    <3> QED BY <3>3, <3>4
  <2> QED BY <2>9, SleepersKept
<1>15. CASE SignalTest(p)
  BY <1>15, QueuesUntouched DEF SignalTest, Goto, Threads, CallState, Live
<1>16. CASE SignalInc(p)
  BY <1>0, <1>16, QueuesUntouched DEF SignalInc, Return, Threads, CallState, Memory, NodeState, Live
<1>17. CASE SignalWake(p)
  <2> DEFINE n == th[p].cur
             S == FirstSleeper(n)
             t == Without(mem[n].waitq, S)
  <2>1. n \in Nodes
    BY <1>17 DEF SignalWake, At, Threads, AtNode
  <2> HIDE DEF S
  <2>2. \A q : Contains(t, q) <=> q \notin S /\ Contains(mem[n].waitq, q)
    BY <2>1, WithoutKeeps DEF Memory, NodeState
  <2>3. mem' = [mem EXCEPT ![n].waitq = t]
    BY <1>17 DEF SignalWake, WakeUp, S
  <2> HIDE DEF t
  <2>4. mem'[n].waitq = t /\ \A m \in Nodes : /\ mem'[m].live = mem[m].live
                                              /\ m # n => mem'[m] = mem[m]
    BY <2>1, <2>3 DEF Memory, NodeState
  <2>5. th'[p].pc = "user" /\ \A q \in Procs \ {p} : th'[q] = th[q]
    BY <1>0, <1>17 DEF SignalWake, Return, Threads
  <2>6. \A q \in Procs : task'[q] = IF q \in S THEN "RUNNING" ELSE task[q]
    BY <1>17 DEF SignalWake, WakeUp, S
  <2>0. Live' = Live
    BY <2>4 DEF Live
  <2>9. ASSUME NEW q \in Procs, Asleep(q)'
        PROVE  /\ Asleep(q) /\ th'[q].cur = th[q].cur /\ (q \in late => q \in late')
               /\ q \notin late' =>
                    /\ th[q].cur \in Live => th[q].cur \in Live'
                    /\ Contains(mem[th[q].cur].waitq, q) => Contains(mem'[th[q].cur].waitq, q)
                    /\ DoomedBy(th', th[q].cur) => DoomedBy(th, th[q].cur)
    <3>1. q # p /\ Asleep(q) /\ th'[q] = th[q] /\ q \notin S
      BY <2>5, <2>6, <2>9 DEF Asleep
    <3>2. th[q].cur \in Nodes
      BY <3>1 DEF Asleep, Threads, AtNode
    <3>5. late' = late /\ (DoomedBy(th', th[q].cur) => DoomedBy(th, th[q].cur))
      BY <1>17, <2>5, DoomedBefore DEF SignalWake
    <3>3. CASE th[q].cur = n
      BY <2>0, <2>2, <2>4, <3>1, <3>2, <3>3, <3>5
    <3>4. CASE th[q].cur # n
      BY <2>0, <2>4, <3>1, <3>2, <3>4, <3>5
    <3> QED BY <3>3, <3>4
  <2> QED BY <2>9, SleepersKept
<1>24. CASE CloseTest(p)
  BY <1>24, QueuesUntouched DEF CloseTest, Goto, Threads, CallState, Live
<1>18. CASE CloseUnlink(p)
  <2>1. \A n \in Nodes : mem'[n].live = mem[n].live /\ mem'[n].waitq = mem[n].waitq
    <3>1. CASE mem' = mem
      BY <3>1
    <3>2. CASE mem' = [mem EXCEPT ![th[p].prev].next = mem[th[p].cur].next]
      BY <3>2 DEF Memory, NodeState
    <3> QED BY <1>18, <3>1, <3>2 DEF CloseUnlink
  <2> QED BY <1>18, <2>1, QueuesUntouched DEF CloseUnlink, Goto, Threads, CallState, Live
<1>25. CASE CloseWake(p)
  <2> DEFINE n == th[p].cur
             S == Sleepers(n)
             t == Without(mem[n].waitq, S)
  <2>1. n \in Nodes
    BY <1>25 DEF CloseWake, At, Threads, AtNode
  <2>2. \A q \in Procs : Contains(mem[n].waitq, q) /\ task[q] = "INTERRUPTIBLE" => q \in S
    BY <2>1 DEF Sleepers, SleeperAt, Contains, Memory, NodeState
  <2> HIDE DEF S
  <2>3. mem' = [mem EXCEPT ![n].waitq = t]
    BY <1>25 DEF CloseWake, WakeUp, S
  <2> HIDE DEF t
  <2>4. /\ \A m \in Nodes : mem'[m].live = mem[m].live /\ (m # n => mem'[m] = mem[m])
        /\ Live' = Live
    <3>1. \A m \in Nodes : mem'[m].live = mem[m].live /\ (m # n => mem'[m] = mem[m])
      BY <2>1, <2>3 DEF Memory, NodeState
    <3> QED BY <3>1 DEF Live
  <2>5. /\ th'[p].pc = "c_free" /\ th'[p].cur = n /\ late' = late
        /\ \A q \in Procs \ {p} : th'[q] = th[q]
    BY <1>25 DEF CloseWake, Goto, Threads, CallState
  <2>6. \A q \in Procs : task'[q] = IF q \in S THEN "RUNNING" ELSE task[q]
    BY <1>25 DEF CloseWake, WakeUp, S
  <2>7. \A m : m # n => (DoomedBy(th', m) => DoomedBy(th, m))
    BY <2>5 DEF DoomedBy
  <2>9. ASSUME NEW q \in Procs, Asleep(q)'
        PROVE  /\ Asleep(q) /\ th'[q].cur = th[q].cur /\ (q \in late => q \in late')
               /\ q \notin late' =>
                    /\ th[q].cur \in Live => th[q].cur \in Live'
                    /\ Contains(mem[th[q].cur].waitq, q) => Contains(mem'[th[q].cur].waitq, q)
                    /\ DoomedBy(th', th[q].cur) => DoomedBy(th, th[q].cur)
    <3>1. q # p /\ Asleep(q) /\ th'[q] = th[q] /\ q \notin S
      BY <2>5, <2>6, <2>9 DEF Asleep
    <3>2. CASE q \in late
      BY <2>5, <3>1, <3>2
    <3>3. CASE q \notin late
      <4>1. th[q].cur \in Live /\ Contains(mem[th[q].cur].waitq, q)
        BY <3>1, <3>3 DEF SleepInv, OnlyLateSleepersAreStranded, CanBeWoken
      <4>2. th[q].cur # n
        BY <2>2, <3>1, <4>1 DEF Asleep
      <4>3. mem'[th[q].cur] = mem[th[q].cur]
        BY <2>4, <4>1, <4>2 DEF Live
      <4> QED BY <2>4, <2>5, <2>7, <3>1, <4>2, <4>3
    <3> QED BY <3>2, <3>3
  <2> QED BY <2>9, SleepersKept
<1>19. CASE CloseFree(p)
  <2> DEFINE n == th[p].cur
  <2>1. n \in Nodes /\ th[p].pc = "c_free" /\ late' = late /\ task' = task
    BY <1>19 DEF CloseFree, At, Threads, AtNode
  <2>2. \A m \in Nodes : mem'[m].waitq = mem[m].waitq /\ (m # n => mem'[m] = mem[m])
    BY <1>19, <2>1 DEF CloseFree, Memory, NodeState
  <2>3. th'[p].pc = "user" /\ \A q \in Procs \ {p} : th'[q] = th[q]
    BY <1>0, <1>19 DEF CloseFree, Return, Threads
  <2>4. DoomedBy(th, n)
    BY <2>1 DEF DoomedBy
  <2>9. ASSUME NEW q \in Procs, Asleep(q)'
        PROVE  /\ Asleep(q) /\ th'[q].cur = th[q].cur /\ (q \in late => q \in late')
               /\ q \notin late' =>
                    /\ th[q].cur \in Live => th[q].cur \in Live'
                    /\ Contains(mem[th[q].cur].waitq, q) => Contains(mem'[th[q].cur].waitq, q)
                    /\ DoomedBy(th', th[q].cur) => DoomedBy(th, th[q].cur)
    <3>1. Asleep(q) /\ th'[q] = th[q]
      BY <2>1, <2>3, <2>9 DEF Asleep
    <3>2. th[q].cur = n => q \in late
      BY <2>4, <3>1 DEF SleepInv, DoomedAreLate
    <3>3. DoomedBy(th', th[q].cur) => DoomedBy(th, th[q].cur)
      BY <2>3, DoomedBefore
    <3>4. th[q].cur \in Nodes
      BY <3>1 DEF Asleep, Threads, AtNode
    <3>5. CASE th[q].cur = n
      BY <2>1, <3>1, <3>2, <3>5
    <3>6. CASE th[q].cur # n
      BY <2>1, <2>2, <3>1, <3>3, <3>4, <3>6 DEF Live
    <3> QED BY <3>5, <3>6
  <2> QED BY <2>9, SleepersKept
<1>20. CASE UnixSignal(p)
  BY <1>20, SleepersKept DEF UnixSignal, Tasks, Asleep, Live, DoomedBy
<1> QED BY <1>1, <1>2, <1>3, <1>4, <1>5, <1>6, <1>7, <1>8, <1>9, <1>10, <1>11, <1>12, <1>13,
           <1>14, <1>15, <1>16, <1>17, <1>18, <1>19, <1>20, <1>21, <1>22, <1>23, <1>24,
           <1>25 DEF Kernel

\* The state of the event system calls keeps its types, whatever the scheduler, the
\* users and Unix signals do: pointers lead to memory blocks, queues hold processes.
THEOREM EventTypes == Spec => []Types
<1>1. Types /\ [Next]_vars => Types'
  <2>1. CASE UNCHANGED vars
    BY <2>1 DEF vars, list, other, Types, Threads, Memory, Tasks
  <2>2. Types /\ Next => Types'
    BY TypesStep DEF Next
  <2> QED BY <2>1, <2>2
<1> QED BY <1>1, TypesInit, PTL DEF Spec

\* The type invariant of the runs.
THEOREM EventTypesKept == Spec => []TypeOK
<1>1. Types => TypeOK
  <2> SUFFICES ASSUME Types PROVE TypeOK
    OBVIOUS
  <2>1. mem \in [Nodes -> NodeState]
    BY DEF Types, Memory
  <2>2. \A p \in Procs : /\ th[p].arg \in Nat /\ th[p].cur \in Pointers
                        /\ th[p].prev \in Pointers
    BY DEF Types, Threads, CallState
  <2> QED BY <2>1, <2>2 DEF Types, Tasks, TypeOK, NodeState, Pointers
<1> QED BY <1>1, EventTypes, PTL

\* A process asleep in sys_myevent_wait is on the queue of an event that exists, unless
\* it joined the queue between the wake_up_all and the kfree of a close() of its event:
\* for any number of processes and events, on one CPU or many, with tails closed and
\* Unix signals sent, a process can be stranded at that point and at no other.
THEOREM OnlyLateWaitersAreAbandoned == Spec => []OnlyLateSleepersAreStranded
<1>1. Init => SleepInv
  BY IdleType DEF Init, SleepInv, OnlyLateSleepersAreStranded, DoomedAreLate, Asleep
<1>2. Types /\ SleepInv /\ [Next]_vars => SleepInv'
  <2>1. SleepInv /\ UNCHANGED vars => SleepInv'
    BY DEF vars, list, other, SleepInv, OnlyLateSleepersAreStranded, DoomedAreLate, Asleep,
           CanBeWoken, DoomedBy, Live
  <2>2. Types /\ SleepInv /\ Next => SleepInv'
    BY SleepersStep DEF Next
  <2> QED BY <2>1, <2>2
<1>3. SleepInv => OnlyLateSleepersAreStranded
  BY DEF SleepInv
<1> QED BY <1>1, <1>2, <1>3, EventTypes, PTL DEF Spec
-----------------------------------------------------------------------------
(* One CPU, no kernel preemption *)

\* System calls run one at a time, nobody closes the newest event or sends Unix
\* signals, and there is memory for as many events as are created.
Serial ==
  /\ ~Preemptible /\ ~CloseTail /\ ~UnixSignals
  /\ IsFiniteSet(Procs) /\ IsFiniteSet(Nodes) /\ MaxOpens <= Cardinality(Nodes)

NobodyIsLate == late = {}

\* One at a time, nobody joins a queue between a wake-up and the kfree that follows it.
THEOREM EverySleeperCanBeWoken == Serial /\ Spec => []SleepersCanBeWoken
<1> SUFFICES ASSUME Serial PROVE Spec => []SleepersCanBeWoken
  OBVIOUS
<1>1. Init => NobodyIsLate
  BY DEF Init, NobodyIsLate
<1>2. NobodyIsLate /\ [Next]_vars => NobodyIsLate'
  <2> SUFFICES ASSUME NobodyIsLate, [Next]_vars PROVE NobodyIsLate'
    OBVIOUS
  <2> USE DEF NobodyIsLate
  <2>1. CASE UNCHANGED vars
    BY <2>1 DEF vars, other
  <2>2. ASSUME NEW p \in Procs, Call(p) \/ OpenCall(p) \/ Kernel(p) \/ UnixSignal(p)
        PROVE  late' = {}
    <3>1. CASE WaitQueue(p)
      <4>1. th[p].pc = "w_queue" /\ MayRun(p)
        BY <3>1 DEF WaitQueue, Sleep, At
      <4>2. ~Doomed(th[p].cur)
        BY <4>1 DEF Doomed, MayRun, Serial
      <4> QED BY <3>1, <4>2 DEF WaitQueue, Sleep
    <3>2. CASE ~WaitQueue(p)
      BY <2>2, <3>2 DEF Kernel, Call, OpenCall, UnixSignal, scheventNum, BadAccess, OpenAlloc,
         OpenTest, OpenNumber, OpenFirst, OpenHead, OpenAppend, OpenEnd, OpenValue, OpenFound,
         WaitRead, WaitDec, WaitBack, SignalTest, SignalInc, SignalWake, CloseTest, CloseUnlink,
         CloseWake, CloseFree, other
    <3> QED BY <3>1, <3>2
  <2> QED BY <2>1, <2>2 DEF Next
<1>3. NobodyIsLate /\ OnlyLateSleepersAreStranded => SleepersCanBeWoken
  BY DEF NobodyIsLate, OnlyLateSleepersAreStranded, SleepersCanBeWoken
<1> QED BY <1>1, <1>2, <1>3, OnlyLateWaitersAreAbandoned, PTL DEF Spec

\* Program points at which another process may run, without preemption.
Out == {"user", "alloc", "sleep"}

\* Points at which the event of a call is not, or no longer, on the list.
Apart == {"o_test", "o_number", "o_append", "o_end", "o_first", "o_head", "c_wake", "c_free"}

\* At most one process is inside a system call, and none has made a bad access.
Alone ==
  \A p \in Procs : /\ th[p].pc # "oops"
                   /\ th[p].pc \notin Out => \A q \in Procs \ {p} : th[q].pc \in Out

\* The events that are on the list.
Linked == {n \in Live : \A p \in Procs : th[p].cur = n => th[p].pc \notin Apart}

\* open() is between the two stores that put a new event on the list.
Midway == \E p \in Procs : th[p].pc \in {"o_end", "o_head"}

\* The list is a chain from head to end through all linked events, by number.
Chain ==
  /\ head = NULL <=> Linked = {}
  /\ ~Midway => (head = NULL <=> end = NULL)
  /\ Linked # {} => head \in Linked /\ end \in Linked
  /\ \A n \in Linked :
       /\ mem[n].num % 2 = 0
       /\ mem[head].num <= mem[n].num /\ mem[n].num <= mem[end].num
       /\ n = end /\ ~Midway => mem[n].next = NULL
       /\ n # end => /\ mem[n].next \in Linked
                     /\ mem[n].num < mem[mem[n].next].num
                     /\ \A m \in Linked : \/ mem[m].num <= mem[n].num
                                          \/ mem[m].num >= mem[mem[n].next].num
       /\ n # head => \E m \in Linked : mem[m].next = n

\* The numbers of the events tell them apart.
Numbers ==
  /\ \A m, n \in Live : mem[m].num = mem[n].num => m = n
  /\ \A n \in Linked : mem[n].num # 0

\* prev is where the walk along the list came from.
CameFrom(p) ==
  IF th[p].prev = NULL THEN th[p].cur = head
  ELSE th[p].prev \in Linked /\ mem[th[p].prev].next = th[p].cur

\* A node that is being created.
Fresh(n) == n \in Live /\ mem[n].next = NULL /\ mem[n].waitq = <<>>

HoldsEvent == {"found", "w_read", "w_dec", "w_queue", "s_test", "s_inc", "s_wake"}

\* What a running system call knows of its event at each point.
Knows(p) ==
  LET n == th[p].cur
      l == th[p].pc
  IN  /\ l = "walk" => /\ n \in Linked \cup {NULL} /\ CameFrom(p) /\ th[p].arg # 0
                       /\ th[p].op = "close" => end # NULL /\ th[p].arg < mem[end].num
      /\ l = "o_test" => Fresh(n) /\ mem[n].num = 0
      /\ l = "o_number" => Fresh(n) /\ mem[n].num = 0 /\ head # NULL
      /\ l \in {"o_first", "o_head"} => Fresh(n) /\ mem[n].num = 2 /\ head = NULL
      /\ l = "o_head" => end = n
      /\ l \in {"o_append", "o_end"} =>
           Fresh(n) /\ mem[n].num = mem[end].num + 2 /\ head # NULL
      /\ l = "o_end" => mem[end].next = n
      /\ l = "o_value" => n \in Linked /\ mem[n].waitq = <<>>
      /\ l \in HoldsEvent => n \in Linked /\ mem[n].num = th[p].arg
      /\ l = "w_dec" => mem[n].value > 0
      /\ l = "w_queue" => mem[n].value = 0
      /\ l = "s_inc" => mem[n].waitq = <<>>
      /\ l \in {"c_test", "c_test2", "c_head", "c_middle"} =>
           n \in Linked /\ n # end /\ CameFrom(p)
      /\ l = "c_head" <=> l \in {"c_head", "c_middle"} /\ n = head
      /\ l # "c_tail"
      /\ l \in {"c_wake", "c_free"} => n \in Live /\ end # NULL

\* What is true of a process in schedule().  Its number stays taken: if its event was
\* closed, no later one gets the same number.
Slept(p) ==
  LET n == th[p].cur
  IN  th[p].pc = "sleep" =>
        /\ th[p].arg # 0 /\ end # NULL /\ th[p].arg <= mem[end].num
        /\ task[p] = "INTERRUPTIBLE" => mem[n].num = th[p].arg
        /\ /\ task[p] = "RUNNING"
           /\ n \in Live /\ ~DoomedBy(th, n) /\ mem[n].num = th[p].arg
           => p \in given

\* The queues hold the sleepers of their event, and of no event with a unit to give.
Queues ==
  /\ \A n \in Nodes : \A p \in Procs : Contains(mem[n].waitq, p) =>
       th[p].pc = "sleep" /\ th[p].cur = n /\ task[p] = "INTERRUPTIBLE"
  /\ \A n \in Live : mem[n].value >= 0 /\ (mem[n].waitq # <<>> => mem[n].value = 0)

\* kmalloc() has a block for every event that is being created.
Allocating == {p \in Procs : th[p].pc = "alloc"}
Room == Cardinality(Live) + Cardinality(Allocating) <= opens

SerialInv ==
  /\ Types /\ SleepersCanBeWoken
  /\ Alone /\ Chain /\ Numbers
  /\ \A p \in Procs : Knows(p) /\ Slept(p)
  /\ Queues /\ Room
  /\ bad \subseteq {"printk"}

\* When p takes a step, the others stay where they are, outside the code of the calls.
OnlyMoves(p) ==
  /\ \A q \in Procs \ {p} : th'[q] = th[q] /\ th[q].pc \in Out
  /\ th'[p].pc # "oops"

\* Only the process that may run moves.
LEMMA OthersOut ==
  ASSUME Serial, Alone, NEW p \in Procs, MayRun(p)
  PROVE  \A q \in Procs \ {p} : th[q].pc \in Out
  BY DEF Serial, Alone, MayRun, Out

\* Processes enter the system calls one at a time.
LEMMA AloneStep ==
  ASSUME Alone, NEW p \in Procs, OnlyMoves(p)
  PROVE  Alone'
  BY DEF Alone, OnlyMoves, Out

\* What the others know does not change while they are outside.
LEMMA OthersKnow ==
  ASSUME NEW p \in Procs, OnlyMoves(p), NEW q \in Procs \ {p}
  PROVE  Knows(q)'
  BY DEF OnlyMoves, Knows, Out, HoldsEvent

\* Nodes stay on the list, or off it, while the process that runs neither enters nor
\* leaves the points at which its event is apart.
LEMMA LinkedSame ==
  ASSUME NEW p \in Procs, OnlyMoves(p), Live' = Live,
         \/ th[p].pc \notin Apart /\ th'[p].pc \notin Apart
         \/ th[p].pc \in Apart /\ th'[p].pc \in Apart /\ th'[p].cur = th[p].cur
  PROVE  Linked' = Linked
  BY DEF Linked, OnlyMoves

\* The points of open() belong to the process that runs.
LEMMA NotMidway ==
  ASSUME NEW p \in Procs, OnlyMoves(p), th[p].pc \notin {"o_end", "o_head"}
  PROVE  ~Midway
  BY DEF Midway, OnlyMoves, Out

\* The list stays a chain while head, end, the numbers and the links do.
LEMMA ChainSame ==
  ASSUME NEW p \in Procs, OnlyMoves(p), th[p].pc \notin {"o_end", "o_head"},
         Chain, Linked' = Linked, UNCHANGED <<head, end>>,
         \A n \in Linked : mem'[n].num = mem[n].num /\ mem'[n].next = mem[n].next
  PROVE  Chain'
<1>1. (head \in Linked /\ end \in Linked) \/ Linked = {}
  BY DEF Chain
<1>0. ~Midway
  BY NotMidway
<1>2. CASE Linked = {}
  BY <1>0, <1>2 DEF Chain
<1>3. CASE head \in Linked /\ end \in Linked
  BY <1>0, <1>3 DEF Chain
<1> QED BY <1>1, <1>2, <1>3

\* The numbers still tell the events apart after a step that stores none.
LEMMA NumbersSame ==
  ASSUME Numbers, Linked' = Linked, Live' = Live, \A n \in Live : mem'[n].num = mem[n].num
  PROVE  Numbers'
  BY DEF Numbers, Linked

\* An event that is about to be freed stays so until it is.
LEMMA DoomedStays ==
  ASSUME NEW p \in Procs, OnlyMoves(p), th[p].pc # "c_free", NEW n
  PROVE  DoomedBy(th, n) => DoomedBy(th', n)
  BY DEF DoomedBy, OnlyMoves

\* The processes in schedule() do not notice a step that keeps the numbers, wakes
\* nobody and ends nobody's sleep.
LEMMA SleptSame ==
  ASSUME Types, Chain, \A q \in Procs : Slept(q), NEW p \in Procs, OnlyMoves(p),
         th[p].pc # "c_free", th'[p].pc # "sleep", task' = task, given' = given,
         Live' = Live, end' = end,
         \A n \in Nodes : mem'[n].num = mem[n].num
  PROVE  \A q \in Procs : Slept(q)'
<1> SUFFICES ASSUME NEW q \in Procs, th'[q].pc = "sleep" PROVE Slept(q)'
  BY DEF Slept
<1>1. q # p /\ th'[q] = th[q]
  BY DEF OnlyMoves
<1>2. th[q].cur \in Nodes
  BY <1>1 DEF Types, Threads, AtNode
<1>3. end \in Nodes
  BY <1>1 DEF Slept, Types, Pointers
<1>4. DoomedBy(th, th[q].cur) => DoomedBy(th', th[q].cur)
  BY DoomedStays
<1> QED BY <1>1, <1>2, <1>3, <1>4 DEF Slept

\* The queues are as they were after a step that touches neither them nor the values.
LEMMA QueuesSame ==
  ASSUME Types, Queues, NEW p \in Procs, OnlyMoves(p), th[p].pc # "sleep", task' = task,
         Live' = Live,
         \A n \in Nodes : mem'[n].waitq = mem[n].waitq /\ mem'[n].value = mem[n].value
  PROVE  Queues'
  BY DEF Queues, OnlyMoves, Live

\* There is as much memory left after a step that neither creates nor frees.
LEMMA RoomSame ==
  ASSUME Room, NEW p \in Procs, OnlyMoves(p), Live' = Live, opens' = opens,
         th[p].pc # "alloc", th'[p].pc # "alloc"
  PROVE  Room'
<1>1. Allocating' = Allocating
  BY DEF Allocating, OnlyMoves
<1> QED BY <1>1 DEF Room

\* No system call follows a bad pointer.
LEMMA TargetsLive ==
  ASSUME Serial, SerialInv, NEW p \in Procs
  PROVE  Targets(p) \subseteq Live
<1> DEFINE t == th[p]
<1>1. Knows(p) /\ Chain /\ th[p].pc \in Labels /\ Linked \subseteq Live
  BY DEF SerialInv, Types, Threads, CallState, Linked
<1>2. head # NULL => end \in Live
  BY <1>1 DEF Chain
<1>3. CASE t.pc = "alloc"
  <2>1. Live # Nodes
    <3>1. IsFiniteSet(Allocating) /\ p \in Allocating
      BY <1>3, FS_Subset DEF Serial, Allocating
    <3>2. Cardinality(Allocating) # 0 /\ Cardinality(Allocating) \in Nat
      BY <3>1, FS_EmptySet, FS_CardinalityType
    <3>3. Cardinality(Nodes) \in Nat
      BY FS_CardinalityType DEF Serial
    <3>4. opens \in 0 .. MaxOpens
      BY DEF SerialInv, Types, Tasks
    <3>5. Cardinality(Live) + Cardinality(Allocating) <= opens
      BY DEF SerialInv, Room
    <3> QED BY <3>2, <3>3, <3>4, <3>5, BoundAssumption DEF Serial
  <2> QED BY <1>3, <2>1 DEF Targets
<1>4. CASE t.pc = "walk"
  BY <1>1, <1>4 DEF Targets, Knows
<1>6. CASE t.pc \in {"o_number", "o_append"}
  BY <1>1, <1>2, <1>6 DEF Targets, Knows
<1>7. CASE t.pc \in {"c_head", "c_middle"}
  <2>1. t.cur \in Live /\ CameFrom(p)
    BY <1>1, <1>7 DEF Knows
  <2>2. t.cur # head => t.prev \in Live
    BY <1>1, <2>1 DEF CameFrom
  <2>3. t.pc = "c_head" <=> t.cur = head
    BY <1>1, <1>7 DEF Knows
  <2> QED BY <1>7, <2>1, <2>2, <2>3 DEF Targets
<1>8. CASE t.pc \in {"o_value", "w_read", "w_dec", "w_queue", "s_test", "s_inc", "s_wake",
                   "c_wake", "c_free"}
  <2>1. t.cur \in Live
    BY <1>1, <1>8 DEF Knows, HoldsEvent
  <2> QED BY <1>8, <2>1 DEF Targets
<1>9. CASE t.pc \in {"user", "o_test", "o_end", "o_first", "o_head", "found", "sleep", "oops",
                   "c_test", "c_test2", "c_tail"}
  BY <1>9 DEF Targets
<1> QED BY <1>1, <1>3, <1>4, <1>6, <1>7, <1>8, <1>9 DEF Labels, AtNode

\* A step of p that stores nothing in shared memory: only what p itself knows is new.
LEMMA LocalStep ==
  ASSUME Serial, SerialInv, Types', SleepersCanBeWoken', NEW p \in Procs, MayRun(p),
         \A q \in Procs \ {p} : th'[q] = th[q],
         th[p].pc \notin Apart \cup {"alloc", "sleep"},
         th'[p].pc \notin Apart \cup {"alloc", "sleep", "oops"},
         UNCHANGED <<list, other>>, Knows(p)'
  PROVE  SerialInv'
<1>1. OnlyMoves(p)
  BY OthersOut DEF OnlyMoves, SerialInv
<1>2. UNCHANGED <<head, end, mem, task, given, opens, bad>> /\ Live' = Live
  BY DEF list, other, Live
<1>3. Linked' = Linked
  BY <1>1, <1>2, LinkedSame
<1>4. Alone' /\ Chain' /\ Numbers'
  BY <1>1, <1>2, <1>3, AloneStep, ChainSame, NumbersSame DEF SerialInv, Apart
<1>5. Queues' /\ Room'
  BY <1>1, <1>2, QueuesSame, RoomSame DEF SerialInv
<1>6. \A q \in Procs : Slept(q)'
  BY <1>1, <1>2, SleptSame DEF SerialInv, Apart
<1>7. \A q \in Procs : Knows(q)'
  BY <1>1, OthersKnow
<1>8. (bad \subseteq {"printk"})'
  BY <1>2 DEF SerialInv
<1> QED BY <1>4, <1>5, <1>6, <1>7, <1>8 DEF SerialInv

\* A step of p that stores the value of its event and returns.
LEMMA ValueStep ==
  ASSUME Serial, SerialInv, Types', SleepersCanBeWoken', NEW p \in Procs, MayRun(p), Return(p),
         th[p].pc \notin Apart \cup {"alloc", "sleep"},
         NEW v \in Nat, th[p].cur \in Nodes, mem' = [mem EXCEPT ![th[p].cur].value = v],
         v = 0 \/ mem[th[p].cur].waitq = <<>>,
         UNCHANGED <<head, end, other>>
  PROVE  SerialInv'
<1> DEFINE n == th[p].cur
<1>1. OnlyMoves(p) /\ th'[p] = Idle /\ Idle.pc = "user"
  BY OthersOut, IdleType DEF OnlyMoves, SerialInv, Return, Types, Threads
<1>2. UNCHANGED <<task, given, opens, bad>>
  BY DEF other
<1>3. \A m \in Nodes : /\ mem'[m].live = mem[m].live /\ mem'[m].num = mem[m].num
                       /\ mem'[m].next = mem[m].next /\ mem'[m].waitq = mem[m].waitq
                       /\ mem'[m].value = IF m = n THEN v ELSE mem[m].value
  BY DEF SerialInv, Types, Memory, NodeState
<1>4. Live' = Live /\ Linked \subseteq Nodes
  BY <1>3 DEF Live, Linked
<1>5. Linked' = Linked
  BY <1>1, <1>4, LinkedSame DEF Apart
<1>6. Alone' /\ Chain' /\ Numbers'
  BY <1>1, <1>3, <1>4, <1>5, AloneStep, ChainSame, NumbersSame DEF SerialInv, Live,
           Apart
<1>7. Queues'
  BY <1>1, <1>2, <1>3, <1>4 DEF SerialInv, Queues, OnlyMoves, Live
<1>8. Room'
  BY <1>1, <1>2, <1>4, RoomSame DEF SerialInv
<1>9. \A q \in Procs : Slept(q)'
  BY SMTT(60), <1>1, <1>2, <1>3, <1>4, SleptSame DEF SerialInv, Apart
<1>10. \A q \in Procs : Knows(q)'
  BY <1>1, OthersKnow DEF Knows, HoldsEvent
<1>11. (bad \subseteq {"printk"})'
  BY <1>2 DEF SerialInv
<1> QED BY <1>6, <1>7, <1>8, <1>9, <1>10, <1>11 DEF SerialInv

\* The state as p finds it after such a step.
LEMMA LocalFacts ==
  ASSUME Serial, SerialInv, NEW p \in Procs, MayRun(p),
         \A q \in Procs \ {p} : th'[q] = th[q],
         th[p].pc \notin Apart, th'[p].pc \notin Apart \cup {"oops"},
         UNCHANGED <<list, other>>
  PROVE  /\ Linked' = Linked /\ Live' = Live
         /\ UNCHANGED <<head, end, mem>>
         /\ th'[p].prev = th[p].prev /\ th'[p].cur = th[p].cur =>
              (CameFrom(p) => CameFrom(p)')
<1>1. OnlyMoves(p)
  BY OthersOut DEF OnlyMoves, SerialInv
<1>2. UNCHANGED <<head, end, mem>> /\ Live' = Live
  BY DEF list, Live
<1>3. Linked' = Linked
  BY <1>1, <1>2, LinkedSame
<1> QED BY <1>2, <1>3 DEF CameFrom

\* The steps that only read, or that store a value.
LEMMA QuietSteps ==
  ASSUME Serial, SerialInv, Types', SleepersCanBeWoken', NEW p \in Procs,
         \/ Call(p) \/ scheventNum(p) \/ OpenFound(p) \/ WaitRead(p) \/ SignalTest(p)
         \/ OpenValue(p) \/ WaitDec(p) \/ SignalInc(p) \/ CloseTest(p)
  PROVE  SerialInv'
<1>0. Knows(p) /\ Threads /\ Idle.pc = "user"
  BY IdleType DEF SerialInv, Types
<1>1. CASE Call(p)
  <2>1. PICK o \in Searching, i \in 1 .. MaxOpens :
          /\ Allowed(o, 2 * i)
          /\ th' = [th EXCEPT ![p] = [pc |-> "walk", op |-> o, arg |-> 2 * i,
                                      cur |-> head, prev |-> NULL]]
    BY <1>1 DEF Call, Searching
  <2>2. /\ th[p].pc = "user" /\ MayRun(p) /\ UNCHANGED <<list, other>>
        /\ \A q \in Procs \ {p} : th'[q] = th[q]
    BY <1>0, <1>1, <2>1 DEF Call, At, Threads
  <2>3. /\ th'[p].pc = "walk" /\ th'[p].op = o /\ th'[p].arg = 2 * i
        /\ th'[p].cur = head /\ th'[p].prev = NULL
    BY <1>0, <2>1 DEF Threads
  <2>4. Linked' = Linked /\ UNCHANGED <<head, end, mem>>
    BY <2>2, <2>3, LocalFacts DEF Apart
  <2>5. head \in Linked \cup {NULL}
    BY DEF SerialInv, Chain
  <2>6. 2 * i # 0
    BY BoundAssumption
  <2>7. o = "close" => end # NULL /\ 2 * i < mem[end].num
    BY <2>1, NullAssumption DEF Allowed, Serial, Live
  <2>8. Knows(p)'
    <3>1. CameFrom(p)'
      BY <2>3, <2>4 DEF CameFrom
    <3> QED BY <2>3, <2>4, <2>5, <2>6, <2>7, <3>1 DEF Knows, HoldsEvent
  <2> QED BY <2>2, <2>3, <2>8, LocalStep DEF Apart
<1>2. CASE scheventNum(p)
  <2> DEFINE n == th[p].cur
  <2>1. /\ th[p].pc = "walk" /\ MayRun(p) /\ UNCHANGED <<list, other>>
        /\ n \in Linked \cup {NULL} /\ CameFrom(p) /\ th[p].arg # 0
        /\ th[p].op = "close" => end # NULL /\ th[p].arg < mem[end].num
        /\ th[p].op \in Searching
    BY <1>0, <1>2 DEF scheventNum, At, Knows, Threads
  <2>2. CASE Return(p)
    <3>1. th'[p].pc = "user" /\ \A q \in Procs \ {p} : th'[q] = th[q]
      BY <1>0, <2>2 DEF Return, Threads
    <3>2. Knows(p)'
      BY <3>1 DEF Knows, HoldsEvent
    <3> QED BY <2>1, <3>1, <3>2, LocalStep DEF Apart
  <2>3. CASE n # NULL /\ mem[n].num = th[p].arg /\ Goto(p, Found(th[p].op))
    <3>1. /\ th'[p].pc = Found(th[p].op) /\ th'[p].cur = n /\ th'[p].prev = th[p].prev
          /\ th'[p].arg = th[p].arg
          /\ \A q \in Procs \ {p} : th'[q] = th[q]
      BY <1>0, <2>3 DEF Goto, Threads, CallState
    <3>2. Found(th[p].op) \in {"found", "w_read", "s_test", "c_test"}
      BY <2>1 DEF Found, Searching
    <3>3. Found(th[p].op) = "c_test" => th[p].op = "close"
      BY <2>1 DEF Found, Searching
    <3>4. Linked' = Linked /\ UNCHANGED <<head, end, mem>> /\ CameFrom(p)'
      BY <2>1, <3>1, <3>2, LocalFacts DEF Apart
    <3>5. th[p].op = "close" => n # end
      <4>1. end # NULL => mem[end].num \in Nat
        BY DEF SerialInv, Types, Memory, NodeState, Pointers
      <4>2. th[p].arg \in Nat
        BY <1>0 DEF Threads, CallState
      <4> QED BY <2>1, <2>3, <4>1, <4>2
    <3>6. Knows(p)'
      BY <2>1, <2>3, <3>1, <3>2, <3>3, <3>4, <3>5 DEF Knows, HoldsEvent
    <3> QED BY <2>1, <3>1, <3>2, <3>6, LocalStep DEF Apart
  <2>4. CASE /\ n # NULL /\ th' = [th EXCEPT ![p].prev = n, ![p].cur = mem[n].next]
    <3>1. /\ th'[p].pc = "walk" /\ th'[p].cur = mem[n].next /\ th'[p].prev = n
          /\ th'[p].arg = th[p].arg /\ th'[p].op = th[p].op
          /\ \A q \in Procs \ {p} : th'[q] = th[q]
      BY <1>0, <2>1, <2>4 DEF Threads, CallState
    <3>2. Linked' = Linked /\ UNCHANGED <<head, end, mem>>
      BY <2>1, <3>1, LocalFacts DEF Apart
    <3>0. OnlyMoves(p)
      BY <2>1, <3>1, OthersOut DEF OnlyMoves, SerialInv
    <3>3. n \in Linked /\ mem[n].next \in Linked \cup {NULL}
      BY <2>1, <2>4, <3>0, NotMidway DEF SerialInv, Chain
    <3>4. CameFrom(p)'
      BY <2>4, <3>1, <3>2, <3>3 DEF CameFrom
    <3>5. Knows(p)'
      BY <2>1, <3>1, <3>2, <3>3, <3>4 DEF Knows, HoldsEvent
    <3> QED BY <2>1, <3>1, <3>5, LocalStep DEF Apart
  <2> QED BY <1>2, <2>2, <2>3, <2>4 DEF scheventNum
<1>3. CASE OpenFound(p)
  <2>1. /\ th[p].pc = "found" /\ MayRun(p) /\ UNCHANGED <<list, other>>
        /\ th'[p].pc = "user" /\ \A q \in Procs \ {p} : th'[q] = th[q]
    BY <1>0, <1>3 DEF OpenFound, At, Return, Threads
  <2>2. Knows(p)'
    BY <2>1 DEF Knows, HoldsEvent
  <2> QED BY <2>1, <2>2, LocalStep DEF Apart
<1>4. CASE WaitRead(p)
  <2> DEFINE l == IF mem[th[p].cur].value > 0 THEN "w_dec" ELSE "w_queue"
  <2>1. /\ th[p].pc = "w_read" /\ MayRun(p) /\ UNCHANGED <<list, other>>
        /\ th'[p].pc = l /\ th'[p].cur = th[p].cur /\ th'[p].arg = th[p].arg
        /\ \A q \in Procs \ {p} : th'[q] = th[q]
    BY <1>0, <1>4 DEF WaitRead, At, Goto, Threads, CallState
  <2>2. th[p].cur \in Linked /\ mem[th[p].cur].num = th[p].arg
    BY <1>0, <2>1 DEF Knows, HoldsEvent
  <2>3. mem[th[p].cur].value \in Int /\ mem[th[p].cur].value >= 0
    BY <2>2 DEF SerialInv, Queues, Linked, Live, Types, Memory, NodeState
  <2>4. Linked' = Linked /\ UNCHANGED <<head, end, mem>>
    BY <2>1, LocalFacts DEF Apart
  <2>5. Knows(p)'
    BY <2>1, <2>2, <2>3, <2>4 DEF Knows, HoldsEvent
  <2> QED BY <2>1, <2>5, LocalStep DEF Apart
<1>5. CASE SignalTest(p)
  <2> DEFINE l == IF mem[th[p].cur].waitq = <<>> THEN "s_inc" ELSE "s_wake"
  <2>1. /\ th[p].pc = "s_test" /\ MayRun(p) /\ UNCHANGED <<list, other>>
        /\ th'[p].pc = l /\ th'[p].cur = th[p].cur /\ th'[p].arg = th[p].arg
        /\ \A q \in Procs \ {p} : th'[q] = th[q]
    BY <1>0, <1>5 DEF SignalTest, At, Goto, Threads, CallState
  <2>2. th[p].cur \in Linked /\ mem[th[p].cur].num = th[p].arg
    BY <1>0, <2>1 DEF Knows, HoldsEvent
  <2>3. Linked' = Linked /\ UNCHANGED <<head, end, mem>>
    BY <2>1, LocalFacts DEF Apart
  <2>4. Knows(p)'
    BY <2>1, <2>2, <2>3 DEF Knows, HoldsEvent
  <2> QED BY <2>1, <2>4, LocalStep DEF Apart
<1>6. CASE OpenValue(p)
  <2>1. /\ th[p].pc = "o_value" /\ MayRun(p) /\ Return(p) /\ UNCHANGED <<head, end, other>>
        /\ mem' = [mem EXCEPT ![th[p].cur].value = th[p].arg]
    BY <1>6 DEF OpenValue, At
  <2>2. th[p].cur \in Nodes /\ mem[th[p].cur].waitq = <<>> /\ th[p].arg \in Nat
    BY <1>0, <2>1 DEF Knows, Linked, Live, Threads, CallState
  <2> QED BY <2>1, <2>2, ValueStep DEF Apart
<1>7. CASE WaitDec(p)
  <2> DEFINE n == th[p].cur
             v == mem[n].value - 1
  <2>1. /\ th[p].pc = "w_dec" /\ MayRun(p) /\ Return(p) /\ UNCHANGED <<head, end, other>>
        /\ mem' = [mem EXCEPT ![n].value = v]
    BY <1>7 DEF WaitDec, At
  <2>2. n \in Live /\ n \in Nodes /\ mem[n].value > 0 /\ mem[n].value \in Int
    BY <1>0, <2>1 DEF Knows, HoldsEvent, Linked, Live, SerialInv, Types, Memory, NodeState
  <2>3. v \in Nat /\ mem[n].waitq = <<>>
    BY <2>2 DEF SerialInv, Queues
  <2> HIDE DEF v
  <2> QED BY <2>1, <2>2, <2>3, ValueStep DEF Apart
<1>8. CASE SignalInc(p)
  <2> DEFINE n == th[p].cur
             v == mem[n].value + 1
  <2>1. /\ th[p].pc = "s_inc" /\ MayRun(p) /\ Return(p) /\ UNCHANGED <<head, end, other>>
        /\ mem' = [mem EXCEPT ![n].value = v]
    BY <1>8 DEF SignalInc, At
  <2>2. n \in Live /\ n \in Nodes /\ mem[n].waitq = <<>>
    BY <1>0, <2>1 DEF Knows, HoldsEvent, Linked, Live
  <2>3. v \in Nat
    BY <2>2 DEF SerialInv, Queues, Types, Memory, NodeState
  <2> HIDE DEF v
  <2> QED BY <2>1, <2>2, <2>3, ValueStep DEF Apart
<1>9. CASE CloseTest(p)
  <2>1. /\ MayRun(p) /\ UNCHANGED <<list, other>>
        /\ \/ /\ th[p].pc = "c_test"
              /\ th'[p].pc = IF th[p].cur = end THEN "c_tail" ELSE "c_test2"
           \/ /\ th[p].pc = "c_test2"
              /\ th'[p].pc = IF th[p].cur = head THEN "c_head" ELSE "c_middle"
        /\ th'[p].cur = th[p].cur /\ th'[p].prev = th[p].prev
        /\ \A q \in Procs \ {p} : th'[q] = th[q]
    BY <1>0, <1>9 DEF CloseTest, At, Goto, Threads, CallState
  <2>2. th[p].cur \in Linked /\ th[p].cur # end /\ CameFrom(p)
    BY <1>0, <2>1 DEF Knows
  <2>3. th'[p].pc \in {"c_test2", "c_head", "c_middle"}
    BY <2>1, <2>2
  <2>4. Linked' = Linked /\ UNCHANGED <<head, end, mem>> /\ CameFrom(p)'
    BY <2>1, <2>2, <2>3, LocalFacts DEF Apart
  <2>5. Knows(p)'
    BY <2>1, <2>2, <2>3, <2>4 DEF Knows, HoldsEvent
  <2> QED BY <2>1, <2>3, <2>5, LocalStep DEF Apart
<1> QED BY <1>1, <1>2, <1>3, <1>4, <1>5, <1>6, <1>7, <1>8, <1>9

\* The number of a new event is stored, before the event is on the list.
LEMMA NumberStep ==
  ASSUME Serial, SerialInv, Types', SleepersCanBeWoken', NEW p \in Procs, MayRun(p),
         th[p].pc \in {"o_test", "o_number"}, NEW x,
         x = IF head = NULL THEN 2 ELSE mem[end].num + 2,
         Goto(p, IF head = NULL THEN "o_first" ELSE "o_append"),
         mem' = [mem EXCEPT ![th[p].cur].num = x], UNCHANGED <<head, end, other>>
  PROVE  SerialInv'
<1> DEFINE n == th[p].cur
<1>0. /\ Knows(p) /\ Threads /\ Chain /\ Numbers /\ Memory
      /\ \A q \in Procs : Slept(q) /\ bad \subseteq {"printk"}
  BY DEF SerialInv, Types
<1>00. IsFiniteSet(Live) /\ Live \subseteq Nodes /\ Linked \subseteq Live
  BY FS_Subset DEF Serial, Live, Linked
<1>1. /\ UNCHANGED <<head, end, task, given, opens, bad>>
      /\ (head = NULL => x = 2) /\ (head # NULL => x = mem[end].num + 2)
      /\ th'[p].pc = IF head = NULL THEN "o_first" ELSE "o_append"
      /\ th'[p].cur = n /\ \A q \in Procs \ {p} : th'[q] = th[q]
  BY <1>0 DEF Goto, Threads, CallState, other
<1>2. Fresh(n) /\ mem[n].num = 0
  BY <1>0, <1>1 DEF Knows
<1>3. head = NULL \/ end \in Linked
  BY <1>0 DEF Chain
<1>4. x \in Nat /\ x # 0
  BY <1>0, <1>00, <1>1, <1>3 DEF Memory, NodeState
<1>5. n \in Nodes /\ mem'[n].num = x
      /\ \A m \in Nodes : /\ m # n => mem'[m] = mem[m]
                          /\ mem'[m].live = mem[m].live /\ mem'[m].next = mem[m].next
                          /\ mem'[m].waitq = mem[m].waitq /\ mem'[m].value = mem[m].value
  BY <1>0, <1>00, <1>1, <1>2 DEF Memory, NodeState, Fresh
<1>6. OnlyMoves(p) /\ Live' = Live
  BY <1>1, <1>5, OthersOut DEF OnlyMoves, SerialInv, Live
<1>7. Linked' = Linked
  BY <1>1, <1>6, LinkedSame DEF Apart
<1>8. n \notin Linked /\ Live = Linked \cup {n}
  BY <1>00, <1>1, <1>2, <1>6 DEF Linked, Fresh, Apart, OnlyMoves, Out
<1>9. \A m \in Linked : mem'[m] = mem[m]
  BY <1>00, <1>5, <1>8
<1>10. Alone' /\ Chain'
  BY <1>0, <1>1, <1>6, <1>7, <1>9, AloneStep, ChainSame DEF SerialInv
<1>11. \A m \in Linked : mem[m].num # x
  <2> SUFFICES ASSUME NEW m \in Linked PROVE mem[m].num # x
    OBVIOUS
  <2>1. head # NULL /\ mem[m].num <= mem[end].num
    BY <1>0 DEF Chain
  <2>2. mem[m].num \in Nat /\ mem[end].num \in Nat
    BY <1>0, <1>00, <1>3, <2>1 DEF Memory, NodeState
  <2> QED BY <1>4, <2>1, <2>2
<1>12. Numbers'
  BY <1>0, <1>5, <1>6, <1>7, <1>8, <1>9, <1>11 DEF Numbers
<1>13. Queues' /\ Room'
  BY <1>1, <1>5, <1>6, QueuesSame, RoomSame DEF SerialInv
<1>14. \A q \in Procs : Slept(q)'
  <2> SUFFICES ASSUME NEW q \in Procs, th'[q].pc = "sleep" PROVE Slept(q)'
    BY DEF Slept
  <2>1. q # p /\ th'[q] = th[q] /\ Slept(q)
    BY <1>0, <1>1
  <2>0. ~Midway /\ (DoomedBy(th, th[q].cur) => DoomedBy(th', th[q].cur))
    BY <1>6, NotMidway, DoomedStays
  <2>2. /\ th[q].cur \in Nodes /\ end \in Linked /\ head # NULL
        /\ th[q].arg # 0 /\ th[q].arg <= mem[end].num
    BY <1>0, <2>0, <2>1 DEF Slept, Threads, AtNode, Chain
  <2>3. mem'[end] = mem[end]
    BY <1>9, <2>2
  <2>4. th[q].arg \in Nat /\ mem[end].num \in Nat
    BY <1>0, <1>00, <2>2 DEF Threads, CallState, Memory, NodeState
  <2>5. x # th[q].arg
    BY <1>4, <2>2, <2>4
  <2>6. CASE th[q].cur = n
    <3>1. task[q] # "INTERRUPTIBLE"
      BY <1>2, <2>1, <2>2, <2>6 DEF Slept
    <3>2. mem'[th'[q].cur].num # th'[q].arg
      BY <1>5, <2>1, <2>5, <2>6
    <3>3. th'[q].arg # 0 /\ end' # NULL /\ th'[q].arg <= mem'[end'].num
      BY <1>1, <2>1, <2>2, <2>3 DEF Slept
    <3>4. task'[q] # "INTERRUPTIBLE"
      BY <1>1, <3>1
    <3> QED BY <3>2, <3>3, <3>4 DEF Slept
  <2>7. CASE th[q].cur # n
    BY ZenonT(60), <1>1, <1>5, <1>6, <2>0, <2>1, <2>2, <2>3, <2>7 DEF Slept
  <2> QED BY <2>6, <2>7
<1>15. \A q \in Procs : Knows(q)'
  <2>1. Fresh(n)'
    BY <1>1, <1>2, <1>5, <1>6 DEF Fresh
  <2>2. head # NULL => mem'[end].num = mem[end].num
    BY <1>3, <1>9
  <2>3. Knows(p)'
    <3>1. CASE head = NULL
      BY <1>1, <1>5, <2>1, <3>1 DEF Knows, HoldsEvent, Fresh
    <3>2. CASE head # NULL
      BY <1>1, <1>4, <1>5, <2>1, <2>2, <3>2 DEF Knows, HoldsEvent, Fresh
    <3> QED BY <3>1, <3>2
  <2> QED BY <1>6, <2>3, OthersKnow
<1> QED BY <1>0, <1>1, <1>10, <1>12, <1>13, <1>14, <1>15 DEF SerialInv

\* The calls and returns of open().
LEMMA OpenSteps ==
  ASSUME Serial, SerialInv, Types', SleepersCanBeWoken', NEW p \in Procs,
         \/ OpenCall(p) \/ OpenAlloc(p) \/ OpenTest(p) \/ OpenNumber(p)
         \/ OpenFirst(p) \/ OpenHead(p) \/ OpenAppend(p) \/ OpenEnd(p)
  PROVE  SerialInv'
<1>0. /\ Knows(p) /\ Threads /\ Chain /\ Numbers /\ Memory
      /\ \A q \in Procs : Slept(q) /\ bad \subseteq {"printk"}
  BY DEF SerialInv, Types
<1>00. IsFiniteSet(Live) /\ Live \subseteq Nodes /\ Linked \subseteq Live
  BY FS_Subset DEF Serial, Live, Linked
<1>1. CASE OpenCall(p)
  <2>1. /\ th[p].pc = "user" /\ MayRun(p) /\ opens' = opens + 1
        /\ UNCHANGED <<head, end, mem, task, given, bad>>
        /\ \A q \in Procs \ {p} : th'[q] = th[q]
    BY <1>0, <1>1 DEF OpenCall, At, Threads, list
  <2>2. th'[p].pc = "alloc"
    BY ZenonT(60), <1>0, <1>1, IdleType DEF OpenCall, Threads, CallState
  <2>3. OnlyMoves(p) /\ Live' = Live
    BY <2>1, <2>2, OthersOut DEF OnlyMoves, SerialInv, Live
  <2>4. Linked' = Linked
    BY <2>1, <2>2, <2>3, LinkedSame DEF Apart
  <2>5. Alone' /\ Chain' /\ Numbers'
    BY <2>1, <2>3, <2>4, AloneStep, ChainSame, NumbersSame DEF SerialInv
  <2>6. Queues'
    BY <2>1, <2>3, QueuesSame DEF SerialInv
  <2>7. \A q \in Procs : Slept(q)'
    BY <2>1, <2>2, <2>3, SleptSame DEF SerialInv
  <2>8. \A q \in Procs : Knows(q)'
    BY <2>2, <2>3, OthersKnow DEF Knows, HoldsEvent
  <2>9. Room'
    <3>1. IsFiniteSet(Allocating)
      BY FS_Subset DEF Serial, Allocating
    <3>2. Allocating' = Allocating \cup {p} /\ p \notin Allocating
      BY <2>1, <2>2 DEF Allocating
    <3>3. Cardinality(Allocating') = Cardinality(Allocating) + 1
      BY <3>1, <3>2, FS_AddElement
    <3>4. Cardinality(Allocating) \in Nat /\ Cardinality(Live) \in Nat /\ opens \in Nat
      BY <1>00, <3>1, FS_CardinalityType, BoundAssumption DEF SerialInv, Types, Tasks
    <3>5. Cardinality(Live') = Cardinality(Live)
      BY <2>3
    <3> QED BY <2>1, <3>3, <3>4, <3>5 DEF SerialInv, Room
  <2> QED BY <1>0, <2>1, <2>5, <2>6, <2>7, <2>8, <2>9 DEF SerialInv
<1>2. CASE OpenAlloc(p)
  <2>1. PICK n \in Nodes \ Live, junk \in 0 .. MaxValue :
          /\ mem' = [mem EXCEPT ![n] = Blank(junk)]
          /\ th' = [th EXCEPT ![p].pc = "o_test", ![p].cur = n]
    BY <1>2 DEF OpenAlloc
  <2>2. /\ th[p].pc = "alloc" /\ MayRun(p) /\ th'[p].pc = "o_test" /\ th'[p].cur = n
        /\ \A q \in Procs \ {p} : th'[q] = th[q]
        /\ UNCHANGED <<head, end, task, given, opens, bad>>
    <3>1. th[p].pc = "alloc" /\ MayRun(p) /\ UNCHANGED <<head, end, task, given, opens, bad>>
      BY <1>2 DEF OpenAlloc, At, other
    <3>2. th'[p] = [th[p] EXCEPT !.pc = "o_test", !.cur = n]
      BY <1>0, <2>1 DEF Threads, CallState
    <3>3. th'[p].pc = "o_test" /\ th'[p].cur = n
      BY <1>0, <3>2 DEF Threads, CallState
    <3>4. \A q \in Procs \ {p} : th'[q] = th[q]
      BY <1>0, <2>1 DEF Threads
    <3> QED BY <3>1, <3>3, <3>4
  <2>3. mem'[n] = Blank(junk) /\ \A m \in Nodes : m # n => mem'[m] = mem[m]
    BY <1>0, <2>1 DEF Memory
  <2>4. /\ mem'[n].live = TRUE /\ mem'[n].num = 0 /\ mem'[n].value = junk
        /\ mem'[n].waitq = <<>> /\ mem'[n].next = NULL
    BY <2>3 DEF Blank
  <2>5. Live' = Live \cup {n} /\ n \notin Live
    BY <2>3, <2>4 DEF Live
  <2>6. OnlyMoves(p)
    BY <2>2, OthersOut DEF OnlyMoves, SerialInv
  <2>7. Linked' = Linked /\ Live = Linked
    BY <2>2, <2>5, <2>6 DEF Linked, OnlyMoves, Apart, Out
  <2>8. \A m \in Linked : m # n /\ mem'[m] = mem[m]
    BY <1>00, <2>3, <2>5
  <2>9. Alone' /\ Chain'
    BY <1>0, <2>2, <2>6, <2>7, <2>8, AloneStep, ChainSame DEF SerialInv
  <2>10. Numbers'
    <3>1. \A m \in Live : mem'[m].num = mem[m].num /\ mem[m].num # 0
      BY <1>0, <2>7, <2>8 DEF Numbers
    <3> QED BY <1>0, <2>4, <2>5, <2>7, <3>1 DEF Numbers
  <2>11. Queues'
    <3>1. \A q \in Procs : ~Contains(<<>>, q)
      BY DEF Contains
    <3>2. mem'[n].value >= 0
      BY <2>4, BoundAssumption
    <3>3. \A m \in Nodes : \A q \in Procs : Contains(mem'[m].waitq, q) =>
             Contains(mem[m].waitq, q)
      BY <2>3, <2>4, <3>1
    <3>4. \A m \in Nodes : \A q \in Procs : Contains(mem'[m].waitq, q) =>
             th'[q].pc = "sleep" /\ th'[q].cur = m /\ task'[q] = "INTERRUPTIBLE"
      BY <2>2, <3>3 DEF SerialInv, Queues
    <3>5. \A m \in Live' : mem'[m].value >= 0 /\ (mem'[m].waitq # <<>> => mem'[m].value = 0)
      BY <1>00, <2>3, <2>4, <2>5, <3>2 DEF SerialInv, Queues
    <3> QED BY <3>4, <3>5 DEF Queues
  <2>12. \A q \in Procs : Slept(q)'
    <3> SUFFICES ASSUME NEW q \in Procs, th'[q].pc = "sleep" PROVE Slept(q)'
      BY DEF Slept
    <3>1. q # p /\ th'[q] = th[q] /\ Slept(q)
      BY <1>0, <2>2
    <3>0. ~Midway /\ (DoomedBy(th, th[q].cur) => DoomedBy(th', th[q].cur))
      BY <2>2, <2>6, NotMidway, DoomedStays
    <3>2. th[q].cur \in Nodes /\ th[q].arg # 0 /\ end \in Linked
      BY <1>0, <3>0, <3>1 DEF Slept, Threads, AtNode, Chain
    <3>3. mem'[end] = mem[end]
      BY <2>8, <3>2
    <3>4. CASE th[q].cur = n
      <4>1. task[q] = "INTERRUPTIBLE" => n \in Live
        BY <3>1, <3>4 DEF SerialInv, SleepersCanBeWoken, Asleep, CanBeWoken
      <4> QED BY <2>2, <2>4, <2>5, <3>0, <3>1, <3>2, <3>3, <3>4, <4>1 DEF Slept
    <3>5. CASE th[q].cur # n
      BY <2>2, <2>3, <2>5, <3>0, <3>1, <3>2, <3>3, <3>5 DEF Slept
    <3> QED BY <3>4, <3>5
  <2>13. \A q \in Procs : Knows(q)'
    <3>1. Knows(p)'
      BY <2>2, <2>4, <2>5 DEF Knows, HoldsEvent, Fresh
    <3> QED BY <2>6, <3>1, OthersKnow
  <2>14. Room'
    <3>1. IsFiniteSet(Allocating)
      BY FS_Subset DEF Serial, Allocating
    <3>2. Allocating' = Allocating \ {p} /\ p \in Allocating
      BY <2>2 DEF Allocating
    <3>3. Cardinality(Allocating') = Cardinality(Allocating) - 1
      BY <3>1, <3>2, FS_RemoveElement
    <3>4. Cardinality(Allocating) \in Nat /\ Cardinality(Live) \in Nat /\ opens \in Nat
      BY <1>00, <3>1, FS_CardinalityType, BoundAssumption DEF SerialInv, Types, Tasks
    <3>5. Cardinality(Live') = Cardinality(Live) + 1
      BY <1>00, <2>5, FS_AddElement
    <3> QED BY <2>2, <3>3, <3>4, <3>5 DEF SerialInv, Room
  <2> QED BY <1>0, <2>2, <2>9, <2>10, <2>11, <2>12, <2>13, <2>14 DEF SerialInv
<1>3. CASE OpenTest(p)
  <2> DEFINE n == th[p].cur
  <2>1. th[p].pc = "o_test" /\ MayRun(p) /\ UNCHANGED <<head, end, other>>
    BY <1>3 DEF OpenTest, At
  <2>2. CASE head = NULL
    <3>1. mem' = [mem EXCEPT ![n].num = 2] /\ Goto(p, "o_first")
      BY <1>3, <2>2 DEF OpenTest
    <3> QED BY <2>1, <2>2, <3>1, NumberStep
  <2>3. CASE head # NULL
    <3>1. /\ mem' = mem /\ th'[p].pc = "o_number" /\ th'[p].cur = n
          /\ \A q \in Procs \ {p} : th'[q] = th[q]
          /\ UNCHANGED <<head, end, task, given, opens, bad>>
      BY <1>0, <1>3, <2>3 DEF OpenTest, Goto, Threads, CallState, other
    <3>2. OnlyMoves(p) /\ Live' = Live
      BY <2>1, <3>1, OthersOut DEF OnlyMoves, SerialInv, Live
    <3>3. Linked' = Linked
      BY <2>1, <3>1, <3>2, LinkedSame DEF Apart
    <3>4. Alone' /\ Chain' /\ Numbers'
      BY <1>0, <2>1, <3>1, <3>2, <3>3, AloneStep, ChainSame, NumbersSame DEF SerialInv
    <3>5. Queues' /\ Room'
      BY <2>1, <3>1, <3>2, QueuesSame, RoomSame DEF SerialInv
    <3>6. \A q \in Procs : Slept(q)'
      BY <2>1, <3>1, <3>2, SleptSame DEF SerialInv
    <3>7. \A q \in Procs : Knows(q)'
      <4>1. Knows(p)'
        BY <1>0, <2>1, <2>3, <3>1, <3>2 DEF Knows, HoldsEvent, Fresh
      <4> QED BY <3>2, <4>1, OthersKnow
    <3> QED BY <1>0, <3>1, <3>4, <3>5, <3>6, <3>7 DEF SerialInv
  <2> QED BY <2>2, <2>3
<1>6. CASE OpenNumber(p)
  <2> DEFINE x == mem[end].num + 2
  <2>1. /\ th[p].pc = "o_number" /\ MayRun(p) /\ UNCHANGED <<head, end, other>>
        /\ mem' = [mem EXCEPT ![th[p].cur].num = x] /\ Goto(p, "o_append")
    BY <1>6 DEF OpenNumber, At
  <2>2. head # NULL
    BY <1>0, <2>1 DEF Knows
  <2> HIDE DEF x
  <2>3. x = IF head = NULL THEN 2 ELSE mem[end].num + 2
    BY <2>2 DEF x
  <2> QED BY <2>1, <2>2, <2>3, NumberStep
<1>7. CASE OpenFirst(p)
  <2> DEFINE n == th[p].cur
  <2>1. /\ th[p].pc = "o_first" /\ MayRun(p) /\ UNCHANGED <<head, mem, task, given, opens, bad>>
        /\ end' = n /\ th'[p].pc = "o_head" /\ th'[p].cur = n
        /\ \A q \in Procs \ {p} : th'[q] = th[q]
    BY <1>0, <1>7 DEF OpenFirst, At, Goto, Threads, CallState, other
  <2>2. OnlyMoves(p) /\ Live' = Live
    BY <2>1, OthersOut DEF OnlyMoves, SerialInv, Live
  <2>3. Fresh(n) /\ mem[n].num = 2 /\ head = NULL /\ Linked = {} /\ end = NULL
    BY <1>0, <2>1, <2>2, NotMidway DEF Knows, Chain
  <2>4. Linked' = Linked
    BY <2>1, <2>2, LinkedSame DEF Apart
  <2>5. Alone' /\ Numbers'
    BY <1>0, <2>1, <2>2, <2>4, AloneStep, NumbersSame DEF SerialInv
  <2>6. Chain'
    <3>1. Midway'
      BY <2>1 DEF Midway
    <3> QED BY <2>1, <2>3, <2>4, <3>1 DEF Chain
  <2>7. Queues' /\ Room'
    BY <2>1, <2>2, QueuesSame, RoomSame DEF SerialInv
  <2>8. \A q \in Procs : Slept(q)'
    BY <1>0, <2>1, <2>3 DEF Slept
  <2>9. \A q \in Procs : Knows(q)'
    <3>1. Knows(p)'
      BY <2>1, <2>2, <2>3 DEF Knows, HoldsEvent, Fresh
    <3> QED BY <2>2, <3>1, OthersKnow
  <2> QED BY <1>0, <2>1, <2>5, <2>6, <2>7, <2>8, <2>9 DEF SerialInv
<1>4. CASE OpenHead(p)
  <2> DEFINE n == th[p].cur
  <2>1. /\ th[p].pc = "o_head" /\ MayRun(p)
        /\ UNCHANGED <<end, mem, task, given, opens, bad>> /\ head' = n
        /\ th'[p].pc = "o_value" /\ th'[p].cur = n /\ \A q \in Procs \ {p} : th'[q] = th[q]
    BY <1>0, <1>4 DEF OpenHead, At, Goto, Threads, CallState, other
  <2>2. Fresh(n) /\ mem[n].num = 2 /\ head = NULL /\ Linked = {} /\ end = n
    BY <1>0, <2>1 DEF Knows, Chain
  <2>3. OnlyMoves(p) /\ Live' = Live
    BY <2>1, OthersOut DEF OnlyMoves, SerialInv, Live
  <2>4. Live = {n}
    BY <2>1, <2>2, <2>3 DEF Linked, Fresh, OnlyMoves, Out, Apart
  <2>5. Linked' = {n}
    BY <2>1, <2>3, <2>4 DEF Linked, OnlyMoves, Out, Apart
  <2>6. Alone' /\ Numbers'
    BY <1>0, <2>1, <2>2, <2>3, <2>4, <2>5, AloneStep DEF SerialInv, Numbers
  <2>7. Chain'
    <3>1. n # NULL /\ n \in Nodes
      BY <1>00, <2>4, NullAssumption
    <3>2. mem[n].next = NULL /\ 2 % 2 = 0
      BY <2>2 DEF Fresh
    <3> QED BY <2>1, <2>2, <2>5, <3>1, <3>2 DEF Chain
  <2>8. Queues' /\ Room'
    BY <2>1, <2>3, QueuesSame, RoomSame DEF SerialInv
  <2>9. \A q \in Procs : Slept(q)'
    BY <2>1, <2>3, SleptSame DEF SerialInv
  <2>10. \A q \in Procs : Knows(q)'
    <3>1. Knows(p)'
      BY <2>1, <2>2, <2>5 DEF Knows, HoldsEvent, Fresh
    <3> QED BY <2>3, <3>1, OthersKnow
  <2> QED BY <1>0, <2>1, <2>6, <2>7, <2>8, <2>9, <2>10 DEF SerialInv
<1>8. CASE OpenAppend(p)
  <2> DEFINE n == th[p].cur
  <2>1. /\ th[p].pc = "o_append" /\ MayRun(p) /\ UNCHANGED <<head, end, task, given, opens, bad>>
        /\ mem' = [mem EXCEPT ![end].next = n]
        /\ th'[p].pc = "o_end" /\ th'[p].cur = n /\ \A q \in Procs \ {p} : th'[q] = th[q]
    BY <1>0, <1>8 DEF OpenAppend, At, Goto, Threads, CallState, other
  <2>2. Fresh(n) /\ mem[n].num = mem[end].num + 2 /\ head # NULL
    BY <1>0, <2>1 DEF Knows
  <2>3. end \in Linked /\ head \in Linked /\ end \in Nodes
    BY <1>0, <1>00, <2>2 DEF Chain
  <2>4. /\ mem'[end].next = n
        /\ \A m \in Nodes : /\ m # end => mem'[m] = mem[m]
                            /\ mem'[m].live = mem[m].live /\ mem'[m].num = mem[m].num
                            /\ mem'[m].waitq = mem[m].waitq /\ mem'[m].value = mem[m].value
    BY <1>0, <2>1, <2>3 DEF Memory, NodeState
  <2>5. OnlyMoves(p) /\ Live' = Live
    BY <2>1, <2>4, OthersOut DEF OnlyMoves, SerialInv, Live
  <2>6. Linked' = Linked
    BY <2>1, <2>5, LinkedSame DEF Apart
  <2>7. n \notin Linked /\ n \in Nodes
    BY <1>00, <2>1, <2>2 DEF Linked, Fresh, Apart
  <2>8. Alone' /\ Numbers'
    BY <1>0, <1>00, <2>4, <2>5, <2>6, AloneStep, NumbersSame DEF SerialInv
  <2>9. Chain'
    <3>1. Midway'
      BY <2>1 DEF Midway
    <3>2. ~Midway
      BY <2>1, <2>5, NotMidway
    <3>3. \A m \in Linked : mem'[m].num = mem[m].num /\ (m # end => mem'[m].next = mem[m].next)
      BY <1>00, <2>4
    <3>4. ASSUME NEW m \in Linked, m # head
          PROVE  \E k \in Linked : mem'[k].next = m
      <4>1. PICK k \in Linked : mem[k].next = m
        BY <1>0, <3>4 DEF Chain
      <4>2. k # end
        BY <1>0, <1>00, <2>3, <3>2, <3>4, <4>1, NullAssumption DEF Chain
      <4> QED BY <3>3, <4>1, <4>2
    <3>5. ASSUME NEW m \in Linked, m # end
          PROVE  /\ mem'[m].next \in Linked
                 /\ mem'[m].num < mem'[mem'[m].next].num
                 /\ \A k \in Linked : \/ mem'[k].num <= mem'[m].num
                                      \/ mem'[k].num >= mem'[mem'[m].next].num
      <4>1. /\ mem[m].next \in Linked
            /\ mem[m].num < mem[mem[m].next].num
            /\ \A k \in Linked : \/ mem[k].num <= mem[m].num
                                 \/ mem[k].num >= mem[mem[m].next].num
        BY <1>0, <3>5 DEF Chain
      <4> QED BY <3>3, <3>5, <4>1
    <3>6. \A m \in Linked : /\ mem'[m].num % 2 = 0
                            /\ mem'[head].num <= mem'[m].num /\ mem'[m].num <= mem'[end].num
      BY <1>0, <2>3, <3>3 DEF Chain
    <3>7. head' = head /\ end' = end /\ (head = NULL <=> Linked = {})
      BY <1>0, <2>1 DEF Chain
    <3> QED BY <2>3, <2>6, <3>1, <3>4, <3>5, <3>6, <3>7 DEF Chain
  <2>10. Queues' /\ Room'
    BY <2>1, <2>4, <2>5, QueuesSame, RoomSame DEF SerialInv
  <2>11. \A q \in Procs : Slept(q)'
    BY <2>1, <2>4, <2>5, SleptSame DEF SerialInv
  <2>12. \A q \in Procs : Knows(q)'
    <3>0. mem'[n] = mem[n]
      BY <2>3, <2>4, <2>7
    <3>1. Fresh(n)'
      BY <2>1, <2>2, <2>5, <3>0 DEF Fresh
    <3>2. mem'[n].num = mem'[end].num + 2
      BY <2>2, <2>3, <2>4, <2>7
    <3>3. Knows(p)'
      BY <2>1, <2>2, <2>4, <3>1, <3>2 DEF Knows, HoldsEvent, Fresh
    <3> QED BY <2>5, <3>3, OthersKnow
  <2> QED BY <1>0, <2>1, <2>8, <2>9, <2>10, <2>11, <2>12 DEF SerialInv
<1>5. CASE OpenEnd(p)
  <2> DEFINE n == th[p].cur
  <2>1. /\ th[p].pc = "o_end" /\ MayRun(p) /\ UNCHANGED <<head, mem, task, given, opens, bad>>
        /\ end' = n
        /\ th'[p].pc = "o_value" /\ th'[p].cur = n /\ \A q \in Procs \ {p} : th'[q] = th[q]
    BY <1>0, <1>5 DEF OpenEnd, At, Goto, Threads, CallState, other
  <2>2. Fresh(n) /\ mem[n].num = mem[end].num + 2 /\ head # NULL /\ mem[end].next = n
    BY <1>0, <2>1 DEF Knows
  <2>3. end \in Linked /\ head \in Linked /\ end \in Nodes
    BY <1>0, <1>00, <2>2 DEF Chain
  <2>4. /\ mem'[end].next = n
        /\ \A m \in Nodes : /\ mem'[m] = mem[m]
                            /\ mem'[m].live = mem[m].live /\ mem'[m].num = mem[m].num
                            /\ mem'[m].waitq = mem[m].waitq /\ mem'[m].value = mem[m].value
    BY <2>1, <2>2
  <2>5. OnlyMoves(p) /\ Live' = Live
    BY <2>1, <2>4, OthersOut DEF OnlyMoves, SerialInv, Live
  <2>6. n \notin Linked /\ Live = Linked \cup {n} /\ n # NULL
    BY <1>00, <2>1, <2>2, <2>5, NullAssumption DEF Linked, Fresh, Apart, OnlyMoves, Out
  <2>7. Linked' = Linked \cup {n}
    BY <2>1, <2>5, <2>6 DEF Linked, OnlyMoves, Out, Apart
  <2>8. \A m \in Live : mem[m].num \in Nat /\ mem'[m].num = mem[m].num
    BY <1>0, <1>00, <2>4 DEF Memory, NodeState
  <2>9. \A m \in Linked : mem[m].num < mem[n].num
    <3> SUFFICES ASSUME NEW m \in Linked PROVE mem[m].num < mem[n].num
      OBVIOUS
    <3>1. mem[m].num <= mem[end].num
      BY <1>0 DEF Chain
    <3> QED BY <1>00, <2>2, <2>3, <2>8, <3>1
  <2>10. Alone'
    BY <2>5, AloneStep DEF SerialInv
  <2>11. Numbers'
    <3>1. mem[n].num # 0
      BY <1>00, <2>2, <2>3, <2>8
    <3> QED BY <1>0, <1>00, <2>5, <2>6, <2>7, <2>8, <3>1 DEF Numbers
  <2>12. Chain'
    <3>1. head' # NULL /\ end' # NULL /\ Linked' # {} /\ head' \in Linked' /\ end' \in Linked'
      BY <2>1, <2>2, <2>3, <2>6, <2>7
    <3>2. mem'[n].next = NULL /\ mem'[n].num % 2 = 0
      <4>1. mem[end].num % 2 = 0 /\ mem[end].num \in Nat
        BY <1>0, <1>00, <2>3, <2>8 DEF Chain
      <4>2. (mem[end].num + 2) % 2 = 0
        BY <4>1
      <4> QED BY <1>00, <2>2, <2>3, <2>4, <2>6, <2>8, <4>2 DEF Fresh
    <3>3. ASSUME NEW m \in Linked'
          PROVE  /\ mem'[m].num % 2 = 0
                 /\ mem'[head'].num <= mem'[m].num /\ mem'[m].num <= mem'[end'].num
                 /\ m = end' => mem'[m].next = NULL
                 /\ m # head' => \E k \in Linked' : mem'[k].next = m
      <4>1. CASE m = n
        BY <2>1, <2>3, <2>4, <2>6, <2>7, <2>8, <2>9, <3>2, <4>1
      <4>2. CASE m # n
        <5>1. m \in Linked
          BY <2>7, <4>2
        <5>2. /\ mem[m].num % 2 = 0 /\ mem[head].num <= mem[m].num
              /\ m # head => \E k \in Linked : mem[k].next = m
          BY <1>0, <5>1 DEF Chain
        <5>3. \A k \in Linked : mem[k].next = m => k # end
          BY <2>2, <4>2
        <5>4. m # head => \E k \in Linked' : mem'[k].next = m
          BY <1>00, <2>4, <2>7, <5>2, <5>3
        <5>5. mem'[head'].num <= mem'[m].num /\ mem'[m].num <= mem'[end'].num
          BY <1>00, <2>1, <2>3, <2>6, <2>8, <2>9, <5>1, <5>2
        <5> QED BY <1>00, <2>1, <2>8, <4>2, <5>1, <5>2, <5>4, <5>5
      <4> QED BY <4>1, <4>2
    <3>4. ASSUME NEW m \in Linked', m # end'
          PROVE  /\ mem'[m].next \in Linked'
                 /\ mem'[m].num < mem'[mem'[m].next].num
                 /\ \A k \in Linked' : \/ mem'[k].num <= mem'[m].num
                                       \/ mem'[k].num >= mem'[mem'[m].next].num
      <4>1. m \in Linked
        BY <2>1, <2>7, <3>4
      <4>2. CASE m = end
        <5>1. \A k \in Linked : mem[k].num <= mem[end].num
          BY <1>0 DEF Chain
        <5> QED BY <2>3, <2>4, <2>6, <2>7, <2>8, <2>9, <4>1, <4>2, <5>1
      <4>3. CASE m # end
        <5>1. /\ mem[m].next \in Linked /\ mem[m].num < mem[mem[m].next].num
              /\ \A k \in Linked : \/ mem[k].num <= mem[m].num
                                   \/ mem[k].num >= mem[mem[m].next].num
          BY <1>0, <4>1, <4>3 DEF Chain
        <5>2. mem'[m].next = mem[m].next
          BY <1>00, <2>4, <4>1, <4>3
        <5>3. mem[n].num >= mem[mem[m].next].num
          BY <1>00, <2>6, <2>8, <2>9, <5>1
        <5> QED BY <1>00, <2>6, <2>7, <2>8, <4>1, <5>1, <5>2, <5>3
      <4> QED BY <4>2, <4>3
    <3> QED BY <3>1, <3>3, <3>4 DEF Chain
  <2>13. Queues' /\ Room'
    BY <2>1, <2>4, <2>5, QueuesSame, RoomSame DEF SerialInv
  <2>14. \A q \in Procs : Slept(q)'
    <3> SUFFICES ASSUME NEW q \in Procs, th'[q].pc = "sleep" PROVE Slept(q)'
      BY DEF Slept
    <3>1. q # p /\ th'[q] = th[q] /\ Slept(q)
      BY <1>0, <2>1
    <3>2. th[q].cur \in Nodes /\ th[q].arg # 0 /\ th[q].arg <= mem[end].num /\ th[q].arg \in Nat
      BY <1>0, <3>1 DEF Slept, Threads, CallState, AtNode
    <3>3. th[q].arg <= mem'[n].num
      BY <1>00, <2>3, <2>6, <2>8, <2>9, <3>2
    <3>4. DoomedBy(th, th[q].cur) => DoomedBy(th', th[q].cur)
      BY <2>1, <2>5, DoomedStays
    <3> QED BY <2>1, <2>4, <2>5, <2>6, <3>1, <3>2, <3>3, <3>4 DEF Slept
  <2>15. \A q \in Procs : Knows(q)'
    <3>1. Knows(p)'
      <4>1. mem'[n].waitq = <<>>
        BY <1>00, <2>2, <2>4, <2>6 DEF Fresh
      <4> QED BY <2>1, <2>7, <4>1 DEF Knows, HoldsEvent
    <3> QED BY <2>5, <3>1, OthersKnow
  <2> QED BY <1>0, <2>1, <2>10, <2>11, <2>12, <2>13, <2>14, <2>15 DEF SerialInv
<1> QED BY <1>1, <1>2, <1>3, <1>4, <1>5, <1>6, <1>7, <1>8

\* A queue is empty exactly when nobody is on it.
LEMMA QueueEmpty ==
  ASSUME NEW P, NEW s \in Seq(P)
  PROVE  s = <<>> <=> \A x \in P : ~Contains(s, x)
<1>1. s # <<>> => s[1] \in P /\ 1 \in 1 .. Len(s)
  OBVIOUS
<1>2. s = <<>> => Len(s) = 0
  OBVIOUS
<1> QED BY <1>1, <1>2 DEF Contains

\* A sleeper joins its queue behind the others.
LEMMA QueueJoined ==
  ASSUME NEW P, NEW s \in Seq(P), NEW x \in P
  PROVE  \A y : Contains(Append(s, x), y) <=> Contains(s, y) \/ y = x
<1> DEFINE t == Append(s, x)
<1>1. t \in Seq(P) /\ Len(t) = Len(s) + 1 /\ t[Len(s) + 1] = x
  OBVIOUS
<1>2. \A j \in 1 .. Len(s) : t[j] = s[j]
  OBVIOUS
<1>3. Len(s) \in Nat
  OBVIOUS
<1> HIDE DEF t
<1>4. \A y : Contains(t, y) <=> Contains(s, y) \/ y = x
  BY <1>1, <1>2, <1>3 DEF Contains
<1> QED BY <1>4 DEF t

\* The wait queue of n shrinks to t: nobody is on it who was not before.
LEMMA QueuesShrink ==
  ASSUME Types, Types', Queues, NEW p \in Procs, OnlyMoves(p), NEW n \in Nodes,
         \A m \in Nodes : m # n => mem'[m].waitq = mem[m].waitq,
         \A m \in Nodes : mem'[m].value = mem[m].value,
         \A q \in Procs : Contains(mem'[n].waitq, q) => Contains(mem[n].waitq, q),
         Live' \subseteq Live,
         \A m \in Nodes : \A q \in Procs : Contains(mem'[m].waitq, q) =>
           q # p /\ task'[q] = task[q]
  PROVE  Queues'
<1>1. \A m \in Nodes : \A q \in Procs : Contains(mem'[m].waitq, q) => Contains(mem[m].waitq, q)
  OBVIOUS
<1>2. \A m \in Nodes : \A q \in Procs : Contains(mem'[m].waitq, q) =>
        th'[q].pc = "sleep" /\ th'[q].cur = m /\ task'[q] = "INTERRUPTIBLE"
  BY <1>1 DEF Queues, OnlyMoves
<1>3. \A m \in Nodes : mem[m].waitq \in Seq(Procs) /\ mem'[m].waitq \in Seq(Procs)
  BY DEF Types, Memory, NodeState
<1>4. \A m \in Nodes : mem'[m].waitq # <<>> => mem[m].waitq # <<>>
  BY <1>1, <1>3, QueueEmpty
<1>5. \A m \in Live' : mem'[m].value >= 0 /\ (mem'[m].waitq # <<>> => mem'[m].value = 0)
  BY <1>4 DEF Queues, Live
<1> QED BY <1>2, <1>5 DEF Queues

\* Going to sleep, coming back, and waking the first sleeper.
LEMMA SleepSteps ==
  ASSUME Serial, SerialInv, Types', SleepersCanBeWoken', NEW p \in Procs,
         WaitQueue(p) \/ WaitBack(p) \/ SignalWake(p)
  PROVE  SerialInv'
<1>0. /\ Types /\ Knows(p) /\ Threads /\ Chain /\ Numbers /\ Memory /\ Tasks /\ Queues
      /\ \A q \in Procs : Slept(q) /\ bad \subseteq {"printk"}
  BY DEF SerialInv, Types
<1>00. Live \subseteq Nodes /\ Linked \subseteq Live /\ Idle.pc = "user"
  BY IdleType DEF Live, Linked
<1>1. CASE WaitQueue(p)
  <2> DEFINE n == th[p].cur
             t == Append(mem[n].waitq, p)
  <2>1. /\ th[p].pc = "w_queue" /\ MayRun(p) /\ UNCHANGED <<head, end, given, opens, bad>>
        /\ mem' = [mem EXCEPT ![n].waitq = t]
        /\ task' = [task EXCEPT ![p] = "INTERRUPTIBLE"]
    BY <1>1 DEF WaitQueue, Sleep, At
  <2>2. /\ th'[p].pc = "sleep" /\ th'[p].cur = n /\ th'[p].arg = th[p].arg
        /\ \A q \in Procs \ {p} : th'[q] = th[q]
    BY <1>0, <1>1 DEF WaitQueue, Sleep, Goto, Threads, CallState
  <2>3. n \in Linked /\ mem[n].num = th[p].arg /\ mem[n].value = 0 /\ n \in Nodes
    BY <1>0, <1>00, <2>1 DEF Knows, HoldsEvent
  <2>4. mem[n].waitq \in Seq(Procs)
    BY <1>0, <2>3 DEF Memory, NodeState
  <2>5. \A q : Contains(t, q) <=> Contains(mem[n].waitq, q) \/ q = p
    BY <2>4, QueueJoined
  <2> HIDE DEF t
  <2>6. /\ mem'[n].waitq = t
        /\ \A m \in Nodes : /\ m # n => mem'[m] = mem[m]
                            /\ mem'[m].live = mem[m].live /\ mem'[m].num = mem[m].num
                            /\ mem'[m].next = mem[m].next /\ mem'[m].value = mem[m].value
    BY <1>0, <2>1, <2>3 DEF Memory, NodeState
  <2>7. OnlyMoves(p) /\ Live' = Live
    BY <2>1, <2>2, <2>6, OthersOut DEF OnlyMoves, SerialInv, Live
  <2>8. Linked' = Linked
    BY <2>1, <2>2, <2>7, LinkedSame DEF Apart
  <2>9. Alone' /\ Chain' /\ Numbers'
    BY <1>0, <1>00, <2>1, <2>6, <2>7, <2>8, AloneStep, ChainSame, NumbersSame DEF SerialInv
  <2>10. Room'
    BY <2>1, <2>2, <2>7, RoomSame DEF SerialInv
  <2>11. task'[p] = "INTERRUPTIBLE" /\ \A q \in Procs \ {p} : task'[q] = task[q]
    BY <1>0, <2>1 DEF Tasks
  <2>12. Queues'
    <3>1. ASSUME NEW m \in Nodes, NEW q \in Procs, Contains(mem'[m].waitq, q)
          PROVE  th'[q].pc = "sleep" /\ th'[q].cur = m /\ task'[q] = "INTERRUPTIBLE"
      <4>1. CASE q = p
        <5>1. m = n
          BY <1>0, <2>1, <2>6, <3>1, <4>1 DEF Queues
        <5> QED BY <2>2, <2>11, <4>1, <5>1
      <4>2. CASE q # p
        <5>1. Contains(mem[m].waitq, q)
          BY <2>5, <2>6, <3>1, <4>2
        <5> QED BY <1>0, <2>2, <2>11, <4>2, <5>1 DEF Queues
      <4> QED BY <4>1, <4>2
    <3>2. \A m \in Live' : mem'[m].value >= 0 /\ (mem'[m].waitq # <<>> => mem'[m].value = 0)
      BY <1>0, <1>00, <2>3, <2>6, <2>7 DEF Queues
    <3> QED BY <3>1, <3>2 DEF Queues
  <2>13. \A q \in Procs : Slept(q)'
    <3> SUFFICES ASSUME NEW q \in Procs, th'[q].pc = "sleep" PROVE Slept(q)'
      BY DEF Slept
    <3>0. end \in Linked
      BY <1>0, <2>3 DEF Chain
    <3>1. CASE q = p
      <4>1. th[p].arg # 0 /\ th[p].arg <= mem[end].num /\ end # NULL
        BY <1>0, <1>00, <2>3, <3>0, NullAssumption DEF Chain, Numbers
      <4> QED BY <1>00, <2>1, <2>2, <2>3, <2>6, <2>11, <3>0, <3>1, <4>1 DEF Slept
    <3>2. CASE q # p
      <4>1. th'[q] = th[q] /\ task'[q] = task[q] /\ Slept(q)
        BY <1>0, <2>2, <2>11, <3>2
      <4>2. th[q].cur \in Nodes /\ end \in Nodes
        BY <1>0, <1>00, <3>0, <4>1 DEF Threads, AtNode
      <4>3. DoomedBy(th, th[q].cur) => DoomedBy(th', th[q].cur)
        BY <2>1, <2>7, DoomedStays
      <4> QED BY <2>1, <2>6, <2>7, <4>1, <4>2, <4>3 DEF Slept
    <3> QED BY <3>1, <3>2
  <2>14. \A q \in Procs : Knows(q)'
    BY <2>2, <2>7, OthersKnow DEF Knows, HoldsEvent
  <2> QED BY <1>0, <2>1, <2>9, <2>10, <2>12, <2>13, <2>14 DEF SerialInv
<1>2. CASE WaitBack(p)
  <2> DEFINE n == th[p].cur
             t == Without(mem[n].waitq, {p})
  <2>1. /\ th[p].pc = "sleep" /\ task[p] = "RUNNING" /\ MayRun(p)
        /\ UNCHANGED <<head, end, task, opens>>
        /\ mem' = [mem EXCEPT ![n].waitq = t] /\ given' = given \ {p}
    BY <1>2 DEF WaitBack, At
  <2>2. th'[p].pc = "user" /\ \A q \in Procs \ {p} : th'[q] = th[q]
    BY <1>0, <1>00, <1>2 DEF WaitBack, Return, Threads
  <2>3. n \in Nodes
    BY <1>0, <2>1 DEF Threads, AtNode
  <2>4. mem[n].waitq \in Seq(Procs)
    BY <1>0, <2>3 DEF Memory, NodeState
  <2>5. \A q : Contains(t, q) <=> q \notin {p} /\ Contains(mem[n].waitq, q)
    BY <2>4, WithoutKeeps
  <2> HIDE DEF t
  <2>6. /\ mem'[n].waitq = t
        /\ \A m \in Nodes : /\ m # n => mem'[m] = mem[m]
                            /\ mem'[m].live = mem[m].live /\ mem'[m].num = mem[m].num
                            /\ mem'[m].next = mem[m].next /\ mem'[m].value = mem[m].value
    BY <1>0, <2>1, <2>3 DEF Memory, NodeState
  <2>7. OnlyMoves(p) /\ Live' = Live
    BY <2>1, <2>2, <2>6, OthersOut DEF OnlyMoves, SerialInv, Live
  <2>8. Linked' = Linked
    BY <2>1, <2>2, <2>7, LinkedSame DEF Apart
  <2>9. Alone' /\ Chain' /\ Numbers'
    BY <1>0, <1>00, <2>1, <2>6, <2>7, <2>8, AloneStep, ChainSame, NumbersSame DEF SerialInv
  <2>10. Room'
    BY <2>1, <2>2, <2>7, RoomSame DEF SerialInv
  <2>11. \A m \in Nodes : ~Contains(mem[m].waitq, p)
    BY <1>0, <2>1 DEF Queues
  <2>12. Queues'
    <3>1. \A m \in Nodes : \A q \in Procs : Contains(mem'[m].waitq, q) => Contains(mem[m].waitq, q)
      BY <2>5, <2>6
    <3>2. \A m \in Nodes : \A q \in Procs : Contains(mem'[m].waitq, q) =>
            q # p /\ task'[q] = task[q]
      BY <2>1, <2>11, <3>1
    <3> QED BY <1>0, <2>3, <2>6, <2>7, <3>1, <3>2, QueuesShrink
  <2>13. \A q \in Procs : Slept(q)'
    <3> SUFFICES ASSUME NEW q \in Procs, th'[q].pc = "sleep" PROVE Slept(q)'
      BY DEF Slept
    <3>1. q # p /\ th'[q] = th[q] /\ task'[q] = task[q] /\ Slept(q)
      BY <1>0, <2>1, <2>2
    <3>2. th[q].cur \in Nodes /\ end \in Nodes
      BY <1>0, <3>1 DEF Threads, AtNode, Slept, Types, Pointers
    <3>3. DoomedBy(th, th[q].cur) => DoomedBy(th', th[q].cur)
      BY <2>1, <2>7, DoomedStays
    <3> QED BY <2>1, <2>6, <2>7, <3>1, <3>2, <3>3 DEF Slept
  <2>14. \A q \in Procs : Knows(q)'
    BY <2>2, <2>7, OthersKnow DEF Knows, HoldsEvent
  <2>15. bad' \subseteq {"printk"}
    BY <1>0, <1>2, <2>3, <2>11 DEF WaitBack
  <2> QED BY <2>9, <2>10, <2>12, <2>13, <2>14, <2>15 DEF SerialInv
<1>3. CASE SignalWake(p)
  <2> DEFINE n == th[p].cur
             S == FirstSleeper(n)
             t == Without(mem[n].waitq, S)
  <2>1. /\ th[p].pc = "s_wake" /\ MayRun(p) /\ UNCHANGED <<head, end, opens, bad>>
        /\ mem' = [mem EXCEPT ![n].waitq = t] /\ given' = given \cup S
        /\ \A q \in Procs : task'[q] = IF q \in S THEN "RUNNING" ELSE task[q]
    BY <1>3 DEF SignalWake, WakeUp, At
  <2>2. th'[p].pc = "user" /\ \A q \in Procs \ {p} : th'[q] = th[q]
    BY <1>0, <1>00, <1>3 DEF SignalWake, Return, Threads
  <2>3. n \in Linked /\ n \in Nodes
    BY <1>0, <1>00, <2>1 DEF Knows, HoldsEvent
  <2>4. mem[n].waitq \in Seq(Procs)
    BY <1>0, <2>3 DEF Memory, NodeState
  <2>40. \A q \in S : q \in Procs /\ Contains(mem[n].waitq, q)
    BY <2>4 DEF FirstSleeper, SleeperAt, Contains
  <2> HIDE DEF S
  <2>5. \A q : Contains(t, q) <=> q \notin S /\ Contains(mem[n].waitq, q)
    BY <2>4, WithoutKeeps
  <2> HIDE DEF t
  <2>6. /\ mem'[n].waitq = t
        /\ \A m \in Nodes : /\ m # n => mem'[m] = mem[m]
                            /\ mem'[m].live = mem[m].live /\ mem'[m].num = mem[m].num
                            /\ mem'[m].next = mem[m].next /\ mem'[m].value = mem[m].value
    BY <1>0, <2>1, <2>3 DEF Memory, NodeState
  <2>7. OnlyMoves(p) /\ Live' = Live
    BY <2>1, <2>2, <2>6, OthersOut DEF OnlyMoves, SerialInv, Live
  <2>8. Linked' = Linked
    BY <2>1, <2>2, <2>7, LinkedSame DEF Apart
  <2>9. Alone' /\ Chain' /\ Numbers'
    BY <1>0, <1>00, <2>1, <2>6, <2>7, <2>8, AloneStep, ChainSame, NumbersSame DEF SerialInv
  <2>10. Room'
    BY <2>1, <2>2, <2>7, RoomSame DEF SerialInv
  <2>11. \A q \in S : th[q].pc = "sleep" /\ th[q].cur = n /\ task[q] = "INTERRUPTIBLE"
    BY <1>0, <2>3, <2>40 DEF Queues
  <2>12. Queues'
    <3>1. \A m \in Nodes : \A q \in Procs : Contains(mem'[m].waitq, q) => Contains(mem[m].waitq, q)
      BY <2>5, <2>6
    <3>2. \A m \in Nodes : \A q \in Procs : Contains(mem'[m].waitq, q) => q # p /\ q \notin S
      <4> SUFFICES ASSUME NEW m \in Nodes, NEW q \in Procs, Contains(mem'[m].waitq, q)
                   PROVE  q # p /\ q \notin S
        OBVIOUS
      <4>1. th[q].pc = "sleep" /\ th[q].cur = m
        BY <1>0, <3>1 DEF Queues
      <4> QED BY <2>1, <2>5, <2>6, <2>11, <4>1
    <3>3. \A m \in Nodes : \A q \in Procs : Contains(mem'[m].waitq, q) =>
            q # p /\ task'[q] = task[q]
      BY <2>1, <3>2
    <3> QED BY <1>0, <2>3, <2>6, <2>7, <3>1, <3>3, QueuesShrink
  <2>13. \A q \in Procs : Slept(q)'
    <3> SUFFICES ASSUME NEW q \in Procs, th'[q].pc = "sleep" PROVE Slept(q)'
      BY DEF Slept
    <3>1. q # p /\ th'[q] = th[q] /\ Slept(q)
      BY <1>0, <2>2
    <3>2. th[q].cur \in Nodes /\ end \in Nodes
      BY <1>0, <3>1 DEF Threads, AtNode, Slept, Types, Pointers
    <3>3. CASE q \in S
      BY <2>1, <2>6, <2>7, <3>1, <3>2, <3>3 DEF Slept
    <3>4. CASE q \notin S
      <4>1. DoomedBy(th, th[q].cur) => DoomedBy(th', th[q].cur)
        BY <2>1, <2>7, DoomedStays
      <4> QED BY <2>1, <2>6, <2>7, <3>1, <3>2, <3>4, <4>1 DEF Slept
    <3> QED BY <3>3, <3>4
  <2>14. \A q \in Procs : Knows(q)'
    BY <2>2, <2>7, OthersKnow DEF Knows, HoldsEvent
  <2> QED BY <1>0, <2>1, <2>9, <2>10, <2>12, <2>13, <2>14 DEF SerialInv
<1> QED BY <1>1, <1>2, <1>3

\* The list with the event n, which is not the last, taken out is a chain again.
LEMMA ChainCut ==
  ASSUME Types, Chain, Numbers, ~Midway, NEW n \in Linked, n # end, end' = end,
         Linked' = Linked \ {n}, \A m \in Linked : mem'[m].num = mem[m].num,
         \/ /\ n = head /\ head' = mem[head].next
            /\ \A m \in Linked : mem'[m].next = mem[m].next
         \/ /\ n # head /\ head' = head
            /\ \E k \in Linked :
                 /\ mem[k].next = n
                 /\ \A m \in Linked : mem'[m].next = IF m = k THEN mem[n].next ELSE mem[m].next
  PROVE  Chain'
<1>0. /\ Linked \subseteq Live /\ Live \subseteq Nodes /\ NULL \notin Linked
      /\ \A m \in Linked : mem[m].num \in Nat
  BY NullAssumption DEF Linked, Live, Types, Memory, NodeState
<1>1. head \in Linked /\ end \in Linked /\ end # NULL
  BY <1>0 DEF Chain
<1>2. \A m \in Linked :
        /\ mem[m].num % 2 = 0
        /\ mem[head].num <= mem[m].num /\ mem[m].num <= mem[end].num
        /\ m = end => mem[m].next = NULL
        /\ m # end => mem[m].next \in Linked /\ mem[m].num < mem[mem[m].next].num
        /\ m # head => \E k \in Linked : mem[k].next = m
  BY DEF Chain
<1>3. \A m, k \in Linked : m # end => \/ mem[k].num <= mem[m].num
                                      \/ mem[k].num >= mem[mem[m].next].num
  BY DEF Chain
<1>4. \A m, k \in Linked : mem[m].num = mem[k].num => m = k
  BY <1>0 DEF Numbers
<1> DEFINE s == mem[n].next
<1>5. s \in Linked /\ mem[n].num < mem[s].num /\ s # n
  BY <1>0, <1>2
<1>6. CASE /\ n = head /\ head' = s /\ \A m \in Linked : mem'[m].next = mem[m].next
  <2>1. \A m \in Linked' : mem[s].num <= mem[m].num
    <3> SUFFICES ASSUME NEW m \in Linked' PROVE mem[s].num <= mem[m].num
      OBVIOUS
    <3>1. m \in Linked /\ m # n
      OBVIOUS
    <3>2. mem[m].num <= mem[n].num \/ mem[m].num >= mem[s].num
      BY <1>3, <3>1
    <3>3. mem[n].num <= mem[m].num /\ mem[m].num # mem[n].num
      BY <1>2, <1>4, <1>6, <3>1
    <3> QED BY <1>0, <1>5, <3>1, <3>2, <3>3
  <2>2. \A m \in Linked' : m # end => mem[m].next # n
    <3> SUFFICES ASSUME NEW m \in Linked', m # end, mem[m].next = n PROVE FALSE
      OBVIOUS
    <3>1. m \in Linked /\ mem[m].num < mem[n].num /\ mem[n].num <= mem[m].num
      BY <1>2, <1>6
    <3> QED BY <1>0, <3>1
  <2>3. ASSUME NEW m \in Linked', m # s
        PROVE  \E k \in Linked' : mem'[k].next = m
    <3>1. PICK k \in Linked : mem[k].next = m
      BY <1>2, <1>6, <2>3
    <3>2. k # n
      BY <2>3, <3>1
    <3> QED BY <1>6, <3>1, <3>2
  <2>4. head' # NULL /\ head' \in Linked' /\ end' \in Linked' /\ Linked' # {}
    BY <1>0, <1>1, <1>5, <1>6
  <2>5. ASSUME NEW m \in Linked'
        PROVE  /\ mem'[m].num % 2 = 0
               /\ mem'[head'].num <= mem'[m].num /\ mem'[m].num <= mem'[end'].num
               /\ m = end' => mem'[m].next = NULL
               /\ m # head' => \E k \in Linked' : mem'[k].next = m
    <3>1. m \in Linked /\ s \in Linked
      BY <1>5
    <3> QED BY <1>1, <1>2, <1>6, <2>1, <2>3, <3>1
  <2>6. ASSUME NEW m \in Linked', m # end'
        PROVE  /\ mem'[m].next \in Linked'
               /\ mem'[m].num < mem'[mem'[m].next].num
               /\ \A k \in Linked' : \/ mem'[k].num <= mem'[m].num
                                     \/ mem'[k].num >= mem'[mem'[m].next].num
    <3>1. m \in Linked /\ mem'[m].next = mem[m].next /\ mem[m].next \in Linked'
      BY <1>2, <1>6, <2>2, <2>6
    <3> QED BY <1>2, <1>3, <2>6, <3>1
  <2> QED BY <1>1, <2>4, <2>5, <2>6 DEF Chain
<1>7. ASSUME n # head, head' = head, NEW k \in Linked, mem[k].next = n,
             \A m \in Linked : mem'[m].next = IF m = k THEN s ELSE mem[m].next
      PROVE  Chain'
  <2>1. k # end /\ mem[k].num < mem[n].num /\ k # n
    BY <1>0, <1>2, <1>7
  <2>2. \A m \in Linked : m # k /\ m # end => mem[m].next # n
    <3> SUFFICES ASSUME NEW m \in Linked, m # k, m # end, mem[m].next = n PROVE FALSE
      OBVIOUS
    <3>1. mem[m].num < mem[n].num
      BY <1>2
    <3>2. mem[k].num <= mem[m].num /\ mem[m].num <= mem[k].num
      BY <1>0, <1>3, <1>7, <2>1, <3>1
    <3> QED BY <1>0, <1>4, <3>2
  <2>3. head' # NULL /\ head' \in Linked' /\ end' \in Linked' /\ Linked' # {}
    BY <1>0, <1>1, <1>7
  <2>4. ASSUME NEW m \in Linked', m # head
        PROVE  \E j \in Linked' : mem'[j].next = m
    <3>1. PICK j \in Linked : mem[j].next = m
      BY <1>2, <2>4
    <3>2. CASE j = n
      BY <1>7, <2>1, <3>1, <3>2
    <3>3. CASE j # n
      <4>1. j # k
        BY <1>7, <2>4, <3>1
      <4> QED BY <1>7, <3>1, <3>3, <4>1
    <3> QED BY <3>2, <3>3
  <2>5. ASSUME NEW m \in Linked'
        PROVE  /\ mem'[m].num % 2 = 0
               /\ mem'[head'].num <= mem'[m].num /\ mem'[m].num <= mem'[end'].num
               /\ m = end' => mem'[m].next = NULL
               /\ m # head' => \E j \in Linked' : mem'[j].next = m
    <3>1. m \in Linked /\ (m = end => mem'[m].next = mem[m].next)
      BY <1>7, <2>1
    <3> QED BY <1>1, <1>2, <1>7, <2>4, <3>1
  <2>6. ASSUME NEW m \in Linked', m # end'
        PROVE  /\ mem'[m].next \in Linked'
               /\ mem'[m].num < mem'[mem'[m].next].num
               /\ \A j \in Linked' : \/ mem'[j].num <= mem'[m].num
                                     \/ mem'[j].num >= mem'[mem'[m].next].num
    <3>0. m \in Linked /\ m # end
      BY <2>6
    <3>1. CASE m = k
      <4>1. mem'[m].next = s /\ s \in Linked' /\ mem[m].num < mem[s].num
        BY <1>0, <1>5, <1>7, <2>1, <3>1
      <4>2. ASSUME NEW j \in Linked'
            PROVE  mem[j].num <= mem[m].num \/ mem[j].num >= mem[s].num
        <5>1. j \in Linked /\ mem[j].num # mem[n].num
          BY <1>4, <4>2
        <5>2. mem[j].num <= mem[m].num \/ mem[j].num >= mem[n].num
          BY <1>3, <1>7, <2>1, <3>1, <5>1
        <5>3. mem[j].num <= mem[n].num \/ mem[j].num >= mem[s].num
          BY <1>3, <5>1
        <5> QED BY <1>0, <1>5, <5>1, <5>2, <5>3
      <4>3. \A j \in Linked' : mem'[j].num = mem[j].num
        OBVIOUS
      <4> QED BY <4>1, <4>2, <4>3
    <3>2. CASE m # k
      <4>1. mem'[m].next = mem[m].next /\ mem[m].next \in Linked'
        BY <1>2, <1>7, <2>2, <3>0, <3>2
      <4> QED BY <1>2, <1>3, <3>0, <4>1
    <3> QED BY <3>1, <3>2
  <2> QED BY <1>1, <2>3, <2>5, <2>6 DEF Chain
<1> QED BY <1>6, <1>7

\* Unlinking an event, waking its queue and freeing it.
LEMMA CloseSteps ==
  ASSUME Serial, SerialInv, Types', SleepersCanBeWoken', NEW p \in Procs,
         CloseUnlink(p) \/ CloseWake(p) \/ CloseFree(p)
  PROVE  SerialInv'
<1>0. /\ Types /\ Knows(p) /\ Threads /\ Chain /\ Numbers /\ Memory /\ Tasks /\ Queues
      /\ \A q \in Procs : Slept(q) /\ bad \subseteq {"printk"}
  BY DEF SerialInv, Types
<1>00. /\ IsFiniteSet(Live) /\ Live \subseteq Nodes /\ Linked \subseteq Live
       /\ Idle.pc = "user"
  BY FS_Subset, IdleType DEF Serial, Live, Linked
<1>1. CASE CloseUnlink(p)
  <2> DEFINE n == th[p].cur
             k == th[p].prev
  <2>1. /\ th[p].pc \in {"c_head", "c_middle"} /\ MayRun(p)
        /\ UNCHANGED <<end, task, given, opens, bad>>
        /\ \/ th[p].pc = "c_head" /\ head' = mem[head].next /\ UNCHANGED mem
           \/ /\ th[p].pc = "c_middle" /\ mem' = [mem EXCEPT ![k].next = mem[n].next]
              /\ UNCHANGED head
    BY <1>0, <1>1 DEF CloseUnlink, At, other, Knows
  <2>2. /\ th'[p].pc = "c_wake" /\ th'[p].cur = n
        /\ \A q \in Procs \ {p} : th'[q] = th[q]
    BY <1>0, <1>1 DEF CloseUnlink, Goto, Threads, CallState
  <2>3. n \in Linked /\ n # end /\ CameFrom(p) /\ (th[p].pc = "c_head" <=> n = head)
    BY <1>0, <2>1 DEF Knows
  <2>4. n # head => k \in Linked /\ mem[k].next = n /\ k \in Nodes
    BY <1>00, <2>3 DEF CameFrom
  <2>5. \A m \in Nodes : /\ mem'[m].live = mem[m].live /\ mem'[m].num = mem[m].num
                         /\ mem'[m].waitq = mem[m].waitq /\ mem'[m].value = mem[m].value
                         /\ mem'[m].next = IF n # head /\ m = k THEN mem[n].next ELSE mem[m].next
    BY SMTT(60), <1>0, <2>1, <2>3, <2>4 DEF Memory, NodeState
  <2>6. OnlyMoves(p) /\ Live' = Live /\ end' = end
    BY <2>1, <2>2, <2>3, <2>5, OthersOut DEF OnlyMoves, SerialInv, Live
  <2>7. Linked' = Linked \ {n}
    BY <2>1, <2>2, <2>3, <2>6 DEF Linked, OnlyMoves, Apart, Out
  <2>8. Alone'
    BY <2>6, AloneStep DEF SerialInv
  <2>9. Numbers'
    BY <1>0, <1>00, <2>5, <2>6, <2>7 DEF Numbers
  <2>10. Chain'
    <3>0. ~Midway
      BY <2>1, <2>6, NotMidway
    <3>1. \A m \in Linked : mem'[m].num = mem[m].num
      BY <1>00, <2>5
    <3>2. CASE n = head
      <4>1. head' = mem[head].next /\ \A m \in Linked : mem'[m].next = mem[m].next
        BY <2>1, <2>3, <3>2
      <4> QED BY <1>0, <2>3, <2>6, <2>7, <3>0, <3>1, <3>2, <4>1, ChainCut
    <3>3. CASE n # head
      <4>1. head' = head
        BY <2>1, <2>3, <3>3
      <4>2. \E j \in Linked :
              /\ mem[j].next = n
              /\ \A m \in Linked : mem'[m].next = IF m = j THEN mem[n].next ELSE mem[m].next
        BY <1>00, <2>4, <2>5, <3>3
      <4> QED BY <1>0, <2>3, <2>6, <2>7, <3>0, <3>1, <3>3, <4>1, <4>2, ChainCut
    <3> QED BY <3>2, <3>3
  <2>11. Queues' /\ Room'
    BY <2>1, <2>2, <2>5, <2>6, QueuesSame, RoomSame DEF SerialInv
  <2>12. \A q \in Procs : Slept(q)'
    BY <1>0, <2>1, <2>2, <2>5, <2>6, SleptSame
  <2>13. \A q \in Procs : Knows(q)'
    <3>1. n \in Live /\ end # NULL
      BY <1>0, <1>00, <2>3, NullAssumption DEF Chain
    <3>2. Knows(p)'
      BY <2>2, <2>6, <3>1 DEF Knows, HoldsEvent
    <3> QED BY <2>6, <3>2, OthersKnow
  <2> QED BY <1>0, <2>1, <2>8, <2>9, <2>10, <2>11, <2>12, <2>13 DEF SerialInv
<1>2. CASE CloseWake(p)
  <2> DEFINE n == th[p].cur
             S == Sleepers(n)
             t == Without(mem[n].waitq, S)
  <2>1. /\ th[p].pc = "c_wake" /\ MayRun(p) /\ UNCHANGED <<head, end, given, opens, bad>>
        /\ mem' = [mem EXCEPT ![n].waitq = t]
        /\ \A q \in Procs : task'[q] = IF q \in S THEN "RUNNING" ELSE task[q]
    BY <1>2 DEF CloseWake, WakeUp, At
  <2>2. /\ th'[p].pc = "c_free" /\ th'[p].cur = n
        /\ \A q \in Procs \ {p} : th'[q] = th[q]
    BY <1>0, <1>2 DEF CloseWake, Goto, Threads, CallState
  <2>3. n \in Live /\ end # NULL /\ n \in Nodes
    BY <1>0, <1>00, <2>1 DEF Knows
  <2>4. mem[n].waitq \in Seq(Procs)
    BY <1>0, <2>3 DEF Memory, NodeState
  <2>5. \A q \in S : q \in Procs /\ Contains(mem[n].waitq, q)
    BY <2>4 DEF Sleepers, SleeperAt, Contains
  <2> HIDE DEF S
  <2>7. \A q : Contains(t, q) <=> q \notin S /\ Contains(mem[n].waitq, q)
    BY <2>4, WithoutKeeps
  <2> HIDE DEF t
  <2>8. /\ mem'[n].waitq = t
        /\ \A m \in Nodes : /\ m # n => mem'[m] = mem[m]
                            /\ mem'[m].live = mem[m].live /\ mem'[m].next = mem[m].next
                            /\ mem'[m].num = mem[m].num /\ mem'[m].value = mem[m].value
    BY <1>0, <2>1, <2>3 DEF Memory, NodeState
  <2>9. OnlyMoves(p) /\ Live' = Live
    BY <2>1, <2>2, <2>8, OthersOut DEF OnlyMoves, SerialInv, Live
  <2>10. Linked' = Linked
    BY <2>1, <2>2, <2>9, LinkedSame DEF Apart
  <2>11. Alone' /\ Chain' /\ Numbers' /\ Room'
    BY <1>0, <1>00, <2>1, <2>2, <2>8, <2>9, <2>10, AloneStep, ChainSame, NumbersSame, RoomSame
       DEF SerialInv
  <2>12. \A q \in S : th[q].pc = "sleep" /\ th[q].cur = n /\ task[q] = "INTERRUPTIBLE"
    BY <1>0, <2>3, <2>5 DEF Queues
  <2>13. Queues'
    <3>1. \A m \in Nodes : \A q \in Procs : Contains(mem'[m].waitq, q) => Contains(mem[m].waitq, q)
      BY <2>7, <2>8
    <3>2. \A m \in Nodes : \A q \in Procs : Contains(mem'[m].waitq, q) => q # p /\ q \notin S
      <4> SUFFICES ASSUME NEW m \in Nodes, NEW q \in Procs, Contains(mem'[m].waitq, q)
                   PROVE  q # p /\ q \notin S
        OBVIOUS
      <4>1. th[q].pc = "sleep" /\ th[q].cur = m
        BY <1>0, <3>1 DEF Queues
      <4> QED BY <2>1, <2>7, <2>8, <2>12, <4>1
    <3>3. \A m \in Nodes : \A q \in Procs : Contains(mem'[m].waitq, q) =>
            q # p /\ task'[q] = task[q]
      BY <2>1, <3>2
    <3> QED BY <1>0, <2>3, <2>8, <2>9, <3>1, <3>3, QueuesShrink
  <2>14. \A q \in Procs : Slept(q)'
    <3> SUFFICES ASSUME NEW q \in Procs, th'[q].pc = "sleep" PROVE Slept(q)'
      BY DEF Slept
    <3>1. q # p /\ th'[q] = th[q] /\ Slept(q)
      BY <1>0, <2>2
    <3>2. th[q].cur \in Nodes /\ end \in Nodes
      BY <1>0, <2>3, <3>1 DEF Threads, AtNode, Types, Pointers
    <3>3. CASE q \in S
      <4>1. DoomedBy(th', th'[q].cur)
        BY <2>2, <2>12, <3>1, <3>3 DEF DoomedBy
      <4> QED BY <2>1, <2>8, <3>1, <3>2, <3>3, <4>1 DEF Slept
    <3>4. CASE q \notin S
      <4>1. DoomedBy(th, th[q].cur) => DoomedBy(th', th[q].cur)
        BY <2>1, <2>9, DoomedStays
      <4> QED BY <2>1, <2>8, <2>9, <3>1, <3>2, <3>4, <4>1 DEF Slept
    <3> QED BY <3>3, <3>4
  <2>15. \A q \in Procs : Knows(q)'
    <3>1. Knows(p)'
      BY <2>1, <2>2, <2>3, <2>9 DEF Knows, HoldsEvent
    <3> QED BY <2>9, <3>1, OthersKnow
  <2> QED BY <1>0, <2>1, <2>11, <2>13, <2>14, <2>15 DEF SerialInv
<1>3. CASE CloseFree(p)
  <2> DEFINE n == th[p].cur
  <2>1. /\ th[p].pc = "c_free" /\ MayRun(p) /\ UNCHANGED <<head, end, task, given, opens, bad>>
        /\ mem' = [mem EXCEPT ![n].live = FALSE]
    BY <1>3 DEF CloseFree, At, other
  <2>2. th'[p].pc = "user" /\ \A q \in Procs \ {p} : th'[q] = th[q]
    BY <1>0, <1>00, <1>3 DEF CloseFree, Return, Threads
  <2>3. n \in Live /\ end # NULL /\ n \in Nodes
    BY <1>0, <1>00, <2>1 DEF Knows
  <2>4. /\ mem'[n].live = FALSE
        /\ \A m \in Nodes : /\ m # n => mem'[m] = mem[m]
                            /\ mem'[m].num = mem[m].num /\ mem'[m].value = mem[m].value
                            /\ mem'[m].waitq = mem[m].waitq
    BY <1>0, <2>1, <2>3 DEF Memory, NodeState
  <2>5. OnlyMoves(p)
    BY <2>1, <2>2, OthersOut DEF OnlyMoves, SerialInv
  <2>6. Live' = Live \ {n}
    BY <2>3, <2>4 DEF Live
  <2>7. Linked = Live \ {n}
    BY <2>1, <2>5 DEF Linked, OnlyMoves, Apart, Out
  <2>8. Linked' = Linked
    BY <2>2, <2>5, <2>6, <2>7 DEF Linked, OnlyMoves, Apart, Out
  <2>9. \A m \in Linked : mem'[m] = mem[m]
    BY <1>00, <2>4, <2>7
  <2>10. Alone' /\ Chain'
    BY <1>0, <2>1, <2>5, <2>8, <2>9, AloneStep, ChainSame DEF SerialInv
  <2>11. Numbers'
    BY <1>0, <1>00, <2>6, <2>7, <2>8, <2>9 DEF Numbers
  <2>12. Queues'
    BY <1>0, <1>00, <2>1, <2>4, <2>5, <2>6 DEF Queues, OnlyMoves
  <2>13. \A q \in Procs : Slept(q)'
    <3> SUFFICES ASSUME NEW q \in Procs, th'[q].pc = "sleep" PROVE Slept(q)'
      BY DEF Slept
    <3>1. q # p /\ th'[q] = th[q] /\ Slept(q)
      BY <1>0, <2>2
    <3>2. th[q].cur \in Nodes /\ end \in Nodes
      BY <1>0, <2>3, <3>1 DEF Threads, AtNode, Types, Pointers
    <3>3. CASE th[q].cur = n
      <4>1. th'[q].cur \notin Live'
        BY <2>6, <3>1, <3>3
      <4> QED BY <2>1, <2>4, <3>1, <3>2, <4>1 DEF Slept
    <3>4. CASE th[q].cur # n
      <4>1. DoomedBy(th, th[q].cur) => DoomedBy(th', th[q].cur)
        BY <2>2, <3>4 DEF DoomedBy
      <4> QED BY <2>1, <2>4, <2>6, <3>1, <3>2, <3>4, <4>1 DEF Slept
    <3> QED BY <3>3, <3>4
  <2>14. \A q \in Procs : Knows(q)'
    BY <2>2, <2>5, OthersKnow DEF Knows, HoldsEvent
  <2>15. Room'
    <3>1. Allocating' = Allocating
      BY <2>1, <2>2 DEF Allocating
    <3>2. Cardinality(Live') = Cardinality(Live) - 1
      BY <1>00, <2>3, <2>6, FS_RemoveElement
    <3>3. IsFiniteSet(Allocating)
      BY FS_Subset DEF Serial, Allocating
    <3>4. Cardinality(Allocating) \in Nat /\ Cardinality(Live) \in Nat /\ opens \in Nat
      BY <1>0, <1>00, <3>3, FS_CardinalityType, BoundAssumption DEF Tasks
    <3> QED BY <2>1, <3>1, <3>2, <3>4 DEF SerialInv, Room
  <2> QED BY <1>0, <2>1, <2>10, <2>11, <2>12, <2>13, <2>14, <2>15 DEF SerialInv
<1> QED BY <1>1, <1>2, <1>3

\* Every step of every system call keeps the invariant.
LEMMA SerialStep ==
  ASSUME Serial, SerialInv, Types', SleepersCanBeWoken', [Next]_vars
  PROVE  SerialInv'
<1>1. CASE UNCHANGED vars
  <2> USE <1>1 DEF vars, list, other
  <2>1. Live' = Live
    BY DEF Live
  <2>2. Linked' = Linked
    BY <2>1 DEF Linked
  <2>3. Alone' /\ Chain' /\ Numbers'
    BY <2>1, <2>2 DEF SerialInv, Alone, Chain, Numbers, Midway
  <2>4. Allocating' = Allocating
    BY DEF Allocating
  <2>5. Queues' /\ Room'
    BY <2>1, <2>4 DEF SerialInv, Queues, Room
  <2>6. \A p \in Procs : Knows(p)' /\ Slept(p)'
    BY <2>1, <2>2 DEF SerialInv, Knows, Slept, CameFrom, Fresh, DoomedBy
  <2> QED BY <2>3, <2>5, <2>6 DEF SerialInv
<1>2. CASE Next
  <2>1. PICK p \in Procs : Call(p) \/ OpenCall(p) \/ Kernel(p) \/ UnixSignal(p)
    BY <1>2 DEF Next
  <2>2. ~BadAccess(p) /\ ~UnixSignal(p)
    BY TargetsLive DEF BadAccess, UnixSignal, Serial
  <2> QED BY <2>1, <2>2, QuietSteps, OpenSteps, SleepSteps, CloseSteps DEF Kernel
<1> QED BY <1>1, <1>2

\* The invariant holds when the module is loaded: there is no event and no call.
LEMMA SerialInit ==
  ASSUME Init, Types
  PROVE  SerialInv
<1>1. \A p \in Procs : th[p].pc = "user" /\ th[p].cur = NULL
  BY IdleType DEF Init
<1>2. Live = {} /\ \A n \in Nodes : mem[n].waitq = <<>>
  BY DEF Init, Live, Blank
<1>3. Linked = {} /\ Allocating = {}
  BY <1>1, <1>2 DEF Linked, Allocating
<1>4. SleepersCanBeWoken
  BY <1>1 DEF SleepersCanBeWoken, Asleep
<1>5. Alone /\ Chain /\ Numbers
  BY <1>1, <1>2, <1>3 DEF Init, Alone, Chain, Numbers, Out
<1>6. \A p \in Procs : Knows(p) /\ Slept(p)
  BY <1>1 DEF Knows, Slept, HoldsEvent
<1>7. Queues
  BY <1>2 DEF Queues, Contains
<1>8. Room
  BY <1>2, <1>3, FS_EmptySet DEF Init, Room
<1> QED BY <1>4, <1>5, <1>6, <1>7, <1>8 DEF Init, SerialInv

\* On one CPU without kernel preemption the invariant always holds.
THEOREM SerialInvHolds == Serial /\ Spec => []SerialInv
<1> SUFFICES ASSUME Serial PROVE Spec => []SerialInv
  OBVIOUS
<1>1. Init /\ Types => SerialInv
  BY SerialInit
<1>2. SerialInv /\ Types' /\ SleepersCanBeWoken' /\ [Next]_vars => SerialInv'
  BY SerialStep
<1> QED BY <1>1, <1>2, EventTypes, EverySleeperCanBeWoken, PTL DEF Spec

\* On one CPU without kernel preemption no unit is lost or given twice: nobody sleeps on
\* an event with a unit to give, values are never negative, numbers are unique, and who
\* returns from its sleep while its event is open was handed a unit.  For any number of
\* processes, events and signals, as long as nobody closes the newest event.
THEOREM UnitsAreKept == Serial /\ Spec => []UnitsAccountedFor
<1> SUFFICES ASSUME Serial PROVE Spec => []UnitsAccountedFor
  OBVIOUS
<1>1. SerialInv => UnitsAccountedFor
  <2> SUFFICES ASSUME SerialInv PROVE UnitsAccountedFor
    OBVIOUS
  <2>1. NobodySleepsOnResource
    <3> SUFFICES ASSUME NEW p \in Procs, Asleep(p) PROVE mem[th[p].cur].value <= 0
      BY DEF NobodySleepsOnResource
    <3>1. th[p].cur \in Live /\ Contains(mem[th[p].cur].waitq, p)
      BY DEF SerialInv, SleepersCanBeWoken, CanBeWoken
    <3>2. th[p].cur \in Nodes /\ mem[th[p].cur].waitq \in Seq(Procs)
      BY <3>1 DEF Live, SerialInv, Types, Memory, NodeState
    <3>3. mem[th[p].cur].waitq # <<>>
      BY <3>1, <3>2, QueueEmpty
    <3>4. mem[th[p].cur].value = 0
      BY <3>1, <3>3 DEF SerialInv, Queues
    <3> QED BY <3>4
  <2>2. ValueNeverNegative /\ NumbersAreUnique
    BY DEF SerialInv, Queues, Numbers, ValueNeverNegative, NumbersAreUnique
  <2>3. WokenMeansGiven
    BY DEF WokenMeansGiven, SerialInv, Slept, Asleep, Types, Tasks, Doomed, DoomedBy
  <2> QED BY <2>1, <2>2, <2>3 DEF UnitsAccountedFor, SerialInv
<1> QED BY <1>1, SerialInvHolds, PTL

-----------------------------------------------------------------------------
(* The list from its head *)

\* The k-th step of a walk f along the list.
Walk(f, k) == IF k = 0 THEN head ELSE IF f[k - 1] = NULL THEN NULL ELSE mem[f[k - 1]].next

\* There is a walk of every length.
LEMMA WalkExists ==
  ASSUME NEW c \in Nat
  PROVE  \E f : f = [k \in 0 .. c |-> Walk(f, k)]
<1> DEFINE Upto(n) == \E f : f = [k \in 0 .. n |-> Walk(f, k)]
           T == {n \in Nat : Upto(n)}
<1>1. 0 \in T
  <2> DEFINE f == [k \in 0 .. 0 |-> head]
  <2>1. f = [k \in 0 .. 0 |-> Walk(f, k)]
    BY DEF Walk
  <2> HIDE DEF f
  <2> QED BY <2>1
<1>2. \A n \in Nat : n \in T => n + 1 \in T
  <2> SUFFICES ASSUME NEW n \in Nat, n \in T PROVE n + 1 \in T
    OBVIOUS
  <2>1. PICK f : f = [k \in 0 .. n |-> Walk(f, k)]
    OBVIOUS
  <2> DEFINE g == [k \in 0 .. n + 1 |-> IF k = n + 1 THEN Walk(f, k) ELSE f[k]]
  <2>2. \A k \in 0 .. n + 1 : Walk(g, k) = Walk(f, k)
    <3> SUFFICES ASSUME NEW k \in 0 .. n + 1 PROVE Walk(g, k) = Walk(f, k)
      OBVIOUS
    <3>1. k # 0 => g[k - 1] = f[k - 1]
      OBVIOUS
    <3> HIDE DEF g
    <3> QED BY <3>1 DEF Walk
  <2>3. \A k \in 0 .. n : f[k] = Walk(f, k)
    BY <2>1
  <2>4. g = [k \in 0 .. n + 1 |-> Walk(g, k)]
    <3>1. \A k \in 0 .. n + 1 : g[k] = Walk(g, k)
      BY <2>2, <2>3
    <3>2. g = [k \in 0 .. n + 1 |-> g[k]]
      OBVIOUS
    <3> HIDE DEF g
    <3> QED BY <3>1, <3>2
  <2> HIDE DEF g
  <2>5. Upto(n + 1)
    BY <2>4
  <2> QED BY <2>5
<1>3. Nat \subseteq T
  <2> HIDE DEF T
  <2> QED BY <1>1, <1>2, SetInduction
<1> QED BY <1>3

\* NodeAt follows the next pointers from head.
LEMMA NodeAtWalks ==
  ASSUME Serial
  PROVE  /\ DOMAIN NodeAt = 0 .. Cardinality(Nodes) /\ Cardinality(Nodes) \in Nat
         /\ NodeAt[0] = head
         /\ \A k \in Nat : k + 1 <= Cardinality(Nodes) =>
              NodeAt[k + 1] = IF NodeAt[k] = NULL THEN NULL ELSE mem[NodeAt[k]].next
<1> DEFINE c == Cardinality(Nodes)
           h == CHOOSE f : f = [k \in 0 .. c |-> Walk(f, k)]
<1>1. c \in Nat
  BY FS_CardinalityType DEF Serial
<1>2. NodeAt = h
  BY DEF NodeAt, Walk
<1> HIDE DEF c
<1>3. h = [k \in 0 .. c |-> Walk(h, k)]
  BY <1>1, WalkExists
<1> HIDE DEF h
<1>4. DOMAIN h = 0 .. c /\ \A k \in 0 .. c : h[k] = Walk(h, k)
  BY <1>3
<1>5. h[0] = head
  BY <1>1, <1>4 DEF Walk
<1>6. ASSUME NEW k \in Nat, k + 1 <= c
      PROVE  h[k + 1] = IF h[k] = NULL THEN NULL ELSE mem[h[k]].next
  <2>1. h[k + 1] = Walk(h, k + 1)
    BY <1>1, <1>4, <1>6
  <2>2. k + 1 # 0 /\ (k + 1) - 1 = k
    OBVIOUS
  <2> QED BY <2>1, <2>2 DEF Walk
<1> QED BY <1>1, <1>2, <1>4, <1>5, <1>6 DEF c

\* The events on the list with smaller numbers; how many there are is the place of n.
Below(n) == {m \in Linked : mem[m].num < mem[n].num}

\* The first event has place 0, and the next pointer leads to the next place.
LEMMA PlaceOfNext ==
  ASSUME Serial, SerialInv
  PROVE  /\ \A n \in Linked : Cardinality(Below(n)) \in 0 .. Cardinality(Nodes)
         /\ \A n \in Linked : Below(n) = {} <=> n = head
         /\ \A n \in Linked : n # end =>
              Cardinality(Below(mem[n].next)) = Cardinality(Below(n)) + 1
<1>0. /\ Chain /\ Numbers /\ Linked \subseteq Nodes /\ Linked \subseteq Live
      /\ \A m \in Linked : mem[m].num \in Nat
  BY DEF SerialInv, Linked, Live, Types, Memory, NodeState
<1>1. \A n \in Linked : IsFiniteSet(Below(n)) /\ Cardinality(Below(n)) \in 0 .. Cardinality(Nodes)
  <2> SUFFICES ASSUME NEW n \in Linked
               PROVE  IsFiniteSet(Below(n)) /\ Cardinality(Below(n)) \in 0 .. Cardinality(Nodes)
    OBVIOUS
  <2>1. Below(n) \subseteq Nodes /\ IsFiniteSet(Nodes)
    BY <1>0 DEF Below, Serial
  <2>2. IsFiniteSet(Below(n)) /\ Cardinality(Below(n)) <= Cardinality(Nodes)
    BY <2>1, FS_Subset
  <2>3. Cardinality(Below(n)) \in Nat /\ Cardinality(Nodes) \in Nat
    BY <2>1, <2>2, FS_CardinalityType
  <2> QED BY <2>2, <2>3
<1>2. \A n \in Linked : Below(n) = {} <=> n = head
  <2> SUFFICES ASSUME NEW n \in Linked PROVE Below(n) = {} <=> n = head
    OBVIOUS
  <2>1. head \in Linked /\ \A m \in Linked : mem[head].num <= mem[m].num
    BY <1>0 DEF Chain
  <2>2. mem[head].num = mem[n].num => n = head
    BY <1>0, <2>1 DEF Numbers
  <2> QED BY <1>0, <2>1, <2>2 DEF Below
<1>3. ASSUME NEW n \in Linked, n # end
      PROVE  Cardinality(Below(mem[n].next)) = Cardinality(Below(n)) + 1
  <2> DEFINE s == mem[n].next
  <2>1. /\ s \in Linked /\ mem[n].num < mem[s].num
        /\ \A m \in Linked : mem[m].num <= mem[n].num \/ mem[m].num >= mem[s].num
    BY <1>0, <1>3 DEF Chain
  <2>2. \A m \in Linked : mem[m].num = mem[n].num => m = n
    BY <1>0 DEF Numbers
  <2> HIDE DEF s
  <2>3. \A m \in Linked : mem[m].num < mem[s].num <=> mem[m].num < mem[n].num \/ m = n
    BY <1>0, <2>1, <2>2
  <2>4. Below(s) = Below(n) \cup {n} /\ n \notin Below(n)
    BY <1>0, <2>3 DEF Below
  <2>5. Cardinality(Below(s)) = Cardinality(Below(n)) + 1
    BY <1>1, <2>4, FS_AddElement
  <2> QED BY <2>5 DEF s
<1> QED BY <1>1, <1>2, <1>3

\* The k-th node from the head is the event with k smaller ones on the list.
LEMMA NodeAtPlace ==
  ASSUME Serial, SerialInv, ~Midway, NEW k \in Nat, k <= Cardinality(Nodes)
  PROVE  /\ NodeAt[k] # NULL => NodeAt[k] \in Linked
         /\ \A n \in Linked : NodeAt[k] = n <=> Cardinality(Below(n)) = k
<1> DEFINE c == Cardinality(Nodes)
           Placed(i) == /\ NodeAt[i] # NULL => NodeAt[i] \in Linked
                        /\ \A n \in Linked : NodeAt[i] = n <=> Cardinality(Below(n)) = i
           T == {i \in Nat : i <= c => Placed(i)}
<1>0. /\ Chain /\ Numbers /\ Linked \subseteq Nodes /\ Linked \subseteq Live /\ NULL \notin Linked
      /\ c \in Nat
  BY NodeAtWalks, NullAssumption DEF SerialInv, Linked, Live
<1>1. 0 \in T
  <2>1. NodeAt[0] = head
    BY NodeAtWalks
  <2>2. head # NULL => head \in Linked
    BY <1>0 DEF Chain
  <2>3. \A n \in Linked : Cardinality(Below(n)) = 0 <=> Below(n) = {}
    <3> SUFFICES ASSUME NEW n \in Linked PROVE Cardinality(Below(n)) = 0 <=> Below(n) = {}
      OBVIOUS
    <3>1. IsFiniteSet(Below(n))
      BY <1>0, FS_Subset DEF Below, Serial
    <3> QED BY <3>1, FS_EmptySet
  <2>4. \A n \in Linked : head = n <=> Cardinality(Below(n)) = 0
    BY <2>3, PlaceOfNext
  <2> QED BY <2>1, <2>2, <2>4
<1>2. \A i \in Nat : i \in T => i + 1 \in T
  <2> SUFFICES ASSUME NEW i \in Nat, i \in T, i + 1 <= c PROVE Placed(i + 1)
    OBVIOUS
  <2> DEFINE a == NodeAt[i]
             b == NodeAt[i + 1]
  <2>1. (a # NULL => a \in Linked) /\ \A n \in Linked : a = n <=> Cardinality(Below(n)) = i
    BY <1>0
  <2>2. b = IF a = NULL THEN NULL ELSE mem[a].next
    BY NodeAtWalks
  <2>3. \A n \in Linked : Cardinality(Below(n)) \in Nat
    BY PlaceOfNext
  <2> HIDE DEF a, b
  <2>4. b # NULL => a \in Linked /\ a # end /\ b \in Linked
    BY <1>0, <2>1, <2>2 DEF Chain
  <2>5. b # NULL => Cardinality(Below(b)) = i + 1
    BY <2>1, <2>2, <2>4, PlaceOfNext
  <2>6. ASSUME NEW n \in Linked, Cardinality(Below(n)) = i + 1
        PROVE  b = n
    <3>1. n # head
      <4>1. Cardinality({}) = 0
        BY FS_EmptySet
      <4> QED BY <2>6, <4>1, PlaceOfNext
    <3>2. PICK m \in Linked : mem[m].next = n
      BY <1>0, <3>1 DEF Chain
    <3>3. m # end
      BY <1>0, <3>2 DEF Chain
    <3>4. Cardinality(Below(m)) = i
      BY <2>3, <2>6, <3>2, <3>3, PlaceOfNext
    <3> QED BY <1>0, <2>1, <2>2, <3>2, <3>4
  <2>7. \A n \in Linked : b = n <=> Cardinality(Below(n)) = i + 1
    BY <1>0, <2>5, <2>6
  <2> QED BY <2>4, <2>7 DEF b
<1>3. Nat \subseteq T
  <2> HIDE DEF T
  <2> QED BY <1>1, <1>2, SetInduction
<1>4. Placed(k)
  BY <1>3
<1> QED BY <1>4

\* Between calls the list holds the open events, in the order of their numbers.
LEMMA ListHolds ==
  ASSUME Serial, SerialInv
  PROVE  ListHoldsOpenEvents
<1> SUFFICES ASSUME Quiet PROVE ListHoldsOpenEvents
  BY DEF ListHoldsOpenEvents
<1> DEFINE c == Cardinality(Nodes)
           L == {k \in DOMAIN NodeAt : NodeAt[k] # NULL}
<1>0. /\ Chain /\ Numbers /\ Linked = Live /\ NULL \notin Linked
      /\ \A m \in Linked : mem[m].num \in Nat
  BY NullAssumption DEF SerialInv, Linked, Live, Types, Memory, NodeState, Quiet, Apart
<1>00. ~Midway
  BY DEF Midway, Quiet
<1>1. c \in Nat /\ DOMAIN NodeAt = 0 .. c
  BY NodeAtWalks
<1> HIDE DEF c
<1>2. \A k \in 0 .. c : /\ NodeAt[k] # NULL => NodeAt[k] \in Linked
                        /\ \A n \in Linked : NodeAt[k] = n <=> Cardinality(Below(n)) = k
  BY <1>00, <1>1, NodeAtPlace DEF c
<1>3. \A n \in Linked : Cardinality(Below(n)) \in 0 .. c
  BY PlaceOfNext DEF c
<1>4. \A k \in L : k \in 0 .. c /\ NodeAt[k] \in Linked /\ Cardinality(Below(NodeAt[k])) = k
  BY <1>1, <1>2
<1>5. \A n \in Linked : \E k \in L : NodeAt[k] = n
  BY <1>0, <1>1, <1>2, <1>3
<1>6. {NodeAt[k] : k \in L} = Live
  BY <1>0, <1>4, <1>5
<1>7. ASSUME NEW k \in L
      PROVE  /\ mem[NodeAt[k]].num % 2 = 0
             /\ k + 1 \in L => mem[NodeAt[k]].num < mem[NodeAt[k + 1]].num
             /\ (NodeAt[k] = end <=> k + 1 \notin L)
  <2> DEFINE n == NodeAt[k]
  <2>1. n \in Linked /\ k \in Nat /\ Cardinality(Below(n)) = k
    BY <1>1, <1>4
  <2>2. mem[n].num % 2 = 0
    BY <1>0, <2>1 DEF Chain
  <2>3. k + 1 \in L => NodeAt[k + 1] = mem[n].next /\ mem[n].next # NULL
    <3>1. k + 1 \in L => k + 1 <= c /\ NodeAt[k + 1] # NULL
      BY <1>1
    <3>2. n # NULL
      BY <1>7
    <3> QED BY <2>1, <3>1, <3>2, NodeAtWalks DEF c
  <2>4. CASE n = end
    <3>1. mem[n].next = NULL
      BY <1>0, <1>00, <2>1, <2>4 DEF Chain
    <3> QED BY <2>2, <2>3, <2>4, <3>1
  <2>5. CASE n # end
    <3>1. mem[n].next \in Linked /\ mem[n].num < mem[mem[n].next].num
      BY <1>0, <2>1, <2>5 DEF Chain
    <3>2. Cardinality(Below(mem[n].next)) = k + 1
      BY <2>1, <2>5, PlaceOfNext
    <3>3. k + 1 \in 0 .. c /\ NodeAt[k + 1] = mem[n].next
      BY <1>2, <1>3, <3>1, <3>2
    <3>4. k + 1 \in L
      BY <1>0, <1>1, <3>1, <3>3
    <3> QED BY <2>2, <2>5, <3>1, <3>3, <3>4
  <2> QED BY <2>4, <2>5
<1> QED BY <1>6, <1>7 DEF ListHoldsOpenEvents

\* On one CPU without kernel preemption the list of events stays sound through any number
\* of opens and closes in any order: between calls it holds exactly the open events, by
\* increasing even number, from lpmyevent_head to lpmyevent_end, and no call follows a
\* NULL pointer or a pointer to a freed event.
THEOREM ListStaysSound == Serial /\ Spec => []ListSound
<1> SUFFICES ASSUME Serial PROVE Spec => []ListSound
  OBVIOUS
<1>1. SerialInv => ListSound
  BY ListHolds DEF ListSound, SerialInv, NoNullDereference, NoFreedDereference
<1> QED BY <1>1, SerialInvHolds, PTL

-----------------------------------------------------------------------------
(* Refinement: counting semaphores that hand over in arrival order *)

\* Taking exactly the first k entries off a queue leaves the others in their order.
LEMMA WithoutFirst ==
  ASSUME NEW P, NEW q \in Seq(P), NEW S, NEW k \in 0 .. Len(q),
         \A i \in 1 .. Len(q) : q[i] \in S <=> i <= k
  PROVE  /\ Without(q, S) \in Seq(P) /\ Len(Without(q, S)) = Len(q) - k
         /\ \A j \in 1 .. Len(q) - k : Without(q, S)[j] = q[j + k]
<1>1. PICK f : /\ f = [i \in 0 .. Len(q) |-> Step(f, q, S, i)]
               /\ Without(q, S) = f[Len(q)]
  BY WithoutValue
<1>10. \A i \in 0 .. Len(q) : f[i] = Step(f, q, S, i)
  BY <1>1
<1> DEFINE Rest(n) == IF n <= k THEN 0 ELSE n - k
           Right(n) == /\ f[n] \in Seq(P) /\ Len(f[n]) = Rest(n)
                       /\ \A j \in 1 .. Rest(n) : f[n][j] = q[j + k]
           T == {n \in Nat : n <= Len(q) => Right(n)}
<1>2. 0 \in T
  <2>1. f[0] = <<>>
    BY <1>1 DEF Step
  <2>2. <<>> \in Seq(P) /\ Len(<<>>) = 0 /\ Rest(0) = 0
    OBVIOUS
  <2>3. Right(0)
    BY <2>1, <2>2
  <2> QED BY <2>3
<1>3. \A n \in Nat : n \in T => n + 1 \in T
  <2> SUFFICES ASSUME NEW n \in Nat, n \in T, n + 1 <= Len(q) PROVE Right(n + 1)
    OBVIOUS
  <2> DEFINE g == f[n]
             x == q[n + 1]
  <2>1. Right(n)
    OBVIOUS
  <2>2. f[n + 1] = IF x \in S THEN g ELSE Append(g, x)
    <3>1. f[n + 1] = Step(f, q, S, n + 1)
      BY <1>10
    <3> QED BY <3>1 DEF Step
  <2>3. x \in P /\ (x \in S <=> n + 1 <= k)
    OBVIOUS
  <2> HIDE DEF Right
  <2>4. g \in Seq(P) /\ Len(g) = Rest(n) /\ \A j \in 1 .. Rest(n) : g[j] = q[j + k]
    BY <2>1 DEF Right
  <2> HIDE DEF g
  <2>5. CASE n + 1 <= k
    <3>1. f[n + 1] = g /\ Rest(n) = 0 /\ Rest(n + 1) = 0
      BY <2>2, <2>3, <2>5
    <3> HIDE DEF Rest
    <3> QED BY <2>4, <3>1 DEF Right
  <2>6. CASE n + 1 > k
    <3>1. f[n + 1] = Append(g, x)
      BY <2>2, <2>3, <2>6
    <3>2. Rest(n + 1) = Rest(n) + 1 /\ Rest(n) + 1 + k = n + 1 /\ Rest(n) \in Nat
      BY <2>6
    <3> HIDE DEF Rest
    <3>3. /\ f[n + 1] \in Seq(P) /\ Len(f[n + 1]) = Rest(n) + 1
          /\ f[n + 1][Rest(n) + 1] = x
          /\ \A j \in 1 .. Rest(n) : f[n + 1][j] = g[j]
      BY <2>3, <2>4, <3>1, <3>2
    <3>4. \A j \in 1 .. Rest(n) + 1 : f[n + 1][j] = q[j + k]
      <4> SUFFICES ASSUME NEW j \in 1 .. Rest(n) + 1 PROVE f[n + 1][j] = q[j + k]
        OBVIOUS
      <4>1. CASE j = Rest(n) + 1
        BY <3>2, <3>3, <4>1
      <4>2. CASE j # Rest(n) + 1
        <5>1. j \in 1 .. Rest(n)
          BY <3>2, <4>2
        <5> QED BY <2>4, <3>3, <5>1
      <4> QED BY <4>1, <4>2
    <3> QED BY <3>2, <3>3, <3>4 DEF Right
  <2> QED BY <2>5, <2>6
<1>4. Len(q) \in T
  <2> HIDE DEF T
  <2>1. Nat \subseteq T
    BY <1>2, <1>3, SetInduction
  <2> QED BY <2>1
<1>5. Right(Len(q)) /\ Rest(Len(q)) = Len(q) - k
  BY <1>4
<1> QED BY <1>1, <1>5

\* Nobody is on a queue twice.
Once(s) == \A i, j \in 1 .. Len(s) : s[i] = s[j] => i = j

\* A queue without somebody who is not on it.
LEMMA WithoutNobody ==
  ASSUME NEW P, NEW q \in Seq(P), NEW S, \A x \in S : ~Contains(q, x)
  PROVE  Without(q, S) = q
<1> DEFINE w == Without(q, S)
<1>1. \A i \in 1 .. Len(q) : q[i] \in S <=> i <= 0
  BY DEF Contains
<1>2. 0 \in 0 .. Len(q)
  OBVIOUS
<1>3. w \in Seq(P) /\ Len(w) = Len(q) - 0 /\ \A j \in 1 .. Len(q) - 0 : w[j] = q[j + 0]
  BY ZenonT(60), <1>1, <1>2, WithoutFirst
<1> HIDE DEF w
<1>4. Len(w) = Len(q) /\ \A j \in 1 .. Len(q) : w[j] = q[j]
  BY <1>3
<1>5. w = q
  BY <1>3, <1>4
<1> QED BY <1>5 DEF w

\* A queue without its first entry.
LEMMA WithoutHead ==
  ASSUME NEW P, NEW q \in Seq(P), Once(q), q # <<>>
  PROVE  Without(q, {Head(q)}) = Tail(q) /\ Once(Tail(q))
<1> DEFINE S == {Head(q)}
           w == Without(q, S)
<1>0. Head(q) = q[1] /\ 1 \in 1 .. Len(q) /\ 1 \in 0 .. Len(q)
  OBVIOUS
<1>1. \A i \in 1 .. Len(q) : q[i] \in S <=> i <= 1
  BY <1>0 DEF Once
<1>2. w \in Seq(P) /\ Len(w) = Len(q) - 1 /\ \A j \in 1 .. Len(q) - 1 : w[j] = q[j + 1]
  <2> HIDE DEF S
  <2> QED BY <1>0, <1>1, WithoutFirst
<1> HIDE DEF w
<1>3. /\ Tail(q) \in Seq(P) /\ Len(Tail(q)) = Len(q) - 1
      /\ \A j \in 1 .. Len(q) - 1 : Tail(q)[j] = q[j + 1]
  BY <1>0
<1>4. w = Tail(q)
  BY <1>2, <1>3
<1>5. Once(Tail(q))
  BY <1>0, <1>3 DEF Once
<1> QED BY <1>4, <1>5 DEF w

\* The queues are in order: nobody is on one twice, a signal that found a waiter still
\* has one to wake, and the event being created is the last of the list.
Order ==
  /\ \A n \in Nodes : Once(mem[n].waitq)
  /\ \A p \in Procs : /\ th[p].pc = "s_wake" => mem[th[p].cur].waitq # <<>>
                      /\ th[p].pc = "o_value" => th[p].cur = end

\* Points at which the event of a call is not yet, or no longer, there for its users.
Hidden == {"o_test", "o_number", "o_append", "o_end", "o_first", "o_head", "o_value", "c_free"}

\* The semaphores of the nodes C of the memory m, by number.
Table(C, m) ==
  [num \in {m[n].num : n \in C} |->
     LET n == CHOOSE k \in C : m[k].num = num
     IN  [count |-> m[n].value, queue |-> m[n].waitq]]

\* Their numbers tell the nodes apart.
ToldApart(C, m) == \A a, b \in C : m[a].num = m[b].num => a = b

\* The refinement mapping is the table of the created events.
LEMMA EventsTable == Events = Table(Created, mem)
  BY DEF Events, Table

\* What a table shows for each node, if the numbers tell the nodes apart.
LEMMA TableEntry ==
  ASSUME NEW C, NEW m, ToldApart(C, m), NEW n \in C
  PROVE  Table(C, m)[m[n].num] = [count |-> m[n].value, queue |-> m[n].waitq]
<1> DEFINE c == CHOOSE k \in C : m[k].num = m[n].num
<1>1. c \in C /\ m[c].num = m[n].num
  OBVIOUS
<1>2. c = n
  BY <1>1 DEF ToldApart
<1>3. Table(C, m)[m[n].num] = [count |-> m[c].value, queue |-> m[c].waitq]
  BY DEF Table
<1> QED BY <1>2, <1>3

\* A table is a function on the numbers of its nodes.
LEMMA TableDomain ==
  ASSUME NEW C, NEW m
  PROVE  /\ DOMAIN Table(C, m) = {m[n].num : n \in C}
         /\ Table(C, m) = [i \in DOMAIN Table(C, m) |-> Table(C, m)[i]]
  BY DEF Table

\* No event appears or disappears while the process that runs neither enters nor leaves
\* the points at which its event is hidden.
LEMMA CreatedSame ==
  ASSUME NEW p \in Procs, OnlyMoves(p), Live' = Live,
         \/ th[p].pc \notin Hidden /\ th'[p].pc \notin Hidden
         \/ th[p].pc \in Hidden /\ th'[p].pc \in Hidden /\ th'[p].cur = th[p].cur
  PROVE  Created' = Created
  BY DEF Created, OnlyMoves, Hidden

\* The events stay what they are while their numbers, values and queues do.
LEMMA EventsSame ==
  ASSUME Created' = Created,
         \A n \in Created : /\ mem'[n].num = mem[n].num /\ mem'[n].value = mem[n].value
                            /\ mem'[n].waitq = mem[n].waitq
  PROVE  Events' = Events
<1> DEFINE N == {mem[n].num : n \in Created}
           c(i) == CHOOSE m \in Created : mem[m].num = i
           d(i) == CHOOSE m \in Created : mem'[m].num = i
<1>1. {mem'[n].num : n \in Created} = N
  OBVIOUS
<1>2. \A i \in N : c(i) = d(i) /\ c(i) \in Created
  <2> SUFFICES ASSUME NEW i \in N PROVE c(i) = d(i) /\ c(i) \in Created
    OBVIOUS
  <2>1. \A m : (m \in Created /\ mem[m].num = i) <=> (m \in Created /\ mem'[m].num = i)
    OBVIOUS
  <2>2. c(i) = d(i)
    BY <2>1
  <2> QED BY <2>2
<1>3. Events' = [i \in N |-> [count |-> mem'[d(i)].value, queue |-> mem'[d(i)].waitq]]
  BY <1>1 DEF Events
<1>4. Events = [i \in N |-> [count |-> mem[c(i)].value, queue |-> mem[c(i)].waitq]]
  BY DEF Events
<1> HIDE DEF c, d, N
<1>5. \A i \in N : /\ mem'[d(i)].value = mem[c(i)].value
                   /\ mem'[d(i)].waitq = mem[c(i)].waitq
  BY <1>2
<1> QED BY <1>3, <1>4, <1>5

\* A table with the same entries as the events is the events.
LEMMA TableSame ==
  ASSUME NEW C, NEW m, ToldApart(C, m),
         NEW f, f = [i \in DOMAIN f |-> f[i]], DOMAIN f = {m[n].num : n \in C},
         \A n \in C : f[m[n].num] = [count |-> m[n].value, queue |-> m[n].waitq]
  PROVE  Table(C, m) = f
<1> DEFINE t == Table(C, m)
<1>1. DOMAIN t = DOMAIN f /\ t = [i \in DOMAIN t |-> t[i]]
  BY ZenonT(60), TableDomain
<1>2. \A n \in C : t[m[n].num] = f[m[n].num]
  <2> SUFFICES ASSUME NEW n \in C PROVE t[m[n].num] = f[m[n].num]
    OBVIOUS
  <2>1. t[m[n].num] = [count |-> m[n].value, queue |-> m[n].waitq]
    BY TableEntry
  <2> HIDE DEF t
  <2> QED BY <2>1
<1> HIDE DEF t
<1>3. \A i \in DOMAIN f : t[i] = f[i]
  BY <1>2
<1>4. t = f
  BY <1>1, <1>3
<1> QED BY <1>4 DEF t

\* While p neither creates nor frees an event, every event is there for everybody.
LEMMA CreatedAll ==
  ASSUME NEW p \in Procs, OnlyMoves(p)
  PROVE  /\ th[p].pc \notin Hidden => Created = Live
         /\ th'[p].pc \notin Hidden => Created' = Live'
         /\ th[p].pc \in Hidden => Created = Live \ {th[p].cur}
         /\ th'[p].pc \in Hidden => Created' = Live' \ {th'[p].cur}
  BY DEF Created, OnlyMoves, Hidden, Out

\* A step that changes one event shows as a change of one semaphore.
LEMMA OneChanges ==
  ASSUME Numbers, Created' = Created, NEW n \in Created,
         \A m \in Created : mem'[m].num = mem[m].num,
         \A m \in Created \ {n} : mem'[m].value = mem[m].value /\ mem'[m].waitq = mem[m].waitq
  PROVE  /\ mem[n].num \in DOMAIN Events
         /\ Events[mem[n].num] = [count |-> mem[n].value, queue |-> mem[n].waitq]
         /\ Events' = [Events EXCEPT ![mem[n].num] =
                         [count |-> mem'[n].value, queue |-> mem'[n].waitq]]
<1> DEFINE new == [count |-> mem'[n].value, queue |-> mem'[n].waitq]
           f == [Events EXCEPT ![mem[n].num] = new]
<1>1. ToldApart(Created, mem) /\ ToldApart(Created, mem')
  <2>1. \A a, b \in Created : mem[a].num = mem[b].num => a = b
    BY DEF Numbers, Created
  <2> QED BY <2>1 DEF ToldApart
<1>2. /\ DOMAIN Events = {mem[m].num : m \in Created}
      /\ Events = [i \in DOMAIN Events |-> Events[i]]
  BY DEF Events
<1>3. ASSUME NEW m \in Created
      PROVE  Events[mem[m].num] = [count |-> mem[m].value, queue |-> mem[m].waitq]
  <2>1. Table(Created, mem)[mem[m].num] = [count |-> mem[m].value, queue |-> mem[m].waitq]
    BY <1>1, TableEntry
  <2> QED BY <2>1, EventsTable
<1>4. f = [i \in DOMAIN f |-> f[i]] /\ DOMAIN f = {mem'[m].num : m \in Created}
  <2> HIDE DEF new
  <2>1. {mem'[m].num : m \in Created} = {mem[m].num : m \in Created}
    OBVIOUS
  <2>2. f = [i \in DOMAIN Events |-> IF i = mem[n].num THEN new ELSE Events[i]]
    BY <1>2
  <2>3. DOMAIN f = DOMAIN Events
    OBVIOUS
  <2>4. f = [i \in DOMAIN f |-> f[i]]
    BY <2>2
  <2> QED BY <1>2, <2>1, <2>3, <2>4
<1>5. ASSUME NEW m \in Created
      PROVE  f[mem'[m].num] = [count |-> mem'[m].value, queue |-> mem'[m].waitq]
  <2>1. CASE m = n
    BY <1>2, <2>1
  <2>2. CASE m # n
    <3>1. mem[m].num # mem[n].num
      BY <1>1, <2>2 DEF ToldApart
    <3>2. f[mem[m].num] = Events[mem[m].num]
      BY <1>2, <3>1
    <3> HIDE DEF f
    <3> QED BY <1>3, <2>2, <3>2
  <2> QED BY <2>1, <2>2
<1> HIDE DEF f
<1>6. Table(Created, mem') = f
  BY <1>1, <1>4, <1>5, TableSame
<1>7. Events' = Table(Created, mem')
  BY DEF Events, Table
<1> QED BY <1>2, <1>3, <1>6, <1>7 DEF f

\* A step that leaves queues and events alone is not seen.
LEMMA OrderKept ==
  ASSUME Order, NEW p \in Procs, OnlyMoves(p),
         \A n \in Nodes : mem'[n].waitq = mem[n].waitq,
         th'[p].pc \notin {"s_wake", "o_value"}
  PROVE  Order'
  BY DEF Order, OnlyMoves, Out

\* Such a step is one that a user of the semaphores does not see.
LEMMA NotSeen ==
  ASSUME Order, NEW p \in Procs, OnlyMoves(p), Live' = Live, given' = given,
         \A n \in Nodes : mem'[n].waitq = mem[n].waitq,
         \A n \in Created : mem'[n].num = mem[n].num /\ mem'[n].value = mem[n].value,
         th'[p].pc \notin {"s_wake", "o_value"},
         \/ th[p].pc \notin Hidden /\ th'[p].pc \notin Hidden
         \/ th[p].pc \in Hidden /\ th'[p].pc \in Hidden /\ th'[p].cur = th[p].cur
  PROVE  Order' /\ UNCHANGED <<Events, given>>
<1>1. Created' = Created /\ Created \subseteq Nodes
  BY CreatedSame DEF Created, Live
<1> QED BY <1>1, OrderKept, EventsSame

\* The steps of the calls that search, test, allocate, link, unlink and free.
LEMMA UnseenSteps ==
  ASSUME Serial, SerialInv, SerialInv', Order, NEW p \in Procs,
         \/ Call(p) \/ scheventNum(p) \/ OpenFound(p) \/ WaitRead(p) \/ SignalTest(p)
         \/ OpenCall(p) \/ OpenAlloc(p) \/ OpenTest(p) \/ OpenNumber(p)
         \/ OpenFirst(p) \/ OpenHead(p) \/ OpenAppend(p) \/ OpenEnd(p)
         \/ CloseTest(p) \/ CloseUnlink(p) \/ CloseFree(p)
  PROVE  Order' /\ UNCHANGED <<Events, given>>
<1>0. Threads /\ Memory /\ Alone /\ Idle.pc = "user" /\ Knows(p)
  BY IdleType DEF SerialInv, Types
<1>00. Created \subseteq Live /\ Live \subseteq Nodes
  BY DEF Created, Live
<1>1. CASE Call(p) \/ scheventNum(p) \/ OpenFound(p) \/ WaitRead(p) \/ CloseTest(p)
  <2>1. /\ th[p].pc \in {"user", "walk", "found", "w_read", "c_test", "c_test2"} /\ MayRun(p)
        /\ mem' = mem /\ given' = given
    BY <1>1 DEF Call, scheventNum, OpenFound, WaitRead, CloseTest, At, list, other
  <2>2. /\ th'[p].pc \in {"walk", "user", "found", "w_read", "s_test", "c_test", "c_test2",
                         "c_tail", "c_head", "c_middle", "w_dec", "w_queue"}
        /\ \A q \in Procs \ {p} : th'[q] = th[q]
    <3>1. CASE Call(p)
      BY <1>0, <3>1 DEF Call, Threads
    <3>2. CASE scheventNum(p)
      <4>1. th[p].pc = "walk" /\ th[p].op \in Searching
        BY <1>0, <3>2 DEF scheventNum, At, Threads
      <4>2. Found(th[p].op) \in {"found", "w_read", "s_test", "c_test"}
        BY <4>1 DEF Found, Searching
      <4> QED BY <1>0, <3>2, <4>1, <4>2 DEF scheventNum, Threads, CallState, Goto, Return
    <3>3. CASE OpenFound(p)
      BY <1>0, <3>3 DEF OpenFound, Return, Threads
    <3>4. CASE WaitRead(p)
      BY <1>0, <3>4 DEF WaitRead, Goto, Threads, CallState
    <3>5. CASE CloseTest(p)
      BY <1>0, <3>5 DEF CloseTest, Goto, Threads, CallState
    <3> QED BY <1>1, <3>1, <3>2, <3>3, <3>4, <3>5
  <2>3. OnlyMoves(p) /\ Live' = Live
    BY <1>0, <2>1, <2>2, OthersOut DEF OnlyMoves, Live
  <2> QED BY <2>1, <2>2, <2>3, NotSeen DEF Hidden
<1>2. CASE SignalTest(p)
  <2>1. /\ th[p].pc = "s_test" /\ MayRun(p) /\ mem' = mem /\ given' = given /\ end' = end
        /\ th'[p].pc = IF mem[th[p].cur].waitq = <<>> THEN "s_inc" ELSE "s_wake"
        /\ th'[p].cur = th[p].cur /\ \A q \in Procs \ {p} : th'[q] = th[q]
    BY <1>0, <1>2 DEF SignalTest, At, list, other, Goto, Threads, CallState
  <2>2. OnlyMoves(p) /\ Live' = Live
    BY <1>0, <2>1, OthersOut DEF OnlyMoves, Live
  <2>3. Created' = Created
    BY <2>1, <2>2, CreatedSame DEF Hidden
  <2>4. Events' = Events
    BY <2>1, <2>3, EventsSame
  <2>5. Order'
    BY <2>1, <2>2 DEF Order, OnlyMoves, Out
  <2> QED BY <2>1, <2>4, <2>5
<1>3. CASE OpenCall(p)
  <2>1. th[p].pc = "user" /\ MayRun(p) /\ mem' = mem /\ given' = given
    BY <1>3 DEF OpenCall, At, list
  <2>2. th'[p].pc = "alloc" /\ \A q \in Procs \ {p} : th'[q] = th[q]
    BY ZenonT(60), <1>0, <1>3, IdleType DEF OpenCall, Threads, CallState
  <2>3. OnlyMoves(p) /\ Live' = Live
    BY <1>0, <2>1, <2>2, OthersOut DEF OnlyMoves, Live
  <2> QED BY <2>1, <2>2, <2>3, NotSeen DEF Hidden
<1>4. CASE OpenAlloc(p)
  <2>1. PICK n \in Nodes \ Live, junk \in 0 .. MaxValue :
          /\ mem' = [mem EXCEPT ![n] = Blank(junk)]
          /\ th' = [th EXCEPT ![p].pc = "o_test", ![p].cur = n]
    BY <1>4 DEF OpenAlloc
  <2>2. th[p].pc = "alloc" /\ MayRun(p) /\ given' = given
    BY <1>4 DEF OpenAlloc, At, other
  <2>3. th'[p].pc = "o_test" /\ th'[p].cur = n /\ \A q \in Procs \ {p} : th'[q] = th[q]
    BY <1>0, <2>1 DEF Threads, CallState
  <2>4. mem'[n] = Blank(junk) /\ \A m \in Nodes : m # n => mem'[m] = mem[m]
    BY <1>0, <2>1 DEF Memory
  <2>5. mem'[n].live = TRUE /\ mem'[n].waitq = <<>>
    BY <2>4 DEF Blank
  <2>6. OnlyMoves(p) /\ Live' = Live \cup {n} /\ n \notin Live
    BY <1>0, <2>2, <2>3, <2>4, <2>5, OthersOut DEF OnlyMoves, Live
  <2>7. Created' = Created
    BY <2>2, <2>3, <2>6 DEF Created, OnlyMoves, Out
  <2>8. Events' = Events
    BY <1>00, <2>4, <2>6, <2>7, EventsSame
  <2>9. Order'
    <3>1. Once(<<>>)
      BY DEF Once
    <3>2. \A m \in Nodes : Once(mem'[m].waitq)
      BY <2>4, <2>5, <3>1 DEF Order
    <3> QED BY <2>3, <2>6, <3>2 DEF Order, OnlyMoves, Out
  <2> QED BY <2>2, <2>8, <2>9
<1>5. CASE OpenTest(p) \/ OpenNumber(p)
  <2> DEFINE n == th[p].cur
             x == IF head = NULL THEN 2 ELSE mem[end].num + 2
  <2>1. /\ th[p].pc \in {"o_test", "o_number"} /\ MayRun(p) /\ given' = given
        /\ th'[p].pc \in {"o_first", "o_number", "o_append"} /\ th'[p].cur = n
        /\ \A q \in Procs \ {p} : th'[q] = th[q]
    BY <1>0, <1>5 DEF OpenTest, OpenNumber, At, Goto, Threads, CallState, other
  <2>2. mem' = mem \/ mem' = [mem EXCEPT ![n].num = x]
    <3>1. CASE OpenTest(p)
      BY <3>1 DEF OpenTest
    <3>2. CASE OpenNumber(p)
      <4>1. head # NULL
        BY <1>0, <3>2 DEF OpenNumber, At, Knows
      <4> QED BY <3>2, <4>1 DEF OpenNumber
    <3> QED BY <1>5, <3>1, <3>2
  <2> HIDE DEF x
  <2>3. \A m \in Nodes : /\ m # n => mem'[m] = mem[m]
                         /\ mem'[m].live = mem[m].live /\ mem'[m].waitq = mem[m].waitq
    <3>1. CASE mem' = mem
      BY <3>1
    <3>2. CASE mem' = [mem EXCEPT ![n].num = x]
      BY <1>0, <3>2 DEF Memory, NodeState
    <3> QED BY <2>2, <3>1, <3>2
  <2>4. OnlyMoves(p) /\ Live' = Live
    BY <1>0, <2>1, <2>3, OthersOut DEF OnlyMoves, Live
  <2>5. n \notin Created
    BY <2>1, <2>4, CreatedAll DEF Hidden
  <2>6. \A m \in Created : mem'[m].num = mem[m].num /\ mem'[m].value = mem[m].value
    BY <1>00, <2>3, <2>5
  <2> QED BY <2>1, <2>3, <2>4, <2>6, NotSeen DEF Hidden
<1>6. CASE OpenFirst(p) \/ OpenAppend(p)
  <2> DEFINE n == th[p].cur
  <2>1. /\ th[p].pc \in {"o_first", "o_append"} /\ MayRun(p) /\ given' = given
        /\ th'[p].pc \in {"o_head", "o_end"} /\ th'[p].cur = n
        /\ \A q \in Procs \ {p} : th'[q] = th[q]
    BY <1>0, <1>6 DEF OpenFirst, OpenAppend, At, Goto, Threads, CallState, other
  <2>2. mem' = mem \/ mem' = [mem EXCEPT ![end].next = n]
    BY <1>6 DEF OpenFirst, OpenAppend
  <2>3. \A m \in Nodes : /\ mem'[m].live = mem[m].live /\ mem'[m].waitq = mem[m].waitq
                         /\ mem'[m].num = mem[m].num /\ mem'[m].value = mem[m].value
    <3>1. CASE mem' = mem
      BY <3>1
    <3>2. CASE mem' = [mem EXCEPT ![end].next = n]
      BY <1>0, <3>2 DEF Memory, NodeState
    <3> QED BY <2>2, <3>1, <3>2
  <2>4. OnlyMoves(p) /\ Live' = Live
    BY <1>0, <2>1, <2>3, OthersOut DEF OnlyMoves, Live
  <2> QED BY <1>00, <2>1, <2>3, <2>4, NotSeen DEF Hidden
<1>7. CASE OpenHead(p) \/ OpenEnd(p)
  <2> DEFINE n == th[p].cur
  <2>1. /\ th[p].pc \in {"o_head", "o_end"} /\ MayRun(p) /\ given' = given /\ mem' = mem
        /\ th'[p].pc = "o_value" /\ th'[p].cur = n /\ \A q \in Procs \ {p} : th'[q] = th[q]
    BY <1>0, <1>7 DEF OpenHead, OpenEnd, At, Goto, Threads, CallState, other
  <2>2. end' = n
    <3>1. CASE OpenHead(p)
      BY <1>0, <3>1 DEF OpenHead, At, Knows
    <3>2. CASE OpenEnd(p)
      BY <3>2 DEF OpenEnd
    <3> QED BY <1>7, <3>1, <3>2
  <2>3. OnlyMoves(p) /\ Live' = Live
    BY <1>0, <2>1, OthersOut DEF OnlyMoves, Live
  <2>4. Created' = Created
    BY <2>1, <2>3, CreatedSame DEF Hidden
  <2>5. Events' = Events
    BY <2>1, <2>4, EventsSame
  <2>6. Order'
    BY <2>1, <2>2, <2>3 DEF Order, OnlyMoves, Out
  <2> QED BY <2>1, <2>5, <2>6
<1>8. CASE CloseUnlink(p)
  <2>1. /\ th[p].pc \in {"c_tail", "c_head", "c_middle"} /\ MayRun(p) /\ given' = given
        /\ th'[p].pc = "c_wake" /\ \A q \in Procs \ {p} : th'[q] = th[q]
    BY <1>0, <1>8 DEF CloseUnlink, At, Goto, Threads, CallState, other
  <2>2. mem' = mem \/ mem' = [mem EXCEPT ![th[p].prev].next = mem[th[p].cur].next]
    BY <1>8 DEF CloseUnlink
  <2>3. \A m \in Nodes : /\ mem'[m].live = mem[m].live /\ mem'[m].waitq = mem[m].waitq
                         /\ mem'[m].num = mem[m].num /\ mem'[m].value = mem[m].value
    <3>1. CASE mem' = mem
      BY <3>1
    <3>2. CASE mem' = [mem EXCEPT ![th[p].prev].next = mem[th[p].cur].next]
      BY <1>0, <3>2 DEF Memory, NodeState
    <3> QED BY <2>2, <3>1, <3>2
  <2>4. OnlyMoves(p) /\ Live' = Live
    BY <1>0, <2>1, <2>3, OthersOut DEF OnlyMoves, Live
  <2> QED BY <1>00, <2>1, <2>3, <2>4, NotSeen DEF Hidden
<1>9. CASE CloseFree(p)
  <2> DEFINE n == th[p].cur
  <2>1. /\ th[p].pc = "c_free" /\ MayRun(p) /\ given' = given
        /\ mem' = [mem EXCEPT ![n].live = FALSE]
    BY <1>9 DEF CloseFree, At, other
  <2>2. th'[p].pc = "user" /\ \A q \in Procs \ {p} : th'[q] = th[q]
    BY <1>0, <1>9 DEF CloseFree, Return, Threads
  <2>3. n \in Live /\ n \in Nodes
    BY <1>00, <2>1 DEF SerialInv, Knows
  <2>4. /\ mem'[n].live = FALSE
        /\ \A m \in Nodes : (m # n => mem'[m] = mem[m]) /\ mem'[m].waitq = mem[m].waitq
    BY <1>0, <2>1, <2>3 DEF Memory, NodeState
  <2>5. OnlyMoves(p) /\ Live' = Live \ {n}
    BY <1>0, <2>1, <2>2, <2>3, <2>4, OthersOut DEF OnlyMoves, Live
  <2>6. Created = Live \ {n} /\ Created' = Created
    BY <2>1, <2>2, <2>5, CreatedAll DEF Hidden
  <2>7. Events' = Events
    BY <1>00, <2>4, <2>6, EventsSame
  <2>8. Order'
    BY <2>2, <2>4, <2>5, OrderKept
  <2> QED BY <2>1, <2>7, <2>8
<1> QED BY <1>1, <1>2, <1>3, <1>4, <1>5, <1>6, <1>7, <1>8, <1>9

\* A semaphore, and stores to one entry of a table or to one field of an entry.
Sem(c, s)         == [count |-> c, queue |-> s]
Store(E, i, r)    == [E EXCEPT ![i] = r]
SetCount(E, i, x) == [E EXCEPT ![i].count = x]
SetQueue(E, i, x) == [E EXCEPT ![i].queue = x]

IsSem(E, i, c, s) == E[i] = Sem(c, s)

\* A store to the count of a semaphore.
LEMMA CountStore ==
  ASSUME NEW E, NEW i, NEW c, NEW s, IsSem(E, i, c, s), NEW x
  PROVE  Store(E, i, Sem(x, s)) = SetCount(E, i, x)
<1>1. [E[i] EXCEPT !.count = x] = Sem(x, s)
  BY DEF IsSem, Sem
<1> QED BY <1>1 DEF Store, SetCount

\* A store to the queue of a semaphore.
LEMMA QueueStore ==
  ASSUME NEW E, NEW i, NEW c, NEW s, IsSem(E, i, c, s), NEW x
  PROVE  Store(E, i, Sem(c, x)) = SetQueue(E, i, x)
<1>1. [E[i] EXCEPT !.queue = x] = Sem(c, x)
  BY DEF IsSem, Sem
<1> QED BY <1>1 DEF Store, SetQueue

\* Who joins a queue was not on it.
LEMMA OnceJoined ==
  ASSUME NEW P, NEW s \in Seq(P), Once(s), NEW x \in P, ~Contains(s, x)
  PROVE  Once(Append(s, x))
<1> DEFINE w == Append(s, x)
<1>1. w \in Seq(P) /\ Len(w) = Len(s) + 1 /\ w[Len(s) + 1] = x
  OBVIOUS
<1>2. \A j \in 1 .. Len(s) : w[j] = s[j] /\ s[j] # x
  BY DEF Contains
<1>3. Len(s) \in Nat
  OBVIOUS
<1> HIDE DEF w
<1>4. ASSUME NEW j \in 1 .. Len(w), NEW k \in 1 .. Len(w), w[j] = w[k]
      PROVE  j = k
  <2>1. (j \in 1 .. Len(s) \/ j = Len(s) + 1) /\ (k \in 1 .. Len(s) \/ k = Len(s) + 1)
    BY <1>1, <1>3
  <2> QED BY <1>1, <1>2, <1>4, <2>1 DEF Once
<1>5. Once(w)
  BY <1>4 DEF Once
<1> QED BY <1>5 DEF w

\* The steps that a user of the semaphores sees.
LEMMA SeenSteps ==
  ASSUME Serial, SerialInv, SerialInv', Order, NEW p \in Procs,
         \/ OpenValue(p) \/ WaitDec(p) \/ WaitQueue(p) \/ WaitBack(p)
         \/ SignalInc(p) \/ SignalWake(p) \/ CloseWake(p)
  PROVE  Order' /\ (Semaphores!Next \/ UNCHANGED <<Events, given>>)
<1> DEFINE n == th[p].cur
           i == mem[n].num
<1>0. /\ Types /\ Threads /\ Memory /\ Alone /\ Idle.pc = "user" /\ Numbers /\ Numbers'
      /\ Knows(p) /\ Queues /\ Chain
  BY IdleType DEF SerialInv, Types
<1>00. Created \subseteq Live /\ Live \subseteq Nodes /\ Linked \subseteq Live
  BY DEF Created, Live, Linked
<1>1. CASE OpenValue(p)
  <2> DEFINE v == th[p].arg
             new == [count |-> v, queue |-> <<>>]
             f == [m \in DOMAIN Events \cup {i} |-> IF m = i THEN new ELSE Events[m]]
  <2>1. /\ th[p].pc = "o_value" /\ MayRun(p) /\ given' = given /\ th'[p].pc = "user"
        /\ \A q \in Procs \ {p} : th'[q] = th[q]
    BY <1>0, <1>1 DEF OpenValue, At, Return, Threads, other
  <2>2. OnlyMoves(p)
    BY <1>0, <2>1, OthersOut DEF OnlyMoves
  <2>3. n \in Linked /\ n = end /\ mem[n].waitq = <<>> /\ n \in Nodes /\ v \in Nat
    BY <1>0, <1>00, <2>1 DEF Knows, Order, Threads, CallState
  <2>4. \A m \in Nodes : /\ mem'[m].live = mem[m].live /\ mem'[m].num = mem[m].num
                         /\ mem'[m].waitq = mem[m].waitq
                         /\ mem'[m].value = IF m = n THEN v ELSE mem[m].value
    BY <1>0, <1>1, <2>3 DEF OpenValue, Memory, NodeState
  <2>5. Created = Live \ {n} /\ Created' = Live /\ Linked = Live
    <3>1. Live' = Live
      BY <2>4 DEF Live
    <3>2. Linked = Live
      BY <2>1, <2>2 DEF Linked, OnlyMoves, Out, Apart
    <3> QED BY <2>1, <2>2, <3>1, <3>2, CreatedAll DEF Hidden
  <2>6. /\ DOMAIN Events = {mem[m].num : m \in Created}
        /\ \A m \in Created : Events[mem[m].num] =
                                [count |-> mem[m].value, queue |-> mem[m].waitq]
    <3>1. \A a, b \in Created : mem[a].num = mem[b].num => a = b
      BY <1>0, <1>00 DEF Numbers
    <3>2. ToldApart(Created, mem)
      BY <3>1 DEF ToldApart
    <3>3. DOMAIN Events = {mem[m].num : m \in Created}
      BY DEF Events
    <3>4. ASSUME NEW m \in Created
          PROVE  Events[mem[m].num] = [count |-> mem[m].value, queue |-> mem[m].waitq]
      <4>1. Table(Created, mem)[mem[m].num] = [count |-> mem[m].value, queue |-> mem[m].waitq]
        BY <3>2, TableEntry
      <4> QED BY <4>1, EventsTable
    <3> QED BY <3>3, <3>4
  <2>7. i % 2 = 0 /\ \A m \in Created : mem[m].num < i
    <3>1. i % 2 = 0
      BY <1>0, <2>3 DEF Chain
    <3>2. ASSUME NEW m \in Created PROVE mem[m].num < i
      <4>1. m \in Linked /\ m # n /\ m \in Live /\ n \in Live
        BY <1>00, <2>3, <2>5
      <4>2. mem[m].num <= mem[n].num
        BY <1>0, <2>3, <4>1 DEF Chain
      <4>3. mem[m].num # mem[n].num
        BY <1>0, <4>1 DEF Numbers
      <4>4. mem[m].num \in Nat /\ mem[n].num \in Nat
        BY <1>0, <1>00, <4>1 DEF Memory, NodeState
      <4> QED BY <4>2, <4>3, <4>4
    <3> QED BY <3>1, <3>2
  <2>8. \A m \in DOMAIN Events : m < i
    BY <2>6, <2>7
  <2>9. i \notin DOMAIN Events
    <3>1. i \in Nat
      BY <1>0, <2>3 DEF Memory, NodeState
    <3> QED BY <2>8, <3>1
  <2>10. Events' = f
    <3>1. ToldApart(Live, mem')
      <4>1. \A a, b \in Live : mem'[a].num = mem'[b].num => a = b
        BY <1>0, <1>00, <2>4 DEF Numbers
      <4> QED BY <4>1 DEF ToldApart
    <3>2. DOMAIN f = {mem'[m].num : m \in Live}
      <4>1. Live = Created \cup {n}
        BY <1>00, <2>3, <2>5
      <4>2. {mem'[m].num : m \in Live} = {mem[m].num : m \in Created} \cup {i}
        BY <1>00, <2>4, <4>1
      <4> QED BY <2>6, <4>2
    <3>3. f = [m \in DOMAIN f |-> f[m]]
      OBVIOUS
    <3>4. ASSUME NEW m \in Live
          PROVE  f[mem'[m].num] = [count |-> mem'[m].value, queue |-> mem'[m].waitq]
      <4>1. CASE m = n
        <5>1. f[i] = new
          OBVIOUS
        <5>2. mem'[m].num = i /\ mem'[m].value = v /\ mem'[m].waitq = <<>>
          BY <2>3, <2>4, <4>1
        <5> HIDE DEF f
        <5> QED BY <5>1, <5>2
      <4>2. CASE m # n
        <5>1. m \in Created
          BY <2>5, <4>2
        <5>2. mem[m].num \in DOMAIN Events /\ mem[m].num # i
          BY <2>6, <2>9, <5>1
        <5>3. f[mem[m].num] = Events[mem[m].num]
          BY <5>2
        <5>4. /\ mem'[m].num = mem[m].num /\ mem'[m].value = mem[m].value
              /\ mem'[m].waitq = mem[m].waitq
          BY <1>00, <2>4, <4>2
        <5> HIDE DEF f
        <5> QED BY <2>6, <5>1, <5>3, <5>4
      <4> QED BY <4>1, <4>2
    <3> HIDE DEF f
    <3>5. Table(Live, mem') = f
      BY <3>1, <3>2, <3>3, <3>4, TableSame
    <3>6. Events' = Table(Live, mem')
      BY <2>5 DEF Events, Table
    <3> QED BY <3>5, <3>6
  <2>11. Events'[i] = new /\ Events'[i].count = v /\ i \in DOMAIN Events'
    BY <2>10
  <2>12. Semaphores!Open(i, Events'[i].count)
    <3>1. Events' = [m \in DOMAIN Events \cup {i} |->
                       IF m = i THEN [count |-> Events'[i].count, queue |-> <<>>] ELSE Events[m]]
      BY <2>10, <2>11
    <3>2. Events'[i].count >= 0
      BY <2>3, <2>11
    <3> QED BY <2>1, <2>7, <2>8, <3>1, <3>2 DEF Semaphores!Open
  <2>13. Semaphores!Next
    BY <2>9, <2>11, <2>12 DEF Semaphores!Next
  <2>14. Order'
    BY <2>1, <2>2, <2>4, OrderKept
  <2> QED BY <2>13, <2>14
<1>2. ASSUME th[p].pc \in HoldsEvent \ {"found"}, MayRun(p), th'[p].pc \in {"user", "sleep"},
             \A q \in Procs \ {p} : th'[q] = th[q],
             NEW v, NEW w,
             \A m \in Nodes : /\ mem'[m].live = mem[m].live /\ mem'[m].num = mem[m].num
                              /\ m # n => mem'[m] = mem[m],
             mem'[n].value = v, mem'[n].waitq = w
      PROVE  /\ OnlyMoves(p) /\ n \in Nodes /\ i \in DOMAIN Events
             /\ Events[i] = [count |-> mem[n].value, queue |-> mem[n].waitq]
             /\ Events' = [Events EXCEPT ![i] = [count |-> v, queue |-> w]]
             /\ Once(w) => Order'
  <2>1. OnlyMoves(p) /\ Live' = Live
    BY <1>0, <1>2, OthersOut DEF OnlyMoves, Live
  <2>2. n \in Live /\ n \in Nodes
    BY <1>0, <1>00, <1>2 DEF Knows, HoldsEvent
  <2>3. Created = Live /\ Created' = Live
    BY <1>2, <2>1, CreatedAll DEF Hidden, HoldsEvent
  <2>4. /\ \A m \in Created : mem'[m].num = mem[m].num
        /\ \A m \in Created \ {n} : mem'[m].value = mem[m].value /\ mem'[m].waitq = mem[m].waitq
    BY <1>00, <1>2
  <2>5. /\ i \in DOMAIN Events
        /\ Events[i] = [count |-> mem[n].value, queue |-> mem[n].waitq]
        /\ Events' = [Events EXCEPT ![i] = [count |-> mem'[n].value, queue |-> mem'[n].waitq]]
    BY <1>0, <2>2, <2>3, <2>4, OneChanges
  <2>6. Once(w) => Order'
    <3> SUFFICES ASSUME Once(w) PROVE Order'
      OBVIOUS
    <3>1. \A m \in Nodes : Once(mem'[m].waitq)
      BY <1>2 DEF Order
    <3> QED BY <1>2, <2>1, <3>1 DEF Order, OnlyMoves, Out
  <2> QED BY <1>2, <2>1, <2>2, <2>5, <2>6
<1>3. CASE WaitDec(p) \/ SignalInc(p)
  <2> DEFINE v == mem'[n].value
             w == mem[n].waitq
  <2>1. /\ th[p].pc \in {"w_dec", "s_inc"} /\ MayRun(p) /\ given' = given /\ th'[p].pc = "user"
        /\ \A q \in Procs \ {p} : th'[q] = th[q]
    BY <1>0, <1>3 DEF WaitDec, SignalInc, At, Return, Threads, other
  <2>2. n \in Nodes /\ n \in Live
    BY <1>0, <1>00, <2>1 DEF Knows, HoldsEvent
  <2>3. /\ \A m \in Nodes : /\ mem'[m].live = mem[m].live /\ mem'[m].num = mem[m].num
                            /\ m # n => mem'[m] = mem[m]
        /\ mem'[n].waitq = w
    <3>1. CASE WaitDec(p)
      BY <1>0, <2>2, <3>1 DEF WaitDec, Memory, NodeState
    <3>2. CASE SignalInc(p)
      BY <1>0, <2>2, <3>2 DEF SignalInc, Memory, NodeState
    <3> QED BY <1>3, <3>1, <3>2
  <2>4. Once(w)
    BY SMTT(60), <2>2 DEF Order
  <2>5. /\ OnlyMoves(p) /\ i \in DOMAIN Events
        /\ Events[i] = [count |-> mem[n].value, queue |-> w]
        /\ Events' = [Events EXCEPT ![i] = [count |-> v, queue |-> w]]
        /\ Order'
    BY SMTT(60), <1>2, <2>1, <2>3, <2>4 DEF HoldsEvent
  <2>6. CASE WaitDec(p)
    <3>1. v = mem[n].value - 1 /\ mem[n].value > 0
      BY <1>0, <2>2, <2>6 DEF WaitDec, At, Memory, NodeState, Knows
    <3>2. Events[i].count > 0
      BY <2>5, <3>1
    <3>3. Events' = [Events EXCEPT ![i].count = @ - 1]
      <4> HIDE DEF v, i, w
      <4>1. IsSem(Events, i, mem[n].value, w) /\ Events' = Store(Events, i, Sem(v, w))
        BY <2>5 DEF IsSem, Sem, Store
      <4>2. Events[i].count = mem[n].value /\ Events' = SetCount(Events, i, v)
        BY <2>5, <4>1, CountStore
      <4>3. Events[i].count - 1 = v
        BY <3>1, <4>2
      <4> QED BY <4>2, <4>3 DEF SetCount
    <3> QED BY <2>1, <2>5, <3>2, <3>3 DEF Semaphores!Next, Semaphores!Take
  <2>7. CASE SignalInc(p)
    <3>1. v = mem[n].value + 1 /\ w = <<>>
      BY <1>0, <2>2, <2>7 DEF SignalInc, At, Memory, NodeState, Knows
    <3>2. Events[i].queue = <<>>
      BY <2>5, <3>1
    <3>3. Events' = [Events EXCEPT ![i].count = @ + 1]
      <4> HIDE DEF v, i, w
      <4>1. IsSem(Events, i, mem[n].value, w) /\ Events' = Store(Events, i, Sem(v, w))
        BY <2>5 DEF IsSem, Sem, Store
      <4>2. Events[i].count = mem[n].value /\ Events' = SetCount(Events, i, v)
        BY <2>5, <4>1, CountStore
      <4>3. Events[i].count + 1 = v
        BY <3>1, <4>2
      <4> QED BY <4>2, <4>3 DEF SetCount
    <3> QED BY <2>1, <2>5, <3>2, <3>3 DEF Semaphores!Next, Semaphores!Signal
  <2> QED BY <1>3, <2>6, <2>7
<1>4. CASE WaitQueue(p)
  <2> DEFINE s == mem[n].waitq
             w == Append(s, p)
  <2>1. /\ th[p].pc = "w_queue" /\ MayRun(p) /\ given' = given /\ th'[p].pc = "sleep"
        /\ \A q \in Procs \ {p} : th'[q] = th[q]
    BY <1>0, <1>4 DEF WaitQueue, Sleep, At, Goto, Threads, CallState
  <2>2. n \in Nodes /\ n \in Live /\ mem[n].value = 0
    BY <1>0, <1>00, <2>1 DEF Knows, HoldsEvent
  <2>3. s \in Seq(Procs) /\ Once(s) /\ ~Contains(s, p)
    BY <1>0, <2>1, <2>2 DEF Memory, NodeState, Order, Queues
  <2>4. Once(w)
    BY <2>3, OnceJoined
  <2> HIDE DEF w
  <2>5. /\ mem'[n].waitq = w /\ mem'[n].value = 0
        /\ \A m \in Nodes : /\ mem'[m].live = mem[m].live /\ mem'[m].num = mem[m].num
                            /\ m # n => mem'[m] = mem[m]
    <3>1. mem' = [mem EXCEPT ![n].waitq = w]
      BY <1>4 DEF WaitQueue, Sleep, w
    <3> QED BY <1>0, <2>2, <3>1 DEF Memory, NodeState
  <2>6. /\ i \in DOMAIN Events /\ Events[i] = [count |-> 0, queue |-> s]
        /\ Events' = [Events EXCEPT ![i] = [count |-> 0, queue |-> w]]
        /\ Order'
    BY <1>2, <2>1, <2>2, <2>4, <2>5 DEF HoldsEvent
  <2>7. Events[i].count = 0 /\ Events' = [Events EXCEPT ![i].queue = Append(@, p)]
    <3> HIDE DEF i, s
    <3>1. IsSem(Events, i, 0, s) /\ Events' = Store(Events, i, Sem(0, w))
      BY <2>6 DEF IsSem, Sem, Store
    <3>2. Events[i].count = 0 /\ Events[i].queue = s /\ Events' = SetQueue(Events, i, w)
      BY <2>6, <3>1, QueueStore
    <3>3. Append(Events[i].queue, p) = w
      BY <3>2 DEF w
    <3> QED BY <3>2, <3>3 DEF SetQueue
  <2> QED BY <2>1, <2>6, <2>7 DEF Semaphores!Next, Semaphores!Join
<1>5. CASE WaitBack(p)
  <2>1. /\ th[p].pc = "sleep" /\ task[p] = "RUNNING" /\ MayRun(p) /\ given' = given \ {p}
        /\ mem' = [mem EXCEPT ![n].waitq = Without(mem[n].waitq, {p})]
    BY <1>5 DEF WaitBack, At
  <2>2. th'[p].pc = "user" /\ \A q \in Procs \ {p} : th'[q] = th[q]
    BY <1>0, <1>5 DEF WaitBack, Return, Threads
  <2>3. n \in Nodes /\ mem[n].waitq \in Seq(Procs) /\ ~Contains(mem[n].waitq, p)
    BY <1>0, <2>1 DEF Threads, AtNode, Memory, NodeState, Queues
  <2>4. Without(mem[n].waitq, {p}) = mem[n].waitq
    BY <2>3, WithoutNobody
  <2>5. mem' = mem
    BY <1>0, <2>1, <2>3, <2>4 DEF Memory, NodeState
  <2>6. OnlyMoves(p) /\ Live' = Live
    BY <1>0, <2>1, <2>2, <2>5, OthersOut DEF OnlyMoves, Live
  <2>7. Created' = Created
    BY <2>1, <2>2, <2>6, CreatedSame DEF Hidden
  <2>8. Events' = Events
    BY <2>5, <2>7, EventsSame
  <2>9. Order'
    BY <2>2, <2>5, <2>6, OrderKept
  <2>10. CASE p \in given
    BY <2>1, <2>8, <2>9, <2>10 DEF Semaphores!Next, Semaphores!Leave
  <2>11. CASE p \notin given
    BY SMTT(60), <2>1, <2>8, <2>9, <2>11
  <2> QED BY <2>10, <2>11
<1>6. CASE SignalWake(p)
  <2> DEFINE s == mem[n].waitq
             S == FirstSleeper(n)
             w == Without(s, S)
  <2>1. /\ th[p].pc = "s_wake" /\ MayRun(p) /\ given' = given \cup S
        /\ mem' = [mem EXCEPT ![n].waitq = w]
    BY <1>6 DEF SignalWake, WakeUp, At
  <2>2. th'[p].pc = "user" /\ \A q \in Procs \ {p} : th'[q] = th[q]
    BY <1>0, <1>6 DEF SignalWake, Return, Threads
  <2>3. n \in Nodes /\ n \in Live
    BY <1>0, <1>00, <2>1 DEF Knows, HoldsEvent
  <2>4. s \in Seq(Procs) /\ Once(s) /\ s # <<>>
    BY <1>0, <2>1, <2>3 DEF Memory, NodeState, Order
  <2>5. S = {Head(s)}
    <3>1. \A j \in 1 .. Len(s) : s[j] \in Procs /\ Contains(s, s[j])
      BY <2>4 DEF Contains
    <3>2. \A j \in 1 .. Len(s) : task[s[j]] = "INTERRUPTIBLE"
      BY <1>0, <2>3, <3>1 DEF Queues
    <3>3. DOMAIN s = 1 .. Len(s) /\ Len(s) \in Nat /\ Len(s) # 0 /\ Head(s) = s[1]
      BY <2>4
    <3>4. SleeperAt(n) = 1 .. Len(s)
      BY <3>2, <3>3 DEF SleeperAt
    <3>5. {j \in SleeperAt(n) : \A k \in SleeperAt(n) : j <= k} = {1}
      BY SMTT(60), <3>3, <3>4
    <3> QED BY <3>3, <3>5 DEF FirstSleeper
  <2>6. w = Tail(s) /\ Once(w)
    BY <2>4, <2>5, WithoutHead
  <2> HIDE DEF w
  <2>7. /\ mem'[n].waitq = w /\ mem'[n].value = mem[n].value
        /\ \A m \in Nodes : /\ mem'[m].live = mem[m].live /\ mem'[m].num = mem[m].num
                            /\ m # n => mem'[m] = mem[m]
    BY SMTT(60), <1>0, <2>1, <2>3 DEF Memory, NodeState
  <2>8. /\ i \in DOMAIN Events /\ Events[i] = [count |-> mem[n].value, queue |-> s]
        /\ Events' = [Events EXCEPT ![i] = [count |-> mem[n].value, queue |-> w]]
        /\ Order'
    BY ZenonT(60), <1>2, <2>1, <2>2, <2>6, <2>7 DEF HoldsEvent
  <2>9. Events[i].queue = s /\ Events' = [Events EXCEPT ![i].queue = Tail(@)]
    <3> HIDE DEF i, s
    <3>1. /\ IsSem(Events, i, mem[n].value, s)
          /\ Events' = Store(Events, i, Sem(mem[n].value, w))
      BY <2>8 DEF IsSem, Sem, Store
    <3>2. Events[i].queue = s /\ Events' = SetQueue(Events, i, w)
      BY <2>8, <3>1, QueueStore
    <3>3. Tail(Events[i].queue) = w
      BY <2>6, <3>2
    <3> QED BY <3>2, <3>3 DEF SetQueue
  <2> QED BY <2>1, <2>4, <2>5, <2>8, <2>9 DEF Semaphores!Next, Semaphores!Signal
<1>7. CASE CloseWake(p)
  <2> DEFINE s == mem[n].waitq
             S == Sleepers(n)
             w == Without(s, S)
             f == [m \in DOMAIN Events \ {i} |-> Events[m]]
  <2>1. /\ th[p].pc = "c_wake" /\ MayRun(p) /\ given' = given
        /\ mem' = [mem EXCEPT ![n].waitq = w]
    BY <1>7 DEF CloseWake, WakeUp, At
  <2>2. th'[p].pc = "c_free" /\ th'[p].cur = n /\ \A q \in Procs \ {p} : th'[q] = th[q]
    BY <1>0, <1>7 DEF CloseWake, Goto, Threads, CallState
  <2>3. n \in Live /\ n \in Nodes
    BY <1>0, <1>00, <2>1 DEF Knows
  <2>4. s \in Seq(Procs)
    BY <1>0, <2>3 DEF Memory, NodeState
  <2>5. w = <<>>
    <3>1. w \in Seq(Procs) /\ \A x : Contains(w, x) <=> x \notin S /\ Contains(s, x)
      BY <2>4, WithoutKeeps
    <3>2. \A x \in Procs : Contains(s, x) => x \in S
      BY <1>0, <2>3, <2>4 DEF Queues, Sleepers, SleeperAt, Contains
    <3> HIDE DEF w, S
    <3> QED BY <3>1, <3>2, QueueEmpty
  <2> HIDE DEF w
  <2>6. /\ mem'[n].waitq = w
        /\ \A m \in Nodes : (m # n => mem'[m] = mem[m]) /\ mem'[m].live = mem[m].live
    BY <1>0, <2>1, <2>3 DEF Memory, NodeState
  <2>7. OnlyMoves(p) /\ Live' = Live
    BY <1>0, <2>1, <2>2, <2>6, OthersOut DEF OnlyMoves, Live
  <2>8. Created = Live /\ Created' = Live \ {n}
    BY <2>1, <2>2, <2>7, CreatedAll DEF Hidden
  <2>9. Order'
    <3>1. Once(<<>>)
      BY DEF Once
    <3>2. \A m \in Nodes : Once(mem'[m].waitq)
      BY <2>5, <2>6, <3>1 DEF Order
    <3> QED BY <2>2, <2>7, <3>2 DEF Order, OnlyMoves, Out
  <2>10. ToldApart(Created, mem) /\ ToldApart(Created', mem')
    <3>1. \A a, b \in Created : mem[a].num = mem[b].num => a = b
      BY <1>0, <1>00 DEF Numbers
    <3>2. \A a \in Created' : mem'[a].num = mem[a].num /\ a \in Created
      BY <1>00, <2>6, <2>8
    <3> QED BY <3>1, <3>2 DEF ToldApart
  <2>11. DOMAIN Events = {mem[m].num : m \in Created} /\ i \in DOMAIN Events
    BY <2>3, <2>8 DEF Events
  <2>12. Events' = f
    <3>1. \A m \in Created' : /\ m \in Created /\ m # n /\ mem'[m] = mem[m]
                              /\ mem[m].num \in DOMAIN Events /\ mem[m].num # i
      BY <1>00, <2>3, <2>6, <2>8, <2>10, <2>11 DEF ToldApart
    <3>2. DOMAIN f = {mem'[m].num : m \in Created'}
      <4>1. \A m \in Created : m # n => m \in Created'
        BY <2>8
      <4> QED BY <2>11, <3>1, <4>1
    <3>3. f = [m \in DOMAIN f |-> f[m]]
      OBVIOUS
    <3>4. ASSUME NEW m \in Created'
          PROVE  f[mem'[m].num] = [count |-> mem'[m].value, queue |-> mem'[m].waitq]
      <4>1. f[mem[m].num] = Events[mem[m].num]
        BY <3>1
      <4>2. Table(Created, mem)[mem[m].num] = [count |-> mem[m].value, queue |-> mem[m].waitq]
        BY <2>10, <3>1, TableEntry
      <4> HIDE DEF f
      <4> QED BY <3>1, <4>1, <4>2, EventsTable
    <3> HIDE DEF f
    <3>5. Table(Created', mem') = f
      BY <2>10, <3>2, <3>3, <3>4, TableSame
    <3>6. Events' = Table(Created', mem')
      BY DEF Events, Table
    <3> QED BY <3>5, <3>6
  <2> QED BY <2>1, <2>9, <2>11, <2>12 DEF Semaphores!Next, Semaphores!Close
<1> QED BY <1>1, <1>3, <1>4, <1>5, <1>6, <1>7

\* On one CPU without kernel preemption the four system calls implement numbered counting
\* semaphores that hand over in arrival order: every step of the code is an open, a take,
\* a join, a signal, a leave or a close of EventSemaphores, or is not seen.
THEOREM EventsAreSemaphores == Serial /\ Spec => ImplementsSemaphores
<1> SUFFICES ASSUME Serial PROVE Spec => ImplementsSemaphores
  OBVIOUS
<1>1. Init => Order /\ Semaphores!Init
  <2> SUFFICES ASSUME Init PROVE Order /\ Semaphores!Init
    OBVIOUS
  <2>1. \A p \in Procs : th[p].pc = "user"
    BY IdleType DEF Init
  <2>2. Created = {} /\ \A n \in Nodes : mem[n].waitq = <<>>
    BY DEF Init, Created, Live, Blank
  <2>3. Once(<<>>)
    BY DEF Once
  <2>4. Order
    BY <2>1, <2>2, <2>3 DEF Order
  <2>5. Events = <<>>
    BY <2>2 DEF Events
  <2> QED BY <2>4, <2>5 DEF Init, Semaphores!Init
<1>2. SerialInv /\ SerialInv' /\ Order /\ [Next]_vars
      => Order' /\ [Semaphores!Next]_<<Events, given>>
  <2> SUFFICES ASSUME SerialInv, SerialInv', Order, [Next]_vars
               PROVE  Order' /\ [Semaphores!Next]_<<Events, given>>
    OBVIOUS
  <2>1. CASE UNCHANGED vars
    BY <2>1 DEF vars, list, other, Order, Events, Created, Live
  <2>2. CASE Next
    <3>1. PICK p \in Procs : Call(p) \/ OpenCall(p) \/ Kernel(p) \/ UnixSignal(p)
      BY <2>2 DEF Next
    <3>2. ~BadAccess(p) /\ ~UnixSignal(p)
      BY TargetsLive DEF BadAccess, UnixSignal, Serial
    <3>3. Order' /\ (Semaphores!Next \/ UNCHANGED <<Events, given>>)
      BY <3>1, <3>2, UnseenSteps, SeenSteps DEF Kernel
    <3> QED BY <3>3
  <2> QED BY <2>1, <2>2
<1> QED BY <1>1, <1>2, SerialInvHolds, PTL DEF Spec, ImplementsSemaphores, Semaphores!Spec
=============================================================================
