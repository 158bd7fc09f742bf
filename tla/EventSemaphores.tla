--------------------------- MODULE EventSemaphores ---------------------------
(***************************************************************************)
(* What the event system calls promise: numbered counting semaphores.  A   *)
(* wait takes a unit or joins the queue, a signal hands a unit to the      *)
(* longest waiting process or keeps it, a close lets every waiter go.      *)
(***************************************************************************)
EXTENDS Integers, Sequences

CONSTANT Procs

VARIABLES
  events,  \* number -> [count, queue]
  handed   \* the processes that were handed a unit and have not returned yet

Init == events = <<>> /\ handed = {}

\* A new event has an even number, greater than that of every open one.
Open(num, v) ==
  /\ num % 2 = 0 /\ v >= 0
  /\ \A m \in DOMAIN events : m < num
  /\ events' = [m \in DOMAIN events \cup {num} |->
                  IF m = num THEN [count |-> v, queue |-> <<>>] ELSE events[m]]
  /\ UNCHANGED handed

Take(num) ==
  /\ events[num].count > 0
  /\ events' = [events EXCEPT ![num].count = @ - 1]
  /\ UNCHANGED handed

Join(num, p) ==
  /\ events[num].count = 0
  /\ events' = [events EXCEPT ![num].queue = Append(@, p)]
  /\ UNCHANGED handed

Signal(num) ==
  \/ /\ events[num].queue = <<>>
     /\ events' = [events EXCEPT ![num].count = @ + 1]
     /\ UNCHANGED handed
  \/ /\ events[num].queue # <<>>
     /\ events' = [events EXCEPT ![num].queue = Tail(@)]
     /\ handed' = handed \cup {Head(events[num].queue)}

Leave(p) == p \in handed /\ handed' = handed \ {p} /\ UNCHANGED events

Close(num) ==
  /\ events' = [m \in DOMAIN events \ {num} |-> events[m]]
  /\ UNCHANGED handed

Next ==
  \/ \E num \in {n \in DOMAIN events' : n \notin DOMAIN events} :
       Open(num, events'[num].count)
  \/ \E num \in DOMAIN events :
       \/ Take(num) \/ Signal(num) \/ Close(num)
       \/ \E p \in Procs : Join(num, p)
  \/ \E p \in Procs : Leave(p)

Spec == Init /\ [][Next]_<<events, handed>>
=============================================================================
