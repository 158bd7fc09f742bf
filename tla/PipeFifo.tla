------------------------------ MODULE PipeFifo ------------------------------
(***************************************************************************)
(* What the scullpipe device promises its users: a bounded first-in        *)
(* first-out queue of bytes.  A write appends what fits, a read removes a  *)
(* prefix; an open() of the device and the release of its last open file   *)
(* empty it, and nothing else loses a byte.                                *)
(***************************************************************************)
EXTENDS Integers, Sequences

CONSTANTS Procs, Data, Capacity

VARIABLES
  users,  \* the processes that have the device open
  queue,  \* the bytes written and not yet read
  got     \* the bytes each process has just read

Init == users = {} /\ queue = <<>> /\ got = [p \in Procs |-> <<>>]

Open(p) ==
  /\ p \notin users
  /\ users' = users \cup {p} /\ queue' = <<>>
  /\ UNCHANGED got

Close(p) ==
  /\ p \in users
  /\ users' = users \ {p}
  /\ queue' = IF users' = {} THEN <<>> ELSE queue
  /\ UNCHANGED got

Put ==
  \E n \in 1 .. Capacity - Len(queue) : \E bytes \in [1 .. n -> Data] :
    /\ users # {} /\ queue' = queue \o bytes
    /\ UNCHANGED <<users, got>>

Get(p) ==
  \E n \in 1 .. Len(queue) :
    /\ p \in users
    /\ got' = [got EXCEPT ![p] = SubSeq(queue, 1, n)]
    /\ queue' = SubSeq(queue, n + 1, Len(queue))
    /\ UNCHANGED users

\* The process is done with the bytes it read.
Consume(p) == got' = [got EXCEPT ![p] = <<>>] /\ UNCHANGED <<users, queue>>

Next == Put \/ \E p \in Procs : Open(p) \/ Close(p) \/ Get(p) \/ Consume(p)

Spec == Init /\ [][Next]_<<users, queue, got>>
=============================================================================
