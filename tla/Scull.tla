------------------------------- MODULE Scull -------------------------------
(***************************************************************************)
(* The bare scull device (src/7/main.c) behind one open file that several  *)
(* processes share.  The memory is a list of quantum sets, each an array   *)
(* of quanta; every method runs under the device semaphore.  The methods   *)
(* find the quantum of the position, and then copy from or to              *)
(* dev->data + *f_pos: the list head itself, or what lies behind it.       *)
(***************************************************************************)
EXTENDS Integers, Sequences, FiniteSets

CONSTANTS ScullProcs,
          Quantum, QSet,   \* scull_quantum and scull_qset, fixed at load time
          DataSize,        \* SCULL_DATA_SIZE
          MaxPos,          \* bound on positions
          Word             \* 2^w, the size of a size_t

ASSUME ScullAssumption ==
    /\ Quantum \in Nat \ {0} /\ QSet \in Nat \ {0} /\ DataSize \in Nat
    /\ MaxPos \in Nat /\ Word \in Nat /\ Word > MaxPos + DataSize + Quantum

VARIABLES items,    \* dev->data: the array of each list item, as the set of its quanta
          dsize,    \* dev->size
          fpos,     \* the position of the shared file
          vfs,      \* the read or write each process is in
          heap,     \* objects kmalloc has given out and kfree has not taken back
          wild,     \* the list head, or what lies behind it, has been overwritten
          undef     \* "no" until a method has "followed" the list after that, or
                    \* copy_from_user has "cleared" all memory behind the device

scullVars == <<items, dsize, fpos, vfs, heap, wild, undef>>

NoArray == {-1}           \* dptr->data is NULL
Array(q) == IF q = NoArray THEN {} ELSE q
NoIO == [op |-> "none", pos |-> 0, count |-> 0]

Item(pos) == (pos \div (Quantum * QSet)) + 1
SPos(pos) == (pos % (Quantum * QSet)) \div Quantum
QPos(pos) == pos % Quantum

\* Objects on the list, by their place on it: the items, their arrays and the
\* quanta in these.
Objects(list) ==
    {<<"item", i, 0>> : i \in DOMAIN list}
    \cup {<<"array", i, 0>> : i \in {j \in DOMAIN list : list[j] # NoArray}}
    \cup {x \in {"quantum"} \X (DOMAIN list) \X (0..(QSet - 1)) : x[3] \in Array(list[x[2]])}

FreedByTrim_itemsOnly(list) == {<<"item", i, 0>> : i \in DOMAIN list}

\* What the loops of scull_trim hand to kfree.
FreedByTrim(list) == Objects(list)

scull_trim ==
    /\ heap' = heap \ FreedByTrim(items)
    /\ items' = <<>> /\ dsize' = 0

\* Following a pointer that a write has replaced: anything may happen.
Undefined == undef' = "followed" /\ UNCHANGED <<items, dsize, fpos, vfs, heap, wild>>

\* Only a write-only open empties the device.
scull_open(writeOnly) ==
    /\ undef = "no"
    /\ IF ~writeOnly \/ items = <<>>
       THEN UNCHANGED scullVars
       ELSE IF wild THEN Undefined
       ELSE scull_trim /\ UNCHANGED <<fpos, vfs, wild, undef>>

\* The kernel reads the position, calls the method and stores what the method
\* made of it; nothing keeps two calls on one file apart.
Call(p, op, count) ==
    /\ undef = "no" /\ vfs[p].op = "none"
    /\ vfs' = [vfs EXCEPT ![p] = [op |-> op, pos |-> fpos, count |-> count]]
    /\ UNCHANGED <<items, dsize, fpos, heap, wild, undef>>

Return(p, pos) == fpos' = pos /\ vfs' = [vfs EXCEPT ![p] = NoIO]

\* The list with n items; fewer when kmalloc fails on the way.
scull_follow(n) ==
    {items} \cup {items \o [i \in 1..k |-> NoArray] : k \in 1..(IF n > Len(items) THEN n - Len(items) ELSE 0)}

\* Reading stops at the end of the data.
Clip(pos, count) == IF pos + count > dsize THEN dsize - pos ELSE count

InQuantum(pos, count) == IF count > Quantum - QPos(pos) THEN Quantum - QPos(pos) ELSE count

\* Interrupted while it waits for the semaphore; -ERESTARTSYS.
Interrupted(p) ==
    /\ undef = "no" /\ vfs[p].op # "none"
    /\ vfs' = [vfs EXCEPT ![p] = NoIO]
    /\ UNCHANGED <<items, dsize, fpos, heap, wild, undef>>

scull_read(p) ==
    LET v == vfs[p] IN
    /\ undef = "no" /\ v.op = "read"
    /\ IF v.pos >= dsize
       THEN Return(p, v.pos) /\ UNCHANGED <<items, dsize, heap, wild, undef>>
       ELSE IF wild THEN Undefined
       ELSE \E list \in scull_follow(Item(v.pos)) :
               LET found == /\ Len(list) >= Item(v.pos)
                            /\ SPos(v.pos) \in Array(list[Item(v.pos)])
                   n == InQuantum(v.pos, Clip(v.pos, v.count))
               IN /\ items' = list /\ heap' = heap \cup (Objects(list) \ Objects(items))
                  /\ \/ Return(p, v.pos)     \* a hole, or copy_to_user fails
                     \/ found /\ Return(p, v.pos + n)
                  /\ UNCHANGED <<dsize, wild, undef>>

\* The count is unsigned: behind SCULL_DATA_SIZE the difference wraps around.
ToDataSize(pos, count) == IF pos + count > DataSize THEN (DataSize - pos) % Word ELSE count

\* The item, its array and its quantum, as far as the allocations succeed.
Allocated(pos) ==
    LET n == Item(pos) IN
    UNION {IF Len(list) < n THEN {list}
           ELSE {list, [list EXCEPT ![n] = Array(@)], [list EXCEPT ![n] = Array(@) \cup {SPos(pos)}]} :
           list \in scull_follow(n)}

Ready(list, pos) == Len(list) >= Item(pos) /\ SPos(pos) \in list[Item(pos)]

\* A wrapped count reaches beyond the user's part of the address space.
InUserSpace(n) == n <= Quantum

\* copy_from_user clears what it could not copy: a copy that fails half way has
\* overwritten the list head as a successful one has, and one whose count is not
\* InUserSpace clears on until it runs out of memory.
scull_write(p) ==
    LET v == vfs[p]
        n == ToDataSize(v.pos, InQuantum(v.pos, v.count))
        end == v.pos + n
    IN
    /\ undef = "no" /\ v.op = "write"
    /\ IF wild THEN Undefined
       ELSE \E list \in Allocated(v.pos) :
              /\ items' = list /\ heap' = heap \cup (Objects(list) \ Objects(items))
              /\ \/ /\ ~Ready(list, v.pos)                               \* -ENOMEM
                    /\ Return(p, v.pos) /\ UNCHANGED <<dsize, wild, undef>>
                 \/ /\ Ready(list, v.pos) /\ InUserSpace(n)
                    /\ wild' = (n > 0)
                    /\ \/ Return(p, end) /\ dsize' = IF dsize < end THEN end ELSE dsize
                       \/ n > 0 /\ Return(p, v.pos) /\ UNCHANGED dsize   \* -EFAULT
                    /\ UNCHANGED undef
                 \/ /\ Ready(list, v.pos) /\ ~InUserSpace(n)
                    /\ wild' = TRUE /\ undef' = "cleared"
                    /\ UNCHANGED <<dsize, fpos, vfs>>

NotNegative_unchecked(newpos) == TRUE

NotNegative(newpos) == newpos >= 0

\* No lock: the size may change between this read and the next call.
scull_llseek(off, whence) ==
    LET newpos == CASE whence = "SET" -> off [] whence = "CUR" -> fpos + off [] whence = "END" -> dsize + off IN
    /\ undef = "no"
    /\ NotNegative(newpos) /\ newpos <= MaxPos
    /\ fpos' = newpos
    /\ UNCHANGED <<items, dsize, vfs, heap, wild, undef>>

ScullInit ==
    /\ items = <<>> /\ dsize = 0 /\ fpos = 0 /\ heap = {}
    /\ vfs = [p \in ScullProcs |-> NoIO]
    /\ wild = FALSE /\ undef = "no"

ScullNext ==
    \/ \E w \in BOOLEAN : scull_open(w)
    \/ \E p \in ScullProcs :
          \/ \E op \in {"read", "write"}, n \in 0..(Quantum + 1) : Call(p, op, n)
          \/ Interrupted(p) \/ scull_read(p) \/ scull_write(p)
    \/ \E off \in -1..MaxPos, whence \in {"SET", "CUR", "END"} : scull_llseek(off, whence)

ScullSpec == ScullInit /\ [][ScullNext]_scullVars
-----------------------------------------------------------------------------
ScullTypeOK ==
    /\ \A i \in DOMAIN items : items[i] = NoArray \/ items[i] \subseteq 0..(QSet - 1)
    /\ dsize \in Nat /\ fpos \in Nat /\ heap \subseteq {"item", "array", "quantum"} \X Nat \X (0..(QSet - 1))
    /\ wild \in BOOLEAN /\ undef \in {"no", "followed", "cleared"}

\* Whatever allocation fails half way, every object the device has taken from
\* kmalloc is on its list and every object on the list is alive, so that
\* emptying it frees everything, once: as long as no write has reached
\* copy_from_user, which overwrites the list whether it succeeds or fails.
NothingLeaks == ~wild => heap = Objects(items)

\* The size never exceeds SCULL_DATA_SIZE, wherever the position is moved to
\* before a write: the count of a write beyond it wraps around, and that write
\* does not get as far as the size.
SizeWithinData == dsize <= DataSize

\* scull.h: the device "is a variable-length region of memory", "each pointer
\* refers to a memory area of SCULL_QUANTUM bytes".  A write leaves the list
\* that leads to those areas alone.
ListSurvivesWrites == undef # "followed"
=============================================================================
