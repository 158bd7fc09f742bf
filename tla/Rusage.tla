------------------------------- MODULE Rusage -------------------------------
(***************************************************************************)
(* getrusage and times (src/5/kernel/sys.c) of a process whose threads     *)
(* count, exit and reap children meanwhile.  One counter stands for the    *)
(* times, context switches, faults and blocks, which are treated alike.    *)
(* The sums are taken thread by thread under siglock; threads count        *)
(* without it.                                                             *)
(***************************************************************************)
EXTENDS Integers, FiniteSets

CONSTANTS Threads,     \* threads of the process
          MaxCount     \* bound on what a thread counts

ASSUME RusageAssumption == MaxCount \in Nat /\ IsFiniteSet(Threads)

VARIABLES counter,   \* of each thread
          alive,     \* threads on the list of the process
          siglock,   \* held by the sample or free
          dead,      \* signal->nvcsw, ...: what exited threads have counted
          children,  \* signal->cnvcsw, ...: what reaped children have counted
          sample     \* the call in progress

rusageVars == <<counter, alive, siglock, dead, children, sample>>

NoSample == [at |-> "none", who |-> "RUSAGE_SELF", sum |-> 0, todo |-> {}, low |-> 0]

\* For every set of threads the sum of their counters.
Sums == LET f[S \in SUBSET Threads] ==
              IF S = {} THEN 0 ELSE LET t == CHOOSE t \in S : TRUE IN counter[t] + f[S \ {t}]
        IN f

SumOver(S) == Sums[S]

\* What the process has used, all threads and exited threads included.
Used(who) == (IF who = "RUSAGE_CHILDREN" THEN 0 ELSE dead + SumOver(alive))
             + (IF who \in {"RUSAGE_CHILDREN", "RUSAGE_BOTH"} THEN children ELSE 0)

\* k_getrusage takes siglock and starts with the sums kept in the signal struct.
\* do_sys_times takes it for the same two sums.
k_getrusage_unlocked(who) ==
    /\ sample.at = "none"
    /\ sample' = [at |-> "walk", who |-> who, low |-> Used(who),
                  sum |-> (IF who = "RUSAGE_SELF" THEN 0 ELSE children)
                          + (IF who = "RUSAGE_CHILDREN" THEN 0 ELSE dead),
                  todo |-> IF who = "RUSAGE_CHILDREN" THEN {} ELSE alive]
    /\ UNCHANGED <<counter, alive, dead, children, siglock>>

k_getrusage(who) ==
    /\ sample.at = "none" /\ ~siglock
    /\ siglock' = TRUE
    /\ sample' = [at |-> "walk", who |-> who, low |-> Used(who),
                  sum |-> (IF who = "RUSAGE_SELF" THEN 0 ELSE children)
                          + (IF who = "RUSAGE_CHILDREN" THEN 0 ELSE dead),
                  todo |-> IF who = "RUSAGE_CHILDREN" THEN {} ELSE alive]
    /\ UNCHANGED <<counter, alive, dead, children>>

accumulate_thread_rusage(t) ==
    /\ sample.at = "walk" /\ t \in sample.todo
    /\ sample' = [sample EXCEPT !.sum = @ + counter[t], !.todo = @ \ {t}]
    /\ UNCHANGED <<counter, alive, siglock, dead, children>>

SampleDone ==
    /\ sample.at = "walk" /\ sample.todo = {}
    /\ siglock' = FALSE
    /\ sample' = [sample EXCEPT !.at = "done"]
    /\ UNCHANGED <<counter, alive, dead, children>>

\* copy_to_user and return
getrusage_return ==
    /\ sample.at = "done" /\ sample' = NoSample
    /\ UNCHANGED <<counter, alive, siglock, dead, children>>

Count(t) ==
    /\ t \in alive /\ counter[t] < MaxCount
    /\ counter' = [counter EXCEPT ![t] = @ + 1]
    /\ UNCHANGED <<alive, siglock, dead, children, sample>>

\* __exit_signal: under siglock the counts move to the signal struct.
ExitThread(t) ==
    /\ t \in alive /\ alive # {t} /\ ~siglock
    /\ dead' = dead + counter[t]
    /\ alive' = alive \ {t} /\ counter' = [counter EXCEPT ![t] = 0]
    /\ UNCHANGED <<siglock, children, sample>>

\* wait(): the counts of a child are added in one step under siglock.
ReapChild(n) ==
    /\ ~siglock /\ children + n <= MaxCount
    /\ children' = children + n
    /\ UNCHANGED <<counter, alive, siglock, dead, sample>>

RusageInit ==
    /\ counter = [t \in Threads |-> 0] /\ alive = Threads
    /\ siglock = FALSE /\ dead = 0 /\ children = 0 /\ sample = NoSample

RusageNext ==
    \/ \E who \in {"RUSAGE_SELF", "RUSAGE_CHILDREN", "RUSAGE_BOTH"} : k_getrusage(who)
    \/ \E t \in Threads : accumulate_thread_rusage(t) \/ Count(t) \/ ExitThread(t)
    \/ SampleDone \/ getrusage_return
    \/ \E n \in 1..MaxCount : ReapChild(n)

RusageSpec == RusageInit /\ [][RusageNext]_rusageVars
-----------------------------------------------------------------------------
RusageTypeOK ==
    /\ counter \in [Threads -> 0..MaxCount] /\ alive \subseteq Threads
    /\ siglock \in BOOLEAN /\ dead \in Nat /\ children \in Nat
    /\ sample.todo \subseteq Threads /\ sample.sum \in Nat

\* A sample lies between what the process had used when it began and what it
\* has used when it ends: no thread that exits meanwhile is missed or counted
\* twice, and a reaped child is in it as a whole or not at all ("a sample
\* either gets all the additions of a given child after it's reaped, or none").
SampleBetweenBounds ==
    sample.at = "walk" /\ sample.todo = {} =>
        /\ sample.low <= sample.sum /\ sample.sum <= Used(sample.who)
        /\ sample.who = "RUSAGE_CHILDREN" => sample.sum = children
=============================================================================
