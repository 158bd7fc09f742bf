------------------------------ MODULE Priority ------------------------------
(***************************************************************************)
(* setpriority and getpriority (src/5/kernel/sys.c).  Both walk a set of   *)
(* tasks with the task list locked for reading, so several walks may       *)
(* overlap; a task is two steps of setpriority's walk, its checks and its  *)
(* change, and one of getpriority's.                                       *)
(***************************************************************************)
EXTENDS Integers, FiniteSets

CONSTANTS Tasks,               \* tasks, all of which exist
          PrioCallers,         \* those that make the calls
          NoTask,              \* an argument "who" that names nobody
          NiceMin, NiceMax,    \* -20 and 19
          UidOf, EuidOf, GroupOf,  \* ids of each task (no call here changes them)
          Nicer,               \* tasks with CAP_SYS_NICE
          NiceRlim             \* the lowest nice value RLIMIT_NICE allows each task

ASSUME PriorityAssumption ==
    /\ NiceMin \in Int /\ NiceMax \in Int /\ NiceMin <= 0 /\ 0 <= NiceMax
    /\ PrioCallers \subseteq Tasks /\ NoTask \notin Tasks
    /\ Nicer \subseteq Tasks /\ NiceRlim \in [Tasks -> NiceMin..NiceMax]

VARIABLES nice,   \* static priority of each task
          walk    \* the call each caller is in

prioVars == <<nice, walk>>

Errors == {"OK", "ESRCH", "EPERM", "EACCES"}
NoWalk == [call |-> "none", todo |-> {}, all |-> {}, passed |-> {}, set |-> {},
           niceval |-> 0, error |-> "OK", best |-> 0]

\* The tasks that (which, who) selects; who is one of them, the caller if it was 0.
Selected(which, who) ==
    IF who = NoTask THEN {} ELSE
    CASE which = "PRIO_PROCESS" -> {who}
      [] which = "PRIO_PGRP"    -> {p \in Tasks : GroupOf[p] = GroupOf[who]}
      [] which = "PRIO_USER"    -> {p \in Tasks : UidOf[p] = UidOf[who]}

ClampNice_off(n) == n

\* normalize: the value the walk sets
ClampNice(n) == IF n < NiceMin THEN NiceMin ELSE IF n > NiceMax THEN NiceMax ELSE n

setpriority(c, which, who, n) ==
    /\ walk[c].call = "none"
    /\ LET s == Selected(which, who) IN
       walk' = [walk EXCEPT ![c] = [NoWalk EXCEPT !.call = "set", !.todo = s, !.all = s,
                                      !.niceval = ClampNice(n), !.error = "ESRCH"]]
    /\ UNCHANGED nice

getpriority(c, which, who) ==
    /\ walk[c].call = "none"
    /\ walk' = [walk EXCEPT ![c] = [NoWalk EXCEPT !.call = "get", !.error = "ESRCH",
                                      !.todo = Selected(which, who)]]
    /\ UNCHANGED nice

\* can_nice(p, n), asked by c
can_nice(c, p, n) == c \in Nicer \/ n >= NiceRlim[p]

\* The checks of set_one_prio.
PrioError(c, p, n) ==
    IF ~(UidOf[p] = EuidOf[c] \/ EuidOf[p] = EuidOf[c] \/ c \in Nicer) THEN "EPERM"
    ELSE IF n < nice[p] /\ ~can_nice(c, p, n) THEN "EACCES" ELSE "OK"

set_one_prio_lastError(c, p) ==
    LET w == walk[c]  e == PrioError(c, p, w.niceval) IN
    /\ w.call = "set" /\ p \in w.todo /\ w.passed = {}
    /\ walk' = [walk EXCEPT ![c].todo = @ \ {p}, ![c].error = e,
                            ![c].passed = IF e = "OK" THEN {p} ELSE {}]
    /\ UNCHANGED nice

\* set_one_prio up to its checks' outcome: a success replaces ESRCH only, a
\* failure replaces anything.  "passed" holds the task that is to be set next.
set_one_prio(c, p) ==
    LET w == walk[c]  e == PrioError(c, p, w.niceval) IN
    /\ w.call = "set" /\ p \in w.todo /\ w.passed = {}
    /\ walk' = [walk EXCEPT ![c].todo = @ \ {p},
                            ![c].error = IF e # "OK" THEN e ELSE IF @ = "ESRCH" THEN "OK" ELSE @,
                            ![c].passed = IF e = "OK" THEN {p} ELSE {}]
    /\ UNCHANGED nice

\* set_one_prio's set_user_nice, which other callers' steps may have come before.
set_user_nice(c, p) ==
    /\ p \in walk[c].passed
    /\ nice' = [nice EXCEPT ![p] = walk[c].niceval]
    /\ walk' = [walk EXCEPT ![c].passed = {}, ![c].set = @ \cup {p}]

\* getpriority returns 20 - nice, that is 1..40 for 19..-20
Offset(n) == NiceMax + 1 - n

get_one_prio(c, p) ==
    /\ walk[c].call = "get" /\ p \in walk[c].todo
    /\ walk' = [walk EXCEPT ![c].todo = @ \ {p}, ![c].error = "OK",
                            ![c].best = IF @ > Offset(nice[p]) THEN @ ELSE Offset(nice[p])]
    /\ UNCHANGED nice

WalkOver(w) == w.todo = {} /\ w.passed = {}

PrioReturn(c) ==
    /\ walk[c].call # "none" /\ WalkOver(walk[c])
    /\ walk' = [walk EXCEPT ![c] = NoWalk]
    /\ UNCHANGED nice

PrioInit == nice = [p \in Tasks |-> 0] /\ walk = [c \in PrioCallers |-> NoWalk]

PrioNext ==
    \E c \in PrioCallers :
       \/ \E which \in {"PRIO_PROCESS", "PRIO_PGRP", "PRIO_USER"}, who \in Tasks \cup {NoTask} :
             \/ getpriority(c, which, who)
             \/ \E n \in NiceMin - 1 .. NiceMax + 1 : setpriority(c, which, who, n)
       \/ \E p \in Tasks : set_one_prio(c, p) \/ set_user_nice(c, p) \/ get_one_prio(c, p)
       \/ PrioReturn(c)

PrioSpec == PrioInit /\ [][PrioNext]_prioVars
-----------------------------------------------------------------------------
PrioTypeOK ==
    /\ nice \in [Tasks -> NiceMin..NiceMax]
    /\ \A c \in PrioCallers : walk[c].error \in Errors /\ walk[c].todo \cup walk[c].passed \subseteq Tasks

\* setpriority returns success exactly if it has set every task it selected,
\* and there was one: a refusal is not hidden by tasks set before or after it.
SuccessMeansAllSet ==
    \A c \in PrioCallers : walk[c].call = "set" /\ WalkOver(walk[c])
        => (walk[c].error = "OK" <=> walk[c].all # {} /\ walk[c].set = walk[c].all)

\* "To avoid negative return values" getpriority's result is offset: whatever
\* other walks change meanwhile, a task found gives 1..40, and nothing else.
GetpriorityPositive ==
    \A c \in PrioCallers : walk[c].call = "get" =>
        (walk[c].error = "OK" <=> walk[c].best \in 1 .. NiceMax - NiceMin + 1)

\* A task without CAP_SYS_NICE can be given a better priority than its
\* RLIMIT_NICE only by a privileged caller: in a system without one, no
\* overlap of walks takes any task below its limit or below where it began,
\* though the value that a check compared with may have changed by the store.
NeverBelowRlimit ==
    Nicer = {} => \A p \in Tasks : nice[p] >= NiceRlim[p] \/ nice[p] >= 0

\* Walks that overlap report truthfully what they did and respect the limits.
PriorityCallsRight == SuccessMeansAllSet /\ GetpriorityPositive /\ NeverBelowRlimit
=============================================================================
