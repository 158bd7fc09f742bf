------------------------------- MODULE Timers -------------------------------
(***************************************************************************)
(* src/3/mytimer.c: a parent and two children compute Fibonacci numbers    *)
(* and print how long it took, from an interval timer that is started at   *)
(* 9.999999 seconds and a handler that adds 10 seconds whenever it runs    *)
(* out; and the loop of src/3/fibnocci.c.  Time is counted in units of     *)
(* which Nominal make the 10 seconds the handler adds; the timer is set    *)
(* one unit shorter.                                                       *)
(***************************************************************************)
EXTENDS Integers

CONSTANTS Kinds,     \* the interval timers: real, virtual, prof
          Nominal,   \* what a handler adds
          MaxFires   \* bound on the expirations of one timer in all processes

ASSUME TimersAssumption == Nominal \in Nat /\ Nominal > 1 /\ MaxFires \in Nat

VARIABLES tpc,       \* where each process is
          argc,      \* arguments of the program
          handlers,  \* the handlers in force: "default", "parent" (inherited) or "own"
          left,      \* time left on each timer; 0: not started
          due,       \* signals that are pending
          secs,      \* the seconds the handlers have added up
          fires,     \* how often each timer has run out
          lost,      \* how often that met a signal still pending
          sampled,   \* what getitimer returned, the time spent at that moment and how
                     \* far the seconds are off it
          shown,     \* what was printed, and the time spent when the timer was read
          forked     \* the children there are

timerVars == <<tpc, argc, handlers, left, due, secs, fires, lost, sampled, shown, forked>>

People == {"p", "c1", "c2"}
Children == {"c1", "c2"}
Full == Nominal - 1
NoShow == [printed |-> 0 - 1, spent |-> 0, raced |-> 0, late |-> 0]
-----------------------------------------------------------------------------
Alive(x) == tpc[x] \notin {"none", "done", "killed", "segv"}

\* A process may start its timers once it has installed its handlers.
HandlersFirst(x) == handlers[x] = "own"

\* Too few arguments: the program prints its usage.  The test misses that
\* three are needed.
usage ==
    /\ tpc["p"] = "start" /\ argc < 3
    /\ tpc' = [tpc EXCEPT !["p"] = "done"]
    /\ UNCHANGED <<argc, handlers, left, due, secs, fires, lost, sampled, shown, forked>>

signal(x) ==
    /\ tpc[x] = "start" /\ argc >= 3 /\ handlers[x] # "own"
    /\ handlers' = [handlers EXCEPT ![x] = "own"]
    /\ UNCHANGED <<tpc, argc, left, due, secs, fires, lost, sampled, shown, forked>>

\* The timers are started one after the other.
setitimer(x, k) ==
    /\ tpc[x] = "start" /\ argc >= 3 /\ HandlersFirst(x) /\ left[x][k] = 0
    /\ left' = [left EXCEPT ![x][k] = Full]
    /\ tpc' = IF \A j \in Kinds \ {k} : left[x][j] > 0
              THEN [tpc EXCEPT ![x] = IF x = "p" THEN "fork" ELSE "compute"] ELSE tpc
    /\ UNCHANGED <<argc, handlers, due, secs, fires, lost, sampled, shown, forked>>

\* A child inherits the handlers, not the timers, and has variables of its own
\* for the seconds.  A fork that fails is not noticed.
fork ==
    /\ tpc["p"] = "fork"
    /\ \E c \in Children, ok \in BOOLEAN :
          /\ tpc[c] = "none" /\ (c = "c2" => tpc["c1"] # "none")
          /\ handlers' = IF ok THEN [handlers EXCEPT ![c] = "parent"] ELSE handlers
          /\ forked' = IF ok THEN forked \cup {c} ELSE forked
          /\ tpc' = [tpc EXCEPT ![c] = IF ok THEN "start" ELSE "done",
                                !["p"] = IF c = "c2" THEN "compute" ELSE "fork"]
    /\ UNCHANGED <<argc, left, due, secs, fires, lost, sampled, shown>>

\* Time passes for a process; a timer that runs out starts again.  What passes
\* while the parent waits for its children is never printed.
Elapse(x, k) ==
    /\ Alive(x) /\ left[x][k] > 0 /\ tpc[x] # "wait"
    /\ IF left[x][k] > 1
       THEN left' = [left EXCEPT ![x][k] = @ - 1] /\ UNCHANGED <<due, fires, lost>>
       ELSE /\ fires["p"][k] + fires["c1"][k] + fires["c2"][k] < MaxFires
            /\ left' = [left EXCEPT ![x][k] = Full]
            /\ due' = due \cup {<<x, k>>} /\ fires' = [fires EXCEPT ![x][k] = @ + 1]
            /\ lost' = IF <<x, k>> \in due THEN [lost EXCEPT ![x][k] = @ + 1] ELSE lost
    /\ UNCHANGED <<tpc, argc, handlers, secs, sampled, shown, forked>>

\* The handler; without one the signal ends the process, and the parent's own
\* adds to the parent's variables.
sig_handler(x, k) ==
    /\ Alive(x) /\ <<x, k>> \in due
    /\ due' = due \ {<<x, k>>}
    /\ IF handlers[x] # "default"
       THEN /\ secs' = IF handlers[x] = "own" THEN [secs EXCEPT ![x][k] = @ + Nominal] ELSE secs
            /\ sampled' = IF tpc[x] = "read" /\ sampled[x].kind = k THEN [sampled EXCEPT ![x].raced = @ + 1] ELSE sampled
            /\ UNCHANGED tpc
       ELSE tpc' = [tpc EXCEPT ![x] = "killed"] /\ UNCHANGED <<secs, sampled>>
    /\ UNCHANGED <<argc, handlers, left, fires, lost, shown, forked>>

\* The parent's argument is the third.
compute(x) ==
    /\ tpc[x] = "compute"
    /\ tpc' = [tpc EXCEPT ![x] = IF x = "p" /\ argc = 3 THEN "segv" ELSE "print"]
    /\ UNCHANGED <<argc, handlers, left, due, secs, fires, lost, sampled, shown, forked>>

\* getitimer; a pending signal is delivered before the call returns.
getitimer(x, k) ==
    /\ tpc[x] = "print" /\ shown[x][k] = NoShow /\ <<x, k>> \notin due
    /\ sampled' = [sampled EXCEPT ![x] = [kind |-> k, left |-> left[x][k], raced |-> 0,
                                          spent |-> fires[x][k] * Full + Full - left[x][k],
                                          late |-> fires[x][k] - Nominal * lost[x][k]]]
    /\ tpc' = [tpc EXCEPT ![x] = "read"]
    /\ UNCHANGED <<argc, handlers, left, due, secs, fires, lost, shown, forked>>

Printed(added, remaining) == added + Full - remaining

\* printf: the seconds counted so far plus what is gone of the period.
print(x) ==
    LET s == sampled[x] IN
    /\ tpc[x] = "read"
    /\ shown' = [shown EXCEPT ![x][s.kind] = [printed |-> Printed(secs[x][s.kind], s.left), spent |-> s.spent,
                                              raced |-> s.raced, late |-> s.late]]
    /\ tpc' = [tpc EXCEPT ![x] = IF \A k \in Kinds \ {s.kind} : shown[x][k] # NoShow
                                 THEN (IF x = "p" THEN "wait" ELSE "done") ELSE "print"]
    /\ UNCHANGED <<argc, handlers, left, due, secs, fires, lost, sampled, forked>>

\* Two waitpid calls: for both children, or as many as there are.
Reaped == \A c \in forked : ~Alive(c)

waitpid ==
    /\ tpc["p"] = "wait" /\ (Reaped \/ forked = {})
    /\ tpc' = [tpc EXCEPT !["p"] = "done"]
    /\ UNCHANGED <<argc, handlers, left, due, secs, fires, lost, sampled, shown, forked>>

TimersInit ==
    /\ tpc = [x \in People |-> IF x = "p" THEN "start" ELSE "none"] /\ argc \in 2..4
    /\ handlers = [x \in People |-> "default"] /\ forked = {}
    /\ left = [x \in People |-> [k \in Kinds |-> 0]] /\ due = {}
    /\ secs = [x \in People |-> [k \in Kinds |-> 0]] /\ fires = secs /\ lost = secs
    /\ sampled = [x \in People |-> [kind |-> "none", left |-> 0, raced |-> 0, spent |-> 0, late |-> 0]]
    /\ shown = [x \in People |-> [k \in Kinds |-> NoShow]]

TimersNext ==
    \/ usage \/ fork \/ waitpid
    \/ \E x \in People :
          \/ signal(x) \/ compute(x) \/ print(x)
          \/ \E k \in Kinds : setitimer(x, k) \/ Elapse(x, k) \/ sig_handler(x, k) \/ getitimer(x, k)

TimersSpec == TimersInit /\ [][TimersNext]_timerVars
-----------------------------------------------------------------------------
TimersTypeOK ==
    /\ tpc \in [People -> {"none", "start", "fork", "compute", "print", "read", "wait", "done", "killed", "segv"}]
    /\ left \in [People -> [Kinds -> 0..Full]] /\ fires \in [People -> [Kinds -> 0..MaxFires]]
    /\ lost \in [People -> [Kinds -> 0..MaxFires]]
    /\ due \subseteq People \X Kinds /\ forked \subseteq Children

\* What a process prints is the time it spent when it read the timer, plus one
\* unit for every period that ran out (the timer is set a microsecond short of
\* the ten seconds the handler adds), plus a whole period for each time the timer
\* ran out between getitimer and the evaluation of the printf arguments, less one
\* for each time it ran out before the last signal had been handled.
PrintedTimeExplained ==
    \A x \in {"p"} \cup forked, k \in Kinds :
       LET s == shown[x][k] IN
       s # NoShow => s.printed = s.spent + s.late + Nominal * s.raced

\* No process is ended by one of its own timers: handlers come first.
NoneKilledByTimer == \A x \in People : tpc[x] # "killed"

\* The parent that ends normally leaves no child behind.
NoOrphans == tpc["p"] = "done" => \A c \in forked : ~Alive(c)
=============================================================================
