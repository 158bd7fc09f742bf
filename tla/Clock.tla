------------------------------- MODULE Clock -------------------------------
(***************************************************************************)
(* src/3/clock.c and src/3/mygettimeofday.c: a child whose timer fires all *)
(* the time counts the signals it handles, carries them into seconds, and  *)
(* in mygettimeofday.c tells its parent about every second.  A second is   *)
(* PerSecond signals here: those of mygettimeofday.c are 100000 of a timer *)
(* of one microsecond, shorter than the seconds of a clock.                *)
(***************************************************************************)
EXTENDS Naturals, FiniteSets

CONSTANTS PerSecond,  \* handled signals that make a second (100000; 1000000 in clock.c)
          MaxTicks    \* bound on the expirations of the timer

ASSUME ClockAssumption == PerSecond \in Nat \ {0} /\ MaxTicks \in Nat

VARIABLES tells,      \* whether the program is mygettimeofday.c
          child, parentAt,   \* where the two processes are
          ticks,      \* expirations
          childSig, parentSig,  \* SIGALRM pending
          handled,    \* handler runs so far
          subsec, passed_sec,
          main_sec,
          began       \* where clock.c starts to count; 0 in mygettimeofday.c

clockVars == <<tells, child, parentAt, ticks, childSig, parentSig, handled, subsec, passed_sec, main_sec, began>>

\* The child starts its timer, then installs the handler, then sleeps for ever.
child_step ==
    /\ child \in {"fresh", "timer"}
    /\ child' = IF child = "fresh" THEN "timer" ELSE "loop"
    /\ UNCHANGED <<tells, parentAt, ticks, childSig, parentSig, handled, subsec, passed_sec, main_sec, began>>

\* The parent installs its handler after the fork.
parent_step ==
    /\ parentAt = "fresh" /\ parentAt' = "loop"
    /\ UNCHANGED <<tells, child, ticks, childSig, parentSig, handled, subsec, passed_sec, main_sec, began>>

\* A signal that is still pending swallows the next one.
ClockTick ==
    /\ child \in {"timer", "loop"} /\ ticks < MaxTicks
    /\ ticks' = ticks + 1 /\ childSig' = TRUE
    /\ UNCHANGED <<tells, child, parentAt, parentSig, handled, subsec, passed_sec, main_sec, began>>

\* The last tick of a second.
Carry(n) == n + 1 = PerSecond

\* The parent is told with kill(getppid(), SIGALRM).
handle ==
    /\ childSig /\ child \in {"timer", "loop"}
    /\ childSig' = FALSE
    /\ IF child = "timer"
       THEN child' = "killed" /\ UNCHANGED <<handled, subsec, passed_sec, parentSig>>
       ELSE /\ handled' = handled + 1
            /\ IF Carry(subsec)
               THEN /\ subsec' = 0 /\ passed_sec' = passed_sec + 1
                    /\ parentSig' = (parentSig \/ (tells /\ parentAt # "killed"))
               ELSE subsec' = subsec + 1 /\ UNCHANGED <<passed_sec, parentSig>>
            /\ UNCHANGED child
    /\ UNCHANGED <<tells, parentAt, ticks, main_sec, began>>

action_1s ==
    /\ parentSig /\ parentSig' = FALSE
    /\ IF parentAt = "fresh" THEN parentAt' = "killed" /\ UNCHANGED main_sec
       ELSE main_sec' = main_sec + 1 /\ UNCHANGED parentAt
    /\ UNCHANGED <<tells, child, ticks, childSig, handled, subsec, passed_sec, began>>

ClockInit ==
    /\ tells \in BOOLEAN /\ child = "fresh" /\ parentAt = "fresh" /\ ticks = 0
    /\ childSig = FALSE /\ parentSig = FALSE /\ handled = 0
    /\ began \in (IF tells THEN {0} ELSE 0..(PerSecond - 1)) /\ subsec = began /\ passed_sec = 0 /\ main_sec = 0

ClockNext == child_step \/ parent_step \/ ClockTick \/ handle \/ action_1s

ClockSpec == ClockInit /\ [][ClockNext]_clockVars
-----------------------------------------------------------------------------
ClockTypeOK ==
    /\ child \in {"fresh", "timer", "loop", "killed"} /\ parentAt \in {"fresh", "loop", "killed"}
    /\ subsec \in Nat /\ passed_sec \in Nat /\ main_sec \in Nat

\* The carried seconds and the rest account for every handled signal since the
\* start, and never for more signals than the timer has sent.
EveryTickCarried ==
    /\ passed_sec * PerSecond + subsec = began + handled /\ subsec < PerSecond
    /\ handled + (IF childSig THEN 1 ELSE 0) <= ticks

\* The parent never counts more seconds, of PerSecond signals each, than the child
\* has counted, although its own signals may be merged or lost.
ParentNeverAhead == main_sec + (IF parentSig THEN 1 ELSE 0) <= passed_sec
=============================================================================
