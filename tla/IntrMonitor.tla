---------------------------- MODULE IntrMonitor ----------------------------
(***************************************************************************)
(* src/3/inter_moniter.c: three interval timers, whose handlers read the   *)
(* number of interrupts from /proc/stat and print the difference to their  *)
(* last reading.  The handlers share procFile and cur_intr and may         *)
(* interrupt one another; the timers are started before the handlers are   *)
(* installed.  Counts are relative to main's first reading, which is taken *)
(* to have found its line.                                                 *)
(***************************************************************************)
EXTENDS Integers, Sequences, SequencesExt

CONSTANTS MaxIntr,    \* bound on the number of interrupts
          MaxShots    \* bound on the expirations of one timer

ASSUME MonAssumption == MaxIntr \in Nat

Alarms == {"real", "virt", "prof"}
AlarmOrder == <<"real", "virt", "prof">>    \* map_timer

VARIABLES main,       \* how far main has got: 1..3 timers, 4..6 handlers, 7 the loop
          intrs,      \* the interrupts counted by the kernel
          pendingSig, \* timer signals not yet delivered
          shots,      \* expirations so far
          frames,     \* the handlers on the stack, the running one last
          procFile,   \* the shared stream: "open" or "closed"
          cur_intr, old_intr,
          shownSum,   \* the differences each handler has printed, added up
          nested,     \* a handler has interrupted another
          ended       \* "no", "killed" by a signal, "exit" or "undefined"

monVars == <<main, intrs, pendingSig, shots, frames, procFile, cur_intr, old_intr, shownSum, nested, ended>>

\* main installs handler i after it has started all timers.
Installed(k) == \E i \in 1..3 : AlarmOrder[i] = k /\ main > 3 + i

Started(k) == \E i \in 1..3 : AlarmOrder[i] = k /\ main > i

\* The next statement of main, when no handler is running.
main_step ==
    /\ ended = "no" /\ frames = <<>> /\ main < 7
    /\ main' = main + 1
    /\ UNCHANGED <<intrs, pendingSig, shots, frames, procFile, cur_intr, old_intr, shownSum, nested, ended>>

Interrupt ==
    /\ ended = "no" /\ intrs < MaxIntr /\ intrs' = intrs + 1
    /\ UNCHANGED <<main, pendingSig, shots, frames, procFile, cur_intr, old_intr, shownSum, nested, ended>>

Expire(k) ==
    /\ ended = "no" /\ Started(k) /\ shots[k] < MaxShots /\ k \notin pendingSig
    /\ shots' = [shots EXCEPT ![k] = @ + 1] /\ pendingSig' = pendingSig \cup {k}
    /\ UNCHANGED <<main, intrs, frames, procFile, cur_intr, old_intr, shownSum, nested, ended>>

\* A signal is blocked while its own handler runs; without a handler it ends
\* the process.
Deliver(k) ==
    /\ ended = "no" /\ k \in pendingSig /\ \A i \in DOMAIN frames : frames[i].sig # k
    /\ pendingSig' = pendingSig \ {k}
    /\ IF Installed(k)
       THEN /\ frames' = Append(frames, [sig |-> k, at |-> "open", value |-> 0])
            /\ nested' = (nested \/ frames # <<>>)
            /\ UNCHANGED ended
       ELSE ended' = "killed" /\ UNCHANGED <<frames, nested>>
    /\ UNCHANGED <<main, intrs, shots, procFile, cur_intr, old_intr, shownSum>>

Top == frames[Len(frames)]
At(step) == ended = "no" /\ frames # <<>> /\ Top.at = step
Goto(step) == frames' = [frames EXCEPT ![Len(frames)].at = step]

\* read_intr opens the file again for every reading, or ends the program.
read_intr_open ==
    /\ At("open")
    /\ \/ procFile' = "open" /\ Goto("read") /\ UNCHANGED ended
       \/ ended' = "exit" /\ UNCHANGED <<procFile, frames>>
    /\ UNCHANGED <<main, intrs, pendingSig, shots, cur_intr, old_intr, shownSum, nested>>

NotFound == -1

\* The lines are read up to "intr", and the stream, whichever it is by then, is
\* closed; without such a line it stays open.
read_intr ==
    /\ At("read")
    /\ IF procFile = "open"
       THEN \E v \in {intrs, NotFound} :
               /\ frames' = [frames EXCEPT ![Len(frames)] = [@ EXCEPT !.at = "assign", !.value = v]]
               /\ procFile' = (IF v = NotFound THEN procFile ELSE "closed")
               /\ UNCHANGED ended
       ELSE ended' = "undefined" /\ UNCHANGED <<frames, procFile>>
    /\ UNCHANGED <<main, intrs, pendingSig, shots, cur_intr, old_intr, shownSum, nested>>

sigh_assign ==
    /\ At("assign") /\ cur_intr' = Top.value /\ Goto("print")
    /\ UNCHANGED <<main, intrs, pendingSig, shots, procFile, old_intr, shownSum, nested, ended>>

\* The shared cur_intr is tested, and then printed.
sigh_fail ==
    /\ At("print") /\ cur_intr = NotFound /\ ended' = "exit"
    /\ UNCHANGED <<main, intrs, pendingSig, shots, frames, procFile, cur_intr, old_intr, shownSum, nested>>

sigh_print ==
    /\ At("print") /\ cur_intr # NotFound
    /\ shownSum' = [shownSum EXCEPT ![Top.sig] = @ + cur_intr - old_intr[Top.sig]]
    /\ Goto("save")
    /\ UNCHANGED <<main, intrs, pendingSig, shots, procFile, cur_intr, old_intr, nested, ended>>

SavedFor_shared(k) == "real"

\* Each handler has an old value of its own.
SavedFor(k) == k

sigh_save ==
    /\ At("save")
    /\ old_intr' = [old_intr EXCEPT ![SavedFor(Top.sig)] = cur_intr]
    /\ frames' = Front(frames)
    /\ UNCHANGED <<main, intrs, pendingSig, shots, procFile, cur_intr, shownSum, nested, ended>>

\* SIGINT, whose handler is installed before everything else.
clean ==
    /\ ended = "no" /\ ended' = "exit"
    /\ UNCHANGED <<main, intrs, pendingSig, shots, frames, procFile, cur_intr, old_intr, shownSum, nested>>

MonInit ==
    /\ main = 1 /\ intrs = 0 /\ pendingSig = {} /\ shots = [k \in Alarms |-> 0] /\ frames = <<>>
    /\ procFile = "closed" /\ cur_intr = 0 /\ old_intr = [k \in Alarms |-> 0]
    /\ shownSum = [k \in Alarms |-> 0] /\ nested = FALSE /\ ended = "no"

MonNext ==
    \/ main_step \/ Interrupt \/ clean
    \/ \E k \in Alarms : Expire(k) \/ Deliver(k)
    \/ read_intr_open \/ read_intr \/ sigh_assign \/ sigh_fail \/ sigh_print \/ sigh_save

MonSpec == MonInit /\ [][MonNext]_monVars
-----------------------------------------------------------------------------
MonTypeOK ==
    /\ main \in 1..7 /\ intrs \in 0..MaxIntr /\ pendingSig \subseteq Alarms
    /\ Len(frames) <= 3 /\ procFile \in {"open", "closed"}
    /\ ended \in {"no", "killed", "exit", "undefined"}

\* As long as no handler interrupts another (the FIXME asks whether they may run
\* concurrently), no handler reads a closed stream, and the differences a
\* handler prints add up to what has been counted by its last reading.
OnlyNestingBreaks ==
    ~nested => /\ ended # "undefined"
               /\ frames = <<>> => \A k \in Alarms : shownSum[k] = old_intr[k] /\ old_intr[k] <= intrs

\* A timer signal ends the program only between the first setitimer and the
\* last signal().
KilledOnlyBeforeHandlers == ended = "killed" => main \in 2..6
=============================================================================
