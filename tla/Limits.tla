------------------------------- MODULE Limits -------------------------------
(***************************************************************************)
(* getrlimit and setrlimit (src/5/kernel/sys.c) by the threads of one      *)
(* process.  setrlimit reads the old hard limit without the lock, stores   *)
(* both new limits under it, and sets the processor-time timer after it.   *)
(***************************************************************************)
EXTENDS Integers

CONSTANTS LimThreads,   \* threads of the process
          LimCapable,   \* those with CAP_SYS_RESOURCE
          Infinity,     \* RLIM_INFINITY, the largest value
          NrOpen,       \* sysctl_nr_open
          OldMax        \* 0x7FFFFFFF, the largest value the old call can return

ASSUME LimitsAssumption ==
    /\ Infinity \in Nat \ {0} /\ NrOpen \in 0..Infinity /\ OldMax \in 0..Infinity
    /\ LimCapable \subseteq LimThreads

VARIABLES rlim,      \* signal->rlim
          limCall,   \* the setrlimit each thread is in
          cpuTimer,  \* processor time at which update_rlimit_cpu set the timer
          limRaced,  \* two calls for RLIMIT_CPU have overlapped
          ceiling    \* the highest hard limit a privileged thread has set

limVars == <<rlim, limCall, cpuTimer, limRaced, ceiling>>

Resources == {"RLIMIT_CPU", "RLIMIT_NOFILE"}
Limit == [cur : 0..Infinity, max : 0..Infinity]
NoCall == [at |-> "none", res |-> "RLIMIT_CPU", new |-> [cur |-> 0, max |-> 0]]

getrlimit(r) == rlim[r]

AtMost(x, y) == IF x > y THEN y ELSE x

\* The old call cuts both values to what fits.
old_getrlimit(r) == [cur |-> AtMost(rlim[r].cur, OldMax), max |-> AtMost(rlim[r].max, OldMax)]

\* The hard limit is not raised, or by a thread that may.
MayRaise(t, r, max) == max <= rlim[r].max \/ t \in LimCapable

\* The checks; zero means "never set" for RLIMIT_CPU and becomes one second.
setrlimit(t, r, new) ==
    /\ limCall[t].at = "none"
    /\ new.cur <= new.max
    /\ MayRaise(t, r, new.max)
    /\ r = "RLIMIT_NOFILE" => new.max <= NrOpen
    /\ limCall' = [limCall EXCEPT ![t] =
                     [at |-> "store", res |-> r,
                      new |-> IF r = "RLIMIT_CPU" /\ new.cur = 0
                              THEN [new EXCEPT !.cur = 1] ELSE new]]
    /\ UNCHANGED <<rlim, cpuTimer, limRaced, ceiling>>

StoreLimit(t) ==
    LET c == limCall[t] IN
    /\ c.at = "store"
    /\ rlim' = [rlim EXCEPT ![c.res] = c.new]
    /\ ceiling' = IF t \in LimCapable /\ c.new.max > ceiling[c.res]
                  THEN [ceiling EXCEPT ![c.res] = c.new.max] ELSE ceiling
    /\ limRaced' = (limRaced \/ (c.res = "RLIMIT_CPU" /\
                      \E s \in LimThreads \ {t} : limCall[s].at # "none" /\ limCall[s].res = c.res))
    /\ limCall' = [limCall EXCEPT ![t] =
                     IF c.res = "RLIMIT_CPU" /\ c.new.cur # Infinity
                     THEN [c EXCEPT !.at = "timer"] ELSE NoCall]
    /\ UNCHANGED cpuTimer

update_rlimit_cpu_skipped(t) ==
    /\ limCall[t].at = "timer"
    /\ cpuTimer' = IF cpuTimer = 0 THEN limCall[t].new.cur ELSE cpuTimer
    /\ limCall' = [limCall EXCEPT ![t] = NoCall]
    /\ UNCHANGED <<rlim, limRaced, ceiling>>

update_rlimit_cpu(t) ==
    /\ limCall[t].at = "timer"
    /\ cpuTimer' = limCall[t].new.cur
    /\ limCall' = [limCall EXCEPT ![t] = NoCall]
    /\ UNCHANGED <<rlim, limRaced, ceiling>>

LimInit ==
    /\ rlim = [r \in Resources |-> IF r = "RLIMIT_CPU" THEN [cur |-> Infinity, max |-> Infinity]
                                   ELSE [cur |-> 0, max |-> NrOpen \div 2]]
    /\ limCall = [t \in LimThreads |-> NoCall]
    /\ cpuTimer = 0 /\ limRaced = FALSE
    /\ ceiling = [r \in Resources |-> rlim[r].max]

LimNext ==
    \E t \in LimThreads :
       \/ \E r \in Resources, new \in Limit : setrlimit(t, r, new)
       \/ StoreLimit(t) \/ update_rlimit_cpu(t)

LimSpec == LimInit /\ [][LimNext]_limVars
-----------------------------------------------------------------------------
LimTypeOK ==
    /\ rlim \in [Resources -> Limit] /\ ceiling \in [Resources -> 0..Infinity]
    /\ \A t \in LimThreads : limCall[t].at \in {"none", "store", "timer"} /\ limCall[t].new \in Limit
    /\ cpuTimer \in 0..Infinity /\ limRaced \in BOOLEAN

\* Both views of the limits keep the soft limit within the hard one; the one
\* exception is a processor-time limit of zero, which setrlimit turns into a
\* soft limit of one second after it has made this check.
SoftWithinHard ==
    \A r \in Resources :
       \/ getrlimit(r).cur <= getrlimit(r).max /\ old_getrlimit(r).cur <= old_getrlimit(r).max
       \/ r = "RLIMIT_CPU" /\ rlim[r] = [cur |-> 1, max |-> 0]

\* Although the hard limit is read without the lock, and may have been lowered
\* before the new one is stored, threads without CAP_SYS_RESOURCE never take
\* it above the highest value a privileged one has set.
NeverAboveCeiling == \A r \in Resources : rlim[r].max <= ceiling[r]

\* Once every call has returned, the timer is set for the limit in force,
\* unless two calls for RLIMIT_CPU overlapped.
TimerMatchesLimit ==
    (\A t \in LimThreads : limCall[t].at = "none") /\ ~limRaced
        => rlim["RLIMIT_CPU"].cur \in {Infinity, cpuTimer}
=============================================================================
