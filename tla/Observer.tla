------------------------------ MODULE Observer ------------------------------
(***************************************************************************)
(* src/1/observer.c and its first version src/1/observer.v1.c: a part of   *)
(* the report is a series of files of /proc that are opened, read and      *)
(* closed; part d samples the load for a while.  A file is abstracted to   *)
(* whether it can be opened; of the lines, only the seconds the machine    *)
(* has been up matter.  A minute has Minute seconds and so on.             *)
(***************************************************************************)
EXTENDS Integers, Sequences, FiniteSets

CONSTANTS Minute, Hour, Day,   \* their lengths in seconds
          MaxUptime,           \* bound on the uptime
          MaxPeriod            \* bound on the arguments of -d

ASSUME ObserverAssumption ==
    /\ Minute \in Nat \ {0} /\ Hour \in Nat \ {0} /\ Day \in Nat \ {0}
    /\ Hour % Minute = 0 /\ Day % Hour = 0 /\ MaxUptime \in Nat /\ MaxPeriod \in Nat

VARIABLES version,     \* "observer" or "v1"
          option,      \* the part asked for
          period,      \* the arguments of -d
          fileAt,      \* the file at work
          phase,       \* "open", "read", "sample", "sleep" or "end"
          streams,     \* streams that are open
          failedOpen,  \* files that could not be opened
          iteration, seconds, samples,
          shownTime,   \* an uptime and how it was printed
          outcome      \* "none", "ok", "error", "usage" or "crash"

obsVars == <<version, option, period, fileAt, phase, streams, failedOpen, iteration, seconds, samples, shownTime, outcome>>

File(name, onFail, closed) == [name |-> name, onFail |-> onFail, closed |-> closed]

\* Part a: three of the files are opened without a check, and the first stream
\* is replaced without being closed.  The last is opened with freopen, which
\* closes the one before.
PartA == <<File("rtc", "crash", FALSE), File("hostname", "error", TRUE), File("cpuinfo", "error", TRUE),
           File("version", "crash", TRUE), File("version_signature", "crash", TRUE)>>

\* Part b: the memory, then sampleTime, which gives up without an error.
PartB == <<File("meminfo", "error", TRUE), File("uptime", "ok", TRUE)>>

PartC == <<File("stat", "error", TRUE)>>

Files == CASE option = "a" -> PartA [] option = "b" -> PartB [] option = "c" -> PartC [] OTHER -> <<>>

Finish(how) == outcome' = how /\ phase' = "end"

NextFile == IF fileAt < Len(Files) THEN fileAt' = fileAt + 1 /\ phase' = "open" /\ UNCHANGED outcome
            ELSE Finish("ok") /\ UNCHANGED fileAt

\* The option is the second character of the first argument; only observer.c
\* rejects an option that is a dash alone.  Part d needs both numbers.
obs_main ==
    /\ phase = "main"
    /\ CASE option = "bad" -> Finish("usage") /\ UNCHANGED fileAt
         [] option = "dash" -> Finish(IF version = "v1" THEN "ok" ELSE "usage") /\ UNCHANGED fileAt
         [] option = "d" /\ period = <<>> -> Finish("usage") /\ UNCHANGED fileAt
         [] option = "d" /\ period # <<>> -> phase' = "sample" /\ UNCHANGED <<fileAt, outcome>>
         [] option \in {"a", "b", "c"} -> fileAt' = 1 /\ phase' = "open" /\ UNCHANGED outcome
         [] OTHER -> Finish("ok") /\ UNCHANGED fileAt
    /\ UNCHANGED <<version, option, period, streams, failedOpen, iteration, seconds, samples, shownTime>>

obs_fopen ==
    LET f == Files[fileAt] IN
    /\ phase = "open"
    /\ \/ streams' = streams \cup {f.name} /\ phase' = "read" /\ UNCHANGED <<outcome, failedOpen>>
       \/ failedOpen' = failedOpen \cup {f.name} /\ Finish(f.onFail) /\ UNCHANGED streams
    /\ UNCHANGED <<version, option, period, fileAt, iteration, seconds, samples, shownTime>>

\* All lines are read.
obs_read ==
    LET f == Files[fileAt] IN
    /\ phase = "read" /\ f.name # "uptime"
    /\ streams' = IF f.closed THEN streams \ {f.name} ELSE streams
    /\ NextFile
    /\ UNCHANGED <<version, option, period, failedOpen, iteration, seconds, samples, shownTime>>

Hours(t) == (t % Day) \div Hour

\* The seconds as days, hours, minutes and seconds.
Breakdown(t) == [day |-> t \div Day, hour |-> Hours(t), minute |-> (t % Hour) \div Minute, second |-> t % Minute]

NoTime == [up |-> 0 - 1, idle |-> 0 - 1]

\* An empty file leaves the stream open.  observer.c divides by the uptime, when
\* all else is printed.
sampleTime ==
    /\ phase = "read" /\ Files[fileAt].name = "uptime"
    /\ \/ UNCHANGED <<streams, shownTime>> /\ Finish("ok")
       \/ \E up \in 0..MaxUptime, idle \in {0, MaxUptime} :
             /\ streams' = streams \ {"uptime"}
             /\ shownTime' = [up |-> up, idle |-> idle]
             /\ Finish(IF version = "observer" /\ up = 0 THEN "crash" ELSE "ok")
    /\ UNCHANGED <<version, option, period, fileAt, failedOpen, iteration, seconds, samples>>

\* One line of /proc/loadavg, or an error message; the time is noted either way.
sampleLoadAvg ==
    /\ phase = "sample" /\ phase' = "sleep"
    /\ samples' = Append(samples, seconds)
    /\ UNCHANGED <<version, option, period, fileAt, streams, failedOpen, iteration, seconds, shownTime, outcome>>

\* observer.c counts the first sample as an interval, observer.v1.c does not.
FirstIteration_zero == 0

FirstIteration == IF version = "observer" THEN period[1] ELSE 0

\* The end of one round of the loop and the test of the next.
obs_loop ==
    LET now == IF Len(samples) = 1 THEN FirstIteration ELSE iteration + period[1] IN
    /\ phase = "sleep" /\ Len(samples) <= 2 * MaxPeriod + 1 /\ iteration' = now
    /\ IF now < period[2] THEN seconds' = seconds + period[1] /\ phase' = "sample" /\ UNCHANGED outcome
       ELSE Finish("ok") /\ UNCHANGED seconds
    /\ UNCHANGED <<version, option, period, fileAt, streams, failedOpen, samples, shownTime>>

ObserverInit ==
    /\ version \in {"observer", "v1"} /\ option \in {"a", "b", "c", "d", "x", "dash", "bad"}
    /\ period \in {<<>>} \cup ((1..MaxPeriod) \X (0..MaxPeriod)) /\ (option # "d" => period = <<>>)
    /\ fileAt = 0 /\ phase = "main" /\ streams = {} /\ failedOpen = {}
    /\ iteration = 0 /\ seconds = 0 /\ samples = <<>> /\ shownTime = NoTime /\ outcome = "none"

ObserverNext == obs_main \/ obs_fopen \/ obs_read \/ sampleTime \/ sampleLoadAvg \/ obs_loop

ObserverSpec == ObserverInit /\ [][ObserverNext]_obsVars
-----------------------------------------------------------------------------
ObserverTypeOK ==
    /\ phase \in {"main", "open", "read", "sample", "sleep", "end"}
    /\ outcome \in {"none", "ok", "error", "usage", "crash"} /\ (phase = "end") = (outcome # "none")
    /\ fileAt \in 0..Len(Files) /\ shownTime.up \in (0 - 1)..MaxUptime

\* Whatever fails, a part ends with at most one stream left open, and only the
\* two whose fclose is missing on their path: the real-time clock's, and that
\* of an empty /proc/uptime.
StreamsClosedAtEnd ==
    phase = "end" /\ outcome # "crash" => /\ Cardinality(streams) <= 1
                                          /\ streams \subseteq {"rtc", "uptime"}

\* The days, hours, minutes and seconds that sampleTime prints for the uptime
\* and for the idle time add up to it, and none reaches the next larger unit.
BreakdownExact ==
    \A t \in {shownTime.up, shownTime.idle} \ {0 - 1} :
       LET b == Breakdown(t) IN
       /\ b.day * Day + b.hour * Hour + b.minute * Minute + b.second = t
       /\ b.hour * Hour < Day /\ b.minute * Minute < Hour /\ b.second < Minute

\* Part d of observer.c samples the load at 0 and at every multiple of the
\* interval below the duration; observer.v1.c takes one sample more, at or after
\* its end.
SamplesCoverDuration ==
    LET due == {k \in 0..(2 * MaxPeriod) : k % period[1] = 0 /\ (k = 0 \/ k - (IF version = "v1" THEN period[1] ELSE 0) < period[2])}
    IN phase = "end" /\ samples # <<>> => /\ {samples[i] : i \in DOMAIN samples} = due
                                          /\ Len(samples) = Cardinality(due)

\* A report samples when it should, prints times that add up, and leaves no
\* stream open that it could close.
ReportsRight == StreamsClosedAtEnd /\ BreakdownExact /\ SamplesCoverDuration
=============================================================================
