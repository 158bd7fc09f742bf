------------------------------ MODULE MCLinux ------------------------------
(***************************************************************************)
(* The Linux sources of src/5/kernel for TLC: the system calls of sys.c    *)
(* and the page fault handler.  The components share no state, so a        *)
(* behaviour exercises one of them (the variable focus) and the state      *)
(* spaces add up instead of multiplying.                                   *)
(***************************************************************************)
EXTENDS UserIds, GroupIds, Sessions, Priority, Reboot, Limits, Utsname, Rusage, Prctl, PageFault

VARIABLE focus

\* Constants that a cfg cannot write down.
MCNiceMin == -1
MCUidOf == <<1, 1, 2>>
MCEuidOf == <<1, 2, 2>>
MCGroupOf == <<1, 2, 2>>
MCNiceRlim == <<-1, 1, 0>>

\* The accesses of the instance: user pages 0 (text), 1 (too far below the
\* stack), 2 (just below it), 3 (stack); kernel pages 4 (vmalloc) and 5.
Plain(addr, write, ctx) ==
    [addr |-> addr, write |-> write, ctx |-> ctx, inTable |-> ctx = "syscall", implicit |-> FALSE,
     rsvd |-> FALSE, probe |-> FALSE, code |-> <<"other">>]

MCAccesses ==
    {Plain(2, TRUE, "user"), Plain(0, FALSE, "user"), Plain(0, TRUE, "syscall"), Plain(0, FALSE, "mmap"),
     Plain(0, FALSE, "kthread"), Plain(4, TRUE, "atomic"), Plain(5, TRUE, "atomic"), Plain(5, FALSE, "mmap"),
     Plain(4, FALSE, "user"),
     [Plain(1, FALSE, "user") EXCEPT !.implicit = TRUE],
     [Plain(1, FALSE, "user") EXCEPT !.code = <<"prefix", "escape", "hint">>],
     [Plain(0, FALSE, "user") EXCEPT !.rsvd = TRUE],
     [Plain(0, FALSE, "kthread") EXCEPT !.probe = TRUE]}

\* Every component keeps its variables in their types, the priorities in their
\* range and the timer slack positive.
LinuxTypeOK ==
    /\ UserTypeOK /\ GroupTypeOK /\ SessTypeOK /\ PrioTypeOK /\ RebootTypeOK
    /\ LimTypeOK /\ UtsTypeOK /\ RusageTypeOK /\ PrctlTypeOK /\ FaultTypeOK

MCInit ==
    /\ focus \in {"user", "group", "sess", "prio", "reboot", "lim", "uts", "rusage", "prctl", "fault"}
    /\ IF focus = "user" THEN UserInit ELSE UserInit /\ ucred.uid = Root
    /\ IF focus = "group" THEN GroupInit ELSE GroupInit /\ gcap /\ gcred.gid = Root
    /\ SessInit /\ PrioInit /\ RebootInit /\ LimInit /\ UtsInit /\ RusageInit /\ PrctlInit
    /\ FaultInit /\ (focus # "fault" => \A c \in CPUs : accessing[c] = Plain(0, FALSE, "user"))

\* The components other than the one in focus stand still.
Rest ==
    /\ UNCHANGED focus
    /\ IF focus = "user" THEN TRUE ELSE UNCHANGED userVars
    /\ IF focus = "group" THEN TRUE ELSE UNCHANGED groupVars
    /\ IF focus = "sess" THEN TRUE ELSE UNCHANGED sessVars
    /\ IF focus = "prio" THEN TRUE ELSE UNCHANGED prioVars
    /\ IF focus = "reboot" THEN TRUE ELSE UNCHANGED rebootVars
    /\ IF focus = "lim" THEN TRUE ELSE UNCHANGED limVars
    /\ IF focus = "uts" THEN TRUE ELSE UNCHANGED utsVars
    /\ IF focus = "rusage" THEN TRUE ELSE UNCHANGED rusageVars
    /\ IF focus = "prctl" THEN TRUE ELSE UNCHANGED prctlVars
    /\ IF focus = "fault" THEN TRUE ELSE UNCHANGED faultVars

MCNext ==
    \/ focus = "user" /\ UserNext /\ Rest
    \/ focus = "group" /\ GroupNext /\ Rest
    \/ focus = "sess" /\ SessNext /\ Rest
    \/ focus = "prio" /\ PrioNext /\ Rest
    \/ focus = "reboot" /\ RebootNext /\ Rest
    \/ focus = "lim" /\ LimNext /\ Rest
    \/ focus = "uts" /\ UtsNext /\ Rest
    \/ focus = "rusage" /\ RusageNext /\ Rest
    \/ focus = "prctl" /\ PrctlNext /\ Rest
    \/ focus = "fault" /\ FaultNext /\ Rest

MCSpec == MCInit /\ [][MCNext]_<<focus, userVars, groupVars, sessVars, prioVars, rebootVars,
                                  limVars, utsVars, rusageVars, prctlVars, faultVars>>

\* Ids and privilege that were given up are gone for good: no sequence of set*uid and
\* set*gid calls brings back an id that the program had once lost the right to take,
\* nor root's capabilities without a root id.
PrivilegeDroppedForGood == GivenUpForGood /\ CapabilitiesNeedRoot /\ GroupsGivenUpForGood

\* Limits hold although both setrlimit and set_user compare first and store later:
\* they are exceeded, or their timer is wrong, only after calls that overlapped.
ResourceLimitsHold ==
    /\ ChargedToRealUser /\ LimitExceededOnlyByRace
    /\ SoftWithinHard /\ NeverAboveCeiling /\ TimerMatchesLimit

\* What was set last is what is read: names that sethostname and setdomainname
\* write in two steps, and the machine-check policy that prctl keeps in two flags.
WhatWasSetIsRead ==
    [][ReadsWholeNames /\ AlwaysTerminated' /\ McePolicyReadBack']_<<utsVars, prctlVars>>
=============================================================================
