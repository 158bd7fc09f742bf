------------------------------- MODULE Reboot -------------------------------
(***************************************************************************)
(* Stopping the machine (src/5/kernel/sys.c): the reboot system call,      *)
(* which holds reboot_mutex, against ctrl-alt-del (a work item) and        *)
(* orderly_poweroff, which hold nothing.  A shutdown is a sequence of      *)
(* stages and each stage is a step.                                        *)
(***************************************************************************)
EXTENDS Integers, Sequences

CONSTANTS RebootCallers,  \* privileged processes that call reboot()
          PmPowerOff,     \* pm_power_off is set: the machine can switch itself off
          Worker, Orderly,  \* the work item deferred_cad, the caller of orderly_poweroff
          Nobody

ASSUME RebootAssumption ==
    /\ PmPowerOff \in BOOLEAN
    /\ RebootCallers \cap {Worker, Orderly, Nobody} = {}
    /\ Worker # Orderly /\ Nobody \notin {Worker, Orderly}

VARIABLES reboot_mutex,  \* its holder
          C_A_D,         \* ctrl-alt-del restarts
          cad_work,      \* the work item is scheduled
          system_state,
          machine,       \* "on", or how it was stopped
          stages,        \* what each actor still has to do of its shutdown
          doing,         \* where each actor is
          happened,      \* stages that were reached by anybody
          argv           \* the argument vector of orderly_poweroff

rebootVars == <<reboot_mutex, C_A_D, cad_work, system_state, machine, stages, doing, happened, argv>>

RebootActors == RebootCallers \cup {Worker, Orderly}

kernel_restart_prepare == <<"notify", "SYSTEM_RESTART", "devices", "sysdev">>

kernel_shutdown_prepare(state) == <<"notify", state, "devices">>

kernel_restart == kernel_restart_prepare \o <<"restart">>

kernel_halt == kernel_shutdown_prepare("SYSTEM_HALT") \o <<"sysdev", "halt">>

kernel_power_off ==
    kernel_shutdown_prepare("SYSTEM_POWER_OFF") \o <<"pm_prepare", "cpus", "sysdev", "power_off">>

Stopped == [restart |-> "SYSTEM_RESTART", halt |-> "SYSTEM_HALT", power_off |-> "SYSTEM_POWER_OFF"]

Commands == {"RESTART", "RESTART2", "CAD_ON", "CAD_OFF", "HALT", "POWER_OFF", "OTHER"}

\* POWER_OFF becomes HALT on a machine that cannot switch itself off.
Command(cmd) == IF cmd = "POWER_OFF" /\ ~PmPowerOff THEN "HALT" ELSE cmd

\* reboot() with the checks passed and the mutex taken: the commands that do
\* not stop the machine, and a RESTART2 whose argument cannot be copied, end
\* at once.  A process that waits for the mutex has done nothing yet.
RebootReturns(c, cmd) ==
    /\ doing[c] = "idle" /\ reboot_mutex = Nobody
    /\ Command(cmd) \in {"CAD_ON", "CAD_OFF", "RESTART2", "OTHER"}
    /\ C_A_D' = (Command(cmd) = "CAD_ON" \/ (C_A_D /\ Command(cmd) # "CAD_OFF"))
    /\ UNCHANGED <<reboot_mutex, cad_work, system_state, machine, stages, doing, happened, argv>>

RebootStops(c, cmd) ==
    /\ doing[c] = "idle" /\ reboot_mutex = Nobody
    /\ Command(cmd) \in {"RESTART", "RESTART2", "HALT", "POWER_OFF"}
    /\ reboot_mutex' = c
    /\ doing' = [doing EXCEPT ![c] = "stopping"]
    /\ stages' = [stages EXCEPT ![c] = CASE Command(cmd) = "HALT" -> kernel_halt
                                         [] Command(cmd) = "POWER_OFF" -> kernel_power_off
                                         [] OTHER -> kernel_restart]
    /\ UNCHANGED <<C_A_D, cad_work, system_state, machine, happened, argv>>

\* One stage of a shutdown, by whoever is in one.
Stage(a) ==
    /\ doing[a] = "stopping" /\ Len(stages[a]) > 1
    /\ LET s == Head(stages[a]) IN
       /\ happened' = happened \cup {s}
       /\ system_state' = IF s \in {Stopped[w] : w \in DOMAIN Stopped} THEN s ELSE system_state
    /\ stages' = [stages EXCEPT ![a] = Tail(@)]
    /\ UNCHANGED <<reboot_mutex, C_A_D, cad_work, machine, doing, argv>>

\* The last stage stops the machine.
MachineStops(a) ==
    /\ doing[a] = "stopping" /\ Len(stages[a]) = 1
    /\ machine' = Head(stages[a])
    /\ UNCHANGED <<reboot_mutex, C_A_D, cad_work, system_state, stages, doing, happened, argv>>

DiesHolding_restartToo(s) == TRUE

\* do_exit(0) follows a halt and a power off, with the mutex held.
DiesHolding(s) == s \in {"halt", "power_off"}

\* The hardware does not stop and the last stage returns.
MachineFails(a) ==
    /\ doing[a] = "stopping" /\ Len(stages[a]) = 1
    /\ LET dies == a \in RebootCallers /\ DiesHolding(Head(stages[a])) IN
       /\ doing' = [doing EXCEPT ![a] = IF dies THEN "exited" ELSE "idle"]
       /\ reboot_mutex' = IF a \in RebootCallers /\ ~dies THEN Nobody ELSE reboot_mutex
       /\ happened' = happened \cup {"failed", Head(stages[a])}
    /\ stages' = [stages EXCEPT ![a] = <<>>]
    /\ UNCHANGED <<C_A_D, cad_work, system_state, machine, argv>>

\* The keyboard interrupt (with C_A_D off it only signals cad_pid).
ctrl_alt_del ==
    /\ C_A_D /\ cad_work' = TRUE
    /\ UNCHANGED <<reboot_mutex, C_A_D, system_state, machine, stages, doing, happened, argv>>

deferred_cad ==
    /\ cad_work /\ doing[Worker] = "idle"
    /\ cad_work' = FALSE
    /\ doing' = [doing EXCEPT ![Worker] = "stopping"]
    /\ stages' = [stages EXCEPT ![Worker] = kernel_restart]
    /\ happened' = happened \cup {"unlocked"}
    /\ UNCHANGED <<reboot_mutex, C_A_D, system_state, machine, argv>>

\* orderly_poweroff(force): argv_split, the helper's set-up and its start may
\* each fail; the set-up's failure frees argv here, the helper frees it otherwise.
orderly_split ==
    /\ doing[Orderly] = "idle" /\ argv = "none"
    /\ \E ok \in BOOLEAN :
         /\ argv' = IF ok THEN "held" ELSE "none"
         /\ doing' = [doing EXCEPT ![Orderly] = IF ok THEN "setup" ELSE "failed"]
    /\ UNCHANGED <<reboot_mutex, C_A_D, cad_work, system_state, machine, stages, happened>>

orderly_setup ==
    /\ doing[Orderly] = "setup"
    /\ \E ok \in BOOLEAN :
         /\ argv' = IF ok THEN "helper" ELSE "none"
         /\ doing' = [doing EXCEPT ![Orderly] = IF ok THEN "exec" ELSE "failed"]
    /\ UNCHANGED <<reboot_mutex, C_A_D, cad_work, system_state, machine, stages, happened>>

\* call_usermodehelper_exec releases the helper, and argv with it, even if it fails.
orderly_exec ==
    /\ doing[Orderly] = "exec"
    /\ argv' = "none"
    /\ \E ok \in BOOLEAN :
         doing' = [doing EXCEPT ![Orderly] = IF ok THEN "idle" ELSE "failed"]
    /\ UNCHANGED <<reboot_mutex, C_A_D, cad_work, system_state, machine, stages, happened>>

orderly_out(force) ==
    /\ doing[Orderly] = "failed"
    /\ doing' = [doing EXCEPT ![Orderly] = IF force THEN "stopping" ELSE "idle"]
    /\ stages' = [stages EXCEPT ![Orderly] = IF force THEN kernel_power_off ELSE <<>>]
    /\ happened' = IF force THEN happened \cup {"unlocked"} ELSE happened
    /\ UNCHANGED <<reboot_mutex, C_A_D, cad_work, system_state, machine, argv>>

RebootInit ==
    /\ reboot_mutex = Nobody /\ C_A_D = TRUE /\ cad_work = FALSE
    /\ system_state = "SYSTEM_RUNNING" /\ machine = "on"
    /\ stages = [a \in RebootActors |-> <<>>]
    /\ doing = [a \in RebootActors |-> "idle"]
    /\ happened = {} /\ argv = "none"

RebootNext ==
    /\ machine = "on"
    /\ \/ \E c \in RebootCallers, cmd \in Commands : RebootReturns(c, cmd) \/ RebootStops(c, cmd)
       \/ \E a \in RebootActors : Stage(a) \/ MachineStops(a) \/ MachineFails(a)
       \/ ctrl_alt_del \/ deferred_cad
       \/ orderly_split \/ orderly_setup \/ orderly_exec
       \/ \E force \in BOOLEAN : orderly_out(force)

RebootSpec == RebootInit /\ [][RebootNext]_rebootVars
-----------------------------------------------------------------------------
RebootTypeOK ==
    /\ reboot_mutex \in RebootCallers \cup {Nobody}
    /\ C_A_D \in BOOLEAN /\ cad_work \in BOOLEAN
    /\ machine \in {"on"} \cup DOMAIN Stopped
    /\ system_state \in {"SYSTEM_RUNNING"} \cup {Stopped[w] : w \in DOMAIN Stopped}
    /\ argv \in {"none", "held", "helper"}

\* A reboot() that stops the machine holds the mutex until it returns, so two
\* of them never run their stages at the same time.
RebootSerialised ==
    \A c \in RebootCallers : doing[c] \in {"stopping", "exited"} => reboot_mutex = c

\* However shutdowns overlap, the machine stops only after the notifiers ran
\* and devices and system devices were shut down, and switches off only after
\* the other processors were stopped.
StopsPrepared ==
    machine # "on" => /\ {"notify", "devices", "sysdev"} \subseteq happened
                      /\ machine = "power_off" => {"pm_prepare", "cpus"} \subseteq happened

\* The system stops in the way it announced, unless a shutdown without the
\* mutex (ctrl-alt-del, orderly_poweroff) took part.
StopsAsAnnounced ==
    machine # "on" /\ "unlocked" \notin happened => system_state = Stopped[machine]

\* The mutex stays with a process that is gone only after a halt or a power
\* off that did not stop the machine; a restart that fails gives it back.
MutexLostOnlyByFailedHalt ==
    \A c \in RebootCallers : doing[c] = "exited" => happened \cap {"halt", "power_off"} # {}

\* The argument vector is released on every path out of orderly_poweroff.
ArgvReleased == doing[Orderly] \in {"idle", "failed", "stopping"} => argv = "none"

\* However the three ways to stop the machine overlap and fail half way, it stops
\* prepared and as announced, and gives back what the attempt held.
ShutdownsOrderly ==
    /\ RebootSerialised /\ StopsPrepared /\ StopsAsAnnounced
    /\ MutexLostOnlyByFailedHalt /\ ArgvReleased
=============================================================================
