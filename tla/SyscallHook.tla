---------------------------- MODULE SyscallHook ----------------------------
(***************************************************************************)
(* The module of src/5/syscall.c: it finds the system call table, saves    *)
(* the entry of one number and puts its own function there; unloading puts *)
(* the saved entry back.  Two modules built this way may be loaded, and    *)
(* programs make the call meanwhile.                                       *)
(***************************************************************************)
EXTENDS Naturals, Sequences, SequencesExt

CONSTANTS HookModules, HookCallers

ASSUME HookAssumption == HookModules \cap {"sys_ni_syscall", "none"} = {}

VARIABLES slot,     \* sys_call_table[__NR_mysyscall]
          saved,    \* anything_saved of each module
          stack,    \* the loaded modules, in the order they were loaded
          running,  \* the function each caller executes
          rash,     \* a module was unloaded during a call, or not in reverse order
          crashed   \* insmod followed a table that was not found

hookVars == <<slot, saved, stack, running, rash, crashed>>

Original == "sys_ni_syscall"
Nothing == "none"

\* The scan between two kernel variables finds the table, or returns NULL,
\* which init_addsyscall follows all the same.
find_sys_call_table == BOOLEAN

init_addsyscall(m) ==
    /\ ~crashed /\ ~Contains(stack, m)
    /\ \E found \in find_sys_call_table :
          IF found
          THEN /\ saved' = [saved EXCEPT ![m] = slot]
               /\ slot' = m
               /\ stack' = Append(stack, m)
               /\ UNCHANGED crashed
          ELSE crashed' = TRUE /\ UNCHANGED <<saved, slot, stack>>
    /\ UNCHANGED <<running, rash>>

Restored_original(m) == Original

Restored(m) == saved[m]

PlaceOf(m) == CHOOSE i \in DOMAIN stack : stack[i] = m

\* No use count keeps a module loaded while its function runs.
exit_addsyscall(m) ==
    /\ ~crashed /\ Contains(stack, m)
    /\ slot' = Restored(m)
    /\ stack' = RemoveAt(stack, PlaceOf(m))
    /\ rash' = (rash \/ Last(stack) # m \/ \E c \in HookCallers : running[c] = m)
    /\ saved' = [saved EXCEPT ![m] = Nothing]
    /\ UNCHANGED <<running, crashed>>

\* A program enters the function the table names, and leaves it.
syscall(c) ==
    /\ ~crashed /\ running[c] = Nothing
    /\ running' = [running EXCEPT ![c] = slot]
    /\ UNCHANGED <<slot, saved, stack, rash, crashed>>

sys_mysyscall(c) ==
    /\ ~crashed /\ running[c] # Nothing
    /\ running' = [running EXCEPT ![c] = Nothing]
    /\ UNCHANGED <<slot, saved, stack, rash, crashed>>

HookInit ==
    /\ slot = Original /\ saved = [m \in HookModules |-> Nothing] /\ stack = <<>>
    /\ running = [c \in HookCallers |-> Nothing] /\ rash = FALSE /\ crashed = FALSE

HookNext ==
    \/ \E m \in HookModules : init_addsyscall(m) \/ exit_addsyscall(m)
    \/ \E c \in HookCallers : syscall(c) \/ sys_mysyscall(c)

HookSpec == HookInit /\ [][HookNext]_hookVars
-----------------------------------------------------------------------------
HookTypeOK ==
    /\ slot \in HookModules \cup {Original} /\ saved \in [HookModules -> HookModules \cup {Original, Nothing}]
    /\ running \in [HookCallers -> HookModules \cup {Original, Nothing}] /\ rash \in BOOLEAN

\* As long as modules are unloaded in the reverse order of their loading, and
\* not during a call, the table names the module loaded last (or the original
\* function when none is) and every call runs code that is still loaded.
TableNamesLoadedCode ==
    ~rash => /\ slot = IF stack = <<>> THEN Original ELSE Last(stack)
             /\ \A c \in HookCallers : running[c] \in {Nothing, Original} \cup ToSet(stack)
=============================================================================
