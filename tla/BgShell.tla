------------------------------ MODULE BgShell ------------------------------
(***************************************************************************)
(* src/2/myshell_koders.c: a shell with setenv, printenv, unsetenv, cd,    *)
(* exit and background commands, which it keeps in a table until it has    *)
(* waited for them.  setenv hands putenv one buffer, always the same, so   *)
(* the environment of the process points into it.                          *)
(***************************************************************************)
EXTENDS Integers, Sequences, FiniteSets

CONSTANTS Pids,      \* process numbers
          Slots,     \* the table has 128
          VarNames,  \* names of variables; "MYSH_DEBUG" among them
          Commands,  \* texts of background commands
          MaxLines   \* bound on the lines read

ASSUME BgShellAssumption ==
    {"A", "B", "MYSH_DEBUG"} \subseteq VarNames /\ "0" \notin Pids /\ Slots \subseteq Nat /\ MaxLines \in Nat

VARIABLES kpc,       \* "prompt", "wait", "reap", "exit" or "crash"
          nlines,    \* lines read
          environ,   \* the environment: strings, or the pointer to temp
          temp,      \* what the buffer of setenv holds
          cwd,
          kids,      \* the children: [st, cmd]
          fg,        \* the command in the foreground
          bgPids, bgCmds,   \* the table
          unlisted,  \* children for which it had no room
          said,      \* the last child announced, under which command, and its own
          given,     \* the value each variable was given last
          setNames   \* the variables set by setenv so far

bgVars == <<kpc, nlines, environ, temp, cwd, kids, fg, bgPids, bgCmds, unlisted, said, given, setNames>>

NULL == "(null)"
NobodySaid == [pid |-> "0", named |-> NULL, own |-> NULL]
Var(n, v) == [name |-> n, value |-> v]
TempPointer == Var("&temp", NULL)
-----------------------------------------------------------------------------
(* The environment *)

Entry(e, t) == IF e = TempPointer THEN t ELSE e

\* getenv finds the first entry of that name.
getenv(env, t, n) ==
    LET found == {i \in DOMAIN env : Entry(env[i], t).name = n}
    IN IF found = {} THEN NULL ELSE Entry(env[CHOOSE i \in found : \A j \in found : i <= j], t).value

\* putenv replaces the first entry of that name by the pointer it is given, and
\* takes it in if there is none.
putenv(env, t) ==
    LET found == {i \in DOMAIN env : Entry(env[i], t).name = t.name}
    IN IF found = {} THEN Append(env, TempPointer)
       ELSE [env EXCEPT ![CHOOSE i \in found : \A j \in found : i <= j] = TempPointer]

\* unsetenv keeps the entries of other names.
unsetenv(env, t, n) ==
    LET kept[i \in 0..Len(env)] ==
            IF i = 0 THEN <<>> ELSE IF Entry(env[i], t).name = n THEN kept[i - 1] ELSE Append(kept[i - 1], env[i])
    IN kept[Len(env)]

\* A message is added to the file MYSH_DEBUG names; if that cannot be opened the
\* variable is dropped.
logger(env, t) == {env, unsetenv(env, t, "MYSH_DEBUG")}

\* The environment after a message, and what it means for the variables.
Log(env, t, now) ==
    \E e \in logger(env, t) :
       /\ environ' = e
       /\ given' = IF e = env THEN now ELSE [now EXCEPT !["MYSH_DEBUG"] = NULL]
-----------------------------------------------------------------------------
(* A line is read *)

\* A line of blanks, or the end of the input: there is no last argument to take
\* the newline from.  An empty line only brings the prompt again.
makeargv_empty ==
    /\ kpc = "prompt" /\ kpc' = "crash"
    /\ UNCHANGED <<nlines, environ, temp, cwd, kids, fg, bgPids, bgCmds, unlisted, said, given, setNames>>

Line == kpc = "prompt" /\ nlines < MaxLines /\ nlines' = nlines + 1

\* The command prints a usage message, or prints a variable.
printenv ==
    /\ Line /\ Log(environ, temp, given)
    /\ UNCHANGED <<kpc, temp, cwd, kids, fg, bgPids, bgCmds, unlisted, said, setNames>>

\* The buffer is overwritten before putenv sees it; a putenv that has to make
\* room may fail.
setenv(n, v) ==
    LET t == Var(n, v) IN
    /\ Line /\ temp' = t /\ setNames' = setNames \cup {n}
    /\ \/ Log(putenv(environ, t), t, [given EXCEPT ![n] = v])
       \/ getenv(environ, t, n) = NULL /\ Log(environ, t, given)
    /\ UNCHANGED <<kpc, cwd, kids, fg, bgPids, bgCmds, unlisted, said>>

unset(n) ==
    /\ Line /\ getenv(environ, temp, n) # NULL
    /\ Log(unsetenv(environ, temp, n), temp, [given EXCEPT ![n] = NULL])
    /\ UNCHANGED <<kpc, temp, cwd, kids, fg, bgPids, bgCmds, unlisted, said, setNames>>

cd(d) ==
    /\ Line /\ Log(environ, temp, given) /\ cwd' \in {cwd, d}
    /\ UNCHANGED <<kpc, temp, kids, fg, bgPids, bgCmds, unlisted, said, setNames>>

\* exit, a line with & alone, or a fork that fails.
leave ==
    /\ Line /\ Log(environ, temp, given) /\ kpc' = "exit"
    /\ UNCHANGED <<temp, cwd, kids, fg, bgPids, bgCmds, unlisted, said, setNames>>
-----------------------------------------------------------------------------
(* Commands *)

FreeSlots == {i \in Slots : bgPids[i] = "0"}
FirstOf(S) == CHOOSE i \in S : \A j \in S : i <= j
Entries(p) == {i \in Slots : bgPids[i] = p}

\* The first free slot; without one the command is forgotten.
addbgPid(p, c) ==
    IF FreeSlots = {} THEN unlisted' = unlisted \cup {p} /\ UNCHANGED <<bgPids, bgCmds>>
    ELSE /\ bgPids' = [bgPids EXCEPT ![FirstOf(FreeSlots)] = p]
         /\ bgCmds' = [bgCmds EXCEPT ![FirstOf(FreeSlots)] = c]
         /\ UNCHANGED unlisted

Fork(p, c) == kids[p].st = "none" /\ kids' = [kids EXCEPT ![p] = [st |-> "run", cmd |-> c]]

foreground(p) ==
    /\ Line /\ Log(environ, temp, given) /\ Fork(p, "fg") /\ fg' = p /\ kpc' = "wait"
    /\ UNCHANGED <<temp, cwd, bgPids, bgCmds, unlisted, said, setNames>>

background(p, c) ==
    /\ Line /\ Log(environ, temp, given) /\ Fork(p, c) /\ addbgPid(p, c) /\ kpc' = "reap"
    /\ UNCHANGED <<temp, cwd, fg, said, setNames>>

\* A child ends: its command is done, was not found, or was killed.
ChildEnds(p) ==
    /\ kids[p].st = "run" /\ kids' = [kids EXCEPT ![p].st = "zombie"]
    /\ UNCHANGED <<kpc, nlines, environ, temp, cwd, fg, bgPids, bgCmds, unlisted, said, given, setNames>>

waitpid_fg ==
    /\ kpc = "wait" /\ kids[fg].st = "zombie"
    /\ kids' = [kids EXCEPT ![fg] = [st |-> "none", cmd |-> NULL]] /\ fg' = "0" /\ kpc' = "reap"
    /\ UNCHANGED <<nlines, environ, temp, cwd, bgPids, bgCmds, unlisted, said, given, setNames>>

getbgCmd(p) == IF Entries(p) = {} THEN NULL ELSE bgCmds[FirstOf(Entries(p))]

deletebgPid_never(p) == bgPids

deletebgPid(p) == IF Entries(p) = {} THEN bgPids ELSE [bgPids EXCEPT ![FirstOf(Entries(p))] = "0"]

\* One round of the loop after every command: a child that has ended is
\* announced under the command the table has for it.
waitpid_any(p) ==
    /\ kpc = "reap" /\ kids[p].st = "zombie"
    /\ said' = [pid |-> p, named |-> getbgCmd(p), own |-> IF p \in unlisted THEN NULL ELSE kids[p].cmd]
    /\ kids' = [kids EXCEPT ![p] = [st |-> "none", cmd |-> NULL]]
    /\ bgPids' = deletebgPid(p) /\ unlisted' = unlisted \ {p}
    /\ Log(environ, temp, given)
    /\ UNCHANGED <<kpc, nlines, temp, cwd, fg, bgCmds, setNames>>

\* Nobody left who has ended.
prompt ==
    /\ kpc = "reap" /\ kpc' = "prompt" /\ \A p \in Pids : kids[p].st # "zombie"
    /\ UNCHANGED <<nlines, environ, temp, cwd, kids, fg, bgPids, bgCmds, unlisted, said, given, setNames>>

BgInit ==
    /\ kpc = "prompt" /\ nlines = 0 /\ cwd = "home" /\ temp = Var("", NULL)
    /\ environ \in {<<>>, <<Var("A", "old"), Var("B", "old")>>}
    /\ given = [n \in VarNames |-> getenv(environ, temp, n)] /\ setNames = {}
    /\ kids = [p \in Pids |-> [st |-> "none", cmd |-> NULL]] /\ fg = "0"
    /\ bgPids = [i \in Slots |-> "0"] /\ bgCmds = [i \in Slots |-> NULL]
    /\ unlisted = {} /\ said = NobodySaid

BgNext ==
    \/ makeargv_empty \/ printenv \/ leave \/ waitpid_fg \/ prompt \/ cd("other")
    \/ \E n \in VarNames : setenv(n, "new") \/ unset(n)
    \/ \E p \in Pids :
          \/ foreground(p) \/ ChildEnds(p) \/ waitpid_any(p)
          \/ \E c \in Commands : background(p, c)

BgSpec == BgInit /\ [][BgNext]_bgVars
-----------------------------------------------------------------------------
BgTypeOK ==
    /\ kpc \in {"prompt", "wait", "reap", "exit", "crash"} /\ nlines \in 0..MaxLines
    /\ \A i \in DOMAIN environ : environ[i] = TempPointer \/ environ[i].name \in VarNames
    /\ bgPids \in [Slots -> Pids \cup {"0"}] /\ unlisted \subseteq Pids

\* Every process in the table is a child in the background that the shell has
\* not waited for, and is in it once: a process number that is used again never
\* meets an old entry.  Every such child is in the table, under its own command,
\* unless the table was full at its start.
TableHoldsUnreaped ==
    /\ \A i \in Slots : bgPids[i] # "0" =>
          /\ kids[bgPids[i]].st # "none" /\ bgPids[i] # fg
          /\ Entries(bgPids[i]) = {i}
    /\ \A p \in Pids \ unlisted : kids[p].st # "none" /\ p # fg =>
          \E i \in Entries(p) : bgCmds[i] = kids[p].cmd

\* A child is announced under its own command, or under none when the table was
\* full at its start.
AnnouncedAsStarted == said.named = said.own

\* As long as one variable at most has been set, every variable has the value it
\* was given last.  A second name overwrites the buffer the environment points
\* to, and the first variable is lost or goes back to an older value.
EnvironmentRightForOneName ==
    Cardinality(setNames) <= 1 => \A n \in VarNames : getenv(environ, temp, n) = given[n]
=============================================================================
