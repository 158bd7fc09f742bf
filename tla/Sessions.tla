------------------------------ MODULE Sessions ------------------------------
(***************************************************************************)
(* Process groups and sessions under setpgid and setsid                    *)
(* (src/5/kernel/sys.c), with the fork, exec, exit and terminal operations *)
(* that other parts of the kernel contribute.  Both calls run with the     *)
(* task list locked for writing, so each is one step; a call that fails    *)
(* changes nothing.  A process that exits is reaped at once.               *)
(***************************************************************************)
EXTENDS Integers

CONSTANTS Pids,    \* process ids; bounds the processes that exist at a time
          InitPid  \* the first process

ASSUME SessionsAssumption == InitPid \in Pids

VARIABLES live,      \* processes that exist
          parent,    \* real_parent
          pgrp,      \* task_pgrp
          session,   \* task_session
          leader,    \* signal->leader
          did_exec,  \* did_exec
          tty        \* processes with a controlling terminal, by session of the terminal

sessVars == <<live, parent, pgrp, session, leader, did_exec, tty>>

NoTty == InitPid   \* the first process never opens a terminal

\* A number is free when it names no process, no group and no session.
FreePid(c) == \A p \in live : c # p /\ c # pgrp[p] /\ c # session[p]

GroupInSession_any(pgid, cur) == \E g \in live : pgrp[g] = pgid

\* pid_task(pgrp, PIDTYPE_PGID) is there, and in the caller's session.
GroupInSession(pgid, cur) == \E g \in live : pgrp[g] = pgid /\ session[g] = session[cur]

\* setpgid(p, pgid) called by cur, the arguments 0 replaced by what they stand for.
setpgid(cur, p, pgid) ==
    /\ p \in live
    /\ \/ parent[p] = cur /\ p # cur /\ session[p] = session[cur] /\ ~did_exec[p]
       \/ p = cur
    /\ ~leader[p]
    /\ pgid # p => GroupInSession(pgid, cur)
    /\ pgrp' = [pgrp EXCEPT ![p] = pgid]
    /\ UNCHANGED <<live, parent, session, leader, did_exec, tty>>

proc_clear_tty(cur) == [tty EXCEPT ![cur] = NoTty]

setsid(cur) ==
    /\ ~leader[cur]
    /\ \A p \in live : pgrp[p] # cur
    /\ leader' = [leader EXCEPT ![cur] = TRUE]
    /\ session' = [session EXCEPT ![cur] = cur]
    /\ pgrp' = [pgrp EXCEPT ![cur] = cur]
    /\ tty' = proc_clear_tty(cur)
    /\ UNCHANGED <<live, parent, did_exec>>

\* What getpgid(pid) and getsid(pid) return to cur (0 stands for cur itself).
getpgid(cur, pid) == pgrp[IF pid = 0 THEN cur ELSE pid]
getsid(cur, pid) == session[IF pid = 0 THEN cur ELSE pid]

Fork(p, c) ==
    /\ FreePid(c)
    /\ live' = live \cup {c}
    /\ parent' = [parent EXCEPT ![c] = p]
    /\ pgrp' = [pgrp EXCEPT ![c] = pgrp[p]]
    /\ session' = [session EXCEPT ![c] = session[p]]
    /\ leader' = [leader EXCEPT ![c] = FALSE]
    /\ did_exec' = [did_exec EXCEPT ![c] = FALSE]
    /\ tty' = [tty EXCEPT ![c] = tty[p]]

ExecProgram(p) ==
    /\ ~did_exec[p]
    /\ did_exec' = [did_exec EXCEPT ![p] = TRUE]
    /\ UNCHANGED <<live, parent, pgrp, session, leader, tty>>

\* A session leader without a terminal opens one that is free.
OpenTty(p) ==
    /\ p # InitPid /\ leader[p] /\ tty[p] = NoTty
    /\ \A q \in live : tty[q] # p
    /\ tty' = [tty EXCEPT ![p] = session[p]]
    /\ UNCHANGED <<live, parent, pgrp, session, leader, did_exec>>

\* Children go to the first process; a session loses its terminal with its leader.
ExitProcess(p) ==
    /\ p # InitPid
    /\ live' = live \ {p}
    /\ parent' = [q \in Pids |-> IF q = p \/ parent[q] = p THEN InitPid ELSE parent[q]]
    /\ tty' = [q \in Pids |-> IF q = p \/ (leader[p] /\ session[q] = p) THEN NoTty ELSE tty[q]]
    /\ pgrp' = [pgrp EXCEPT ![p] = InitPid] /\ session' = [session EXCEPT ![p] = InitPid]
    /\ leader' = [leader EXCEPT ![p] = FALSE] /\ did_exec' = [did_exec EXCEPT ![p] = FALSE]

SessInit ==
    /\ live = {InitPid}
    /\ parent = [p \in Pids |-> InitPid]
    /\ pgrp = [p \in Pids |-> InitPid]
    /\ session = [p \in Pids |-> InitPid]
    /\ leader = [p \in Pids |-> p = InitPid]
    /\ did_exec = [p \in Pids |-> FALSE]
    /\ tty = [p \in Pids |-> NoTty]

SessNext ==
    \E cur \in live :
       \/ \E p, g \in Pids : setpgid(cur, p, g)
       \/ setsid(cur)
       \/ \E c \in Pids : Fork(cur, c)
       \/ ExecProgram(cur) \/ OpenTty(cur) \/ ExitProcess(cur)

SessSpec == SessInit /\ [][SessNext]_sessVars
-----------------------------------------------------------------------------
SessTypeOK ==
    /\ live \subseteq Pids /\ InitPid \in live
    /\ parent \in [Pids -> Pids] /\ pgrp \in [Pids -> Pids]
    /\ session \in [Pids -> Pids] /\ tty \in [Pids -> Pids]
    /\ leader \in [Pids -> BOOLEAN] /\ did_exec \in [Pids -> BOOLEAN]

\* All members of a process group are in one session, as getpgid and getsid
\* report it to anybody: setpgid checks the session of the group it joins, and
\* setsid refuses a process whose number still names a group.
SameGroupSameSession ==
    \A c, p, q \in live : getpgid(c, p) = getpgid(c, q) => getsid(c, p) = getsid(c, q)

\* A session leader stays the leader of the session and of the group that
\* carry its number, until it exits.
LeaderLeads == \A p \in live : leader[p] => getsid(p, 0) = p /\ getpgid(p, 0) = p

\* A process only has the terminal of its own session.
TerminalOfOwnSession == \A p \in live : tty[p] # NoTty => tty[p] = session[p]

\* A group that was named after a process which is still there is in that
\* process's session (what makes SameGroupSameSession inductive).
GroupNamesakeInSession ==
    \A p \in live : pgrp[p] \in live => session[pgrp[p]] = session[p]

\* Groups and sessions stay nested through every sequence of setpgid, setsid,
\* fork, exec and exit with numbers that are used again.
GroupsAndSessions == SameGroupSameSession /\ LeaderLeads /\ TerminalOfOwnSession
=============================================================================
