------------------------------ MODULE SigShell ------------------------------
(***************************************************************************)
(* src/2/myshell_cs_pitt_edu.c: a shell that waits for the command in the  *)
(* foreground with waitpid, and for every other child in a handler of      *)
(* SIGCHLD, which calls wait.  The handler is not restarted: it ends the   *)
(* waitpid it interrupts.                                                  *)
(***************************************************************************)
EXTENDS Naturals, FiniteSets

CONSTANTS ShPids,      \* process numbers
          ErrnoPids,   \* those that equal EAGAIN or ENOMEM
          MaxForks     \* bound on the commands

ASSUME SigShellAssumption ==
    /\ IsFiniteSet(ShPids) /\ ErrnoPids \subseteq ShPids /\ "any" \notin ShPids /\ MaxForks \in Nat

VARIABLES spc,         \* "prompt", "waiting" or "exit"
          target,      \* whom waitpid waits for: a process, "any" or "none"
          children,    \* "none", "run" or "zombie"
          inFront,     \* children started without an ampersand
          chldPending, \* SIGCHLD is pending
          inHandler,   \* the handler is in its wait
          commands,    \* commands so far
          merged,      \* ends of children whose signal met one already pending
          cut          \* children whose waitpid was ended by the handler

sigVars == <<spc, target, children, inFront, chldPending, inHandler, commands, merged, cut>>

Some(st) == {p \in ShPids : children[p] = st}

\* A syntax error or an empty line changes nothing; exit ends the shell.
internal_command ==
    /\ spc = "prompt" /\ ~inHandler /\ spc' = "exit"
    /\ UNCHANGED <<target, children, inFront, chldPending, inHandler, commands, merged, cut>>

\* fork returned p.  The test for errors compares it with EAGAIN and ENOMEM.
do_command(p, block) ==
    /\ spc = "prompt" /\ ~inHandler /\ commands < MaxForks /\ children[p] = "none"
    /\ commands' = commands + 1
    /\ children' = [children EXCEPT ![p] = "run"]
    /\ inFront' = IF block THEN inFront \cup {p} ELSE inFront \ {p}
    /\ cut' = cut \ {p}
    /\ IF block /\ p \notin ErrnoPids THEN spc' = "waiting" /\ target' = p ELSE UNCHANGED <<spc, target>>
    /\ UNCHANGED <<chldPending, inHandler, merged>>

\* fork failed: -1 is taken for a child, and waitpid waits for any.
do_command_nofork(block) ==
    /\ spc = "prompt" /\ ~inHandler /\ commands < MaxForks
    /\ commands' = commands + 1
    /\ IF block THEN spc' = "waiting" /\ target' = "any" ELSE UNCHANGED <<spc, target>>
    /\ UNCHANGED <<children, inFront, chldPending, inHandler, merged, cut>>

ChildExit(p) ==
    /\ children[p] = "run" /\ spc # "exit"
    /\ children' = [children EXCEPT ![p] = "zombie"]
    /\ merged' = IF chldPending THEN merged + 1 ELSE merged
    /\ chldPending' = TRUE
    /\ UNCHANGED <<spc, target, inFront, inHandler, commands, cut>>

\* waitpid finds its child, or has nobody to wait for.
waitpid_child ==
    LET mine == IF target = "any" THEN ShPids ELSE {target} IN
    /\ spc = "waiting" /\ ~inHandler
    /\ \/ \E p \in mine \cap Some("zombie") : children' = [children EXCEPT ![p] = "none"]
       \/ mine \subseteq Some("none") /\ UNCHANGED children
    /\ spc' = "prompt" /\ target' = "none"
    /\ UNCHANGED <<inFront, chldPending, inHandler, commands, merged, cut>>

Reapable(mine) == mine \cap Some("zombie")

\* The signal is delivered; a waitpid that has found nothing ends with it.
sig_enter ==
    LET mine == IF target = "any" THEN ShPids ELSE {target} IN
    /\ spc # "exit" /\ chldPending /\ ~inHandler
    /\ spc = "waiting" => Reapable(mine) = {} /\ ~(mine \subseteq Some("none"))
    /\ inHandler' = TRUE /\ chldPending' = FALSE
    /\ cut' = cut \cup ({target} \cap ShPids) /\ spc' = "prompt" /\ target' = "none"
    /\ UNCHANGED <<children, inFront, commands, merged>>

\* The wait of the handler: any child, at once an error if there is none, and
\* otherwise until one ends.
sig_handler_wait ==
    /\ inHandler
    /\ \/ \E p \in Some("zombie") : children' = [children EXCEPT ![p] = "none"] /\ inHandler' = FALSE
       \/ Some("run") \cup Some("zombie") = {} /\ inHandler' = FALSE /\ UNCHANGED children
    /\ UNCHANGED <<spc, target, inFront, chldPending, commands, merged, cut>>

SigInit ==
    /\ spc = "prompt" /\ target = "none" /\ children = [p \in ShPids |-> "none"] /\ inFront = {}
    /\ chldPending = FALSE /\ inHandler = FALSE /\ commands = 0 /\ merged = 0 /\ cut = {}

SigNext ==
    \/ internal_command \/ waitpid_child \/ sig_enter \/ sig_handler_wait
    \/ \E block \in BOOLEAN : do_command_nofork(block) \/ \E p \in ShPids : do_command(p, block)
    \/ \E p \in ShPids : ChildExit(p)

SigSpec == SigInit /\ [][SigNext]_sigVars
-----------------------------------------------------------------------------
SigTypeOK ==
    /\ spc \in {"prompt", "waiting", "exit"} /\ target \in ShPids \cup {"any", "none"}
    /\ children \in [ShPids -> {"none", "run", "zombie"}] /\ merged \in 0..MaxForks

\* A child that has ended is left behind, with no signal to come for it, only
\* where the signals of two children met.
ZombiesOnlyFromMergedSignals ==
    spc = "prompt" /\ ~inHandler /\ ~chldPending => Cardinality(Some("zombie")) <= merged

\* The shell is back at its prompt while a command without an ampersand is
\* running only if the end of another child cut the waiting short, or if the
\* process number was taken for an error.
PromptBeforeEndOnlyIfCut == spc = "prompt" => (inFront \cap Some("run")) \subseteq (cut \cup ErrnoPids)
=============================================================================
