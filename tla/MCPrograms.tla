----------------------------- MODULE MCPrograms -----------------------------
(***************************************************************************)
(* The kernel modules and user programs of the repository for TLC, those   *)
(* apart that have a configuration of their own.  They share no state: a   *)
(* behaviour exercises one of them (the variable part) and the state       *)
(* spaces add up instead of multiplying.                                   *)
(***************************************************************************)
EXTENDS Scull, CharDrivers, ProcModule, SyscallHook,
        Timers, Fibonacci, IntrMonitor, Clock, Observer, Chkey, BgShell, Lexer, SigShell

VARIABLE part

\* Every component keeps its variables in their types.
ProgramsTypeOK ==
    /\ ScullTypeOK /\ CharTypeOK /\ ProcTypeOK /\ HookTypeOK
    /\ TimersTypeOK /\ FibTypeOK /\ MonTypeOK /\ ClockTypeOK /\ ObserverTypeOK
    /\ ChkeyTypeOK /\ BgTypeOK /\ LexerTypeOK /\ SigTypeOK

\* The components that are not exercised stand in one of their initial states.
MCInit ==
    /\ part \in {"scull", "char", "proc", "hook", "timers", "fib", "monitor", "clock", "observer", "chkey", "bg", "lexer", "sig"}
    /\ ScullInit /\ CharInit /\ HookInit /\ MonInit /\ SigInit
    /\ ProcInit /\ (part # "proc" => which = "pm1")
    /\ TimersInit /\ (part # "timers" => argc = 4)
    /\ FibInit /\ (part # "fib" => loop.n = 0)
    /\ ClockInit /\ (part # "clock" => tells)
    /\ ObserverInit /\ (part # "observer" => version = "v1" /\ option = "a")
    /\ ChkeyInit /\ (part # "chkey" => \A k \in Keys : kernel[k] = 0)
    /\ BgInit /\ (part # "bg" => environ = <<>>)
    /\ LexerInit /\ (part # "lexer" => shell = "msh")

Rest ==
    /\ UNCHANGED part
    /\ IF part = "scull" THEN TRUE ELSE UNCHANGED scullVars
    /\ IF part = "char" THEN TRUE ELSE UNCHANGED charVars
    /\ IF part = "proc" THEN TRUE ELSE UNCHANGED procVars
    /\ IF part = "hook" THEN TRUE ELSE UNCHANGED hookVars
    /\ IF part = "timers" THEN TRUE ELSE UNCHANGED timerVars
    /\ IF part = "fib" THEN TRUE ELSE UNCHANGED loop
    /\ IF part = "monitor" THEN TRUE ELSE UNCHANGED monVars
    /\ IF part = "clock" THEN TRUE ELSE UNCHANGED clockVars
    /\ IF part = "observer" THEN TRUE ELSE UNCHANGED obsVars
    /\ IF part = "chkey" THEN TRUE ELSE UNCHANGED chkeyVars
    /\ IF part = "bg" THEN TRUE ELSE UNCHANGED bgVars
    /\ IF part = "lexer" THEN TRUE ELSE UNCHANGED lexVars
    /\ IF part = "sig" THEN TRUE ELSE UNCHANGED sigVars

MCNext ==
    \/ part = "scull" /\ ScullNext /\ Rest
    \/ part = "char" /\ CharNext /\ Rest
    \/ part = "proc" /\ ProcNext /\ Rest
    \/ part = "hook" /\ HookNext /\ Rest
    \/ part = "timers" /\ TimersNext /\ Rest
    \/ part = "fib" /\ fib /\ Rest
    \/ part = "monitor" /\ MonNext /\ Rest
    \/ part = "clock" /\ ClockNext /\ Rest
    \/ part = "observer" /\ ObserverNext /\ Rest
    \/ part = "chkey" /\ ChkeyNext /\ Rest
    \/ part = "bg" /\ BgNext /\ Rest
    \/ part = "lexer" /\ LexerNext /\ Rest
    \/ part = "sig" /\ SigNext /\ Rest

vars == <<part, scullVars, charVars, procVars, hookVars, timerVars, loop, monVars, clockVars, obsVars,
          chkeyVars, bgVars, lexVars, sigVars>>

MCSpec == MCInit /\ [][MCNext]_vars
-----------------------------------------------------------------------------

\* Whatever step of a driver's set-up fails, all that was taken is given back, and
\* users only ever meet devices that are ready; whatever allocation of a write
\* fails, all that was taken is on scull's list (until a write's copy overwrites it).
DriversCleanUp == NothingLeaks /\ SizeWithinData /\ PublishedMeansReady /\ NothingLeftBehind

\* Nothing leads into the code of a module that has been unloaded: no /proc entry,
\* no method that still runs, no slot of the system call table.
ModulesUnloadCleanly == UnloadedMeansGone /\ NoMethodAfterUnload /\ TableNamesLoadedCode

\* The programs of src/3 account for every signal they handle, at whatever moment
\* it comes; only nested handlers, merged signals and signals that come before
\* their handler is installed spoil what they print.
TimerProgramsRight ==
    /\ PrintedTimeExplained /\ NoneKilledByTimer /\ NoOrphans /\ LoopMatchesRecursion
    /\ OnlyNestingBreaks /\ KilledOnlyBeforeHandlers
    /\ EveryTickCarried /\ ParentNeverAhead

\* The two shells keep track of their children: the table of one holds those in
\* the background it has still to wait for, but for those that found it full, and
\* its variables read as given while only one name has been set; the other loses
\* a child only when two signals were merged, and waits for its foreground
\* command unless it was cut short.
ShellsKeepTrack ==
    /\ TableHoldsUnreaped /\ AnnouncedAsStarted /\ EnvironmentRightForOneName
    /\ ZombiesOnlyFromMergedSignals /\ PromptBeforeEndOnlyIfCut
=============================================================================
