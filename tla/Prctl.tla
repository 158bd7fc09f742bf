-------------------------------- MODULE Prctl --------------------------------
(***************************************************************************)
(* prctl (src/5/kernel/sys.c): the per-task settings that the call keeps   *)
(* itself.  The options that hand their argument on to another part of the *)
(* kernel (alignment, floating point, seccomp, performance events...)      *)
(* change nothing here.  A call that fails is a step only where it has     *)
(* changed something before it failed.                                     *)
(***************************************************************************)
EXTENDS Integers

CONSTANTS Signals,       \* signal numbers tried, valid or not
          MaxSignal,     \* valid_signal
          DefaultSlack,  \* default_timer_slack_ns
          MaxSlack       \* bound on the slack tried

ASSUME PrctlAssumption == /\ DefaultSlack \in Nat \ {0} /\ MaxSlack \in Nat
                          /\ Signals \subseteq Nat /\ MaxSignal \in Nat

VARIABLES pdeath_signal, dumpable, timer_slack,
          mce,       \* the flags PF_MCE_PROCESS and PF_MCE_EARLY that are set
          mceAsked   \* the policy that was last set by a call that succeeded,
                     \* or "unknown" once a call has failed half way

prctlVars == <<pdeath_signal, dumpable, timer_slack, mce, mceAsked>>

PR_SET_PDEATHSIG(s) ==
    /\ s <= MaxSignal
    /\ pdeath_signal' = s
    /\ UNCHANGED <<dumpable, timer_slack, mce, mceAsked>>

PR_SET_DUMPABLE(d) ==
    /\ d \in 0..1
    /\ dumpable' = d
    /\ UNCHANGED <<pdeath_signal, timer_slack, mce, mceAsked>>

\* execve() of a program the user may not read leaves the third value.
SuidDumpable ==
    /\ dumpable' = 2
    /\ UNCHANGED <<pdeath_signal, timer_slack, mce, mceAsked>>

SlackFor(n) == IF n <= 0 THEN DefaultSlack ELSE n

PR_SET_TIMERSLACK(n) ==
    /\ timer_slack' = SlackFor(n)
    /\ UNCHANGED <<pdeath_signal, dumpable, mce, mceAsked>>

\* The flags after PR_MCE_KILL: PROCESS is set before the policy is looked at.
MceFlags(policy) ==
    CASE policy = "EARLY" -> mce \cup {"PROCESS", "EARLY"}
      [] policy = "LATE" -> (mce \cup {"PROCESS"}) \ {"EARLY"}
      [] policy = "DEFAULT" -> {}
      [] policy = "CLEAR" -> mce \ {"PROCESS"}
      [] OTHER -> mce \cup {"PROCESS"}

PR_MCE_KILL(policy) ==
    /\ mce' = MceFlags(policy)
    /\ mceAsked' = CASE policy = "CLEAR" -> "DEFAULT"
                     [] policy = "INVALID" -> "unknown"
                     [] OTHER -> policy
    /\ UNCHANGED <<pdeath_signal, dumpable, timer_slack>>

\* What PR_MCE_KILL_GET returns.
PR_MCE_KILL_GET == IF "PROCESS" \notin mce THEN "DEFAULT"
                   ELSE IF "EARLY" \in mce THEN "EARLY" ELSE "LATE"

PrctlInit ==
    /\ pdeath_signal = 0 /\ dumpable = 1 /\ timer_slack = DefaultSlack
    /\ mce = {} /\ mceAsked = "DEFAULT"

PrctlNext ==
    \/ \E s \in Signals : PR_SET_PDEATHSIG(s)
    \/ \E d \in 0..2 : PR_SET_DUMPABLE(d)
    \/ SuidDumpable
    \/ \E n \in 0..MaxSlack : PR_SET_TIMERSLACK(n)
    \/ \E p \in {"EARLY", "LATE", "DEFAULT", "CLEAR", "INVALID"} : PR_MCE_KILL(p)

PrctlSpec == PrctlInit /\ [][PrctlNext]_prctlVars
-----------------------------------------------------------------------------
\* The settings stay in their ranges: a valid signal, a positive slack.
PrctlTypeOK ==
    /\ pdeath_signal \in 0..MaxSignal /\ dumpable \in 0..2
    /\ timer_slack \in 1..(IF DefaultSlack > MaxSlack THEN DefaultSlack ELSE MaxSlack)
    /\ mce \subseteq {"PROCESS", "EARLY"}

\* PR_MCE_KILL_GET reports the policy of the last call that succeeded, through
\* every sequence of EARLY, LATE, DEFAULT and CLEAR, although CLEAR leaves the
\* EARLY flag behind; only a call that was refused after it had set the PROCESS
\* flag makes it report something that nobody asked for.
McePolicyReadBack == mceAsked \in {"unknown", PR_MCE_KILL_GET}
=============================================================================
