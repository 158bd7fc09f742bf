------------------------------- MODULE UserIds -------------------------------
(***************************************************************************)
(* The user ids of one task under setuid, setreuid, setresuid and setfsuid *)
(* (src/5/kernel/sys.c), among other tasks that start and end.             *)
(*                                                                         *)
(* A call prepares a copy of the credentials, checks it (set_user reads    *)
(* the number of processes of the new user) and commits it later; other    *)
(* tasks may run in between.  A call that fails changes nothing, so only   *)
(* calls that succeed are steps.                                           *)
(***************************************************************************)
EXTENDS Integers

CONSTANTS Uids,     \* user ids
          Root,     \* the id 0
          Keep,     \* the argument -1: leave this id alone
          NProc     \* RLIMIT_NPROC; also bounds the other tasks of a user

ASSUME UserIdsAssumption == /\ Root \in Uids
                            /\ Keep \notin Uids
                            /\ NProc \in Nat \ {0}

VARIABLES ucred,    \* current->cred: the ids, the user_struct, the capabilities
          unew,     \* credentials prepared and not yet committed, or Keep
          uothers,  \* running tasks of each user but root, this one excepted
          uraced,   \* users who got a new task between a check and its commit
          ulost     \* history: the ids that this program can no longer take

userVars == <<ucred, unew, uothers, uraced, ulost>>

Cred == [uid : Uids, euid : Uids, suid : Uids, fsuid : Uids, user : Uids,
         permitted : BOOLEAN, effective : BOOLEAN]

Ids(c) == {c.uid, c.euid, c.suid, c.fsuid}

\* The ids out of reach of a task with the credentials c: all but its own, unless it
\* is permitted to become root again.
OutOfReach(c) == IF c.permitted THEN {} ELSE Uids \ Ids(c)

\* capable(CAP_SETUID)
capable == ucred.effective

processes(u) == uothers[u] + (IF ucred.user = u THEN 1 ELSE 0)

\* security_task_fix_setuid: capabilities are lost with the last root id,
\* and are effective exactly while the effective id is root.
FixSetuid(new) ==
    LET roots(c) == {c.uid, c.euid, c.suid} \cap {Root}
        p == new.permitted /\ ~(roots(ucred) # {} /\ roots(new) = {})
    IN [new EXCEPT
          !.permitted = p,
          !.effective = CASE ucred.euid = Root /\ new.euid # Root -> FALSE
                          [] ucred.euid # Root /\ new.euid = Root -> p
                          [] OTHER -> new.effective /\ p]

\* set_user succeeds (the root user is not limited).
SetUserOK(u) == u = Root \/ processes(u) < NProc

\* The user_struct that set_user leaves in the new credentials.
set_user(new) == IF new.uid # ucred.uid THEN [new EXCEPT !.user = new.uid] ELSE new

Pick(arg, old) == IF arg = Keep THEN old ELSE arg

\* The call got as far as commit_creds with these credentials.
Prepare(new) ==
    /\ unew = Keep
    /\ new.uid # ucred.uid => SetUserOK(new.uid)
    /\ unew' = FixSetuid(set_user(new))
    /\ UNCHANGED <<ucred, uothers, uraced, ulost>>

setreuid(ruid, euid) ==
    /\ ruid \in {Keep, ucred.uid, ucred.euid} \/ capable
    /\ euid \in {Keep, ucred.uid, ucred.euid, ucred.suid} \/ capable
    /\ LET e == Pick(euid, ucred.euid) IN
       Prepare([ucred EXCEPT
                  !.uid = Pick(ruid, ucred.uid), !.euid = e, !.fsuid = e,
                  !.suid = IF ruid # Keep \/ (euid # Keep /\ euid # ucred.uid)
                           THEN e ELSE ucred.suid])

setuid_anyone(uid) ==
    IF capable
    THEN Prepare([ucred EXCEPT !.uid = uid, !.suid = uid, !.euid = uid, !.fsuid = uid])
    ELSE Prepare([ucred EXCEPT !.euid = uid, !.fsuid = uid])

setuid(uid) ==
    \/ capable /\ Prepare([ucred EXCEPT !.uid = uid, !.suid = uid,
                                        !.euid = uid, !.fsuid = uid])
    \/ /\ ~capable /\ uid \in {ucred.uid, ucred.suid}
       /\ Prepare([ucred EXCEPT !.euid = uid, !.fsuid = uid])

setresuid(ruid, euid, suid) ==
    /\ \A id \in {ruid, euid, suid} :
          id \in {Keep, ucred.uid, ucred.euid, ucred.suid} \/ capable
    /\ Prepare([ucred EXCEPT !.uid = Pick(ruid, ucred.uid),
                             !.euid = Pick(euid, ucred.euid),
                             !.suid = Pick(suid, ucred.suid),
                             !.fsuid = Pick(euid, ucred.euid)])

\* commit_creds installs the prepared credentials.
commit_creds ==
    /\ unew # Keep
    /\ ucred' = unew /\ unew' = Keep
    /\ ulost' = ulost \cup OutOfReach(unew)
    /\ UNCHANGED <<uothers, uraced>>

\* setfsuid counts no processes, so its check and its commit are one step.
setfsuid(uid) ==
    /\ unew = Keep
    /\ uid \in {ucred.uid, ucred.euid, ucred.suid, ucred.fsuid} \/ capable
    /\ uid # ucred.fsuid
    /\ ucred' = [ucred EXCEPT !.fsuid = uid]
    /\ ulost' = ulost \cup OutOfReach(ucred')
    /\ UNCHANGED <<unew, uothers, uraced>>

\* execve() of a program with (owner in Uids) or without (Keep) the setuid bit: it
\* has the ids that it is started with, whatever the last one had given up.
Exec(owner) ==
    LET e == Pick(owner, ucred.euid)
        p == Root \in {e, ucred.uid}
    IN /\ unew = Keep
       /\ ucred' = [ucred EXCEPT !.euid = e, !.suid = e, !.fsuid = e,
                                 !.permitted = p, !.effective = (e = Root)]
       /\ ulost' = OutOfReach(ucred')
       /\ UNCHANGED <<unew, uothers, uraced>>

\* fork() by another task of user u, which has a limit of its own.
OtherForks(u) ==
    /\ processes(u) < NProc
    /\ uothers' = [uothers EXCEPT ![u] = @ + 1]
    /\ uraced' = IF unew = Keep THEN uraced ELSE uraced \cup ({unew.user} \cap {u})
    /\ UNCHANGED <<ucred, unew, ulost>>

OtherExits(u) ==
    /\ uothers[u] > 0
    /\ uothers' = [uothers EXCEPT ![u] = @ - 1]
    /\ UNCHANGED <<ucred, unew, uraced, ulost>>

\* A user has logged in: all ids are that user's.
UserInit ==
    /\ ucred \in {[uid |-> u, euid |-> u, suid |-> u, fsuid |-> u, user |-> u,
                   permitted |-> u = Root, effective |-> u = Root] : u \in Uids}
    /\ unew = Keep
    /\ uothers = [u \in Uids |-> 0]
    /\ uraced = {}
    /\ ulost = OutOfReach(ucred)

UserNext ==
    \/ \E u \in Uids : setuid(u) \/ setfsuid(u)
    \/ \E u \in Uids \ {Root} : OtherForks(u) \/ OtherExits(u)
    \/ \E r, e \in Uids \cup {Keep} : setreuid(r, e)
    \/ \E r, e, s \in Uids \cup {Keep} : setresuid(r, e, s)
    \/ commit_creds
    \/ \E u \in Uids \cup {Keep} : Exec(u)

UserSpec == UserInit /\ [][UserNext]_userVars
-----------------------------------------------------------------------------
UserTypeOK ==
    /\ ucred \in Cred
    /\ unew \in Cred \cup {Keep}
    /\ uothers \in [Uids -> 0..NProc]
    /\ uraced \subseteq Uids
    /\ ulost \subseteq Uids

\* What a program has given up it does not get back, whatever sequence of set*uid
\* calls it makes: not an id it dropped while it was without root's privilege, not
\* the privilege itself, and so none of the ids that were out of its reach since.
\* This is what the comments on setreuid call dropping privileges completely; a
\* program that keeps root as its real or saved id has given up nothing.
GivenUpForGood == Ids(ucred) \cap ulost = {} /\ (ucred.permitted => ulost = {})

\* No capability survives the last root id, and none is effective for another
\* effective id: every call passes both credentials through the security hook.
CapabilitiesNeedRoot ==
    /\ ucred.permitted => Root \in {ucred.uid, ucred.euid, ucred.suid}
    /\ ucred.effective => ucred.euid = Root /\ ucred.permitted

\* The user_struct that is charged for the task is the one of its real uid,
\* through every combination of calls that change the uid or leave it.
ChargedToRealUser == ucred.user = ucred.uid

\* A user other than root exceeds the process limit only when a task of that
\* user was started between the check in set_user and commit_creds.
LimitExceededOnlyByRace ==
    \A u \in Uids \ {Root} : processes(u) > NProc => u \in uraced

=============================================================================
