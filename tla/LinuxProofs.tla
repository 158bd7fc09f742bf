---------------------------- MODULE LinuxProofs ----------------------------
(***************************************************************************)
(* Proofs about the Linux sources.  Each section gives the inductive       *)
(* invariant of a component of src/5/kernel/sys.c, shows that it holds at  *)
(* first and that every call keeps it, and draws the conclusion.  The last *)
(* one is about the composition MCLinux: a behaviour of it is a behaviour  *)
(* of each component, so the invariants, and those of PageFaultProofs,     *)
(* carry over.                                                             *)
(***************************************************************************)
EXTENDS MCLinux, PageFaultProofs, WellFoundedInduction

-----------------------------------------------------------------------------
(* Users (set*uid, exec, fork). *)

\* What holds of the credentials in force, c, and of those prepared.
CredInv(c) ==
    /\ c \in Cred
    /\ c.user = c.uid
    /\ Ids(c) \cap ulost = {} /\ (c.permitted => ulost = {})
    /\ c.permitted => Root \in {c.uid, c.euid, c.suid}
    /\ c.effective => c.euid = Root /\ c.permitted

\* GivenUpForGood, CapabilitiesNeedRoot, ChargedToRealUser and
\* LimitExceededOnlyByRace made inductive: the prepared credentials satisfy what
\* those in force do, and their user was below its limit when set_user looked.
UserInv ==
    /\ UserTypeOK
    /\ CredInv(ucred)
    /\ unew # Keep => CredInv(unew)
    /\ unew # Keep /\ unew.user \notin {Root, ucred.user}
          => uothers[unew.user] < NProc \/ unew.user \in uraced
    /\ LimitExceededOnlyByRace

\* A process starts with equal ids, and with capabilities only as root.
LEMMA UserInitOK == UserInit => UserInv
<1> SUFFICES ASSUME UserInit PROVE UserInv
    OBVIOUS
<1>1. PICK u \in Uids : ucred = [uid |-> u, euid |-> u, suid |-> u, fsuid |-> u, user |-> u,
                                 permitted |-> u = Root, effective |-> u = Root]
    BY DEF UserInit
<1>2. CredInv(ucred)
    BY <1>1 DEF UserInit, CredInv, Cred, Ids, OutOfReach
<1>3. UserTypeOK
    BY <1>2, UserIdsAssumption DEF UserInit, UserTypeOK, CredInv, Cred, OutOfReach
<1>4. LimitExceededOnlyByRace
    BY <1>1, UserIdsAssumption DEF UserInit, LimitExceededOnlyByRace, processes
<1> QED BY <1>2, <1>3, <1>4 DEF UserInit, UserInv

\* set_user and cap_emulate_setxuid, which every set*uid call ends with, keep the
\* invariant when the new ids are allowed: they charge the new real user and drop
\* the capabilities of a process that leaves root.
LEMMA PrepareKeeps ==
    ASSUME UserInv, NEW new \in Cred,
           Prepare(new),
           new.user = ucred.user, new.permitted = ucred.permitted, new.effective = ucred.effective,
           ucred.permitted \/ Ids(new) \subseteq Ids(ucred)
    PROVE  UserInv'
<1> DEFINE s == set_user(new)
           f == FixSetuid(s)
<1>1. /\ s \in Cred /\ s.uid = new.uid /\ s.euid = new.euid /\ s.suid = new.suid /\ s.fsuid = new.fsuid
      /\ s.permitted = ucred.permitted /\ s.effective = ucred.effective /\ s.user = new.uid
    BY DEF set_user, UserInv, CredInv, Cred
<1>2. /\ f \in Cred /\ f.uid = s.uid /\ f.euid = s.euid /\ f.suid = s.suid /\ f.fsuid = s.fsuid
      /\ f.user = s.user /\ (f.permitted => s.permitted)
    BY ZenonT(60), <1>1 DEF FixSetuid, UserInv, CredInv, Cred, UserTypeOK
<1>3. f.permitted => Root \in {f.uid, f.euid, f.suid}
    BY ZenonT(60), <1>1, <1>2 DEF FixSetuid, UserInv, CredInv, Cred
<1>4. f.effective => f.euid = Root /\ f.permitted
    BY <1>1, <1>2 DEF FixSetuid, UserInv, CredInv, Cred
<1>5. unew' = f /\ UNCHANGED <<ucred, uothers, uraced, ulost>> /\ (s.uid # ucred.uid => SetUserOK(s.uid))
    BY <1>1 DEF Prepare
<1> HIDE DEF s, f
<1>6. CredInv(f)
    BY <1>1, <1>2, <1>3, <1>4 DEF CredInv, Ids, UserInv
<1>7. CredInv(unew)' /\ CredInv(ucred)'
    BY <1>5, <1>6 DEF UserInv, CredInv, Ids
<1>8. f.user \notin {Root, ucred.user} => uothers[f.user] < NProc
    BY <1>1, <1>2, <1>5, UserIdsAssumption DEF SetUserOK, processes, UserInv, CredInv, UserTypeOK, Cred
<1>9. QED
    BY <1>2, <1>5, <1>7, <1>8 DEF UserInv, UserTypeOK, LimitExceededOnlyByRace, processes

\* Every set*uid call, the commit it ends with, exec, and the forks and exits of
\* other processes of a user in between, keep UserInv.
LEMMA UserStep == UserInv /\ [UserNext]_userVars => UserInv'
<1> SUFFICES ASSUME UserInv, [UserNext]_userVars PROVE UserInv'
    OBVIOUS
<1>1. ASSUME NEW u \in Uids, setuid(u) PROVE UserInv'
  <2>1. CASE capable
    <3> DEFINE new == [ucred EXCEPT !.uid = u, !.suid = u, !.euid = u, !.fsuid = u]
    <3>1. /\ new \in Cred /\ Prepare(new)
          /\ new.user = ucred.user /\ new.permitted = ucred.permitted /\ new.effective = ucred.effective
        BY <1>1, <2>1 DEF setuid, UserInv, CredInv, Cred
    <3>2. ucred.permitted
        BY <2>1 DEF capable, UserInv, CredInv
    <3> QED BY <3>1, <3>2, PrepareKeeps
  <2>2. CASE ~capable
    <3> DEFINE new == [ucred EXCEPT !.euid = u, !.fsuid = u]
    <3>1. /\ new \in Cred /\ Prepare(new)
          /\ new.user = ucred.user /\ new.permitted = ucred.permitted /\ new.effective = ucred.effective
        BY <1>1, <2>2 DEF setuid, UserInv, CredInv, Cred
    <3>2. ucred.permitted \/ Ids(new) \subseteq Ids(ucred)
        BY <1>1, <2>2 DEF setuid, UserInv, CredInv, Ids, Cred
    <3> QED BY <3>1, <3>2, PrepareKeeps
  <2> QED BY <2>1, <2>2
<1>2. ASSUME NEW r \in Uids \cup {Keep}, NEW e \in Uids \cup {Keep}, setreuid(r, e) PROVE UserInv'
  <2> DEFINE eff == Pick(e, ucred.euid)
             new == [ucred EXCEPT !.uid = Pick(r, ucred.uid), !.euid = eff, !.fsuid = eff,
                      !.suid = IF r # Keep \/ (e # Keep /\ e # ucred.uid) THEN eff ELSE ucred.suid]
  <2>1. /\ new \in Cred /\ Prepare(new)
        /\ new.user = ucred.user /\ new.permitted = ucred.permitted /\ new.effective = ucred.effective
      BY <1>2 DEF setreuid, UserInv, CredInv, Cred, Pick
  <2>2. ucred.permitted \/ Ids(new) \subseteq Ids(ucred)
      BY <1>2 DEF setreuid, UserInv, CredInv, Ids, Cred, capable, Pick
  <2> QED BY <2>1, <2>2, PrepareKeeps
<1>3. ASSUME NEW r \in Uids \cup {Keep}, NEW e \in Uids \cup {Keep}, NEW s \in Uids \cup {Keep},
             setresuid(r, e, s) PROVE UserInv'
  <2> DEFINE new == [ucred EXCEPT !.uid = Pick(r, ucred.uid), !.euid = Pick(e, ucred.euid),
                             !.suid = Pick(s, ucred.suid), !.fsuid = Pick(e, ucred.euid)]
  <2>1. /\ new \in Cred /\ Prepare(new)
        /\ new.user = ucred.user /\ new.permitted = ucred.permitted /\ new.effective = ucred.effective
      BY ZenonT(60), <1>3 DEF setresuid, UserInv, CredInv, Cred, Pick
  <2>2. ucred.permitted \/ Ids(new) \subseteq Ids(ucred)
      BY <1>3 DEF setresuid, UserInv, CredInv, Ids, Cred, capable, Pick
  <2> QED BY <2>1, <2>2, PrepareKeeps
<1>4. CASE commit_creds
  <2>1. /\ unew # Keep /\ ucred' = unew /\ unew' = Keep
        /\ ulost' = ulost \cup OutOfReach(unew) /\ UNCHANGED <<uothers, uraced>>
      BY <1>4 DEF commit_creds
  <2>2. CredInv(unew) /\ ulost' \subseteq Uids
      BY <2>1 DEF UserInv, UserTypeOK, OutOfReach
  <2>3. Ids(ucred') \cap ulost' = {} /\ (ucred'.permitted => ulost' = {})
      BY <2>1, <2>2 DEF CredInv, OutOfReach
  <2>4. CredInv(ucred)'
      BY <2>1, <2>2, <2>3 DEF CredInv
  <2> QED BY <2>1, <2>2, <2>4, UserIdsAssumption
          DEF UserInv, CredInv, UserTypeOK, LimitExceededOnlyByRace, processes, Cred
<1>5. ASSUME NEW u \in Uids, setfsuid(u) PROVE UserInv'
  <2>0. /\ unew = Keep /\ ucred' = [ucred EXCEPT !.fsuid = u]
        /\ ulost' = ulost \cup OutOfReach(ucred') /\ UNCHANGED <<unew, uothers, uraced>>
        /\ u \in Ids(ucred) \/ ucred.permitted
      BY <1>5 DEF setfsuid, UserInv, CredInv, Ids, capable
  <2>3. /\ Ids(ucred') \cap ulost' = {} /\ (ucred'.permitted => ulost' = {})
        /\ ulost' \subseteq Uids
      BY <2>0 DEF UserInv, UserTypeOK, CredInv, Ids, Cred, OutOfReach
  <2>1. CredInv(ucred)'
      BY <2>0, <2>3 DEF UserInv, CredInv, Cred
  <2>2. (ucred.user)' = ucred.user
      BY <1>5 DEF setfsuid, UserInv, CredInv, Cred
  <2> QED BY <2>0, <2>1, <2>2, <2>3 DEF UserInv, CredInv, UserTypeOK, LimitExceededOnlyByRace, processes
<1>6. ASSUME NEW u \in Uids \cup {Keep}, Exec(u) PROVE UserInv'
  <2> DEFINE e == Pick(u, ucred.euid)
             p == Root \in {e, ucred.uid}
             f == (e = Root)
  <2>1. e \in Uids /\ p \in BOOLEAN /\ f \in BOOLEAN /\ (f => p)
      BY DEF Pick, UserInv, CredInv, Cred
  <2> HIDE DEF e, p, f
  <2>2. /\ unew = Keep /\ UNCHANGED <<unew, uothers, uraced>>
        /\ ucred' = [ucred EXCEPT !.euid = e, !.suid = e, !.fsuid = e,
                        !.permitted = p, !.effective = f]
        /\ ulost' = OutOfReach(ucred')
      BY <1>6 DEF Exec, e, p, f
  <2>3. ucred' \in Cred
      BY <2>1, <2>2 DEF UserInv, CredInv, Cred
  <2>4. /\ ucred'.user = ucred'.uid /\ ucred'.user = ucred.user
        /\ Ids(ucred') \cap ulost' = {} /\ (ucred'.permitted => ulost' = {})
      BY <2>1, <2>2 DEF UserInv, CredInv, OutOfReach, Cred
  <2>5. ucred'.permitted = p /\ ucred'.effective = f /\ ucred'.euid = e /\ ucred'.uid = ucred.uid
      BY <2>1, <2>2 DEF UserInv, CredInv, Cred
  <2>6. (p <=> Root \in {e, ucred.uid}) /\ (f <=> e = Root)
      BY DEF p, f
  <2>7. CredInv(ucred)'
      BY <2>1, <2>3, <2>4, <2>5, <2>6 DEF CredInv
  <2>8. ulost' \subseteq Uids
      BY <2>2 DEF OutOfReach
  <2> QED BY <2>2, <2>4, <2>7, <2>8 DEF UserInv, CredInv, UserTypeOK, LimitExceededOnlyByRace, processes
<1>7. ASSUME NEW u \in Uids \ {Root}, OtherForks(u) PROVE UserInv'
  <2>1. uothers[u] \in 0..NProc /\ uothers[u] < NProc
      BY <1>7, UserIdsAssumption DEF OtherForks, UserInv, UserTypeOK, processes
  <2>2. /\ uothers' \in [Uids -> 0..NProc]
        /\ \A v \in Uids \ {u} : uothers'[v] = uothers[v]
      BY <1>7, <2>1, UserIdsAssumption DEF OtherForks, UserInv, UserTypeOK
  <2>3. /\ uraced' \subseteq Uids /\ uraced \subseteq uraced'
        /\ unew # Keep /\ u = unew.user => u \in uraced'
      BY <1>7 DEF OtherForks, UserInv, UserTypeOK
  <2>4. uothers'[u] = uothers[u] + 1 /\ processes(u) < NProc /\ uothers[u] \in Nat /\ ucred' = ucred
      BY <1>7, UserIdsAssumption DEF OtherForks, UserInv, UserTypeOK
  <2>5. ~(processes(u)' > NProc)
      BY <2>4, UserIdsAssumption DEF processes, UserInv, UserTypeOK
  <2>6. \A v \in Uids \ {u} : processes(v)' = processes(v)
      BY <1>7, <2>2 DEF OtherForks, processes
  <2>7. LimitExceededOnlyByRace'
      BY <2>3, <2>2, <2>5, <2>6, UserIdsAssumption DEF UserInv, LimitExceededOnlyByRace
  <2>8. UNCHANGED <<ucred, unew, ulost>>
      BY <1>7 DEF OtherForks
  <2>9. CredInv(ucred)' /\ (unew # Keep => CredInv(unew))'
      BY <2>8 DEF UserInv, CredInv, Ids
  <2>10. (unew # Keep /\ unew.user \notin {Root, ucred.user}
          => uothers[unew.user] < NProc \/ unew.user \in uraced)'
      BY <2>3, <2>2, <2>8 DEF UserInv, CredInv, Cred
  <2> QED BY <2>3, <2>2, <2>7, <2>8, <2>9, <2>10 DEF UserInv, UserTypeOK
<1>8. ASSUME NEW u \in Uids \ {Root}, OtherExits(u) PROVE UserInv'
    BY <1>8, UserIdsAssumption DEF OtherExits, UserInv, CredInv, UserTypeOK, LimitExceededOnlyByRace, processes, Ids, Cred
<1>9. CASE UNCHANGED userVars
    BY <1>9 DEF userVars, UserInv, CredInv, UserTypeOK, LimitExceededOnlyByRace, processes, Ids
<1> QED BY <1>1, <1>2, <1>3, <1>4, <1>5, <1>6, <1>7, <1>8, <1>9 DEF UserNext

\* For every set of users and every limit: an id that was given up is never held
\* again, capabilities need root, the charge follows the real user, and a
\* limit is exceeded only through the window between set_user and commit_creds.
THEOREM UserIdsRight == UserSpec => []UserInv
BY UserInitOK, UserStep, PTL DEF UserSpec
-----------------------------------------------------------------------------
(* Groups (set*gid). *)

\* GroupsGivenUpForGood with the types; with the capability nothing is out of reach.
GroupInv == GroupTypeOK /\ GidsOf(gcred) \cap glost = {} /\ (gcap => glost = {})

\* A process starts with equal group ids.
LEMMA GroupInitOK == GroupInit => GroupInv
BY DEF GroupInit, GroupInv, GroupTypeOK, GroupCred, GidsOf, GidsOutOfReach

\* Every set*gid call of a process without the capability only moves among the group
\* ids it has, and so keeps those it gave up out of reach.
LEMMA GroupStep == GroupInv /\ [GroupNext]_groupVars => GroupInv'
<1> SUFFICES ASSUME GroupInv, [GroupNext]_groupVars PROVE GroupInv'
    OBVIOUS
<1> USE DEF GroupInv, GroupTypeOK, GroupCred, GidsOf, GidsOutOfReach
<1>1. ASSUME NEW g \in Gids, setgid(g) PROVE GroupInv'
  <2>1. CASE gcap
      BY <1>1, <2>1 DEF setgid, commitGroups
  <2>2. CASE ~gcap
    <3>1. /\ g \in {gcred.gid, gcred.sgid} /\ gcred' = [gcred EXCEPT !.egid = g, !.fsgid = g]
          /\ glost' = glost \cup (Gids \ GidsOf(gcred')) /\ gcap' = gcap
        BY <1>1, <2>2 DEF setgid, commitGroups
    <3>2. /\ gcred' \in GroupCred /\ GidsOf(gcred)' \subseteq GidsOf(gcred)
        BY <3>1
    <3> QED BY <2>2, <3>1, <3>2
  <2> QED BY <2>1, <2>2
<1>2. ASSUME NEW g \in Gids, setfsgid(g) PROVE GroupInv'
    BY <1>2 DEF setfsgid, commitGroups
<1>3. ASSUME NEW r \in Gids \cup {KeepGid}, NEW e \in Gids \cup {KeepGid}, setregid(r, e) PROVE GroupInv'
    BY <1>3 DEF setregid, commitGroups, PickGid
<1>4. ASSUME NEW r \in Gids \cup {KeepGid}, NEW e \in Gids \cup {KeepGid}, NEW s \in Gids \cup {KeepGid},
             setresgid(r, e, s) PROVE GroupInv'
    BY <1>4 DEF setresgid, commitGroups, PickGid
<1>5. ASSUME NEW g \in Gids \cup {KeepGid}, ExecSetgid(g) PROVE GroupInv'
  <2>1. PICK e \in Gids : /\ gcred' = [gcred EXCEPT !.egid = e, !.sgid = e, !.fsgid = e]
                          /\ glost' = GidsOutOfReach(gcred', gcap) /\ gcap' = gcap
      BY <1>5 DEF ExecSetgid, PickGid
  <2> QED BY <2>1
<1>6. CASE DropCapability
    BY <1>6 DEF DropCapability
<1>7. CASE UNCHANGED groupVars
    BY <1>7 DEF groupVars
<1> QED BY <1>1, <1>2, <1>3, <1>4, <1>5, <1>6, <1>7 DEF GroupNext

\* For every set of groups: a group id that was given up is never held again.
THEOREM GroupIdsRight == GroupSpec => []GroupInv
BY GroupInitOK, GroupStep, PTL DEF GroupSpec
-----------------------------------------------------------------------------
(* Process groups and sessions. *)

\* GroupsAndSessions with GroupNamesakeInSession, which makes it inductive.
NestedInv ==
    /\ SessTypeOK
    /\ \A p, q \in live : pgrp[p] = pgrp[q] => session[p] = session[q]
    /\ \A p \in live : leader[p] => session[p] = p /\ pgrp[p] = p
    /\ TerminalOfOwnSession
    /\ GroupNamesakeInSession

\* The first process is alone in its group and session.
LEMMA NestedInit == SessInit => NestedInv
BY SessionsAssumption DEF SessInit, NestedInv, SessTypeOK, TerminalOfOwnSession, GroupNamesakeInSession, NoTty

\* setpgid, setsid, fork, exec, exit and the opening of a terminal keep NestedInv.
LEMMA NestedStep == NestedInv /\ [SessNext]_sessVars => NestedInv'
<1> SUFFICES ASSUME NestedInv, [SessNext]_sessVars PROVE NestedInv'
    OBVIOUS
<1> USE SessionsAssumption DEF NestedInv, SessTypeOK, TerminalOfOwnSession, GroupNamesakeInSession, NoTty
<1>1. ASSUME NEW cur \in live, NEW p \in Pids, NEW g \in Pids, setpgid(cur, p, g) PROVE NestedInv'
    BY <1>1 DEF setpgid, GroupInSession
<1>2. ASSUME NEW cur \in live, setsid(cur) PROVE NestedInv'
    BY <1>2 DEF setsid, proc_clear_tty
<1>3. ASSUME NEW cur \in live, NEW c \in Pids, Fork(cur, c) PROVE NestedInv'
    BY <1>3 DEF Fork, FreePid
<1>4. ASSUME NEW cur \in live, ExecProgram(cur) PROVE NestedInv'
    BY <1>4 DEF ExecProgram
<1>5. ASSUME NEW cur \in live, OpenTty(cur) PROVE NestedInv'
    BY <1>5 DEF OpenTty
<1>6. ASSUME NEW cur \in live, ExitProcess(cur) PROVE NestedInv'
    BY <1>6 DEF ExitProcess
<1>7. CASE UNCHANGED sessVars
    BY <1>7 DEF sessVars
<1> QED BY <1>1, <1>2, <1>3, <1>4, <1>5, <1>6, <1>7 DEF SessNext

\* For every set of process ids, however often they are used again: a process group
\* lies in one session, session leaders lead, and terminals stay in their session.
THEOREM GroupsNested == SessSpec => []GroupsAndSessions
<1>1. NestedInv => GroupsAndSessions
  <2> SUFFICES ASSUME NestedInv PROVE GroupsAndSessions
      OBVIOUS
  <2>1. SameGroupSameSession
      BY DEF NestedInv, SameGroupSameSession, getpgid, getsid
  <2>2. LeaderLeads
      BY DEF NestedInv, LeaderLeads, getpgid, getsid
  <2> QED BY <2>1, <2>2 DEF NestedInv, GroupsAndSessions
<1> QED BY <1>1, NestedInit, NestedStep, PTL DEF SessSpec
-----------------------------------------------------------------------------
(* Priorities. *)

\* The record of a call of setpriority or getpriority in progress.
WalkType == [call : {"none", "set", "get"}, todo : SUBSET Tasks, all : SUBSET Tasks, passed : SUBSET Tasks,
             set : SUBSET Tasks, niceval : NiceMin..NiceMax, error : Errors, best : 0..NiceMax - NiceMin + 1]

\* The tasks a walk has set or is about to set.
Done(w) == w.set \cup w.passed

\* What a walk of setpriority has done to the tasks it has met.
SetWalkInv(w) ==
    w.call = "set" =>
       /\ w.todo \subseteq w.all /\ Done(w) \subseteq w.all \ w.todo
       /\ w.error = "ESRCH" => w.todo = w.all
       /\ w.error = "OK" => w.todo # w.all /\ Done(w) = w.all \ w.todo
       /\ w.error \in {"EPERM", "EACCES"} => Done(w) # w.all \ w.todo

\* One task at most has passed the checks and is to be set; the value is allowed to it.
PassedInv(w) ==
    /\ \A p, q \in w.passed : p = q
    /\ Nicer = {} => \A p \in w.passed : w.niceval >= NiceRlim[p] \/ w.niceval >= 0

\* What a walk of getpriority has found.
GetWalkInv(w) ==
    w.call = "get" =>
       /\ w.error \in {"ESRCH", "OK"}
       /\ w.error = "OK" <=> w.best # 0

WalkInv(w) == SetWalkInv(w) /\ GetWalkInv(w) /\ PassedInv(w)

\* PriorityCallsRight made inductive.
PriorityInv ==
    /\ nice \in [Tasks -> NiceMin..NiceMax]
    /\ walk \in [PrioCallers -> WalkType]
    /\ \A c \in PrioCallers : WalkInv(walk[c])
    /\ NeverBelowRlimit

\* The record of no call is a walk that has met nobody.
LEMMA NoWalkType == NoWalk \in WalkType /\ WalkInv(NoWalk)
<1>1. NoWalk.call = "none" /\ NoWalk.passed = {}
    BY DEF NoWalk
<1>2. NoWalk \in WalkType
    BY PriorityAssumption DEF NoWalk, WalkType, Errors
<1> QED BY <1>1, <1>2 DEF WalkInv, SetWalkInv, GetWalkInv, PassedInv

\* No walk over tasks is in progress at first.
LEMMA PriorityInit == PrioInit => PriorityInv
<1> SUFFICES ASSUME PrioInit PROVE PriorityInv
    OBVIOUS
<1> USE PriorityAssumption
<1>1. \A c \in PrioCallers : walk[c] = NoWalk
    BY DEF PrioInit
<1>2. walk \in [PrioCallers -> WalkType]
    BY NoWalkType DEF PrioInit
<1> QED BY <1>1, <1>2, NoWalkType DEF PrioInit, PriorityInv, NeverBelowRlimit

\* The tasks that setpriority and getpriority select are tasks.
LEMMA SelectedTasks ==
    ASSUME NEW which \in {"PRIO_PROCESS", "PRIO_PGRP", "PRIO_USER"}, NEW who \in Tasks \cup {NoTask}
    PROVE  Selected(which, who) \subseteq Tasks
<1>1. CASE who = NoTask
    BY <1>1 DEF Selected
<1>2. CASE who # NoTask
  <2>1. CASE which = "PRIO_PROCESS"
      BY <1>2, <2>1 DEF Selected
  <2>2. CASE which = "PRIO_PGRP"
      BY <1>2, <2>2 DEF Selected
  <2>3. CASE which = "PRIO_USER"
      BY <1>2, <2>3 DEF Selected
  <2> QED BY <2>1, <2>2, <2>3
<1> QED BY <1>1, <1>2

\* To keep PriorityInv, a step need only care for the walk of its own caller.
LEMMA WalkReplaced ==
    ASSUME PriorityInv, NEW c \in PrioCallers, NEW w \in WalkType, walk' = [walk EXCEPT ![c] = w],
           nice' \in [Tasks -> NiceMin..NiceMax], NeverBelowRlimit',
           WalkInv(w)
    PROVE  PriorityInv'
<1>1. walk' \in [PrioCallers -> WalkType]
    BY DEF PriorityInv
<1>2. \A d \in PrioCallers : walk'[d] = IF d = c THEN w ELSE walk[d]
    BY DEF PriorityInv
<1>3. \A d \in PrioCallers : WalkInv(walk'[d])
    BY <1>2 DEF PriorityInv
<1> QED BY <1>1, <1>3 DEF PriorityInv, WalkInv, SetWalkInv, GetWalkInv, PassedInv, Done

\* Each step of setpriority and getpriority, one task at a time, keeps PriorityInv
\* although other callers change the same tasks between the steps.
LEMMA PriorityStep == PriorityInv /\ [PrioNext]_prioVars => PriorityInv'
<1> SUFFICES ASSUME PriorityInv, [PrioNext]_prioVars PROVE PriorityInv'
    OBVIOUS
<1> USE PriorityAssumption
<1>1. ASSUME NEW c \in PrioCallers, NEW which \in {"PRIO_PROCESS", "PRIO_PGRP", "PRIO_USER"},
             NEW who \in Tasks \cup {NoTask}, NEW n \in NiceMin - 1 .. NiceMax + 1, setpriority(c, which, who, n)
      PROVE  PriorityInv'
  <2> DEFINE s == Selected(which, who)
             w == [NoWalk EXCEPT !.call = "set", !.todo = s, !.all = s,
                                 !.niceval = ClampNice(n), !.error = "ESRCH"]
  <2>1. ClampNice(n) \in NiceMin..NiceMax /\ s \subseteq Tasks
      BY SelectedTasks DEF ClampNice
  <2>2. walk' = [walk EXCEPT ![c] = w] /\ nice' = nice
      BY <1>1 DEF setpriority
  <2> HIDE DEF s
  <2>3. w \in WalkType
      BY <2>1, NoWalkType DEF WalkType, Errors
  <2>4. w.call = "set" /\ w.todo = s /\ w.all = s /\ w.set = {} /\ w.passed = {} /\ w.error = "ESRCH"
      BY NoWalkType DEF WalkType, NoWalk
  <2> HIDE DEF w
  <2>5. WalkInv(w)
      BY <2>4 DEF WalkInv, SetWalkInv, GetWalkInv, PassedInv, Done
  <2> QED BY <2>2, <2>3, <2>5, WalkReplaced DEF PriorityInv, NeverBelowRlimit
<1>2. ASSUME NEW c \in PrioCallers, NEW which \in {"PRIO_PROCESS", "PRIO_PGRP", "PRIO_USER"},
             NEW who \in Tasks \cup {NoTask}, getpriority(c, which, who)
      PROVE  PriorityInv'
  <2> DEFINE s == Selected(which, who)
             w == [NoWalk EXCEPT !.call = "get", !.error = "ESRCH", !.todo = s]
  <2>1. s \subseteq Tasks
      BY SelectedTasks
  <2>2. walk' = [walk EXCEPT ![c] = w] /\ nice' = nice
      BY <1>2 DEF getpriority
  <2> HIDE DEF s
  <2>3. w \in WalkType
      BY <2>1, NoWalkType DEF WalkType, Errors
  <2>4. w.call = "get" /\ w.passed = {} /\ w.error = "ESRCH" /\ w.best = 0
      BY NoWalkType DEF WalkType, NoWalk
  <2> HIDE DEF w
  <2>5. WalkInv(w)
      BY <2>4 DEF WalkInv, SetWalkInv, GetWalkInv, PassedInv
  <2> QED BY <2>2, <2>3, <2>5, WalkReplaced DEF PriorityInv, NeverBelowRlimit
<1>3. ASSUME NEW c \in PrioCallers, NEW p \in Tasks, set_one_prio(c, p) PROVE PriorityInv'
  <2> DEFINE v == walk[c]
             e == PrioError(c, p, v.niceval)
             w == [v EXCEPT !.todo = @ \ {p},
                            !.error = IF e # "OK" THEN e ELSE IF @ = "ESRCH" THEN "OK" ELSE @,
                            !.passed = IF e = "OK" THEN {p} ELSE {}]
  <2>1. /\ v \in WalkType /\ WalkInv(v) /\ v.call = "set" /\ p \in v.todo /\ v.passed = {}
        /\ nice' = nice
      BY <1>3 DEF set_one_prio, PriorityInv
  <2>2. walk' = [walk EXCEPT ![c] = w]
      BY <1>3 DEF set_one_prio, PriorityInv, WalkType
  <2>3. e \in {"OK", "EPERM", "EACCES"}
      BY DEF PrioError
  <2>4. Nicer = {} /\ e = "OK" => v.niceval >= NiceRlim[p] \/ v.niceval >= 0
    <3>1. v.niceval \in NiceMin..NiceMax
        BY <2>1 DEF WalkType
    <3> QED BY <3>1 DEF PrioError, can_nice, PriorityInv, NeverBelowRlimit
  <2> HIDE DEF v, e
  <2>5. w \in WalkType
      BY <2>1, <2>3 DEF WalkType, Errors
  <2>6. /\ w.call = "set" /\ w.all = v.all /\ w.todo = v.todo \ {p} /\ w.set = v.set
        /\ w.passed = IF e = "OK" THEN {p} ELSE {}
        /\ w.niceval = v.niceval
        /\ w.error = IF e # "OK" THEN e ELSE IF v.error = "ESRCH" THEN "OK" ELSE v.error
      BY <2>1 DEF WalkType
  <2> HIDE DEF w
  <2>7. SetWalkInv(w)
    <3>1. v.error \in Errors /\ v.todo \subseteq v.all /\ v.set \subseteq v.all \ v.todo
        BY <2>1 DEF WalkType, WalkInv, SetWalkInv, Done
    <3>2. Done(w) = IF e = "OK" THEN v.set \cup {p} ELSE v.set
        BY <2>6 DEF Done
    <3>3. Done(v) = v.set
        BY <2>1 DEF Done
    <3>4. w.todo \subseteq w.all /\ Done(w) \subseteq w.all \ w.todo /\ w.todo # w.all /\ w.error # "ESRCH"
        BY <2>1, <2>3, <2>6, <3>1, <3>2 DEF Errors
    <3>5. w.error = "OK" => Done(w) = w.all \ w.todo
        BY <2>1, <2>3, <2>6, <3>1, <3>2, <3>3 DEF WalkInv, SetWalkInv
    <3>6. w.error \in {"EPERM", "EACCES"} => Done(w) # w.all \ w.todo
        BY <2>1, <2>3, <2>6, <3>1, <3>2, <3>3 DEF WalkInv, SetWalkInv
    <3> QED BY <3>4, <3>5, <3>6 DEF SetWalkInv
  <2>8. GetWalkInv(w)
      BY <2>6 DEF GetWalkInv
  <2>9. PassedInv(w)
      BY <2>4, <2>6 DEF PassedInv
  <2> QED BY <2>1, <2>2, <2>5, <2>7, <2>8, <2>9, WalkReplaced DEF WalkInv, PriorityInv, NeverBelowRlimit
<1>4. ASSUME NEW c \in PrioCallers, NEW p \in Tasks, set_user_nice(c, p) PROVE PriorityInv'
  <2> DEFINE v == walk[c]
             w == [v EXCEPT !.passed = {}, !.set = @ \cup {p}]
  <2>1. /\ v \in WalkType /\ WalkInv(v) /\ p \in v.passed
        /\ nice' = [nice EXCEPT ![p] = v.niceval]
      BY <1>4 DEF set_user_nice, PriorityInv
  <2>2. walk' = [walk EXCEPT ![c] = w]
      BY <1>4 DEF set_user_nice, PriorityInv, WalkType
  <2>3. NeverBelowRlimit' /\ nice' \in [Tasks -> NiceMin..NiceMax]
    <3>1. v.niceval \in NiceMin..NiceMax
        BY <2>1 DEF WalkType
    <3>2. Nicer = {} => v.niceval >= NiceRlim[p] \/ v.niceval >= 0
        BY <2>1 DEF WalkInv, PassedInv
    <3> HIDE DEF v
    <3> QED BY <2>1, <3>1, <3>2 DEF PriorityInv, NeverBelowRlimit
  <2> HIDE DEF v
  <2>4. w \in WalkType
      BY <2>1 DEF WalkType
  <2>5. /\ w.call = v.call /\ w.all = v.all /\ w.todo = v.todo /\ w.set = v.set \cup {p} /\ w.passed = {}
        /\ w.error = v.error /\ w.best = v.best
      BY <2>1 DEF WalkType
  <2> HIDE DEF w
  <2>6. v.passed = {p}
      BY <2>1 DEF WalkInv, PassedInv
  <2>7. Done(w) = Done(v)
      BY <2>5, <2>6 DEF Done
  <2>8. WalkInv(w)
      BY <2>1, <2>5, <2>7 DEF WalkInv, SetWalkInv, GetWalkInv, PassedInv
  <2> QED BY <2>2, <2>3, <2>4, <2>8, WalkReplaced
<1>5. ASSUME NEW c \in PrioCallers, NEW p \in Tasks, get_one_prio(c, p) PROVE PriorityInv'
  <2> DEFINE v == walk[c]
             w == [v EXCEPT !.todo = @ \ {p}, !.error = "OK",
                            !.best = IF @ > Offset(nice[p]) THEN @ ELSE Offset(nice[p])]
  <2>1. v \in WalkType /\ v.call = "get" /\ nice' = nice
      BY <1>5 DEF get_one_prio, PriorityInv
  <2>2. walk' = [walk EXCEPT ![c] = w]
      BY <1>5 DEF get_one_prio, PriorityInv, WalkType
  <2>3. Offset(nice[p]) \in 1..NiceMax - NiceMin + 1
      BY DEF Offset, PriorityInv
  <2> DEFINE b == IF v.best > Offset(nice[p]) THEN v.best ELSE Offset(nice[p])
  <2>4. b \in 0..NiceMax - NiceMin + 1 /\ b # 0 /\ w = [v EXCEPT !.todo = v.todo \ {p}, !.error = "OK", !.best = b]
      BY <2>1, <2>3 DEF WalkType
  <2> HIDE DEF v, b, w
  <2>5. w \in WalkType
      BY <2>1, <2>4 DEF WalkType, Errors
  <2>6. w.call = "get" /\ w.error = "OK" /\ w.best = b /\ w.passed = v.passed /\ w.niceval = v.niceval
      BY <2>1, <2>4 DEF WalkType
  <2>8. WalkInv(v)
      BY DEF v, PriorityInv
  <2>7. WalkInv(w)
      BY <2>4, <2>6, <2>8 DEF WalkInv, SetWalkInv, GetWalkInv, PassedInv
  <2> QED BY <2>1, <2>2, <2>5, <2>7, WalkReplaced DEF PriorityInv, NeverBelowRlimit
<1>6. ASSUME NEW c \in PrioCallers, PrioReturn(c) PROVE PriorityInv'
  <2> QED BY <1>6, NoWalkType, WalkReplaced DEF PrioReturn, PriorityInv, NeverBelowRlimit
<1>7. CASE UNCHANGED prioVars
    BY <1>7 DEF prioVars, PriorityInv, WalkInv, SetWalkInv, GetWalkInv, PassedInv, Done, NeverBelowRlimit
<1> QED BY <1>1, <1>2, <1>3, <1>4, <1>5, <1>6, <1>7 DEF PrioNext

\* PriorityInv gives what the run checks.
LEMMA PriorityImplies == PriorityInv => PrioTypeOK /\ PriorityCallsRight
<1> SUFFICES ASSUME PriorityInv PROVE PrioTypeOK /\ PriorityCallsRight
    OBVIOUS
<1>1. PrioTypeOK
    BY DEF PriorityInv, PrioTypeOK, WalkType
<1>2. SuccessMeansAllSet
    BY DEF PriorityInv, WalkInv, SuccessMeansAllSet, WalkOver, SetWalkInv, Done, WalkType, Errors
<1>3. GetpriorityPositive
    BY PriorityAssumption DEF PriorityInv, GetpriorityPositive, WalkInv, GetWalkInv, WalkType, Errors
<1> QED BY <1>1, <1>2, <1>3 DEF PriorityInv, PriorityCallsRight

\* For all tasks, users, groups and limits: setpriority reports success only when it
\* has set every task it selected, getpriority never returns a negative value,
\* and no call lowers a nice value below the limit.
THEOREM PriorityCallsDone == PrioSpec => []PriorityCallsRight
<1>1. PriorityInv => PriorityCallsRight
    BY PriorityImplies
<1> QED BY <1>1, PriorityInit, PriorityStep, PTL DEF PrioSpec
-----------------------------------------------------------------------------
(* Stopping the machine. *)

\* The stages of all plans.
StageNames == {"notify", "SYSTEM_RESTART", "SYSTEM_HALT", "SYSTEM_POWER_OFF", "devices", "sysdev",
               "pm_prepare", "cpus", "restart", "halt", "power_off"}

\* The three ways to stop the machine, stage by stage.
Plans == {kernel_restart, kernel_halt, kernel_power_off}

\* What is left of a plan before its k-th stage.
Remaining(plan, k) == [i \in 1..Len(plan) - k + 1 |-> plan[i + k - 1]]

\* An actor is before the k-th stage of a plan.
AtStage(a, plan, k) ==
    /\ stages[a] = Remaining(plan, k)
    /\ \A i \in 1..k - 1 : plan[i] \in happened
    /\ a \in RebootCallers /\ "unlocked" \notin happened /\ k > 2 => system_state = plan[2]

\* ShutdownsOrderly made inductive: whoever is stopping the machine is somewhere in
\* one of the three plans, and has announced it unless the mutex was lost.
ShutdownInv ==
    /\ RebootTypeOK
    /\ doing \in [RebootActors -> {"idle", "stopping", "exited", "setup", "exec", "failed"}]
    /\ stages \in [RebootActors -> Seq(StageNames)]
    /\ \A a \in RebootActors : doing[a] = "stopping" =>
          \E plan \in Plans : \E k \in 1..Len(plan) : AtStage(a, plan, k)
    /\ \A a \in {Worker, Orderly} : doing[a] = "stopping" => "unlocked" \in happened
    /\ ShutdownsOrderly

\* The stages of kernel_restart, one by one.
LEMMA kernel_restart_stages ==
    /\ Len(kernel_restart) = 5 /\ kernel_restart \in Seq(StageNames)
    /\ kernel_restart[1] = "notify"
    /\ kernel_restart[2] = "SYSTEM_RESTART"
    /\ kernel_restart[3] = "devices"
    /\ kernel_restart[4] = "sysdev"
    /\ kernel_restart[5] = "restart"
BY DEF kernel_restart, kernel_restart_prepare, kernel_shutdown_prepare, StageNames

\* The stages of kernel_halt, one by one.
LEMMA kernel_halt_stages ==
    /\ Len(kernel_halt) = 5 /\ kernel_halt \in Seq(StageNames)
    /\ kernel_halt[1] = "notify"
    /\ kernel_halt[2] = "SYSTEM_HALT"
    /\ kernel_halt[3] = "devices"
    /\ kernel_halt[4] = "sysdev"
    /\ kernel_halt[5] = "halt"
BY DEF kernel_halt, kernel_restart_prepare, kernel_shutdown_prepare, StageNames

\* The stages of kernel_power_off, one by one.
LEMMA kernel_power_off_stages ==
    /\ Len(kernel_power_off) = 7 /\ kernel_power_off \in Seq(StageNames)
    /\ kernel_power_off[1] = "notify"
    /\ kernel_power_off[2] = "SYSTEM_POWER_OFF"
    /\ kernel_power_off[3] = "devices"
    /\ kernel_power_off[4] = "pm_prepare"
    /\ kernel_power_off[5] = "cpus"
    /\ kernel_power_off[6] = "sysdev"
    /\ kernel_power_off[7] = "power_off"
BY DEF kernel_power_off, kernel_restart_prepare, kernel_shutdown_prepare, StageNames

\* The system states that announce the end.
LEMMA StoppedStates == {Stopped[w] : w \in DOMAIN Stopped} = {"SYSTEM_RESTART", "SYSTEM_HALT", "SYSTEM_POWER_OFF"}
BY DEF Stopped

\* Each of the three plans announces its own end in its second stage and nowhere
\* else, and has notified drivers and shut devices down before its last stage.
LEMMA PlanFacts ==
    ASSUME NEW plan \in Plans
    PROVE  /\ plan \in Seq(StageNames) /\ Len(plan) \in 5..7
           /\ plan[Len(plan)] \in {"restart", "halt", "power_off"}
           /\ plan[2] = Stopped[plan[Len(plan)]]
           /\ \A i \in 1..Len(plan) : plan[i] \in {Stopped[w] : w \in DOMAIN Stopped} <=> i = 2
           /\ {"notify", "devices", "sysdev"} \subseteq {plan[i] : i \in 1..Len(plan) - 1}
           /\ plan[Len(plan)] = "power_off" => {"pm_prepare", "cpus"} \subseteq {plan[i] : i \in 1..Len(plan) - 1}
<1>1. CASE plan = kernel_restart
    BY <1>1, kernel_restart_stages, StoppedStates DEF Stopped
<1>2. CASE plan = kernel_halt
    BY <1>2, kernel_halt_stages, StoppedStates DEF Stopped
<1>3. CASE plan = kernel_power_off
    BY <1>3, kernel_power_off_stages, StoppedStates DEF Stopped
<1> QED BY <1>1, <1>2, <1>3 DEF Plans

\* Taking a stage from what remains of a plan leaves what remains one stage later.
LEMMA RemainingFacts ==
    ASSUME NEW plan \in Plans, NEW k \in 1..Len(plan)
    PROVE  /\ Remaining(plan, k) \in Seq(StageNames)
           /\ Len(Remaining(plan, k)) = Len(plan) - k + 1
           /\ Head(Remaining(plan, k)) = plan[k]
           /\ k < Len(plan) => Tail(Remaining(plan, k)) = Remaining(plan, k + 1)
<1>1. plan \in Seq(StageNames) /\ Len(plan) \in Nat
    BY PlanFacts
<1>2. Remaining(plan, k) \in Seq(StageNames) /\ Len(Remaining(plan, k)) = Len(plan) - k + 1
    BY <1>1 DEF Remaining
<1>3. Head(Remaining(plan, k)) = plan[k]
    BY <1>1, <1>2 DEF Remaining
<1>4. ASSUME k < Len(plan) PROVE Tail(Remaining(plan, k)) = Remaining(plan, k + 1)
    BY SMTT(60), <1>1, <1>2, <1>4 DEF Remaining
<1> QED BY <1>2, <1>3, <1>4

\* Before the first stage the whole plan remains.
LEMMA WholePlan == \A plan \in Plans : Remaining(plan, 1) = plan
BY PlanFacts DEF Remaining

\* The machine runs, and nobody is stopping it.
LEMMA ShutdownInit == RebootInit => ShutdownInv
<1> SUFFICES ASSUME RebootInit PROVE ShutdownInv
    OBVIOUS
<1>1. RebootTypeOK
    BY RebootAssumption, Zenon DEF RebootInit, RebootTypeOK
<1>2. stages \in [RebootActors -> Seq(StageNames)]
    BY DEF RebootInit
<1>3. doing = [a \in RebootActors |-> "idle"] /\ machine = "on" /\ argv = "none"
    BY DEF RebootInit
<1>4. /\ doing \in [RebootActors -> {"idle", "stopping", "exited", "setup", "exec", "failed"}]
      /\ \A a \in RebootActors : doing[a] = "idle"
    BY <1>3
<1>5. ShutdownsOrderly
    BY <1>3, <1>4 DEF ShutdownsOrderly, RebootSerialised, StopsPrepared, StopsAsAnnounced,
                      MutexLostOnlyByFailedHalt, ArgvReleased, RebootActors
<1> QED BY <1>1, <1>2, <1>4, <1>5 DEF ShutdownInv, RebootActors

\* An actor that is not touched stays where it is in its plan.
LEMMA OthersAtStage ==
    ASSUME NEW a \in RebootActors, NEW plan \in Plans, NEW k \in 1..Len(plan), AtStage(a, plan, k),
           stages'[a] = stages[a], happened \subseteq happened',
           system_state' = system_state \/ a \notin RebootCallers \/ "unlocked" \in happened'
    PROVE  AtStage(a, plan, k)'
BY DEF AtStage

\* Every step of reboot, Ctrl-Alt-Del and orderly_poweroff keeps ShutdownInv, in
\* particular each single stage of a shutdown that others interrupt.
LEMMA ShutdownStep == ShutdownInv /\ [RebootNext]_rebootVars => ShutdownInv'
<1> SUFFICES ASSUME ShutdownInv, [RebootNext]_rebootVars PROVE ShutdownInv'
    OBVIOUS
<1> USE RebootAssumption
<1>14. CASE UNCHANGED rebootVars
    BY <1>14 DEF rebootVars, ShutdownInv, RebootTypeOK, AtStage, ShutdownsOrderly, RebootSerialised, StopsPrepared,
                StopsAsAnnounced, MutexLostOnlyByFailedHalt, ArgvReleased
<1> SUFFICES ASSUME RebootNext, machine = "on" PROVE ShutdownInv'
    BY <1>14 DEF RebootNext
<1>1. ASSUME NEW c \in RebootCallers, NEW cmd \in Commands, RebootReturns(c, cmd) PROVE ShutdownInv'
  <2>1. /\ UNCHANGED <<reboot_mutex, cad_work, system_state, machine, stages, doing, happened, argv>>
        /\ C_A_D' \in BOOLEAN
      BY <1>1 DEF RebootReturns
  <2> QED BY <2>1 DEF ShutdownInv, RebootTypeOK, AtStage, ShutdownsOrderly, RebootSerialised, StopsPrepared,
                StopsAsAnnounced, MutexLostOnlyByFailedHalt, ArgvReleased
<1>2. ASSUME NEW c \in RebootCallers, NEW cmd \in Commands, RebootStops(c, cmd) PROVE ShutdownInv'
  <2>1. PICK plan \in Plans : stages' = [stages EXCEPT ![c] = plan]
      BY <1>2 DEF RebootStops, Plans
  <2>2. /\ doing[c] = "idle" /\ reboot_mutex = Nobody /\ reboot_mutex' = c
        /\ doing' = [doing EXCEPT ![c] = "stopping"]
        /\ UNCHANGED <<C_A_D, cad_work, system_state, machine, happened, argv>>
      BY <1>2 DEF RebootStops
  <2>3. c \in RebootActors /\ c \notin {Worker, Orderly, Nobody} /\ plan \in Seq(StageNames) /\ Len(plan) \in Nat /\ Len(plan) >= 1
      BY PlanFacts DEF RebootActors
  <2>4. AtStage(c, plan, 1)'
      BY <2>1, <2>3, WholePlan DEF AtStage, ShutdownInv
  <2>5. ASSUME NEW a \in RebootActors, doing'[a] = "stopping"
        PROVE  \E p \in Plans : \E k \in 1..Len(p) : AtStage(a, p, k)'
    <3>1. CASE a = c
        BY <2>3, <2>4, <3>1
    <3>2. CASE a # c
      <4>1. doing[a] = "stopping" /\ stages'[a] = stages[a]
          BY <2>1, <2>2, <2>5, <3>2 DEF ShutdownInv
      <4>2. PICK p \in Plans : \E k \in 1..Len(p) : AtStage(a, p, k)
          BY <4>1 DEF ShutdownInv
      <4> QED BY <2>2, <4>1, <4>2, OthersAtStage
    <3> QED BY <3>1, <3>2
  <2>6. /\ doing' \in [RebootActors -> {"idle", "stopping", "exited", "setup", "exec", "failed"}]
        /\ stages' \in [RebootActors -> Seq(StageNames)]
        /\ \A a \in {Worker, Orderly} : doing'[a] = doing[a]
      BY <2>1, <2>2, <2>3 DEF ShutdownInv, RebootActors
  <2>7. RebootTypeOK'
      BY <2>2 DEF ShutdownInv, RebootTypeOK
  <2>8. ShutdownsOrderly'
    <3>1. \A d \in RebootCallers : d # c => doing'[d] = doing[d] /\ doing[d] \notin {"stopping", "exited"}
        BY <2>2 DEF ShutdownInv, ShutdownsOrderly, RebootSerialised, RebootActors
    <3>2. doing'[c] = "stopping" /\ doing'[Orderly] = doing[Orderly]
        BY <2>2, <2>3 DEF ShutdownInv, RebootActors
    <3> QED BY <2>2, <3>1, <3>2 DEF ShutdownInv, ShutdownsOrderly, RebootSerialised, StopsPrepared,
                StopsAsAnnounced, MutexLostOnlyByFailedHalt, ArgvReleased
  <2> QED BY <2>2, <2>5, <2>6, <2>7, <2>8 DEF ShutdownInv
<1>3. ASSUME NEW a \in RebootActors, Stage(a) PROVE ShutdownInv'
  <2>1. /\ doing[a] = "stopping" /\ Len(stages[a]) > 1
        /\ stages' = [stages EXCEPT ![a] = Tail(stages[a])]
        /\ happened' = happened \cup {Head(stages[a])}
        /\ system_state' = IF Head(stages[a]) \in {Stopped[w] : w \in DOMAIN Stopped}
                           THEN Head(stages[a]) ELSE system_state
        /\ UNCHANGED <<reboot_mutex, C_A_D, cad_work, machine, doing, argv>>
      BY <1>3 DEF Stage
  <2>2. PICK plan \in Plans : \E k \in 1..Len(plan) : AtStage(a, plan, k)
      BY <2>1 DEF ShutdownInv
  <2>3. PICK k \in 1..Len(plan) : AtStage(a, plan, k)
      BY <2>2
  <2>4. /\ k + 1 \in 1..Len(plan) /\ Head(stages[a]) = plan[k]
        /\ Tail(stages[a]) = Remaining(plan, k + 1) /\ Remaining(plan, k + 1) \in Seq(StageNames)
    <3>1. Len(plan) \in Nat
        BY PlanFacts
    <3>2. k < Len(plan)
        BY <2>1, <2>3, <3>1, RemainingFacts DEF AtStage
    <3>3. k + 1 \in 1..Len(plan)
        BY <3>1, <3>2
    <3> QED BY <2>3, <3>2, <3>3, RemainingFacts DEF AtStage
  <2>5. AtStage(a, plan, k + 1)'
    <3>1. stages'[a] = Remaining(plan, k + 1)
        BY <2>1, <2>4 DEF ShutdownInv
    <3>2. \A i \in 1..k : plan[i] \in happened'
        BY <2>1, <2>3, <2>4 DEF AtStage
    <3>3. a \in RebootCallers /\ "unlocked" \notin happened' /\ k + 1 > 2 => system_state' = plan[2]
        BY SMTT(60), <2>1, <2>3, <2>4, PlanFacts DEF AtStage
    <3> QED BY <3>1, <3>2, <3>3 DEF AtStage
  <2>6. ASSUME NEW b \in RebootActors, doing'[b] = "stopping"
        PROVE  \E p \in Plans : \E j \in 1..Len(p) : AtStage(b, p, j)'
    <3>1. CASE b = a
        BY <2>4, <2>5, <3>1
    <3>2. CASE b # a
      <4>1. doing[b] = "stopping" /\ stages'[b] = stages[b]
          BY <2>1, <2>6, <3>2 DEF ShutdownInv
      <4>2. PICK p \in Plans : \E j \in 1..Len(p) : AtStage(b, p, j)
          BY <4>1 DEF ShutdownInv
      <4>3. b \notin RebootCallers \/ "unlocked" \in happened'
          BY <2>1, <4>1, <3>2 DEF ShutdownInv, ShutdownsOrderly, RebootSerialised, RebootActors
      <4> QED BY <2>1, <4>1, <4>2, <4>3, OthersAtStage
    <3> QED BY <3>1, <3>2
  <2>7. stages' \in [RebootActors -> Seq(StageNames)]
      BY <2>1, <2>4 DEF ShutdownInv
  <2>8. RebootTypeOK'
      BY <2>1 DEF ShutdownInv, RebootTypeOK
  <2>9. ShutdownsOrderly'
      BY <2>1 DEF ShutdownInv, ShutdownsOrderly, RebootSerialised, StopsPrepared,
                StopsAsAnnounced, MutexLostOnlyByFailedHalt, ArgvReleased
  <2> QED BY <2>1, <2>6, <2>7, <2>8, <2>9 DEF ShutdownInv
<1>4. ASSUME NEW a \in RebootActors, MachineStops(a) PROVE ShutdownInv'
  <2>1. /\ doing[a] = "stopping" /\ Len(stages[a]) = 1 /\ machine' = Head(stages[a])
        /\ UNCHANGED <<reboot_mutex, C_A_D, cad_work, system_state, stages, doing, happened, argv>>
      BY <1>4 DEF MachineStops
  <2>2. PICK plan \in Plans : \E k \in 1..Len(plan) : AtStage(a, plan, k)
      BY <2>1 DEF ShutdownInv
  <2>3. PICK k \in 1..Len(plan) : AtStage(a, plan, k)
      BY <2>2
  <2>4. k = Len(plan) /\ k > 2 /\ machine' = plan[k]
    <3>1. Len(plan) \in 5..7 /\ stages[a] = Remaining(plan, k)
        BY <2>3, PlanFacts DEF AtStage
    <3>2. Len(plan) - k + 1 = 1 /\ machine' = plan[k]
        BY ZenonT(60), <2>1, <3>1, RemainingFacts
    <3>3. k = Len(plan)
        BY <3>1, <3>2
    <3>4. \A n \in 5..7 : n > 2
        OBVIOUS
    <3> QED BY <3>1, <3>2, <3>3, <3>4, Zenon
  <2>5. {plan[i] : i \in 1..Len(plan) - 1} \subseteq happened
      BY <2>3, <2>4 DEF AtStage
  <2>6. machine' \in {"restart", "halt", "power_off"} /\ StopsPrepared'
      BY ZenonT(60), <2>1, <2>4, <2>5, PlanFacts DEF StopsPrepared
  <2>7. StopsAsAnnounced'
      BY <2>1, <2>3, <2>4, PlanFacts DEF StopsAsAnnounced, AtStage, ShutdownInv, RebootActors
  <2>8. RebootTypeOK'
      BY <2>1, <2>6 DEF ShutdownInv, RebootTypeOK, Stopped
  <2> QED BY <2>1, <2>6, <2>7, <2>8 DEF ShutdownInv, AtStage, ShutdownsOrderly, RebootSerialised,
                MutexLostOnlyByFailedHalt, ArgvReleased
<1>5. ASSUME NEW a \in RebootActors, MachineFails(a) PROVE ShutdownInv'
  <2> DEFINE dies == a \in RebootCallers /\ DiesHolding(Head(stages[a]))
  <2>1. /\ doing[a] = "stopping" /\ stages' = [stages EXCEPT ![a] = <<>>]
        /\ doing' = [doing EXCEPT ![a] = IF dies THEN "exited" ELSE "idle"]
        /\ reboot_mutex' = IF a \in RebootCallers /\ ~dies THEN Nobody ELSE reboot_mutex
        /\ happened' = happened \cup {"failed", Head(stages[a])}
        /\ UNCHANGED <<C_A_D, cad_work, system_state, machine, argv>>
      BY <1>5 DEF MachineFails
  <2>2. dies => a \in RebootCallers /\ happened' \cap {"halt", "power_off"} # {}
      BY <2>1 DEF DiesHolding
  <2> HIDE DEF dies
  <2>3. ASSUME NEW b \in RebootActors, doing'[b] = "stopping"
        PROVE  /\ doing[b] = "stopping" /\ b # a
               /\ \E p \in Plans : \E j \in 1..Len(p) : AtStage(b, p, j)'
    <3>1. doing[b] = "stopping" /\ b # a /\ stages'[b] = stages[b]
        BY <2>1, <2>3 DEF ShutdownInv
    <3>2. PICK p \in Plans : \E j \in 1..Len(p) : AtStage(b, p, j)
        BY <3>1 DEF ShutdownInv
    <3> QED BY <2>1, <3>1, <3>2, OthersAtStage
  <2>4. /\ doing' \in [RebootActors -> {"idle", "stopping", "exited", "setup", "exec", "failed"}]
        /\ stages' \in [RebootActors -> Seq(StageNames)]
      BY <2>1 DEF ShutdownInv
  <2>5. RebootTypeOK'
      BY <2>1 DEF ShutdownInv, RebootTypeOK
  <2>6. RebootSerialised' /\ MutexLostOnlyByFailedHalt'
      BY <2>1, <2>2 DEF ShutdownInv, ShutdownsOrderly, RebootSerialised, MutexLostOnlyByFailedHalt, RebootActors
  <2>7. StopsPrepared' /\ StopsAsAnnounced' /\ ArgvReleased'
      BY <2>1 DEF ShutdownInv, ShutdownsOrderly, StopsPrepared, StopsAsAnnounced, ArgvReleased, RebootActors
  <2> QED BY <2>1, <2>3, <2>4, <2>5, <2>6, <2>7 DEF ShutdownInv, ShutdownsOrderly, RebootActors
<1>6. CASE ctrl_alt_del
  <2>1. /\ UNCHANGED <<reboot_mutex, C_A_D, system_state, machine, stages, doing, happened, argv>>
        /\ cad_work' \in BOOLEAN
      BY <1>6, Zenon DEF ctrl_alt_del
  <2> QED BY <2>1 DEF ShutdownInv, RebootTypeOK, AtStage, ShutdownsOrderly, RebootSerialised, StopsPrepared,
                StopsAsAnnounced, MutexLostOnlyByFailedHalt, ArgvReleased
<1>7. ASSUME NEW a \in {Worker, Orderly}, NEW plan \in Plans, doing[a] \in {"idle", "failed"},
             doing' = [doing EXCEPT ![a] = "stopping"], stages' = [stages EXCEPT ![a] = plan],
             happened' = happened \cup {"unlocked"}, cad_work' \in BOOLEAN,
             UNCHANGED <<reboot_mutex, C_A_D, system_state, machine, argv>>
      PROVE  ShutdownInv'
  <2>1. a \in RebootActors /\ a \notin RebootCallers /\ plan \in Seq(StageNames) /\ Len(plan) \in Nat /\ Len(plan) >= 1
      BY PlanFacts DEF RebootActors
  <2>2. AtStage(a, plan, 1)'
      BY <1>7, <2>1, WholePlan DEF AtStage, ShutdownInv
  <2>3. ASSUME NEW b \in RebootActors, doing'[b] = "stopping"
        PROVE  \E p \in Plans : \E k \in 1..Len(p) : AtStage(b, p, k)'
    <3>1. CASE b = a
        BY <2>1, <2>2, <3>1
    <3>2. CASE b # a
      <4>1. doing[b] = "stopping" /\ stages'[b] = stages[b]
          BY <1>7, <2>3, <3>2 DEF ShutdownInv
      <4>2. PICK p \in Plans : \E k \in 1..Len(p) : AtStage(b, p, k)
          BY <4>1 DEF ShutdownInv
      <4> QED BY <1>7, <4>1, <4>2, OthersAtStage
    <3> QED BY <3>1, <3>2
  <2>4. /\ doing' \in [RebootActors -> {"idle", "stopping", "exited", "setup", "exec", "failed"}]
        /\ stages' \in [RebootActors -> Seq(StageNames)]
        /\ \A c \in RebootCallers : doing'[c] = doing[c]
      BY <1>7, <2>1 DEF ShutdownInv, RebootActors
  <2>5. RebootTypeOK'
      BY <1>7 DEF ShutdownInv, RebootTypeOK
  <2>6. ArgvReleased'
      BY <1>7 DEF ShutdownInv, ShutdownsOrderly, ArgvReleased, RebootActors
  <2>7. ShutdownsOrderly'
      BY <1>7, <2>4, <2>6 DEF ShutdownInv, ShutdownsOrderly, RebootSerialised, StopsPrepared,
                StopsAsAnnounced, MutexLostOnlyByFailedHalt
  <2> QED BY <1>7, <2>3, <2>4, <2>5, <2>7 DEF ShutdownInv
<1>8. CASE deferred_cad
  <2>1. cad_work' \in BOOLEAN
      BY <1>8, Zenon DEF deferred_cad
  <2> QED BY <1>7, <1>8, <2>1 DEF deferred_cad, Plans
<1>9. ASSUME NEW w \in {"idle", "setup", "exec", "failed"}, NEW v \in {"none", "held", "helper"},
             doing' = [doing EXCEPT ![Orderly] = w], argv' = v, w \in {"idle", "failed"} => v = "none",
             UNCHANGED <<reboot_mutex, C_A_D, cad_work, system_state, machine, happened>>,
             stages' = stages \/ stages' = [stages EXCEPT ![Orderly] = <<>>]
      PROVE  ShutdownInv'
  <2>1. /\ doing' \in [RebootActors -> {"idle", "stopping", "exited", "setup", "exec", "failed"}]
        /\ \A c \in RebootCallers : doing'[c] = doing[c]
      BY <1>9 DEF ShutdownInv, RebootActors
  <2>6. stages' \in [RebootActors -> Seq(StageNames)]
    <3>1. CASE stages' = stages
        BY <3>1 DEF ShutdownInv
    <3>2. <<>> \in Seq(StageNames)
        OBVIOUS
    <3>3. CASE stages' = [stages EXCEPT ![Orderly] = <<>>]
        BY <3>2, <3>3, Zenon DEF ShutdownInv
    <3> QED BY <1>9, <3>1, <3>3
  <2>2. \A a \in RebootActors : doing'[a] = "stopping" =>
                /\ doing[a] = "stopping"
                /\ \E plan \in Plans : \E k \in 1..Len(plan) : AtStage(a, plan, k)'
    <3> SUFFICES ASSUME NEW a \in RebootActors, doing'[a] = "stopping"
                 PROVE  /\ doing[a] = "stopping"
                        /\ \E plan \in Plans : \E k \in 1..Len(plan) : AtStage(a, plan, k)'
        OBVIOUS
    <3>1. doing[a] = "stopping" /\ a # Orderly /\ stages'[a] = stages[a]
        BY <1>9 DEF ShutdownInv
    <3>2. PICK plan \in Plans : \E k \in 1..Len(plan) : AtStage(a, plan, k)
        BY <3>1 DEF ShutdownInv
    <3> QED BY <1>9, <3>1, <3>2, OthersAtStage
  <2>3. ArgvReleased'
      BY <1>9 DEF ShutdownInv, ArgvReleased, RebootActors
  <2>4. ShutdownsOrderly'
      BY <1>9, <2>1, <2>3 DEF ShutdownInv, ShutdownsOrderly, RebootSerialised, StopsPrepared,
                StopsAsAnnounced, MutexLostOnlyByFailedHalt
  <2>5. RebootTypeOK'
      BY <1>9 DEF ShutdownInv, RebootTypeOK
  <2> QED BY <1>9, <2>1, <2>2, <2>4, <2>5, <2>6 DEF ShutdownInv, RebootActors
<1>10. CASE orderly_split
    BY <1>9, <1>10 DEF orderly_split
<1>11. CASE orderly_setup
    BY <1>9, <1>11 DEF orderly_setup
<1>12. CASE orderly_exec
    BY <1>9, <1>12 DEF orderly_exec
<1>13. ASSUME NEW force \in BOOLEAN, orderly_out(force) PROVE ShutdownInv'
  <2>1. CASE force
    <3>1. kernel_power_off \in Plans /\ cad_work \in BOOLEAN
        BY DEF Plans, ShutdownInv, RebootTypeOK
    <3>2. /\ doing[Orderly] = "failed" /\ doing' = [doing EXCEPT ![Orderly] = "stopping"]
          /\ stages' = [stages EXCEPT ![Orderly] = kernel_power_off]
          /\ happened' = happened \cup {"unlocked"}
          /\ UNCHANGED <<reboot_mutex, C_A_D, cad_work, system_state, machine, argv>>
        BY <1>13, <2>1 DEF orderly_out
    <3> QED BY <1>7, <3>1, <3>2
  <2>2. CASE ~force
    <3>1. /\ doing[Orderly] = "failed" /\ doing' = [doing EXCEPT ![Orderly] = "idle"]
          /\ stages' = [stages EXCEPT ![Orderly] = <<>>]
          /\ UNCHANGED <<reboot_mutex, C_A_D, cad_work, system_state, machine, happened, argv>>
        BY <1>13, <2>2 DEF orderly_out
    <3>2. argv' = "none"
        BY <3>1 DEF ShutdownInv, ShutdownsOrderly, ArgvReleased
    <3> QED BY <1>9, <3>1, <3>2
  <2> QED BY <2>1, <2>2
<1> QED BY <1>1, <1>2, <1>3, <1>4, <1>5, <1>6, <1>8, <1>10, <1>11, <1>12, <1>13 DEF RebootNext

\* For every set of callers: reboot is serialised by its mutex, the machine stops
\* only after the preparations of its plan, as the caller that holds the mutex
\* announced it, and the argument vector of orderly_poweroff is always freed.
THEOREM ShutdownsDone == RebootSpec => []ShutdownsOrderly
<1>1. ShutdownInv => ShutdownsOrderly
    BY DEF ShutdownInv
<1> QED BY <1>1, ShutdownInit, ShutdownStep, PTL DEF RebootSpec
-----------------------------------------------------------------------------
(* Resource limits. *)

\* The values of a limit that setrlimit lets through.
Ordered(l, r) == l.cur <= l.max \/ (r = "RLIMIT_CPU" /\ l = [cur |-> 1, max |-> 0])

\* The thread is between the store of RLIMIT_CPU and the update of the timer.
SettingTimer(t) == limCall[t].at = "timer"

\* LimTypeOK with the types of the calls in progress.
LimitTypes ==
    /\ rlim \in [Resources -> Limit] /\ ceiling \in [Resources -> 0..Infinity]
    /\ limCall \in [LimThreads -> [at : {"none", "store", "timer"}, res : Resources, new : Limit]]
    /\ cpuTimer \in 0..Infinity /\ limRaced \in BOOLEAN

\* Values that passed the checks and are yet to be stored are in order, and within
\* the ceiling of a thread without the capability.
PendingOrdered ==
    \A t \in LimThreads : limCall[t].at # "none" => Ordered(limCall[t].new, limCall[t].res)

PendingBelowCeiling ==
    \A t \in LimThreads \ LimCapable : limCall[t].at = "store" => limCall[t].new.max <= ceiling[limCall[t].res]

\* Without overlapping calls one thread at most is setting the timer, to the limit
\* it stored.
TimerInv ==
    ~limRaced =>
       /\ \A s, t \in LimThreads : SettingTimer(s) /\ SettingTimer(t) => s = t
       /\ \A t \in LimThreads : SettingTimer(t) => /\ limCall[t].res = "RLIMIT_CPU"
                                                   /\ rlim["RLIMIT_CPU"].cur = limCall[t].new.cur
       /\ (\A t \in LimThreads : ~SettingTimer(t)) => rlim["RLIMIT_CPU"].cur \in {Infinity, cpuTimer}

\* SoftWithinHard, NeverAboveCeiling and TimerMatchesLimit made inductive.
LimitsInv ==
    /\ LimitTypes
    /\ \A r \in Resources : Ordered(rlim[r], r)
    /\ PendingOrdered
    /\ NeverAboveCeiling
    /\ PendingBelowCeiling
    /\ TimerInv

\* The initial limits are in order, and no call is in progress.
LEMMA LimitsInit == LimInit => LimitsInv
<1> SUFFICES ASSUME LimInit PROVE LimitsInv
    OBVIOUS
<1>1. LimitTypes
  <2>1. NrOpen \div 2 \in 0..Infinity
      BY LimitsAssumption
  <2>2. rlim \in [Resources -> Limit]
      BY <2>1, LimitsAssumption DEF LimInit, Limit
  <2>3. ceiling \in [Resources -> 0..Infinity]
    <3>1. \A r \in Resources : rlim[r] \in Limit
        BY <2>2
    <3>2. \A r \in Resources : rlim[r].max \in 0..Infinity
        BY <3>1 DEF Limit
    <3> QED BY <3>2 DEF LimInit
  <2>4. NoCall \in [at : {"none", "store", "timer"}, res : Resources, new : Limit]
      BY LimitsAssumption DEF NoCall, Resources, Limit
  <2>5. limCall \in [LimThreads -> [at : {"none", "store", "timer"}, res : Resources, new : Limit]]
      BY <2>4 DEF LimInit
  <2>6. cpuTimer \in 0..Infinity
      BY LimitsAssumption DEF LimInit
  <2>7. limRaced \in BOOLEAN
      BY Zenon DEF LimInit
  <2> QED BY <2>2, <2>3, <2>5, <2>6, <2>7 DEF LimitTypes
<1>2. \A r \in Resources : Ordered(rlim[r], r)
    BY LimitsAssumption DEF LimInit, Ordered, Resources
<1>3. PendingOrdered /\ PendingBelowCeiling
    BY DEF LimInit, PendingOrdered, PendingBelowCeiling, NoCall
<1>4. NeverAboveCeiling
    BY LimitsAssumption DEF LimInit, NeverAboveCeiling, Resources
<1>5. TimerInv
    BY DEF LimInit, TimerInv, SettingTimer, NoCall, Resources
<1> QED BY <1>1, <1>2, <1>3, <1>4, <1>5 DEF LimitsInv

\* The checks, the store and the timer update of setrlimit, of several threads at
\* once, keep LimitsInv.
LEMMA LimitsStep == LimitsInv /\ [LimNext]_limVars => LimitsInv'
<1> SUFFICES ASSUME LimitsInv, [LimNext]_limVars PROVE LimitsInv'
    OBVIOUS
<1> USE LimitsAssumption
<1>1. ASSUME NEW t \in LimThreads, NEW r \in Resources, NEW new \in Limit, setrlimit(t, r, new)
      PROVE  LimitsInv'
  <2> DEFINE l == IF r = "RLIMIT_CPU" /\ new.cur = 0 THEN [new EXCEPT !.cur = 1] ELSE new
  <2>1. l \in Limit /\ Ordered(l, r) /\ l.max = new.max
      BY <1>1 DEF setrlimit, Limit, Ordered
  <2>2. /\ limCall' = [limCall EXCEPT ![t] = [at |-> "store", res |-> r, new |-> l]]
        /\ UNCHANGED <<rlim, cpuTimer, limRaced, ceiling>>
        /\ limCall[t].at = "none" /\ MayRaise(t, r, new.max)
      BY <1>1 DEF setrlimit
  <2> HIDE DEF l
  <2>3. LimitTypes'
      BY <2>1, <2>2 DEF LimitsInv, LimitTypes
  <2>4. PendingOrdered'
      BY <2>1, <2>2 DEF LimitsInv, LimitTypes, PendingOrdered, Ordered
  <2>5. t \notin LimCapable => l.max <= ceiling[r]
      BY <2>1, <2>2 DEF LimitsInv, LimitTypes, NeverAboveCeiling, MayRaise, Limit
  <2>6. PendingBelowCeiling'
      BY <2>2, <2>5 DEF LimitsInv, LimitTypes, PendingBelowCeiling
  <2>7. TimerInv'
      BY <2>2 DEF LimitsInv, LimitTypes, TimerInv, SettingTimer
  <2> QED BY <2>2, <2>3, <2>4, <2>6, <2>7 DEF LimitsInv, NeverAboveCeiling, Ordered
<1>2. ASSUME NEW t \in LimThreads, StoreLimit(t) PROVE LimitsInv'
  <2> DEFINE c == limCall[t]
  <2>1. /\ c.at = "store" /\ c.res \in Resources /\ c.new \in Limit /\ Ordered(c.new, c.res)
        /\ t \notin LimCapable => c.new.max <= ceiling[c.res]
      BY <1>2 DEF StoreLimit, LimitsInv, LimitTypes, PendingOrdered, PendingBelowCeiling
  <2>2. /\ rlim' = [rlim EXCEPT ![c.res] = c.new] /\ cpuTimer' = cpuTimer
        /\ ceiling' = IF t \in LimCapable /\ c.new.max > ceiling[c.res]
                      THEN [ceiling EXCEPT ![c.res] = c.new.max] ELSE ceiling
      BY <1>2 DEF StoreLimit
  <2>3. limCall' = [limCall EXCEPT ![t] = IF c.res = "RLIMIT_CPU" /\ c.new.cur # Infinity
                                          THEN [c EXCEPT !.at = "timer"] ELSE NoCall]
      BY <1>2 DEF StoreLimit
  <2>4. limRaced' = (limRaced \/ (c.res = "RLIMIT_CPU" /\
                      \E s \in LimThreads \ {t} : limCall[s].at # "none" /\ limCall[s].res = c.res))
      BY <1>2 DEF StoreLimit
  <2>5. \A s \in LimThreads \ {t} : limCall'[s] = limCall[s]
      BY <2>3 DEF LimitsInv, LimitTypes
  <2>6. /\ limCall'[t] \in [at : {"none", "store", "timer"}, res : Resources, new : Limit]
        /\ limCall'[t].at # "store"
        /\ limCall'[t].at = "timer" <=> c.res = "RLIMIT_CPU" /\ c.new.cur # Infinity
        /\ limCall'[t].at = "timer" => limCall'[t].new = c.new /\ limCall'[t].res = c.res
      BY <2>1, <2>3 DEF LimitsInv, LimitTypes, NoCall, Resources, Limit
  <2>7. /\ limCall' \in [LimThreads -> [at : {"none", "store", "timer"}, res : Resources, new : Limit]]
      BY <2>3, <2>6 DEF LimitsInv, LimitTypes
  <2>8. /\ ceiling' \in [Resources -> 0..Infinity] /\ c.new.max <= ceiling'[c.res]
        /\ \A r \in Resources : ceiling[r] <= ceiling'[r]
      BY <2>1, <2>2 DEF LimitsInv, LimitTypes, Limit
  <2>9. rlim' \in [Resources -> Limit] /\ rlim'[c.res] = c.new /\ \A r \in Resources \ {c.res} : rlim'[r] = rlim[r]
      BY <2>1, <2>2 DEF LimitsInv, LimitTypes
  <2> HIDE DEF c
  <2>10. NeverAboveCeiling'
      <3> SUFFICES ASSUME NEW r \in Resources PROVE rlim'[r].max <= ceiling'[r]
          BY DEF NeverAboveCeiling
      <3>1. CASE r = c.res
          BY <2>8, <2>9, <3>1
      <3>2. CASE r # c.res
          <4>1. rlim[r].max <= ceiling[r] /\ rlim[r].max \in Int /\ ceiling[r] \in Int /\ ceiling'[r] \in Int
              BY <2>8 DEF LimitsInv, LimitTypes, NeverAboveCeiling, Limit
          <4> QED BY <2>8, <2>9, <3>2, <4>1
      <3> QED BY <3>1, <3>2
  <2>11. PendingBelowCeiling'
      <3> SUFFICES ASSUME NEW s \in LimThreads \ LimCapable, limCall'[s].at = "store"
                   PROVE limCall'[s].new.max <= ceiling'[limCall'[s].res]
          BY DEF PendingBelowCeiling
      <3>1. s # t /\ limCall'[s] = limCall[s]
          BY <2>5, <2>6
      <3>2. /\ limCall[s].new.max <= ceiling[limCall[s].res] /\ limCall[s].res \in Resources
            /\ limCall[s].new.max \in Int
          BY <3>1 DEF LimitsInv, LimitTypes, PendingBelowCeiling, Limit
      <3>3. ceiling[limCall[s].res] \in Int /\ ceiling'[limCall[s].res] \in Int
          BY <2>8, <3>2 DEF LimitsInv, LimitTypes
      <3> QED BY <2>8, <3>1, <3>2, <3>3
  <2>12. PendingOrdered' /\ \A r \in Resources : Ordered(rlim'[r], r)
      BY <2>1, <2>5, <2>6, <2>9 DEF LimitsInv, PendingOrdered, Ordered
  <2>13. TimerInv'
      <3> SUFFICES ASSUME ~limRaced' PROVE TimerInv'
          BY DEF TimerInv
      <3>1. ~limRaced /\ (c.res = "RLIMIT_CPU" => \A s \in LimThreads \ {t} : limCall[s].at # "none" => limCall[s].res # c.res)
          BY <2>4
      <3>2. CASE c.res = "RLIMIT_CPU"
          <4>1. \A s \in LimThreads \ {t} : ~SettingTimer(s)'
              BY <2>5, <3>1, <3>2 DEF LimitsInv, TimerInv, SettingTimer
          <4> QED BY <2>6, <2>9, <3>2, <4>1 DEF TimerInv, SettingTimer
      <3>3. CASE c.res # "RLIMIT_CPU"
          <4>1. ~SettingTimer(t) /\ ~SettingTimer(t)' /\ rlim'["RLIMIT_CPU"] = rlim["RLIMIT_CPU"]
              BY <2>1, <2>6, <2>9, <3>3 DEF SettingTimer, Resources, c
          <4> QED BY <2>2, <2>5, <3>1, <4>1 DEF LimitsInv, TimerInv, SettingTimer
      <3> QED BY <3>2, <3>3
  <2>14. limRaced' \in BOOLEAN
      BY <2>4
  <2>15. LimitTypes'
      BY <2>2, <2>7, <2>8, <2>9, <2>14 DEF LimitsInv, LimitTypes
  <2> QED BY <2>10, <2>11, <2>12, <2>13, <2>15 DEF LimitsInv, Ordered
<1>3. ASSUME NEW t \in LimThreads, update_rlimit_cpu(t) PROVE LimitsInv'
  <2>1. /\ limCall' = [limCall EXCEPT ![t] = NoCall] /\ SettingTimer(t)
        /\ cpuTimer' = limCall[t].new.cur /\ UNCHANGED <<rlim, limRaced, ceiling>>
      BY <1>3 DEF update_rlimit_cpu, SettingTimer
  <2>2. LimitTypes'
      BY <2>1 DEF LimitsInv, LimitTypes, NoCall, Resources, Limit
  <2>3. PendingOrdered' /\ PendingBelowCeiling'
      BY <2>1 DEF LimitsInv, LimitTypes, PendingOrdered, PendingBelowCeiling, Ordered, NoCall
  <2>4. TimerInv'
      BY <2>1 DEF LimitsInv, LimitTypes, TimerInv, SettingTimer, NoCall
  <2> QED BY <2>1, <2>2, <2>3, <2>4 DEF LimitsInv, NeverAboveCeiling, Ordered
<1>4. CASE UNCHANGED limVars
    BY <1>4 DEF limVars, LimitsInv, LimitTypes, Ordered, PendingOrdered, PendingBelowCeiling, NeverAboveCeiling, TimerInv, SettingTimer
<1> QED BY <1>1, <1>2, <1>3, <1>4 DEF LimNext

\* LimitsInv gives what the run checks.
LEMMA LimitsImply == LimitsInv => LimTypeOK /\ SoftWithinHard /\ NeverAboveCeiling /\ TimerMatchesLimit
<1> SUFFICES ASSUME LimitsInv PROVE LimTypeOK /\ SoftWithinHard /\ NeverAboveCeiling /\ TimerMatchesLimit
    OBVIOUS
<1>1. LimTypeOK
    BY DEF LimitsInv, LimitTypes, LimTypeOK
<1>2. SoftWithinHard
    BY LimitsAssumption DEF LimitsInv, LimitTypes, Limit, SoftWithinHard, Ordered, getrlimit, old_getrlimit, AtMost
<1>3. TimerMatchesLimit
    BY DEF LimitsInv, TimerInv, TimerMatchesLimit, SettingTimer
<1> QED BY <1>1, <1>2, <1>3 DEF LimitsInv

\* For every number of threads and all values of the limits, LimitsInv holds.
THEOREM LimitsKept == LimSpec => []LimitsInv
BY LimitsInit, LimitsStep, PTL DEF LimSpec
-----------------------------------------------------------------------------
(* The names of the system. *)

\* A field that holds a name: the characters, then zeros.
Padded(n) == [i \in 1..UtsLen + 1 |-> IF i <= Len(n) THEN n[i] ELSE 0]

\* A field between the two steps of a write: the new characters over the old name.
Overwritten(n, old) == [i \in 1..UtsLen + 1 |-> IF i <= Len(n) THEN n[i] ELSE Padded(old)[i]]

\* A call on a name in progress.
CallType == [at : {"idle", "copy", "zero", "read", "got"}, field : Fields,
             limit : 0..UtsLen + 1, len : 0..UtsLen + 1, name : Seq(Chars \cup {0})]

\* The process that has begun to write field f.
Writing(t, f) == utsCall[t].at = "zero" /\ utsCall[t].field = f

\* What is in a field, and who may be at it: uts_sem has one writer or readers, and
\* a field holds its current name unless a write has copied only the new
\* characters yet.
UtsInv ==
    /\ utsCall \in [UtsTasks -> CallType]
    /\ current \in [Fields -> Names]
    /\ utsReads = {t \in UtsTasks : utsCall[t].at = "read"}
    /\ utsWrites = {t \in UtsTasks : utsCall[t].at \in {"copy", "zero"}}
    /\ \A s, t \in utsWrites : s = t
    /\ utsReads = {} \/ utsWrites = {}
    /\ uts \in [Fields -> [1..UtsLen + 1 -> Chars \cup {0}]]
    /\ \A t \in utsWrites : utsCall[t].name \in Names
    /\ \A f \in Fields : \A t \in UtsTasks : Writing(t, f) => uts[f] = Overwritten(utsCall[t].name, current[f])
    /\ \A f \in Fields : (\A t \in UtsTasks : ~Writing(t, f)) => uts[f] = Padded(current[f])
    /\ \A t \in utsReads : LET n == Len(current[utsCall[t].field])  l == utsCall[t].limit IN
          utsCall[t].len = IF n < l THEN n + 1 ELSE l

\* The characters of a name are not zero, and there are at most UtsLen.
LEMMA NameFacts ==
    ASSUME NEW n \in Names
    PROVE  n \in Seq(Chars) /\ Len(n) \in 0..UtsLen /\ \A i \in 1..Len(n) : n[i] \in Chars /\ n[i] # 0
BY UtsAssumption DEF Names

\* A field always ends in a zero, also between the memcpy and the memset of a write;
\* and the memset makes the field the new name.
LEMMA PaddedFacts ==
    ASSUME NEW n \in Names, NEW old \in Names
    PROVE  /\ Padded(n) \in [1..UtsLen + 1 -> Chars \cup {0}]
           /\ Overwritten(n, old) \in [1..UtsLen + 1 -> Chars \cup {0}]
           /\ Padded(n)[UtsLen + 1] = 0 /\ Overwritten(n, old)[UtsLen + 1] = 0
           /\ Zeros(Overwritten(n, old), Len(n)) = Padded(n)
BY NameFacts, UtsAssumption DEF Padded, Overwritten, Zeros

\* strlen of a field is the length of the name in it.
LEMMA PaddedLength ==
    ASSUME NEW n \in Names
    PROVE  strlen(Padded(n)) = Len(n)
<1> DEFINE P(k) == (\A i \in 1..k : Padded(n)[i] # 0) /\ (k = UtsLen + 1 \/ Padded(n)[k + 1] = 0)
<1>1. Len(n) \in 0..UtsLen + 1 /\ P(Len(n))
    BY NameFacts, UtsAssumption DEF Padded
<1>2. \A k \in 0..UtsLen + 1 : P(k) => k = Len(n)
    BY NameFacts, UtsAssumption DEF Padded
<1> QED BY <1>1, <1>2 DEF strlen

\* The names are empty, and nobody writes them.
LEMMA NamesInit == UtsInit => UtsInv
<1> SUFFICES ASSUME UtsInit PROVE UtsInv
    OBVIOUS
<1> USE UtsAssumption
<1>1. <<>> \in Names /\ Len(<<>>) = 0
    BY DEF Names
<1>2. UtsIdle \in CallType /\ UtsIdle.at = "idle"
    BY DEF UtsIdle, CallType, Fields
<1>3. \A f \in Fields : current[f] = <<>> /\ uts[f] = [i \in 1..UtsLen + 1 |-> 0]
    BY DEF UtsInit
<1>4. Padded(<<>>) = [i \in 1..UtsLen + 1 |-> 0]
    BY <1>1 DEF Padded
<1>5. utsCall \in [UtsTasks -> CallType] /\ \A t \in UtsTasks : utsCall[t].at = "idle"
    BY <1>2 DEF UtsInit
<1>6. uts \in [Fields -> [1..UtsLen + 1 -> Chars \cup {0}]] /\ current \in [Fields -> Names]
    BY <1>1 DEF UtsInit
<1>7. utsReads = {} /\ utsWrites = {}
    BY DEF UtsInit
<1> QED BY <1>3, <1>4, <1>5, <1>6, <1>7 DEF UtsInv, Writing

\* Each step of sethostname, setdomainname and their readers keeps UtsInv.
LEMMA NamesStep == UtsInv /\ [UtsNext]_utsVars => UtsInv'
<1> SUFFICES ASSUME UtsInv, [UtsNext]_utsVars PROVE UtsInv'
    OBVIOUS
<1> USE UtsAssumption
<1>1. ASSUME NEW t \in UtsTasks, NEW f \in Fields, NEW n \in Names, setname(t, f, n) PROVE UtsInv'
  <2> DEFINE c == [UtsIdle EXCEPT !.at = "copy", !.field = f, !.name = n]
  <2>0. UtsIdle \in CallType /\ n \in Seq(Chars \cup {0})
      BY NameFacts DEF UtsIdle, CallType, Fields
  <2>1. c \in CallType /\ c.at = "copy" /\ c.name = n
      BY <2>0 DEF CallType
  <2>2. /\ utsCall' = [utsCall EXCEPT ![t] = c] /\ utsReads = {} /\ utsWrites = {} /\ utsWrites' = {t}
        /\ UNCHANGED <<uts, utsReads, current>>
      BY <1>1 DEF setname
  <2> HIDE DEF c
  <2>3. \A s \in UtsTasks : utsCall'[s] = IF s = t THEN c ELSE utsCall[s]
      BY <2>2 DEF UtsInv
  <2>4. utsCall' \in [UtsTasks -> CallType]
      BY <2>1, <2>2 DEF UtsInv
  <2>5. \A s \in UtsTasks : \A g \in Fields : ~Writing(s, g) /\ ~Writing(s, g)'
      BY <2>1, <2>2, <2>3 DEF UtsInv, Writing
  <2>6. /\ utsReads' = {s \in UtsTasks : utsCall'[s].at = "read"}
        /\ utsWrites' = {s \in UtsTasks : utsCall'[s].at \in {"copy", "zero"}}
      BY <2>1, <2>2, <2>3 DEF UtsInv
  <2> QED BY <2>1, <2>2, <2>3, <2>4, <2>5, <2>6 DEF UtsInv
<1>2. ASSUME NEW t \in UtsTasks, utsCall[t].at \in {"copy", "zero"}, NEW g \in Fields,
             utsCall[t].at = "copy" \/ Writing(t, g),
             utsCall' = [utsCall EXCEPT ![t] = UtsIdle], utsWrites' = {},
             NEW n \in Names, current' = [current EXCEPT ![g] = n],
             uts' = [uts EXCEPT ![g] = Padded(n)],  utsReads' = utsReads
      PROVE  UtsInv'
  <2>1. UtsIdle \in CallType /\ UtsIdle.at = "idle"
      BY DEF UtsIdle, CallType, Fields
  <2>2. utsWrites = {t} /\ utsReads = {}
      BY <1>2 DEF UtsInv
  <2>3. \A s \in UtsTasks : utsCall'[s] = IF s = t THEN UtsIdle ELSE utsCall[s]
      BY <1>2 DEF UtsInv
  <2>4. \A s \in UtsTasks : utsCall'[s].at \notin {"copy", "zero", "read"}
      BY <2>1, <2>2, <2>3 DEF UtsInv
  <2>5. utsCall' \in [UtsTasks -> CallType]
      BY <1>2, <2>1 DEF UtsInv
  <2>6. current' \in [Fields -> Names] /\ uts' \in [Fields -> [1..UtsLen + 1 -> Chars \cup {0}]]
      BY <1>2, PaddedFacts DEF UtsInv
  <2>7. \A h \in Fields : uts'[h] = Padded(current'[h])
    <3> SUFFICES ASSUME NEW h \in Fields PROVE uts'[h] = Padded(current'[h])
        OBVIOUS
    <3>1. CASE h = g
        BY <1>2, <3>1 DEF UtsInv
    <3>2. CASE h # g
      <4>1. \A s \in UtsTasks : ~Writing(s, h)
          BY <1>2, <2>2, <3>2 DEF UtsInv, Writing
      <4> QED BY <1>2, <3>2, <4>1 DEF UtsInv
    <3> QED BY <3>1, <3>2
  <2> QED BY <1>2, <2>2, <2>4, <2>5, <2>6, <2>7 DEF UtsInv, Writing
<1>3. ASSUME NEW t \in UtsTasks, setname_memcpy(t) PROVE UtsInv'
  <2> DEFINE c == utsCall[t]
  <2>1. c \in CallType /\ c.at = "copy" /\ c.name \in Names /\ c.field \in Fields /\ utsWrites = {t} /\ utsReads = {}
      BY <1>3 DEF setname_memcpy, UtsInv, CallType
  <2>2. \A s \in UtsTasks : \A g \in Fields : ~Writing(s, g)
      BY <2>1 DEF UtsInv, Writing
  <2>3. \A g \in Fields : uts[g] = Padded(current[g]) /\ current[g] \in Names
      BY <2>2 DEF UtsInv
  <2>4. CASE utsWrites' = {} /\ utsCall' = [utsCall EXCEPT ![t] = UtsIdle] /\ uts' = uts
    <3>1. utsReads' = utsReads /\ current' = current
        BY <1>3 DEF setname_memcpy
    <3>2. current' = [current EXCEPT ![c.field] = current[c.field]] /\ uts' = [uts EXCEPT ![c.field] = Padded(current[c.field])]
        BY <2>1, <2>3, <2>4, <3>1 DEF UtsInv
    <3> QED BY ZenonT(60), <1>2, <2>1, <2>3, <2>4, <3>1, <3>2
  <2>5. CASE /\ uts' = [uts EXCEPT ![c.field] =
                          [i \in 1..UtsLen + 1 |-> IF i <= Len(c.name) THEN c.name[i] ELSE uts[c.field][i]]]
             /\ utsCall' = [utsCall EXCEPT ![t].at = "zero"]
             /\ UNCHANGED utsWrites
    <3> DEFINE d == [c EXCEPT !.at = "zero"]
    <3>1. utsReads' = utsReads /\ current' = current
        BY <1>3 DEF setname_memcpy
    <3>2. d \in CallType /\ d.at = "zero" /\ d.name = c.name /\ d.field = c.field
        BY <2>1 DEF CallType
    <3>3. utsCall' = [utsCall EXCEPT ![t] = d]
        BY <2>5, <2>1 DEF CallType, UtsInv
    <3>4. uts'[c.field] = Overwritten(c.name, current[c.field])
        BY <2>1, <2>3, <2>5 DEF Overwritten, UtsInv
    <3> HIDE DEF c, d
    <3>5. \A s \in UtsTasks : utsCall'[s] = IF s = t THEN d ELSE utsCall[s]
        BY <3>3 DEF UtsInv
    <3>6. utsCall' \in [UtsTasks -> CallType]
        BY <3>2, <3>3 DEF UtsInv
    <3>7. /\ utsReads' = {s \in UtsTasks : utsCall'[s].at = "read"}
          /\ utsWrites' = {s \in UtsTasks : utsCall'[s].at \in {"copy", "zero"}}
        BY <2>1, <2>5, <3>1, <3>2, <3>5 DEF UtsInv
    <3>8. \A s \in UtsTasks : \A g \in Fields : Writing(s, g)' <=> s = t /\ g = c.field
        BY <2>2, <3>2, <3>5 DEF Writing
    <3>9. \A g \in Fields : g # c.field => uts'[g] = uts[g]
        BY <2>5 DEF UtsInv
    <3>10. uts' \in [Fields -> [1..UtsLen + 1 -> Chars \cup {0}]]
      <4>1. Overwritten(c.name, current[c.field]) \in [1..UtsLen + 1 -> Chars \cup {0}]
          BY <2>1, <2>3, PaddedFacts
      <4>2. uts' = [uts EXCEPT ![c.field] = Overwritten(c.name, current[c.field])]
          BY <2>5, <3>4, <2>1 DEF UtsInv
      <4> QED BY <4>1, <4>2 DEF UtsInv
    <3>11. \A s \in utsWrites' : utsCall'[s].name \in Names
        BY <2>1, <2>5, <3>2, <3>5
    <3>12. \A f \in Fields : \A s \in UtsTasks : Writing(s, f)' => uts'[f] = Overwritten(utsCall'[s].name, current'[f])
        BY <3>1, <3>2, <3>4, <3>5, <3>8
    <3>13. \A f \in Fields : (\A s \in UtsTasks : ~Writing(s, f)') => uts'[f] = Padded(current'[f])
        BY <2>3, <3>1, <3>8, <3>9
    <3>14. utsReads' = {} /\ \A r, s \in utsWrites' : r = s
        BY <2>1, <2>5, <3>1
    <3> QED BY <3>1, <3>6, <3>7, <3>10, <3>11, <3>12, <3>13, <3>14 DEF UtsInv
  <2> QED BY <1>3, <2>4, <2>5 DEF setname_memcpy
<1>4. ASSUME NEW t \in UtsTasks, setname_memset(t) PROVE UtsInv'
  <2> DEFINE c == utsCall[t]
  <2>1. c \in CallType /\ c.at = "zero" /\ c.name \in Names /\ c.field \in Fields /\ utsWrites = {t} /\ Writing(t, c.field)
      BY <1>4 DEF setname_memset, UtsInv, CallType, Writing
  <2>2. uts[c.field] = Overwritten(c.name, current[c.field]) /\ current[c.field] \in Names
      BY <2>1 DEF UtsInv
  <2>3. Zeros(uts[c.field], Len(c.name)) = Padded(c.name)
      BY <2>1, <2>2, PaddedFacts
  <2>4. /\ uts' = [uts EXCEPT ![c.field] = Padded(c.name)]
        /\ utsCall' = [utsCall EXCEPT ![t] = UtsIdle]
        /\ utsWrites' = {} /\ current' = [current EXCEPT ![c.field] = c.name] /\ utsReads' = utsReads
      BY <1>4, <2>3 DEF setname_memset
  <2> QED BY <1>2, <2>1, <2>4
<1>5. ASSUME NEW t \in UtsTasks, NEW c \in CallType, utsCall' = [utsCall EXCEPT ![t] = c],
             utsCall[t].at \notin {"copy", "zero"}, c.at \notin {"copy", "zero"}, utsWrites' = utsWrites,
             utsReads' = {s \in UtsTasks : utsCall'[s].at = "read"}, utsReads' = {} \/ utsWrites' = {},
             uts' = uts, current' = current,
             c.at = "read" => c.len = IF Len(current[c.field]) < c.limit THEN Len(current[c.field]) + 1 ELSE c.limit
      PROVE  UtsInv'
  <2>1. \A s \in UtsTasks : utsCall'[s] = IF s = t THEN c ELSE utsCall[s]
      BY <1>5 DEF UtsInv
  <2>2. utsCall' \in [UtsTasks -> CallType]
      BY <1>5 DEF UtsInv
  <2>3. utsWrites' = {s \in UtsTasks : utsCall'[s].at \in {"copy", "zero"}}
      BY <1>5, <2>1 DEF UtsInv
  <2>4. \A s \in UtsTasks : \A f \in Fields : (Writing(s, f)' <=> Writing(s, f)) /\ (Writing(s, f) => s # t)
      BY <1>5, <2>1 DEF Writing
  <2>5. \A s \in utsWrites' : utsCall'[s].name \in Names
      BY <1>5, <2>1, <2>3 DEF UtsInv
  <2>6. \A f \in Fields : \A s \in UtsTasks : Writing(s, f)' => uts'[f] = Overwritten(utsCall'[s].name, current'[f])
      BY <1>5, <2>1, <2>4 DEF UtsInv
  <2>7. \A f \in Fields : (\A s \in UtsTasks : ~Writing(s, f)') => uts'[f] = Padded(current'[f])
      BY <1>5, <2>4 DEF UtsInv
  <2>8. \A s \in utsReads' : LET n == Len(current'[utsCall'[s].field])  l == utsCall'[s].limit IN
          utsCall'[s].len = IF n < l THEN n + 1 ELSE l
      BY <1>5, <2>1 DEF UtsInv
  <2> QED BY <1>5, <2>2, <2>3, <2>5, <2>6, <2>7, <2>8 DEF UtsInv
<1>6. ASSUME NEW t \in UtsTasks, NEW f \in Fields, NEW l \in 0..UtsLen + 1, getname(t, f, l) PROVE UtsInv'
  <2> DEFINE n == 1 + strlen(uts[f])
             m == IF n > l THEN l ELSE n
             c == [UtsIdle EXCEPT !.at = "read", !.field = f, !.limit = l, !.len = m]
  <2>1. /\ utsCall' = [utsCall EXCEPT ![t] = c] /\ utsReads' = utsReads \cup {t} /\ utsWrites = {}
        /\ utsCall[t].at = "idle" /\ UNCHANGED <<uts, utsWrites, current>>
      BY <1>6 DEF getname, MayRead
  <2>2. \A s \in UtsTasks : ~Writing(s, f)
      BY <2>1 DEF UtsInv, Writing
  <2>3. n = 1 + Len(current[f]) /\ Len(current[f]) \in 0..UtsLen
      BY <2>2, PaddedLength, NameFacts DEF UtsInv
  <2> HIDE DEF n
  <2>4. m \in 0..UtsLen + 1 /\ m = IF Len(current[f]) < l THEN Len(current[f]) + 1 ELSE l
      BY <2>3
  <2> HIDE DEF m
  <2>0. UtsIdle \in CallType
      BY DEF UtsIdle, CallType, Fields
  <2>5. c \in CallType /\ c.at = "read" /\ c.field = f /\ c.limit = l /\ c.len = m
      BY <2>0, <2>4 DEF CallType
  <2> HIDE DEF c
  <2>6. utsReads' = {s \in UtsTasks : utsCall'[s].at = "read"}
      BY <2>1, <2>5 DEF UtsInv
  <2> QED BY <1>5, <2>1, <2>4, <2>5, <2>6
<1>7. ASSUME NEW t \in UtsTasks, getname_copy(t) PROVE UtsInv'
  <2> DEFINE c == utsCall[t]
             n == [i \in 1..c.len |-> uts[c.field][i]]
             d == [c EXCEPT !.at = "got", !.name = n]
  <2>1. c \in CallType /\ c.at = "read" /\ utsReads' = utsReads \ {t} /\ UNCHANGED <<uts, utsWrites, current>>
      BY <1>7 DEF getname_copy, UtsInv
  <2>2. utsCall' = [utsCall EXCEPT ![t] = d]
      BY <1>7, <2>1 DEF getname_copy, UtsInv, CallType
  <2>3. n \in Seq(Chars \cup {0})
    <3>1. c.len \in 0..UtsLen + 1 /\ c.field \in Fields
        BY <2>1 DEF CallType
    <3>2. uts[c.field] \in [1..UtsLen + 1 -> Chars \cup {0}]
        BY <3>1 DEF UtsInv
    <3> HIDE DEF c
    <3>3. \A i \in 1..c.len : uts[c.field][i] \in Chars \cup {0}
        BY <3>1, <3>2
    <3> QED BY <3>1, <3>3
  <2> HIDE DEF n
  <2>4. d \in CallType /\ d.at = "got"
      BY <2>1, <2>3 DEF CallType
  <2> HIDE DEF d
  <2>5. utsReads' = {s \in UtsTasks : utsCall'[s].at = "read"}
      BY <2>1, <2>2, <2>4 DEF UtsInv
  <2>6. utsReads' = {} \/ utsWrites' = {}
      BY <2>1 DEF UtsInv
  <2> QED BY <1>5, <2>1, <2>2, <2>4, <2>5, <2>6
<1>8. ASSUME NEW t \in UtsTasks, getname_return(t) PROVE UtsInv'
  <2>1. UtsIdle \in CallType /\ UtsIdle.at = "idle"
      BY DEF UtsIdle, CallType, Fields
  <2>2. utsCall[t].at = "got" /\ utsCall' = [utsCall EXCEPT ![t] = UtsIdle] /\ UNCHANGED <<uts, utsReads, utsWrites, current>>
      BY <1>8 DEF getname_return
  <2>3. utsReads' = {s \in UtsTasks : utsCall'[s].at = "read"} /\ (utsReads' = {} \/ utsWrites' = {})
      BY <2>1, <2>2 DEF UtsInv
  <2> QED BY <1>5, <2>1, <2>2, <2>3
<1>9. CASE UNCHANGED utsVars
    BY <1>9 DEF utsVars, UtsInv, Writing
<1> QED BY <1>1, <1>3, <1>4, <1>6, <1>7, <1>8, <1>9 DEF UtsNext

\* UtsInv gives the type invariant and the terminating zero.
LEMMA NamesTerminated == UtsInv => UtsTypeOK /\ AlwaysTerminated
<1> SUFFICES ASSUME UtsInv PROVE UtsTypeOK /\ AlwaysTerminated
    OBVIOUS
<1>1. UtsTypeOK
    BY DEF UtsInv, UtsTypeOK
<1>2. ASSUME NEW f \in Fields PROVE uts[f][UtsLen + 1] = 0
  <2>1. CASE \A t \in UtsTasks : ~Writing(t, f)
      BY <2>1, PaddedFacts DEF UtsInv
  <2>2. ASSUME NEW t \in UtsTasks, Writing(t, f) PROVE uts[f][UtsLen + 1] = 0
      BY SMTT(60), <2>2, PaddedFacts DEF UtsInv, Writing
  <2> QED BY <2>1, <2>2
<1> QED BY <1>1, <1>2 DEF AlwaysTerminated

\* A reader returns a whole name, cut to the length it asked for.
LEMMA WholeNames == UtsInv /\ [UtsNext]_utsVars => ReadsWholeNames
<1> SUFFICES ASSUME UtsInv, [UtsNext]_utsVars, NEW t \in UtsTasks, utsCall[t].at = "read", utsCall'[t].at = "got"
             PROVE  LET n == current[utsCall[t].field]  l == utsCall[t].limit IN
                    utsCall'[t].name = SubSeq(Append(n, 0), 1, IF Len(n) < l THEN Len(n) + 1 ELSE l)
    BY DEF ReadsWholeNames
<1> DEFINE f == utsCall[t].field
           n == current[f]
           l == utsCall[t].limit
           m == utsCall[t].len
<1>1. utsCall'[t].name = [i \in 1..m |-> uts[f][i]]
  <2>1. getname_copy(t)
      BY ZenonT(60) DEF UtsInv, UtsNext, utsVars, setname, setname_memcpy, setname_memset, getname, getname_copy, getname_return,
             UtsIdle, CallType
  <2> QED BY <2>1 DEF getname_copy, UtsInv, CallType
<1>2. /\ f \in Fields /\ n \in Names /\ l \in 0..UtsLen + 1 /\ m = IF Len(n) < l THEN Len(n) + 1 ELSE l
      /\ uts[f] = Padded(n)
    BY DEF UtsInv, CallType, Writing
<1> HIDE DEF f, n, l, m
<1>3. [i \in 1..m |-> uts[f][i]] = SubSeq(Append(n, 0), 1, m)
    BY <1>2, NameFacts, UtsAssumption DEF Padded
<1> QED BY <1>1, <1>2, <1>3 DEF f, n, l, m

\* For every length of the fields and every set of tasks, UtsInv holds.
THEOREM NamesKept == UtsSpec => []UtsInv
BY NamesInit, NamesStep, PTL DEF UtsSpec
-----------------------------------------------------------------------------
(* prctl. *)

\* The policy that was set is the policy that is read.
PolicyInv == PrctlTypeOK /\ McePolicyReadBack

\* No machine-check policy is set at first.
LEMMA PolicyInit == PrctlInit => PolicyInv
BY PrctlAssumption DEF PrctlInit, PolicyInv, PrctlTypeOK, McePolicyReadBack, PR_MCE_KILL_GET

\* No prctl option changes what PR_MCE_KILL_GET reports but PR_MCE_KILL itself.
LEMMA PolicyStep == PolicyInv /\ [PrctlNext]_prctlVars => PolicyInv'
<1> SUFFICES ASSUME PolicyInv, [PrctlNext]_prctlVars PROVE PolicyInv'
    OBVIOUS
<1> USE PrctlAssumption DEF PolicyInv, PrctlTypeOK, McePolicyReadBack, PR_MCE_KILL_GET
<1>1. ASSUME NEW s \in Signals, PR_SET_PDEATHSIG(s) PROVE PolicyInv'
    BY <1>1 DEF PR_SET_PDEATHSIG
<1>2. ASSUME NEW d \in 0..2, PR_SET_DUMPABLE(d) PROVE PolicyInv'
    BY <1>2 DEF PR_SET_DUMPABLE
<1>3. CASE SuidDumpable
    BY <1>3 DEF SuidDumpable
<1>4. ASSUME NEW n \in 0..MaxSlack, PR_SET_TIMERSLACK(n) PROVE PolicyInv'
    BY <1>4 DEF PR_SET_TIMERSLACK, SlackFor
<1>5. ASSUME NEW p \in {"EARLY", "LATE", "DEFAULT", "CLEAR", "INVALID"}, PR_MCE_KILL(p)
      PROVE  PolicyInv'
    BY <1>5 DEF PR_MCE_KILL, MceFlags
<1>6. CASE UNCHANGED prctlVars
    BY <1>6 DEF prctlVars
<1> QED BY <1>1, <1>2, <1>3, <1>4, <1>5, <1>6 DEF PrctlNext

\* PR_MCE_KILL_GET reads back the policy that was set last, for all values.
THEOREM PolicyKept == PrctlSpec => []PolicyInv
BY PolicyInit, PolicyStep, PTL DEF PrctlSpec
-----------------------------------------------------------------------------
(* getrusage. *)

\* Induction over the natural numbers, for a set.
LEMMA InductionForSet ==
    ASSUME NEW T, 0 \in T, \A n \in Nat : n \in T => n + 1 \in T
    PROVE  Nat \subseteq T
<1> SUFFICES ASSUME Nat \ T # {} PROVE FALSE
    OBVIOUS
<1> DEFINE U == Nat \ T
<1>1. PICK x \in U : \A y \in U : ~(<<y, x>> \in OpToRel(<, Nat))
    BY NatLessThanWellFounded, WFMin
<1>2. \A y \in U : ~(y < x)
    BY <1>1 DEF OpToRel
<1>3. x \in Nat /\ x # 0
    OBVIOUS
<1>4. x - 1 \in Nat /\ x - 1 \notin U
    BY <1>2, <1>3
<1>5. (x - 1) + 1 \in T
    BY <1>4
<1> QED BY <1>3, <1>5

\* The thread that a sum takes first, and one step of the recursion.
FirstOf(S) == CHOOSE t \in S : TRUE
Add(c, f, S) == IF S = {} THEN 0 ELSE c[FirstOf(S)] + f[S \ {FirstOf(S)}]

\* What Sums computes from the counters c.
SumsFrom(c) == CHOOSE f : f = [S \in SUBSET Threads |-> Add(c, f, S)]

\* The threads of a set can be counted, and there is one less without one of them.
LEMMA OneLess ==
    ASSUME NEW S \in SUBSET Threads
    PROVE  /\ IsFiniteSet(S) /\ Cardinality(S) \in Nat
           /\ Cardinality(S) = 0 <=> S = {}
           /\ \A t \in S : Cardinality(S \ {t}) = Cardinality(S) - 1
           /\ S # {} => FirstOf(S) \in S
<1>1. IsFiniteSet(S)
    BY RusageAssumption, FS_Subset
<1>2. Cardinality(S) \in Nat /\ (Cardinality(S) = 0 <=> S = {})
    BY <1>1, FS_CardinalityType, FS_EmptySet
<1>3. \A t \in S : Cardinality(S \ {t}) = Cardinality(S) - 1
    BY <1>1, FS_RemoveElement
<1> QED BY <1>1, <1>2, <1>3 DEF FirstOf

\* The function that Sums defines by recursion exists.
LEMMA SumsExist ==
    ASSUME NEW c \in [Threads -> Nat]
    PROVE  \E f : f = [S \in SUBSET Threads |-> Add(c, f, S)]
<1> DEFINE Upto(n) == \E f : \A S \in SUBSET Threads : Cardinality(S) <= n => f[S] = Add(c, f, S)
           T == {n \in Nat : Upto(n)}
<1>1. 0 \in T
  <2> DEFINE f == [S \in SUBSET Threads |-> 0]
  <2>1. \A S \in SUBSET Threads : Cardinality(S) <= 0 => f[S] = Add(c, f, S)
      BY OneLess DEF Add
  <2> HIDE DEF f
  <2>2. Upto(0)
      BY <2>1
  <2> QED BY <2>2
<1>2. \A n \in Nat : n \in T => n + 1 \in T
  <2> SUFFICES ASSUME NEW n \in Nat, n \in T PROVE n + 1 \in T
      OBVIOUS
  <2>1. PICK f : \A S \in SUBSET Threads : Cardinality(S) <= n => f[S] = Add(c, f, S)
      OBVIOUS
  <2> DEFINE g == [S \in SUBSET Threads |-> Add(c, f, S)]
  <2>2. ASSUME NEW S \in SUBSET Threads, Cardinality(S) <= n + 1 PROVE g[S] = Add(c, g, S)
    <3>1. CASE S = {}
        BY <3>1 DEF Add
    <3>2. CASE S # {}
      <4>1. FirstOf(S) \in S /\ S \ {FirstOf(S)} \in SUBSET Threads
            /\ Cardinality(S \ {FirstOf(S)}) <= n
          BY <2>2, <3>2, OneLess
      <4>2. g[S \ {FirstOf(S)}] = f[S \ {FirstOf(S)}]
          BY <2>1, <4>1
      <4>3. g[S] = Add(c, f, S)
          OBVIOUS
      <4> HIDE DEF g
      <4> QED BY <4>2, <4>3, <3>2 DEF Add
    <3> QED BY <3>1, <3>2
  <2> HIDE DEF g
  <2>3. Upto(n + 1)
      BY <2>2
  <2> QED BY <2>3
<1>3. Nat \subseteq T
  <2> HIDE DEF T
  <2> QED BY <1>1, <1>2, InductionForSet
<1>4. Cardinality(Threads) \in Nat
    BY OneLess
<1>5. PICK f : \A S \in SUBSET Threads : Cardinality(S) <= Cardinality(Threads) => f[S] = Add(c, f, S)
    BY <1>3, <1>4
<1>6. \A S \in SUBSET Threads : Cardinality(S) <= Cardinality(Threads)
    BY RusageAssumption, FS_Subset
<1> DEFINE g == [S \in SUBSET Threads |-> f[S]]
<1>7. \A S \in SUBSET Threads : g[S] = Add(c, g, S)
  <2> SUFFICES ASSUME NEW S \in SUBSET Threads PROVE g[S] = Add(c, g, S)
      OBVIOUS
  <2>1. g[S] = Add(c, f, S)
      BY <1>5, <1>6
  <2>2. S # {} => g[S \ {FirstOf(S)}] = f[S \ {FirstOf(S)}]
      OBVIOUS
  <2> HIDE DEF g
  <2> QED BY <2>1, <2>2 DEF Add
<1>8. g = [S \in SUBSET Threads |-> g[S]]
    OBVIOUS
<1> HIDE DEF g
<1>9. g = [S \in SUBSET Threads |-> Add(c, g, S)]
    BY <1>7, <1>8
<1> QED BY <1>9

\* So sums have the values that the recursion says, which are natural numbers.
LEMMA SumsValue ==
    ASSUME NEW c \in [Threads -> Nat]
    PROVE  \A S \in SUBSET Threads : /\ SumsFrom(c)[S] = Add(c, SumsFrom(c), S)
                                     /\ SumsFrom(c)[S] \in Nat
<1>1. SumsFrom(c) = [S \in SUBSET Threads |-> Add(c, SumsFrom(c), S)]
    BY SumsExist DEF SumsFrom
<1>2. PICK h : h = SumsFrom(c)
    OBVIOUS
<1>3. \A S \in SUBSET Threads : h[S] = Add(c, h, S)
    BY <1>1, <1>2
<1>30. \A S \in SUBSET Threads : S = {} => h[S] = 0
    BY <1>3, Zenon DEF Add
<1> DEFINE T == {n \in Nat : \A S \in SUBSET Threads : Cardinality(S) <= n => h[S] \in Nat}
<1>4. 0 \in T
  <2> SUFFICES ASSUME NEW S \in SUBSET Threads, Cardinality(S) <= 0 PROVE h[S] \in Nat
      OBVIOUS
  <2>1. S = {}
      BY OneLess
  <2> QED BY <2>1, <1>30
<1>5. \A n \in Nat : n \in T => n + 1 \in T
  <2> SUFFICES ASSUME NEW n \in Nat, n \in T, NEW S \in SUBSET Threads, Cardinality(S) <= n + 1 PROVE h[S] \in Nat
      OBVIOUS
  <2>1. CASE S = {}
      BY <2>1, <1>30
  <2>2. CASE S # {}
    <3>1. FirstOf(S) \in S /\ S \ {FirstOf(S)} \in SUBSET Threads
          /\ Cardinality(S \ {FirstOf(S)}) <= n
        BY <2>2, OneLess
    <3>2. h[S \ {FirstOf(S)}] \in Nat /\ c[FirstOf(S)] \in Nat
        BY <3>1
    <3> QED BY <2>2, <3>2, <1>3 DEF Add
  <2> QED BY <2>1, <2>2
<1>6. Nat \subseteq T
  <2> HIDE DEF T
  <2> QED BY <1>4, <1>5, InductionForSet
<1>7. \A S \in SUBSET Threads : Cardinality(S) \in T
    BY <1>6, OneLess
<1> QED BY <1>2, <1>3, <1>7, OneLess

\* A sum can be taken in any order: any thread of the set can come first.
LEMMA SumTakes ==
    ASSUME NEW c \in [Threads -> Nat]
    PROVE  \A S \in SUBSET Threads : \A t \in S : SumsFrom(c)[S] = c[t] + SumsFrom(c)[S \ {t}]
<1>1. PICK h : h = SumsFrom(c)
    OBVIOUS
<1>2. \A S \in SUBSET Threads : h[S] = Add(c, h, S) /\ h[S] \in Nat
    BY <1>1, SumsValue
<1> DEFINE Takes(S) == \A t \in S : h[S] = c[t] + h[S \ {t}]
           T == {n \in Nat : \A S \in SUBSET Threads : Cardinality(S) <= n => Takes(S)}
<1>3. 0 \in T
  <2> SUFFICES ASSUME NEW S \in SUBSET Threads, Cardinality(S) <= 0 PROVE Takes(S)
    <3> HIDE DEF Takes
    <3> QED OBVIOUS
  <2> QED BY OneLess
<1>4. \A n \in Nat : n \in T => n + 1 \in T
  <2> SUFFICES ASSUME NEW n \in Nat, n \in T, NEW S \in SUBSET Threads, Cardinality(S) <= n + 1 PROVE Takes(S)
    <3> HIDE DEF Takes
    <3> QED OBVIOUS
  <2> SUFFICES ASSUME NEW t \in S PROVE h[S] = c[t] + h[S \ {t}]
      OBVIOUS
  <2>0. \A R \in SUBSET Threads : Cardinality(R) <= n => Takes(R)
    <3> HIDE DEF Takes
    <3> QED OBVIOUS
  <2>1. PICK u : u = FirstOf(S)
      OBVIOUS
  <2>2. u \in S /\ h[S] = c[u] + h[S \ {u}]
      BY <2>1, <1>2, OneLess DEF Add
  <2>3. CASE t = u
      BY <2>2, <2>3
  <2>4. CASE t # u
    <3>1. /\ S \ {u} \in SUBSET Threads /\ Cardinality(S \ {u}) <= n /\ t \in S \ {u}
          /\ S \ {t} \in SUBSET Threads /\ Cardinality(S \ {t}) <= n /\ u \in S \ {t}
        BY <2>2, <2>4, OneLess
    <3>2. h[S \ {u}] = c[t] + h[(S \ {u}) \ {t}]
        BY <3>1, <2>0
    <3>3. h[S \ {t}] = c[u] + h[(S \ {t}) \ {u}]
        BY <3>1, <2>0
    <3>4. (S \ {u}) \ {t} = (S \ {t}) \ {u}
        OBVIOUS
    <3>5. PICK R \in SUBSET Threads : R = (S \ {t}) \ {u}
        OBVIOUS
    <3>6. h[R] \in Nat /\ c[t] \in Nat /\ c[u] \in Nat
        BY <1>2, <2>2
    <3>7. h[S \ {u}] = c[t] + h[R] /\ h[S \ {t}] = c[u] + h[R]
        BY <3>2, <3>3, <3>4, <3>5
    <3> HIDE DEF T
    <3> QED BY ONLY <2>2, <3>6, <3>7
  <2> QED BY <2>3, <2>4
<1>5. Nat \subseteq T
  <2> HIDE DEF T
  <2> QED BY <1>3, <1>4, InductionForSet
<1>6. \A S \in SUBSET Threads : Cardinality(S) \in T
    BY <1>5, OneLess
<1>7. \A S \in SUBSET Threads : Takes(S)
  <2> HIDE DEF Takes
  <2> QED BY <1>6, OneLess
<1> QED BY <1>1, <1>7

\* Sums do not depend on the counters of other threads.
LEMMA SumsAgree ==
    ASSUME NEW c \in [Threads -> Nat], NEW d \in [Threads -> Nat], NEW t \in Threads,
           \A u \in Threads \ {t} : c[u] = d[u]
    PROVE  \A S \in SUBSET (Threads \ {t}) : SumsFrom(c)[S] = SumsFrom(d)[S]
<1>1. PICK g, h : g = SumsFrom(c) /\ h = SumsFrom(d)
    OBVIOUS
<1>2. \A S \in SUBSET Threads : g[S] = Add(c, g, S) /\ h[S] = Add(d, h, S)
    BY <1>1, SumsValue
<1> DEFINE T == {n \in Nat : \A S \in SUBSET (Threads \ {t}) : Cardinality(S) <= n => g[S] = h[S]}
<1>30. \A S \in SUBSET Threads : S = {} => g[S] = h[S]
    BY <1>2, Zenon DEF Add
<1>3. 0 \in T
  <2> SUFFICES ASSUME NEW S \in SUBSET (Threads \ {t}), Cardinality(S) <= 0 PROVE g[S] = h[S]
      OBVIOUS
  <2>1. S = {}
      BY OneLess
  <2> QED BY <2>1, <1>30
<1>4. \A n \in Nat : n \in T => n + 1 \in T
  <2> SUFFICES ASSUME NEW n \in Nat, n \in T, NEW S \in SUBSET (Threads \ {t}), Cardinality(S) <= n + 1
               PROVE  g[S] = h[S]
      OBVIOUS
  <2>1. CASE S = {}
      BY <2>1, <1>30
  <2>2. CASE S # {}
    <3>1. FirstOf(S) \in S /\ S \ {FirstOf(S)} \in SUBSET (Threads \ {t})
          /\ Cardinality(S \ {FirstOf(S)}) <= n
        BY <2>2, OneLess
    <3>2. g[S \ {FirstOf(S)}] = h[S \ {FirstOf(S)}] /\ c[FirstOf(S)] = d[FirstOf(S)]
        BY <3>1
    <3>3. g[S] = Add(c, g, S) /\ h[S] = Add(d, h, S)
        BY <1>2
    <3> QED BY <2>2, <3>2, <3>3 DEF Add
  <2> QED BY <2>1, <2>2
<1>5. Nat \subseteq T
  <2> HIDE DEF T
  <2> QED BY <1>3, <1>4, InductionForSet
<1>6. \A S \in SUBSET (Threads \ {t}) : Cardinality(S) \in T
    BY <1>5, OneLess
<1> QED BY <1>1, <1>6, OneLess

\* A sample that walks the threads holds siglock.  What it has and what it still
\* has to add lies between what was used when it began and what is used now; of
\* the children it has all from the start.
BetweenInv ==
    /\ RusageTypeOK
    /\ sample = [at |-> sample.at, who |-> sample.who, sum |-> sample.sum, todo |-> sample.todo, low |-> sample.low]
    /\ sample.low \in Nat
    /\ sample.at = "walk" =>
         /\ siglock /\ sample.who \in {"RUSAGE_SELF", "RUSAGE_CHILDREN", "RUSAGE_BOTH"}
         /\ sample.todo \subseteq alive
         /\ sample.who = "RUSAGE_CHILDREN" => sample.todo = {} /\ sample.sum = children /\ sample.low = children
         /\ sample.who # "RUSAGE_CHILDREN" =>
              /\ sample.low <= sample.sum + SumOver(sample.todo)
              /\ sample.sum + SumOver(sample.todo) <= Used(sample.who)

\* SumOver takes its values from SumsFrom.
LEMMA SumIs == \A S : SumOver(S) = SumsFrom(counter)[S]
BY DEF SumOver, Sums, SumsFrom, Add, FirstOf

\* The counters are natural numbers.
LEMMA CountersNat == RusageTypeOK => counter \in [Threads -> Nat] /\ alive \in SUBSET Threads /\ sample.todo \in SUBSET Threads
BY RusageAssumption DEF RusageTypeOK

\* What SumOver is for the counters before and after a step.
LEMMA SumNext == \A S : SumOver(S)' = SumsFrom(counter')[S]
  <1> TAKE S
  <1> QED BY DEF SumOver, Sums, SumsFrom, Add, FirstOf

\* Nothing has been sampled at first.
LEMMA BetweenInit == RusageInit => BetweenInv
<1> SUFFICES ASSUME RusageInit PROVE BetweenInv
    OBVIOUS
<1>1. siglock \in BOOLEAN
    BY Zenon DEF RusageInit
<1>2. RusageTypeOK
    BY <1>1, RusageAssumption DEF RusageInit, RusageTypeOK, NoSample
<1> QED BY <1>2 DEF RusageInit, BetweenInv, NoSample

\* When the counters stay, so do the sums.
LEMMA SumsStay == UNCHANGED counter => \A S : SumOver(S)' = SumOver(S)
BY SumIs, SumNext

\* Every step keeps the sample between its bounds.
LEMMA BetweenStep == BetweenInv /\ [RusageNext]_rusageVars => BetweenInv'
<1> SUFFICES ASSUME BetweenInv, [RusageNext]_rusageVars PROVE BetweenInv'
    OBVIOUS
<1> USE RusageAssumption
<1>0. counter \in [Threads -> Nat] /\ alive \in SUBSET Threads /\ sample.todo \in SUBSET Threads
    BY CountersNat DEF BetweenInv
<1>01. \A S \in SUBSET Threads : SumOver(S) \in Nat
    BY <1>0, SumIs, SumsValue
<1>02. \A S \in SUBSET Threads : \A t \in S : SumOver(S) = counter[t] + SumOver(S \ {t})
    BY <1>0, SumIs, SumTakes
<1>03. SumOver({}) = 0
    BY <1>0, SumIs, SumsValue DEF Add
<1>1. ASSUME NEW who \in {"RUSAGE_SELF", "RUSAGE_CHILDREN", "RUSAGE_BOTH"}, k_getrusage(who) PROVE BetweenInv'
  <2>0. /\ sample' = [at |-> "walk", who |-> who, low |-> Used(who),
                      sum |-> (IF who = "RUSAGE_SELF" THEN 0 ELSE children)
                              + (IF who = "RUSAGE_CHILDREN" THEN 0 ELSE dead),
                      todo |-> IF who = "RUSAGE_CHILDREN" THEN {} ELSE alive]
        /\ UNCHANGED <<counter, alive, dead, children>>
      BY <1>1 DEF k_getrusage
  <2>1. siglock'
      BY <1>1, Zenon DEF k_getrusage
  <2>2. /\ sample'.at = "walk" /\ sample'.who = who /\ sample'.low = Used(who)
        /\ sample'.sum = (IF who = "RUSAGE_SELF" THEN 0 ELSE children)
                          + (IF who = "RUSAGE_CHILDREN" THEN 0 ELSE dead)
        /\ sample'.todo = (IF who = "RUSAGE_CHILDREN" THEN {} ELSE alive)
      BY <2>0
  <2>3. sample' = [at |-> sample'.at, who |-> sample'.who, sum |-> sample'.sum, todo |-> sample'.todo, low |-> sample'.low]
      BY <2>0
  <2>40. PICK td, w : td = sample'.todo /\ w = sample'.who
      OBVIOUS
  <2>4. PICK u : u = SumOver(alive)
      OBVIOUS
  <2>5. u \in Nat /\ dead \in Nat /\ children \in Nat
      BY <1>0, <1>01, <2>4 DEF BetweenInv, RusageTypeOK
  <2>6. Used(who) = (IF who = "RUSAGE_CHILDREN" THEN 0 ELSE dead + u)
                    + (IF who \in {"RUSAGE_CHILDREN", "RUSAGE_BOTH"} THEN children ELSE 0)
      BY <2>4 DEF Used
  <2>7. Used(w)' = (IF who = "RUSAGE_CHILDREN" THEN 0 ELSE dead + SumOver(alive))
                    + (IF who \in {"RUSAGE_CHILDREN", "RUSAGE_BOTH"} THEN children ELSE 0)
      BY <2>0, <2>2, <2>40, SumsStay DEF Used
  <2>8. SumOver(td)' = SumOver(td)
      BY <2>0, SumsStay
  <2>9. sample'.sum \in Nat /\ sample'.low \in Nat /\ sample'.todo \subseteq alive
      BY <2>2, <2>5, <2>6, <1>0
  <2>10. RusageTypeOK'
    <3>1. siglock' \in BOOLEAN
        BY <2>1, Zenon
    <3> QED BY <3>1, <2>0, <2>9, <1>0 DEF BetweenInv, RusageTypeOK
  <2>11. who = "RUSAGE_CHILDREN" => sample'.todo = {} /\ sample'.sum = children' /\ sample'.low = children'
      BY <2>2, <2>5, <2>6, <2>0
  <2>12. who # "RUSAGE_CHILDREN" => SumOver(td)' = u
      BY <2>2, <2>4, <2>8, <2>40
  <2>13. who # "RUSAGE_CHILDREN" =>
              /\ sample'.low <= sample'.sum + SumOver(td)'
              /\ sample'.sum + SumOver(td)' <= Used(w)'
      BY <2>2, <2>4, <2>5, <2>6, <2>7, <2>12, <2>40
  <2> QED BY <2>0, <2>1, <2>2, <2>3, <2>9, <2>10, <2>11, <2>13, <2>40 DEF BetweenInv
<1>2. ASSUME NEW t \in Threads, accumulate_thread_rusage(t) PROVE BetweenInv'
  <2>1. /\ sample' = [at |-> sample.at, who |-> sample.who, sum |-> sample.sum + counter[t],
                      todo |-> sample.todo \ {t}, low |-> sample.low]
        /\ UNCHANGED <<counter, alive, siglock, dead, children>>
        /\ sample.at = "walk" /\ t \in sample.todo
      BY <1>2 DEF accumulate_thread_rusage, BetweenInv
  <2>2. /\ sample'.sum = sample.sum + counter[t] /\ sample'.todo = sample.todo \ {t}
        /\ sample'.at = sample.at /\ sample'.who = sample.who /\ sample'.low = sample.low
        /\ sample' = [at |-> sample'.at, who |-> sample'.who, sum |-> sample'.sum, todo |-> sample'.todo, low |-> sample'.low]
      BY <2>1
  <2>40. PICK td, w : td = sample'.todo /\ w = sample'.who
      OBVIOUS
  <2>3. counter[t] \in Nat /\ sample.sum \in Nat
      BY <1>0 DEF BetweenInv, RusageTypeOK
  <2>4. sample'.sum \in Nat /\ sample'.todo \subseteq Threads
      BY <2>2, <2>3, <1>0
  <2>5. SumOver(td)' = SumOver(sample.todo \ {t})
      BY <2>1, <2>2, <2>40, SumsStay
  <2>6. SumOver(sample.todo) = counter[t] + SumOver(sample.todo \ {t}) /\ SumOver(sample.todo \ {t}) \in Nat
      BY <1>0, <1>01, <1>02, <2>1
  <2>7. sample'.sum + SumOver(td)' = sample.sum + SumOver(sample.todo)
      BY <2>2, <2>3, <2>5, <2>6
  <2>8. Used(w)' = Used(sample.who)
      BY <2>1, <2>2, <2>40, SumsStay DEF Used
  <2>9. RusageTypeOK'
    <3>1. siglock' \in BOOLEAN
        BY <2>1, Zenon DEF BetweenInv, RusageTypeOK
    <3> QED BY <3>1, <2>1, <2>4, <1>0 DEF BetweenInv, RusageTypeOK
  <2>10. siglock'
      BY <2>1, Zenon DEF BetweenInv
  <2> QED BY <2>1, <2>2, <2>7, <2>8, <2>9, <2>10, <2>40 DEF BetweenInv
<1>3. ASSUME NEW t \in Threads, Count(t) PROVE BetweenInv'
  <2>1. /\ t \in alive /\ counter[t] < MaxCount /\ counter' = [counter EXCEPT ![t] = @ + 1]
        /\ UNCHANGED <<alive, siglock, dead, children, sample>>
      BY <1>3 DEF Count
  <2>2. RusageTypeOK'
      BY <2>1 DEF BetweenInv, RusageTypeOK
  <2>3. /\ counter' \in [Threads -> Nat] /\ counter'[t] = counter[t] + 1 /\ counter[t] \in Nat
        /\ \A u \in Threads \ {t} : counter[u] = counter'[u]
      BY <2>1, <1>0
  <2>4. PICK c : c = counter'
      OBVIOUS
  <2>5. \A S \in SUBSET (Threads \ {t}) : SumsFrom(counter)[S] = SumsFrom(c)[S]
      BY <2>3, <2>4, <1>0, SumsAgree
  <2>6. \A S \in SUBSET Threads : t \notin S => SumOver(S)' = SumOver(S)
      BY <2>4, <2>5, SumIs, SumNext
  <2>7. ASSUME NEW S \in SUBSET Threads, t \in S PROVE SumOver(S)' = SumOver(S) + 1
    <3>1. SumsFrom(c)[S] = c[t] + SumsFrom(c)[S \ {t}]
        BY <2>3, <2>4, <2>7, SumTakes
    <3>2. SumOver(S)' = c[t] + SumOver(S \ {t})'
        BY <3>1, <2>4, SumNext
    <3>3. SumOver(S \ {t})' = SumOver(S \ {t}) /\ SumOver(S \ {t}) \in Nat
        BY <2>6, <1>01
    <3>4. SumOver(S) = counter[t] + SumOver(S \ {t})
        BY <1>02, <2>7
    <3> QED BY <3>2, <3>3, <3>4, <2>3, <2>4
  <2>8. SumOver(alive)' = SumOver(alive) + 1 /\ SumOver(alive) \in Nat
      BY <2>7, <2>1, <1>0, <1>01
  <2>9. PICK td : td = sample.todo
      OBVIOUS
  <2>10. SumOver(td) \in Nat /\ SumOver(td)' \in {SumOver(td), SumOver(td) + 1}
      BY <2>6, <2>7, <2>9, <1>0, <1>01
  <2>11. SumOver(sample.todo)' = SumOver(td)'
      BY <2>9, <2>1
  <2>12. Used(sample.who)' = IF sample.who = "RUSAGE_CHILDREN" THEN Used(sample.who) ELSE Used(sample.who) + 1
    <3>1. Used(sample.who)' = (IF sample.who = "RUSAGE_CHILDREN" THEN 0 ELSE dead + SumOver(alive)')
                        + (IF sample.who \in {"RUSAGE_CHILDREN", "RUSAGE_BOTH"} THEN children ELSE 0)
        BY <2>1 DEF Used
    <3> QED BY <3>1, <2>8 DEF Used, BetweenInv, RusageTypeOK
  <2>13. Used(sample.who) \in Nat
      BY <2>8 DEF Used, BetweenInv, RusageTypeOK
  <2>14. siglock => siglock'
      BY <2>1, Zenon
  <2>15. sample.at = "walk" /\ sample.who # "RUSAGE_CHILDREN" =>
              /\ sample.low <= sample.sum + SumOver(td)
              /\ sample.sum + SumOver(td) <= Used(sample.who)
      BY <2>9 DEF BetweenInv
  <2>16. sample.low \in Nat /\ sample.sum \in Nat
      BY DEF BetweenInv, RusageTypeOK
  <2>17. sample.at = "walk" /\ sample.who # "RUSAGE_CHILDREN" =>
              /\ sample.low <= sample.sum + SumOver(td)'
              /\ sample.sum + SumOver(td)' <= Used(sample.who)'
    <3>1. CASE t \in td
        BY <3>1, <2>7, <2>9, <2>10, <2>12, <2>13, <2>15, <2>16, <1>0
    <3>2. CASE t \notin td
        BY <3>2, <2>6, <2>9, <2>10, <2>12, <2>13, <2>15, <2>16, <1>0
    <3> QED BY <3>1, <3>2
  <2> QED BY <2>1, <2>2, <2>11, <2>14, <2>17 DEF BetweenInv
<1>4. ASSUME NEW t \in Threads, ExitThread(t) PROVE BetweenInv'
  <2>1. RusageTypeOK'
      BY <1>4 DEF ExitThread, BetweenInv, RusageTypeOK
  <2>2. sample.at # "walk"
      BY <1>4 DEF ExitThread, BetweenInv
  <2> QED BY <1>4, <2>1, <2>2 DEF ExitThread, BetweenInv
<1>5. CASE SampleDone
  <2>1. siglock' \in BOOLEAN
      BY <1>5, Zenon DEF SampleDone
  <2> QED BY <1>5, <2>1 DEF SampleDone, BetweenInv, RusageTypeOK
<1>6. CASE getrusage_return
    BY <1>6 DEF getrusage_return, NoSample, BetweenInv, RusageTypeOK
<1>7. ASSUME NEW n \in 1..MaxCount, ReapChild(n) PROVE BetweenInv'
  <2>1. RusageTypeOK'
      BY <1>7 DEF ReapChild, BetweenInv, RusageTypeOK
  <2>2. sample.at # "walk"
      BY <1>7 DEF ReapChild, BetweenInv
  <2> QED BY <1>7, <2>1, <2>2 DEF ReapChild, BetweenInv
<1>8. CASE UNCHANGED rusageVars
    BY <1>8, SumsStay DEF rusageVars, BetweenInv, RusageTypeOK, Used
<1> QED BY <1>1, <1>2, <1>3, <1>4, <1>5, <1>6, <1>7, <1>8 DEF RusageNext

\* The sample is complete when no thread is left to add.
LEMMA BetweenImplies == BetweenInv => RusageTypeOK /\ SampleBetweenBounds
<1> SUFFICES ASSUME BetweenInv PROVE SampleBetweenBounds
    BY DEF BetweenInv
<1>1. counter \in [Threads -> Nat] /\ alive \in SUBSET Threads
    BY CountersNat DEF BetweenInv
<1>2. SumOver({}) = 0 /\ SumOver(alive) \in Nat
    BY <1>1, SumIs, SumsValue DEF Add
<1> QED BY <1>2 DEF BetweenInv, SampleBetweenBounds, RusageTypeOK, Used


-----------------------------------------------------------------------------
(* The composition. *)

linuxVars == <<focus, userVars, groupVars, sessVars, prioVars, rebootVars,
               limVars, utsVars, rusageVars, prctlVars, faultVars>>

\* A step of the composition is a step of one component and leaves the others
\* alone.
LEMMA OneComponentSteps ==
    [MCNext]_linuxVars =>
       /\ [UserNext]_userVars /\ [GroupNext]_groupVars /\ [SessNext]_sessVars /\ [PrioNext]_prioVars
       /\ [RebootNext]_rebootVars /\ [LimNext]_limVars /\ [UtsNext]_utsVars
       /\ [RusageNext]_rusageVars /\ [PrctlNext]_prctlVars /\ [FaultNext]_faultVars
BY DEF MCNext, Rest, linuxVars

\* A behaviour of the composition is a behaviour of every component.
LEMMA Projection ==
    MCSpec => /\ UserSpec /\ GroupSpec /\ SessSpec /\ PrioSpec /\ RebootSpec /\ LimSpec /\ UtsSpec
              /\ RusageInit /\ [][RusageNext]_rusageVars /\ PrctlSpec /\ FaultSpec
<1>1. MCInit => /\ UserInit /\ GroupInit /\ SessInit /\ PrioInit /\ RebootInit /\ LimInit /\ UtsInit
                /\ RusageInit /\ PrctlInit /\ FaultInit
    BY DEF MCInit
<1>2. MCSpec => MCInit /\ [][MCNext]_linuxVars
    BY DEF MCSpec, linuxVars
<1> QED
    BY <1>1, <1>2, OneComponentSteps, PTL
    DEF UserSpec, GroupSpec, SessSpec, PrioSpec, RebootSpec, LimSpec, UtsSpec, PrctlSpec, FaultSpec

\* The type invariant of the run, for every value of the constants: among others
\* nice values stay in their range and the timer slack positive.
THEOREM LinuxTypesKept == MCSpec => []LinuxTypeOK
<1>1. UserInv /\ GroupInv => UserTypeOK /\ GroupTypeOK
    BY DEF UserInv, GroupInv
<1>2. NestedInv => SessTypeOK
    BY DEF NestedInv
<1>3. PriorityInv => PrioTypeOK
    BY PriorityImplies
<1>4. ShutdownInv => RebootTypeOK
    BY DEF ShutdownInv
<1>5. LimitsInv => LimTypeOK
    BY LimitsImply
<1>6. UtsInv => UtsTypeOK
    BY NamesTerminated
<1>7. BetweenInv => RusageTypeOK
    BY BetweenImplies
<1>8. PolicyInv => PrctlTypeOK
    BY DEF PolicyInv
<1>9. FaultInv => FaultTypeOK
    BY DEF FaultInv, FaultTypes
<1>10. MCSpec => /\ []UserInv /\ []GroupInv /\ []NestedInv /\ []PriorityInv /\ []ShutdownInv
                 /\ []LimitsInv /\ []UtsInv /\ []BetweenInv /\ []PolicyInv /\ []FaultInv
    BY Projection, UserIdsRight, GroupIdsRight, NestedInit, NestedStep, PriorityInit, PriorityStep,
       ShutdownInit, ShutdownStep, LimitsKept, NamesKept, BetweenInit, BetweenStep, PolicyKept, FaultInvHolds, PTL
    DEF SessSpec, PrioSpec, RebootSpec
<1>11. UserTypeOK /\ GroupTypeOK /\ SessTypeOK /\ PrioTypeOK /\ RebootTypeOK /\ LimTypeOK /\ UtsTypeOK
       /\ RusageTypeOK /\ PrctlTypeOK /\ FaultTypeOK => LinuxTypeOK
    BY DEF LinuxTypeOK
<1> QED BY <1>1, <1>2, <1>3, <1>4, <1>5, <1>6, <1>7, <1>8, <1>9, <1>10, <1>11, PTL

\* For every set of users and groups, ids and privilege that were given up are gone
\* for good: no sequence of set*uid and set*gid calls brings back an id that the
\* program had once lost the right to take, or root's privilege.
THEOREM PrivilegeKept == MCSpec => []PrivilegeDroppedForGood
<1>1. UserInv /\ GroupInv => PrivilegeDroppedForGood
    BY DEF UserInv, CredInv, GroupInv, PrivilegeDroppedForGood, GivenUpForGood, CapabilitiesNeedRoot, GroupsGivenUpForGood
<1> QED BY <1>1, Projection, UserIdsRight, GroupIdsRight, PTL

\* For all users, threads and limits: setrlimit and set_user keep the limits, and
\* only overlapping calls exceed one or leave the timer wrong.
THEOREM ResourceLimitsKept == MCSpec => []ResourceLimitsHold
<1>1. UserInv => ChargedToRealUser /\ LimitExceededOnlyByRace
    BY DEF UserInv, CredInv, ChargedToRealUser
<1>2. LimitsInv => SoftWithinHard /\ NeverAboveCeiling /\ TimerMatchesLimit
    BY LimitsImply
<1>3. ChargedToRealUser /\ LimitExceededOnlyByRace /\ SoftWithinHard /\ NeverAboveCeiling /\ TimerMatchesLimit
      => ResourceLimitsHold
    BY DEF ResourceLimitsHold
<1> QED BY <1>1, <1>2, <1>3, Projection, UserIdsRight, LimitsKept, PTL

\* For all names, lengths and tasks: readers of a name see it whole although it is
\* written in two steps, it always ends in a zero, and the machine-check policy
\* that was set last is the one that is read.
THEOREM SetIsRead == MCSpec => WhatWasSetIsRead
<1>1. UtsInv /\ [UtsNext]_utsVars => ReadsWholeNames
    BY WholeNames
<1>2. UtsInv => AlwaysTerminated
    BY NamesTerminated
<1>3. PolicyInv => McePolicyReadBack
    BY DEF PolicyInv
<1>4. ReadsWholeNames /\ AlwaysTerminated' /\ McePolicyReadBack'
      => [ReadsWholeNames /\ AlwaysTerminated' /\ McePolicyReadBack']_<<utsVars, prctlVars>>
    OBVIOUS
<1>5. MCSpec => []UtsInv /\ []PolicyInv /\ [][UtsNext]_utsVars
    BY Projection, NamesKept, PolicyKept, PTL DEF UtsSpec
<1> QED BY <1>1, <1>2, <1>3, <1>4, <1>5, PTL DEF WhatWasSetIsRead

\* Whatever threads count and exit while getrusage walks them, a sample lies
\* between what was used when it began and what is used when it ends.
THEOREM SamplesBounded == MCSpec => []SampleBetweenBounds
BY Projection, BetweenInit, BetweenStep, BetweenImplies, PTL
=============================================================================
