------------------------------ MODULE GroupIds ------------------------------
(***************************************************************************)
(* The group ids of one task under setgid, setregid, setresgid and         *)
(* setfsgid (src/5/kernel/sys.c).  The calls read nothing that another     *)
(* task writes, so each is one step; a call that fails changes nothing.    *)
(***************************************************************************)
EXTENDS Integers

CONSTANTS Gids,     \* group ids
          KeepGid   \* the argument -1: leave this id alone

ASSUME GroupIdsAssumption == KeepGid \notin Gids

VARIABLES gcred,    \* the group ids of current->cred
          gcap,     \* capable(CAP_SETGID)
          glost     \* history: the group ids that this program can no longer take

groupVars == <<gcred, gcap, glost>>

GroupCred == [gid : Gids, egid : Gids, sgid : Gids, fsgid : Gids]

PickGid(arg, old) == IF arg = KeepGid THEN old ELSE arg

GidsOf(c) == {c.gid, c.egid, c.sgid, c.fsgid}

\* The group ids out of reach of a task with the credentials c and, or not, the capability.
GidsOutOfReach(c, cap) == IF cap THEN {} ELSE Gids \ GidsOf(c)

commitGroups(new) ==
    /\ gcred' = new
    /\ glost' = glost \cup GidsOutOfReach(new, gcap)
    /\ UNCHANGED gcap

setregid(rgid, egid) ==
    /\ rgid \in {KeepGid, gcred.gid, gcred.egid} \/ gcap
    /\ egid \in {KeepGid, gcred.gid, gcred.egid, gcred.sgid} \/ gcap
    /\ LET e == PickGid(egid, gcred.egid) IN
       commitGroups([gid |-> PickGid(rgid, gcred.gid), egid |-> e, fsgid |-> e,
                     sgid |-> IF rgid # KeepGid \/ (egid # KeepGid /\ egid # gcred.gid)
                              THEN e ELSE gcred.sgid])

setgid(gid) ==
    \/ /\ gcap
       /\ commitGroups([gid |-> gid, egid |-> gid, sgid |-> gid, fsgid |-> gid])
    \/ /\ ~gcap /\ gid \in {gcred.gid, gcred.sgid}
       /\ commitGroups([gcred EXCEPT !.egid = gid, !.fsgid = gid])

setresgid(rgid, egid, sgid) ==
    /\ \A id \in {rgid, egid, sgid} :
          id \in {KeepGid, gcred.gid, gcred.egid, gcred.sgid} \/ gcap
    /\ commitGroups([gid |-> PickGid(rgid, gcred.gid), egid |-> PickGid(egid, gcred.egid),
                     sgid |-> PickGid(sgid, gcred.sgid), fsgid |-> PickGid(egid, gcred.egid)])

setfsgid(gid) ==
    /\ gid \in GidsOf(gcred) \/ gcap
    /\ gid # gcred.fsgid
    /\ commitGroups([gcred EXCEPT !.fsgid = gid])

\* execve() of a program with (owner in Gids) or without (KeepGid) the setgid bit.
ExecSetgid(owner) ==
    LET e == PickGid(owner, gcred.egid) IN
    /\ gcred' = [gcred EXCEPT !.egid = e, !.sgid = e, !.fsgid = e]
    /\ glost' = GidsOutOfReach(gcred', gcap)
    /\ UNCHANGED gcap

\* The capability goes with the last root user id, or by capset().
DropCapability ==
    /\ gcap /\ gcap' = FALSE
    /\ glost' = GidsOutOfReach(gcred, FALSE)
    /\ UNCHANGED gcred

GroupInit ==
    /\ gcred \in {[gid |-> g, egid |-> g, sgid |-> g, fsgid |-> g] : g \in Gids}
    /\ gcap \in BOOLEAN
    /\ glost = GidsOutOfReach(gcred, gcap)

GroupNext ==
    \/ \E g \in Gids : setgid(g) \/ setfsgid(g)
    \/ \E r, e \in Gids \cup {KeepGid} : setregid(r, e)
    \/ \E r, e, s \in Gids \cup {KeepGid} : setresgid(r, e, s)
    \/ \E g \in Gids \cup {KeepGid} : ExecSetgid(g)
    \/ DropCapability

GroupSpec == GroupInit /\ [][GroupNext]_groupVars
-----------------------------------------------------------------------------
GroupTypeOK == gcred \in GroupCred /\ gcap \in BOOLEAN /\ glost \subseteq Gids

\* A group id that a program without CAP_SETGID has dropped, or had not when it gave
\* the capability up, it does not get by any sequence of set*gid calls.
GroupsGivenUpForGood == GidsOf(gcred) \cap glost = {}

=============================================================================
