------------------------------- MODULE Utsname -------------------------------
(***************************************************************************)
(* The system's names (src/5/kernel/sys.c): sethostname and setdomainname  *)
(* write them, the three uname calls and gethostname read them, under the  *)
(* read-write semaphore uts_sem.  A write is two steps (the characters,    *)
(* then the zeros behind them), and so is a read (the length, then the     *)
(* copy).                                                                  *)
(***************************************************************************)
EXTENDS Integers, Sequences

CONSTANTS UtsTasks,   \* processes
          UtsLen,     \* __NEW_UTS_LEN; the fields have one character more
          Chars       \* characters of a name, 0 not among them

ASSUME UtsAssumption == UtsLen \in Nat \ {0} /\ 0 \notin Chars

VARIABLES uts,       \* the two names
          utsReads,  \* processes that hold uts_sem for reading
          utsWrites, \* processes that hold it for writing
          utsCall,   \* where each process is, and with which arguments
          current    \* the name each field was last given

utsVars == <<uts, utsReads, utsWrites, utsCall, current>>

Fields == {"nodename", "domainname"}
\* The names that pass the check of their length.
Names == UNION {[1..n -> Chars] : n \in 0..UtsLen}
UtsIdle == [at |-> "idle", field |-> "nodename", name |-> <<>>, limit |-> 0, len |-> 0]

\* The characters before the first 0.
strlen(s) == CHOOSE n \in 0..UtsLen + 1 : /\ \A i \in 1..n : s[i] # 0
                                          /\ n = UtsLen + 1 \/ s[n + 1] = 0

\* sethostname, setdomainname: the checks, then down_write.
setname(t, f, name) ==
    /\ utsCall[t].at = "idle"
    /\ utsReads = {} /\ utsWrites = {}
    /\ utsWrites' = {t}
    /\ utsCall' = [utsCall EXCEPT ![t] = [UtsIdle EXCEPT !.at = "copy", !.field = f, !.name = name]]
    /\ UNCHANGED <<uts, utsReads, current>>

\* copy_from_user succeeds and memcpy follows, or it fails and the call ends.
setname_memcpy(t) ==
    LET c == utsCall[t] IN
    /\ c.at = "copy"
    /\ \/ /\ uts' = [uts EXCEPT ![c.field] =
                       [i \in 1..UtsLen + 1 |-> IF i <= Len(c.name) THEN c.name[i] ELSE @[i]]]
          /\ utsCall' = [utsCall EXCEPT ![t].at = "zero"]
          /\ UNCHANGED utsWrites
       \/ /\ utsCall' = [utsCall EXCEPT ![t] = UtsIdle]
          /\ utsWrites' = {}
          /\ UNCHANGED uts
    /\ UNCHANGED <<utsReads, current>>

\* memset(name + len, 0, sizeof(name) - len)
Zeros(s, n) == [i \in 1..UtsLen + 1 |-> IF i > n THEN 0 ELSE s[i]]

setname_memset(t) ==
    LET c == utsCall[t] IN
    /\ c.at = "zero"
    /\ uts' = [uts EXCEPT ![c.field] = Zeros(@, Len(c.name))]
    /\ utsCall' = [utsCall EXCEPT ![t] = UtsIdle]
    /\ utsWrites' = {}
    /\ current' = [current EXCEPT ![c.field] = c.name]
    /\ UNCHANGED utsReads

MayRead_always == TRUE

MayRead == utsWrites = {}

\* gethostname with a buffer of limit characters; uname copies the whole field.
getname(t, f, limit) ==
    /\ utsCall[t].at = "idle" /\ MayRead
    /\ utsReads' = utsReads \cup {t}
    /\ LET n == 1 + strlen(uts[f]) IN
       utsCall' = [utsCall EXCEPT ![t] = [UtsIdle EXCEPT !.at = "read", !.field = f, !.limit = limit,
                                            !.len = IF n > limit THEN limit ELSE n]]
    /\ UNCHANGED <<uts, utsWrites, current>>

getname_copy(t) ==
    LET c == utsCall[t] IN
    /\ c.at = "read"
    /\ utsCall' = [utsCall EXCEPT ![t].at = "got", ![t].name = [i \in 1..c.len |-> uts[c.field][i]]]
    /\ utsReads' = utsReads \ {t}
    /\ UNCHANGED <<uts, utsWrites, current>>

getname_return(t) ==
    /\ utsCall[t].at = "got"
    /\ utsCall' = [utsCall EXCEPT ![t] = UtsIdle]
    /\ UNCHANGED <<uts, utsReads, utsWrites, current>>

UtsInit ==
    /\ uts = [f \in Fields |-> [i \in 1..UtsLen + 1 |-> 0]]
    /\ utsReads = {} /\ utsWrites = {}
    /\ utsCall = [t \in UtsTasks |-> UtsIdle]
    /\ current = [f \in Fields |-> <<>>]

UtsNext ==
    \E t \in UtsTasks :
       \/ \E f \in Fields : \/ \E n \in Names : setname(t, f, n)
                            \/ \E l \in 0..UtsLen + 1 : getname(t, f, l)
       \/ setname_memcpy(t) \/ setname_memset(t)
       \/ getname_copy(t) \/ getname_return(t)

UtsSpec == UtsInit /\ [][UtsNext]_utsVars
-----------------------------------------------------------------------------
UtsTypeOK ==
    /\ uts \in [Fields -> [1..UtsLen + 1 -> Chars \cup {0}]]
    /\ utsReads \subseteq UtsTasks /\ utsWrites \subseteq UtsTasks

\* A reader gets the name that was last set, as a whole and with its
\* terminator if the buffer has room, else its beginning: never a mixture
\* with the name that is being written.
ReadsWholeNames ==
    \A t \in UtsTasks : utsCall[t].at = "read" /\ utsCall'[t].at = "got" =>
        LET n == current[utsCall[t].field]  l == utsCall[t].limit IN
        utsCall'[t].name = SubSeq(Append(n, 0), 1, IF Len(n) < l THEN Len(n) + 1 ELSE l)

\* A name of the greatest length still ends inside its field, also between
\* the two steps of a write.
AlwaysTerminated == \A f \in Fields : uts[f][UtsLen + 1] = 0
=============================================================================
