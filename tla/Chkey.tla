------------------------------- MODULE Chkey -------------------------------
(***************************************************************************)
(* src/1/chkey.c: shows or changes the kernel's sysrq and ctrl-alt-del     *)
(* values through /proc/sys.  Without a value to write, the bits of the    *)
(* value read before are reversed.  Two of these programs may run at once. *)
(***************************************************************************)
EXTENDS Naturals, FiniteSets

CONSTANTS Runs,     \* the programs
          Mask      \* 0xff: 2^w - 1, scaled

ASSUME ChkeyAssumption == Mask \in Nat \ {0}

Keys == {"sysrq", "cad"}
KeyValues == 0..Mask

VARIABLES kernel,   \* the two values in the kernel
          cpc,      \* where each program is
          job,      \* what it was asked: [op, key, value]
          got,      \* the values it has read
          intended, \* the values if every write were one step
          overlap   \* keys written while another program was between its reading and its writing

chkeyVars == <<kernel, cpc, job, got, intended, overlap>>

Jobs == [op : {"show", "reverse"}, key : Keys \cup {"other"}, value : {0}]
        \cup [op : {"set"}, key : Keys, value : KeyValues] \cup [op : {"usage"}, key : {"other"}, value : {0}]

\* Both values are read first, whatever is asked; a file that cannot be opened
\* ends the program.
readKey(r, k) ==
    /\ cpc[r] = IF k = "sysrq" THEN "sysrq" ELSE "cad"
    /\ \/ /\ got' = [got EXCEPT ![r][k] = kernel[k]]
          /\ cpc' = [cpc EXCEPT ![r] = IF k = "sysrq" THEN "cad" ELSE "parse"]
       \/ cpc' = [cpc EXCEPT ![r] = "exit"] /\ UNCHANGED got
    /\ UNCHANGED <<kernel, job, intended, overlap>>

readSysrq(r) == readKey(r, "sysrq")
readCad(r) == readKey(r, "cad")

\* Showing a value, a usage message and an unknown key end the program.
chkey_parse(r) ==
    /\ cpc[r] = "parse"
    /\ cpc' = [cpc EXCEPT ![r] = IF job[r].op \in {"set", "reverse"} /\ job[r].key \in Keys THEN "write" ELSE "exit"]
    /\ UNCHANGED <<kernel, job, got, intended, overlap>>

Reversed_double(v) == (2 * v) % (Mask + 1)

Reversed(v) == Mask - v   \* 0xff ^ v

NewValue(r) == IF job[r].op = "set" THEN job[r].value ELSE Reversed(got[r][job[r].key])

\* A program that will write what it makes of the value it has read.
Between(q, k) ==
    /\ job[q].op = "reverse" /\ job[q].key = k
    /\ cpc[q] \in {"parse", "write"} \cup (IF k = "sysrq" THEN {"cad"} ELSE {})

\* The file is opened, the value printed and the stream closed.  write_cad tests
\* sysrqFile, which is never null by then, and uses a null cadFile.
writeKey(r, k) ==
    /\ cpc[r] = "write" /\ job[r].key = k
    /\ \/ /\ kernel' = [kernel EXCEPT ![k] = NewValue(r)]
          /\ intended' = [intended EXCEPT ![k] = IF job[r].op = "set" THEN job[r].value ELSE Mask - @]
          /\ overlap' = IF \E q \in Runs \ {r} : Between(q, k)
                        THEN overlap \cup {k} ELSE overlap
          /\ cpc' = [cpc EXCEPT ![r] = "exit"]
       \/ /\ cpc' = [cpc EXCEPT ![r] = IF k = "cad" THEN "crash" ELSE "exit"]
          /\ UNCHANGED <<kernel, intended, overlap>>
    /\ UNCHANGED <<job, got>>

write_sysrq(r) == writeKey(r, "sysrq")
write_cad(r) == writeKey(r, "cad")

\* Another program is started.
chkey_start(r) ==
    /\ cpc[r] = "idle"
    /\ \E j \in Jobs : job' = [job EXCEPT ![r] = j]
    /\ cpc' = [cpc EXCEPT ![r] = "sysrq"]
    /\ UNCHANGED <<kernel, got, intended, overlap>>

ChkeyInit ==
    /\ kernel \in [Keys -> {0, 1}] /\ intended = kernel /\ overlap = {}
    /\ cpc = [r \in Runs |-> "idle"] /\ got = [r \in Runs |-> [k \in Keys |-> 0]]
    /\ job = [r \in Runs |-> [op |-> "show", key |-> "other", value |-> 0]]

ChkeyNext ==
    \E r \in Runs : chkey_start(r) \/ readSysrq(r) \/ readCad(r) \/ chkey_parse(r) \/ write_sysrq(r) \/ write_cad(r)

ChkeySpec == ChkeyInit /\ [][ChkeyNext]_chkeyVars
-----------------------------------------------------------------------------
ChkeyTypeOK ==
    /\ kernel \in [Keys -> KeyValues] /\ overlap \subseteq Keys
    /\ cpc \in [Runs -> {"idle", "sysrq", "cad", "parse", "write", "exit", "crash"}]

\* A reversal is lost, and the kernel's value differs from the one that writes
\* in one step would give, only if a write of the same key came between the
\* reading and the writing of a program that reverses it.
ReversalLostOnlyByOverlap == \A k \in Keys : kernel[k] # intended[k] => k \in overlap
=============================================================================
