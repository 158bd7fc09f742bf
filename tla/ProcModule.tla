---------------------------- MODULE ProcModule ----------------------------
(***************************************************************************)
(* The four exercise modules that publish a file under /proc: pm1 and pm11 *)
(* (src/4/m1), pm2 (src/4/m2) and pm3 (src/4/m3).  They share one shape: a *)
(* directory with one file, a read method that prints into a page, a write *)
(* method that fills a short buffer.  A behaviour exercises one of them.   *)
(***************************************************************************)
EXTENDS Naturals, Sequences, FiniteSets

CONSTANTS ProcWriters,
          ValueLen,     \* MYDATA_LEN
          TextLen,      \* length of what the read method prints
          MaxTick,      \* bound on the values of jiffies a reader can see
          MaxLoads      \* bound on insmod

ASSUME ProcAssumption == ValueLen \in Nat \ {0} /\ TextLen \in Nat \ {0} /\ MaxTick \in Nat

VARIABLES which,     \* the module under test
          state,     \* "out" or "live"
          loads,
          entries,   \* how often each name is registered under /proc
          leftover,  \* create_proc_entry has failed
          value,     \* mydata.value
          writing,   \* the write each writer is in: bytes copied, terminator due
          lpj,       \* loops_per_jiffy: "boot", "written" or "unknown"
          tick,      \* jiffies
          reader     \* the reader's buffer size, position and what it got

procVars == <<which, state, loads, entries, leftover, value, writing, lpj, tick, reader>>

\* What distinguishes the modules: whether the buffer is preset, the flags the
\* read method returns (*eof = 1, *start = buf), and what its text is made of.
Pm1 == [preset |-> TRUE, eof |-> TRUE, whole |-> FALSE, shows |-> "jiffies"]
Pm11 == [preset |-> FALSE, eof |-> FALSE, whole |-> TRUE, shows |-> "jiffies"]
Pm2 == [preset |-> TRUE, eof |-> FALSE, whole |-> FALSE, shows |-> "value"]
Pm3 == [preset |-> TRUE, eof |-> FALSE, whole |-> FALSE, shows |-> "lpj"]
Module == [pm1 |-> Pm1, pm11 |-> Pm11, pm2 |-> Pm2, pm3 |-> Pm3]

Blank == [i \in 1..ValueLen |-> 0]
Preset == [i \in 1..ValueLen |-> IF i < ValueLen THEN 1 ELSE 0]    \* "Ticks="
NoWrite == [at |-> "none", len |-> 0]
NoReader == [at |-> "none", size |-> 0, pos |-> 0, got |-> <<>>]
Names == {"dir", "file"}
-----------------------------------------------------------------------------
\* When the file cannot be created, the name is removed from the root of /proc,
\* where it is not; the directory stays.
init_module ==
    /\ state = "out" /\ loads < MaxLoads
    /\ loads' = loads + 1
    /\ \/ /\ UNCHANGED <<state, entries, leftover, value>>                 \* no directory
       \/ /\ entries' = [entries EXCEPT !["dir"] = @ + 1] /\ leftover' = TRUE
          /\ UNCHANGED <<state, value>>
       \/ /\ entries' = [n \in Names |-> entries[n] + 1]
          /\ state' = "live"
          /\ value' = IF Module[which].preset THEN Preset ELSE Blank
          /\ UNCHANGED leftover
    /\ UNCHANGED <<which, writing, lpj, tick, reader>>

Removed == [n \in Names |-> entries[n] - 1]

\* remove_proc_entry waits until no method of the file is running.
NobodyInside == (\A w \in ProcWriters : writing[w] = NoWrite) /\ reader.at # "inside"

cleanup_module ==
    /\ state = "live" /\ NobodyInside
    /\ entries' = Removed
    /\ state' = "out"
    /\ UNCHANGED <<which, loads, leftover, value, writing, lpj, tick, reader>>
-----------------------------------------------------------------------------
(* proc_write *)

Length(count) == IF count > ValueLen THEN ValueLen ELSE count

\* The bytes arrive; what cannot be copied is set to zero and -EFAULT returned.
copy_from_user(w, count) ==
    LET len == Length(count) IN
    /\ state = "live" /\ which # "pm3" /\ writing[w] = NoWrite
    /\ \E ok \in 0..len :
          /\ value' = [i \in 1..ValueLen |-> IF i <= ok THEN 1 ELSE IF i <= len THEN 0 ELSE value[i]]
          /\ writing' = IF ok = len THEN [writing EXCEPT ![w] = [at |-> "copied", len |-> len]] ELSE writing
    /\ UNCHANGED <<which, state, loads, entries, leftover, lpj, tick, reader>>

Terminate_past(v, len) == IF len + 1 \in 1..ValueLen THEN [v EXCEPT ![len + 1] = 0] ELSE v

\* value[len-1] = 0: for a write of no bytes this is the byte before the buffer.
Terminate(v, len) == IF len \in 1..ValueLen THEN [v EXCEPT ![len] = 0] ELSE v

proc_write(w) ==
    /\ writing[w].at = "copied"
    /\ value' = Terminate(value, writing[w].len)
    /\ writing' = [writing EXCEPT ![w] = NoWrite]
    /\ UNCHANGED <<which, state, loads, entries, leftover, lpj, tick, reader>>

\* pm3 parses a local buffer that nobody terminates: digits that end with the
\* text may be continued by whatever was on the stack.
proc_write_pm3(delimited) ==
    /\ state = "live" /\ which = "pm3"
    /\ lpj' \in IF delimited THEN {"written"} ELSE {"written", "unknown"}
    /\ UNCHANGED <<which, state, loads, entries, leftover, value, writing, tick, reader>>
-----------------------------------------------------------------------------
(* proc_read, called by the kernel's read of a /proc file *)

Tick == tick < MaxTick /\ tick' = tick + 1
        /\ UNCHANGED <<which, state, loads, entries, leftover, value, writing, lpj, reader>>

\* A program opens the file and reads with a buffer of this size.
OpenFile(size) ==
    /\ entries["file"] > 0 /\ state = "live" /\ reader.at = "none"
    /\ reader' = [at |-> "open", size |-> size, pos |-> 0, got |-> <<>>]
    /\ UNCHANGED <<which, state, loads, entries, leftover, value, writing, lpj, tick>>

EnterRead ==
    /\ state = "live" /\ reader.at = "open" /\ Len(reader.got) <= TextLen
    /\ reader' = [reader EXCEPT !.at = "inside"]
    /\ UNCHANGED <<which, state, loads, entries, leftover, value, writing, lpj, tick>>

\* The part of the printed text the kernel takes: from the position on, at most
\* a buffer; all of it, wherever the position is, when *start is set.
Piece(pos, size) ==
    IF Module[which].whole THEN 1..TextLen
    ELSE (pos + 1)..(IF pos + size > TextLen THEN TextLen ELSE pos + size)

\* The text is printed anew, with the jiffies of the moment, for every call.
proc_read ==
    LET piece == Piece(reader.pos, reader.size)
        n == Cardinality(piece)
        first == IF piece = {} THEN 1 ELSE CHOOSE i \in piece : \A j \in piece : i <= j
    IN
    /\ reader.at = "inside"
    /\ reader' = IF n = 0 THEN NoReader      \* end of file
                 ELSE [reader EXCEPT !.at = "open", !.pos = @ + n,
                         !.got = @ \o [i \in 1..n |-> [byte |-> first + i - 1, sample |-> tick]]]
    /\ UNCHANGED <<which, state, loads, entries, leftover, value, writing, lpj, tick>>

CloseFile ==
    /\ reader.at = "open" /\ reader' = NoReader
    /\ UNCHANGED <<which, state, loads, entries, leftover, value, writing, lpj, tick>>

ProcInit ==
    /\ which \in DOMAIN Module
    /\ state = "out" /\ loads = 0 /\ entries = [n \in Names |-> 0] /\ leftover = FALSE
    /\ value = Blank /\ writing = [w \in ProcWriters |-> NoWrite]
    /\ lpj = "boot" /\ tick = 0 /\ reader = NoReader

ProcNext ==
    \/ init_module \/ cleanup_module \/ Tick
    \/ \E w \in ProcWriters : proc_write(w) \/ \E n \in 0..(ValueLen + 1) : copy_from_user(w, n)
    \/ \E b \in BOOLEAN : proc_write_pm3(b)
    \/ \E n \in 1..TextLen : OpenFile(n)
    \/ EnterRead \/ proc_read \/ CloseFile

ProcSpec == ProcInit /\ [][ProcNext]_procVars
-----------------------------------------------------------------------------
ProcTypeOK ==
    /\ state \in {"out", "live"} /\ entries \in [Names -> Nat]
    /\ value \in [1..ValueLen -> {0, 1}] /\ lpj \in {"boot", "written", "unknown"}
    /\ reader.at \in {"none", "open", "inside"} /\ tick \in 0..MaxTick

\* When no write is between its copy and its terminator, the buffer that pm2
\* prints with %s holds a terminator, however the writes overlapped, failed
\* half way or were empty.
TerminatedWhenQuiet ==
    (\A w \in ProcWriters : writing[w] = NoWrite) => \E i \in 1..ValueLen : value[i] = 0

\* Reading in pieces gives the bytes of the text in order and once; only pm11,
\* which sets *start and never *eof, starts over at every call.  A reader whose
\* buffer takes the whole text gets it from one call, hence of one moment.
PiecesInOrder ==
    which # "pm11" =>
       /\ \A i \in DOMAIN reader.got : reader.got[i].byte = i
       /\ reader.size >= TextLen => \A i, j \in DOMAIN reader.got : reader.got[i].sample = reader.got[j].sample

\* An unloaded module has no entry under /proc that leads into it, and no
\* directory unless creating the file failed.
UnloadedMeansGone ==
    state = "out" => /\ entries["file"] = 0
                     /\ ~leftover => entries["dir"] = 0

\* No method runs in a module that has been unloaded.
NoMethodAfterUnload ==
    state = "out" => reader.at # "inside" /\ \A w \in ProcWriters : writing[w] = NoWrite

\* What readers get is the text the method prints, and the buffer that writers
\* fill can be printed.
ProcFilesRight == TerminatedWhenQuiet /\ PiecesInOrder
=============================================================================
