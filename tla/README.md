# A verification of linux-homework

The repository is a set of operating-system exercises: programs that watch `/proc`, a
shell, interval-timer programs, `/proc` modules, a hooked system call and a counter in
the page fault handler of a modified kernel, events (counting semaphores) as system
calls, and two character devices after the scull examples. This directory holds TLA+
models of these parts, TLC configurations that check them, and TLAPS proofs about
all of them.

Paths are relative to the repository; `scull_pipe.c` is `src/7/pipe/scull_pipe.c`,
`myevent.c` is `src/6/kernel/modified/myevent.c`.

## 1. The system

| component | state | operations | who meets whom |
|---|---|---|---|
| scullpipe (`src/7/pipe`) | ring buffer with `rp`, `wp`; semaphore; two wait queues; counts of readers and writers; list of files for SIGIO | open, release, read, write, poll, fasync; load and unload | all processes that opened the device, through the semaphore, the queues, and loads of `rp`/`wp` without the lock |
| events (`src/6`) | global linked list of nodes (number, value, wait queue) | the system calls open, wait, signal, close | every process; there is no lock |
| shell (`src/2/mysh.c`, `parseline.l`) | line buffer, token table, descriptors | read a line, split it, run lists, pipelines, redirections, built-ins | the shell, its children, and the pipes between them |
| scanners (`src/2/parseline.c`, `.../msh/lex.yy.c`) | flex buffer, position, saved state | match, back up, refill | the scanner and the reader of lines that fills it |
| shells kept for study (`src/2`) | table of background processes, environment; children | start, wait, SIGCHLD handler | the shell, its handler and its children |
| bare scull (`src/7/main.c`) | list of quantum sets, size, file position, semaphore | open with trim, read, write, llseek, load and unload | processes that share an open file; loading and users |
| timers (`src/3`) | interval timers, counters changed by handlers | set-up, expiry, handlers, parent and child | programs and their signal handlers, parents and children |
| proc modules (`src/4`) | a directory and a file under `/proc`, one value | load, unload, read, write | readers and writers of the file, and unload |
| system-call hook (`src/5/syscall.c`) | one slot of the system-call table | load, unload, the call | loaders and callers |
| page-fault handler (`src/5/kernel/fault.c`) | page tables, areas, `mmap_sem`, `pfcount` | the fault, vmalloc synchronisation, the call that reads `pfcount` | processors that fault for one process |
| system calls of `src/5/kernel/sys.c` | credentials, groups, sessions, priorities, limits, names, usage, reboot | the set/get calls | tasks and threads, mostly through locks taken for part of the call |
| observers (`src/1`) | streams, uptime, load samples; two kernel values | report, sample, read-modify-write | two programs on one `/proc/sys` value |

What is hard here, and hard to test, is listed line by line under `hazards` in
`PROJECT.json`. In short:

* **scullpipe**: tests of `rp != wp` and of `spacefree()` that run with no lock while
  pointers move and wrap; a lock taken and released along a dozen error paths; wait
  entries on the kernel stack; a ring buffer whose full and empty states differ by one
  byte; `open()` that resets the pointers under everybody.
* **events**: test-then-act on `value` and on the wait queue; a list whose three
  unlink cases must agree with its two end pointers; nodes freed while somebody sleeps
  on them.
* **shells**: descriptors that must be closed in the right process, or a reader never
  sees the end of its input; built-in commands that run in the shell's own process;
  a SIGCHLD handler and `waitpid` after the same child; process numbers that come back.
* **kernel**: values read before a lock and used after it (`setrlimit`, `set_user`);
  errors handed along a walk over many tasks; a mutex that one path never gives back;
  stale translations that fault although the access is allowed; unloading under use.
* **signals**: timers started before their handlers, handlers that interrupt each
  other, signals that merge while one is pending.

What would make each component correct is stated as properties, section 4.

## 2. Modules

    PipeFifo  <--- ScullPipe <--- ScullPipeProofs
                      ^
                   MCScullPipe            (three configurations)

    EventSemaphores <--- MyEvent <--- MCMyEvent    (four configurations)
                            ^
                      MyEventProofs

    Shell <--- MCShell                    (two configurations)
      ^
    ShellProofs

    UserIds, GroupIds, Sessions, Priority, Reboot, Limits, Utsname, Rusage,
    Prctl, PageFault <--- MCLinux <--- LinuxProofs ---> PageFaultProofs

    Scull, CharDrivers, ProcModule, SyscallHook, Timers, Fibonacci, IntrMonitor,
    Clock, Observer, Chkey, BgShell, Lexer, SigShell <--- MCPrograms  (two configurations)
                                                              ^
                                             ProgramsProofs <--- TimerProofs <--- UserProofs

`PipeFifo` and `EventSemaphores` say what the devices promise; the detailed modules
instantiate them with a refinement mapping. Operators named `X_something` that stand
before `X` are plausible mistakes; `PROJECT.json` pairs each with the property that
notices it.

`MCLinux` and `MCPrograms` compose modules that share no state. A behaviour exercises one
of them (the variable `focus` or `part`) while the others stand still in an initial state, so that the state
spaces add up; nothing is claimed about their interaction, because there is none.

### ScullPipe

State: the fields of `struct scull_pipe` (`sem`, `alloc` for `buffer != NULL`,
`buffer`, `rp`, `wp`, `nreaders`, `nwriters`, `asyncq`, `inq`, `outq`), and for each
process its place in the driver (`pc`), task state, pending signal, argument, the
value of `dev->rp` it last loaded without the lock, and what its read has copied.
Pointers are offsets from `dev->buffer`, so `dev->end` is `BufferSize`.

The grain of a step is one access to shared state that somebody else can see. A
critical section is one step, or two where its middle can be seen from outside:
`rp` (or `wp`) stands at `dev->end` between the copy and the wrap-around, and the
unlocked tests may load it there. So `scull_p_read` is: `ReadDown`, then `ReadEmpty`
or `ReadCopy` (or `CopyFault`), `ReadWrap`, `ReadWake`; a blocked reader goes through
`wait_event_interruptible` as the macro does: two loads (`ReadWaitLoad`,
`ReadWaitCond`), `ReadPrepare`, two loads again (`ReadWaitLoad`, `ReadWaitCheck`),
`ReadSleep`. `scull_p_write` has `scull_getwritespace` in it: `WriteFull`,
`WritePrepare`, `WriteLoad`, `WriteCheck`, `WriteSleep`, `WriteFinishWait`.
`scull_p_poll` is called by `select()` in a loop; its wait entries are put on both
queues inside the critical section.

Kernel services (semaphore, `wake_up_interruptible`, `prepare_to_wait`,
`finish_wait`, `schedule`, `select`, signals) are modelled from their use and marked
external. In particular a wake-up removes the entries of readers and writers
(autoremove) and keeps those of `poll()`.

`OpenDuringWrite = FALSE` restricts the *users*: nobody opens the device while
somebody is inside `write()` or `poll()`. It is an assumption on how the device is
used, needed because of the first finding below; every property that does not need
it is proved without it.

### PipeFifo

A queue of at most `BufferSize - 1` bytes and the set of processes that have it open.
`open()` and the last `release()` empty it, and nothing else loses a byte. The
mapping takes the bytes from `rp` to `wp` around the ring for the queue.

### MyEvent

State: `head`, `end` (the two global pointers), `mem` (the nodes, with a flag for
memory that is allocated), each process's system call, its task state, and `bad`, the
kinds of invalid access that have happened. A step is one access to shared state, and
one node for the walk in `scheventNum`: the three stores that append an event, and the
`wake_up_all` (`CloseWake`) and `kfree` (`CloseFree`) of a close, are steps of their own.
`late` records the waiters that joined a queue between those last two. `BadAccess`
replaces a step whose pointer is NULL or freed; the process is not followed any further.

`Preemptible = FALSE` is one CPU without kernel preemption: a system call runs until
it sleeps, `schedule()` in wait and `kmalloc(GFP_KERNEL)` in open. `TRUE` is the SMP
kernel of the repository's configuration. `CloseTail = FALSE` restricts users to
closing events that are not the newest one. Both restrictions are there because the
code is wrong without them, section 5.

### EventSemaphores

Numbered counting semaphores: a wait takes a unit or joins the queue, a signal hands
its unit to the longest waiting process or keeps it, a close lets all waiters go.

### Shell

State: the line and its length as `main()` keeps them, the token table, the shell's
place in `do_list_cmd` / `do_pipe_cmd` / `do_simple_cmd`, the descriptor table of
every process, how full each pipe is, the children, and what reached the terminal.
`Lines` is the set of lines that may be typed, each a nonempty sequence of words (strings, none of
which is `NULL`, the mark of a freed token); lengths are counted in words. Programs are known by what they
do with their descriptors: `gen` writes `OutUnits` units, `cat` copies, `nop` does
neither; any other word is a command that does not exist. Reading, writing, end of
file, the signal for a broken pipe, `fork()` and `waitpid()` are modelled from use.

Abstracted: the expansion of `$` words, the text of the prompt, and the lengths of
single words (so the fixed sizes of the line buffer and of words are not modelled).
A store past the end of the token table stops the model ("overrun"). `PROJECT.json` maps
this module to `parseline.c`, which repeats the C code of `parseline.l` word for word.

### The system calls of sys.c

One module per group of calls, each with the other actors its calls can meet:

* `UserIds`: a call prepares credentials, checks them and commits them in a later step;
  other tasks of the same user start and end in between. `GroupIds` needs no such steps.
  A history (`ulost`, `glost`) keeps the ids that the running program, without the
  capability to take any id, does not have or has dropped; `execve` begins a new one.
* `Sessions`: `setpgid` and `setsid` among fork, exec, exit, opening of terminals, and reuse of process
  numbers. Each is one step, since both hold the task list for writing.
* `Priority`: walks over a process group, a user's tasks or one task, in two steps per task
  (the checks of `set_one_prio`, and its `set_user_nice`); walks of two callers
  overlap because both hold the list for reading only.
* `Limits`: `setrlimit` in three steps (compare without the lock, store under it, set
  the timer after it) by threads with and without `CAP_SYS_RESOURCE`.
* `Utsname`: a write of a name is two steps and so is a read, under `uts_sem`.
* `Rusage`: the sum over threads, a thread per step, while threads count, exit and reap.
* `Reboot`: the stages of halt, power-off and restart, by the system call (under
  `reboot_mutex`), the ctrl-alt-del work item and `orderly_poweroff` (under nothing).
* `Prctl`: death signal, dumpable, timer slack, and the two machine-check flags.

A call that fails without an effect is not a step.

### PageFault

The 32-bit build. A processor executes an access from a set (`Accesses`) that says who makes it and
where: user code, a system call with an exception-table entry, code that holds `mmap_sem` for writing, a kernel thread,
an atomic section. The TLB may hold an old entry. `pfcount++` is a load and a store.
Then the control of `do_page_fault`: kernel space (`vmalloc_fault`, `spurious_fault`), kprobes,
reserved bits, no context, the try for `mmap_sem` and the wait for it, `find_vma`, growth of the
stack, `access_error`, `handle_mm_fault` with its errors, and the ways out through
signals, fixups and oopses. Addresses are page numbers; oops reports are left out.

### Scull and CharDrivers

`Scull`: the list of quantum sets as a sequence of sets of quanta, `size`, the position of one shared file,
the set of allocated objects. A write finds or allocates its quantum (any of
the allocations may fail) and then copies to `dev->data + *f_pos`, which is not that
quantum; `wild` records that list memory was overwritten, by a copy that succeeds or by one that fails
(`copy_from_user` clears what it could not copy). `undef` records where the model stops: a method has
"followed" the list after that, or a count that wrapped (lengths wrap at `Word`) has made
`copy_from_user` clear memory without end ("cleared"). `CharDrivers`: the steps of set-up and clean-up of both drivers with
the failures of each, while users open and close what is already published.

### ProcModule and SyscallHook

`ProcModule`: the four modules of `src/4` by what differs between them; the kernel's
`proc_file_read` calls the read method again and again, as the methods' use of
`*start` and `*eof` decides. The kernel waits for running methods on removal. `SyscallHook`: two modules of the kind of `syscall.c`,
and callers between entry and return; `rash` records an unload during a call or out of order.

### Timers, IntrMonitor, Clock, Fibonacci

`Timers` is `mytimer.c`: three processes, timers, pending signals, seconds the handlers add up,
and the gap between `getitimer` and `printf`. Time passes in units of which a handler adds
`Nominal`. A timer that runs out while its signal is pending is counted in `lost` (no handler will
add for it), and a reading counts the handlers that run between its `getitimer` and its `printf`. `IntrMonitor` keeps the stack of handlers, so that one may interrupt another;
a reading that finds no line ends the program with the stream still open. The first reading, in `main`, is taken to find its line.
`Clock` is `clock.c` and `mygettimeofday.c`: a pending signal swallows the next. Its seconds are `PerSecond`
signals; those of `mygettimeofday.c` are 100000 signals of a timer of one microsecond, so nothing is said about real time.
`Fibonacci` runs the loop of `fibnocci.c` against the recursion of `mytimer.c`, with ints that wrap.

### Observer, Chkey

`Observer`: which files a part of the report opens, reads and closes, with each `fopen` free to fail;
the seconds broken into days, hours, minutes; the sampling loop. Intervals are not
zero (the program never ends then). `Chkey`: two runs of `chkey.c` on the same
values; values are at most `Mask` (0xff), which is what the exclusive or reverses.

### BgShell, SigShell, Lexer

`BgShell` is `myshell_koders.c`: the environment as a list of strings, one of which may be
the pointer to setenv's buffer; the table of background processes with reuse of numbers. `SigShell` is
`myshell_cs_pitt_edu.c`: `fork`, `waitpid`, the handler that calls `wait`, and the two
process numbers that the code takes for error codes. `Lexer` is the engine flex generates, with
both shells' ways of filling it: `mysh` hands over a whole line, and one that is too
long ends the program, because flex takes -1 for a read error; `msh` copies
pieces of a line (a line longer than its own buffer would overrun that buffer before the
scanner sees it, so lines are shorter). Characters are the classes the rules
tell apart: word characters, separators, blanks and the newline.

## 3. Runs, bounds, fairness

| run | question | instance |
|---|---|---|
| `pipe_pair` | locking, buffer life, queues, lost wake-ups, FIFO order | one reader (SIGIO), one writer (polls, gets signals), 3 cells, counts up to 3, two byte values; 1.4 million states |
| `pipe_live` | does every wait end? | two readers (one with O_NONBLOCK), one writer, 2 cells |
| `pipe_open_resets` | does an open disturb sleeping writers? | reader and writer, `OpenDuringWrite = TRUE`; **violation** |
| `event_serial` | list, numbers, counts, queues without preemption; refinement to semaphores | three processes, three nodes and opens, values up to 1 |
| `event_any_order` | whom can a close strand under preemption, Unix signals, lack of memory? | two processes, two nodes, three opens |
| `event_close_tail` | close of the newest event | **violation** |
| `event_lost_wakeup` | signal between a waiter's test and its sleep | **violation** |
| `shell_lines` | descriptors, output and termination of lines | any two of nineteen lines, three children, table of ten tokens |
| `shell_builtin_in_pipeline` | built-in command at the head of a pipeline | **violation** |
| `linux_sources` | the system calls of `sys.c` and the page fault handler | three users and groups, four processes, three tasks and threads, two callers, names of two characters, two processors, six pages; 969 thousand states |
| `programs` | the other kernel modules and the user programs | section below; 395 thousand states |
| `scull_write_hits_list` | one write to the bare scull device, then any operation | **violation** |

Why the bounds are enough. With 3 cells the ring holds two bytes: it can be empty,
half full, full, wrapped and split at its end, and a count of 3 exceeds every limit of
a read or write; two byte values tell a byte from its neighbour. Two cells in
`pipe_live` keep liveness within reach and still have a full and an empty pipe; two
readers compete for one byte. The safety proofs (section 6) hold for every size.
Three nodes give the list a head, a middle and a tail; three processes a queue of two
and a signaller. Nineteen lines use every separator, both redirections, every built-in,
continuation, an unknown command, a missing file, an empty command and a token table
that overflows; two lines in sequence show what one leaves behind for the next.
`OutUnits = PipeCap` is a real restriction: the shell waits for
each foreground command before it starts the next, so a command whose output exceeds
the pipe never ends. (With `OutUnits = 3` and `PipeCap = 2`, `LineFinishes` fails.)

In `linux_sources` root and two users are what a swap of ids needs; four processes give init, a
session with two groups, and an outsider; three tasks let a walk succeed, fail and succeed again. The six pages
are text, a gap, the page below the stack, the stack, a vmalloc page and a mapped
kernel page; each access of `MCAccesses` reaches another way out of the handler.
In `programs` a quantum of 2, sets of 2 and `SCULL_DATA_SIZE` 5 put the end of the data in the middle of a
quantum; two devices let set-up fail between them; text and value of 3
bytes are read and written in smaller, equal and larger pieces; a second has 2 ticks
and 7 ticks carry three times; minutes, hours and days of 2, 6 and 12 seconds keep
the divisibility that the breakdown rests on; `IntMax` 16 overflows within `MaxFib`; the table of background processes has one place for two processes, so it is full;
the scanner's buffer of 5 is refilled in the middle of words. One process is enough
for `Scull`, since the methods exclude one another from start to end; two
expirations of a timer among the three processes (`MaxFires`) give a signal that merges with a pending one
and a reading that is overtaken; `MaxShots` 1 with three handlers already gives every nesting and order.

`MaxCount`, `MaxOpens`, `MaxValue`, `MaxLines`, `MaxFd`, `MaxPipe`, `MaxPos`, `MaxTick`,
`MaxLoads`, `MaxFires`, `MaxFib`, `MaxIntr`, `MaxShots`, `MaxTicks`, `MaxUptime`, `MaxPeriod`,
`MaxLength`, `LinesToScan`, `MaxForks`, `MaxSignal`, `MaxSlack` and `MaxFaults` are bounds of the models, not of the code.

Symmetry over processes and nodes is used in the event runs. It is sound for the
refinement in `event_serial` as well, which has no liveness part: the abstract specification treats the processes alike.

Deadlock is not checked where the system may really stop: a pipe has no end of
file, so a reader without writers waits for good; `open` and `wait` on events likewise,
and users need not call anything; the shell stops after `MaxLines` lines; programs end and counters reach their bounds.
`pipe_open_resets` keeps the check and stops at its violation first.

Fairness. `ScullPipe`: strong fairness of `Driver(p)`, what the driver does for
process `p`: the kernel's semaphores serve their waiters in order, so a process waiting for
a lock that is free again and again gets it. User calls are not fair: nobody has to
read, write or close. `Shell`: weak fairness of the shell's own steps and
of each child; typing a line is not fair. The other runs check safety only.

## 4. Properties

The names in bold are what the runs check; where one joins several parts, the parts
follow it and are defined, each with its own statement, in the component's module.

* **ScullPipe.** **`MutualExclusion`** (with `sem` free when nobody is inside),
  **`BufferLivesWhileOpen`**, **`QueuedOnlyWhileWaiting`** (no entry outlives its stack),
  **`AsyncOnlyOpen`**, **`NoLostDataWakeup`**, **`NoLostSpaceWakeup`**,
  **`ImplementsFifo`**, and live: **`LockGranted`**, **`ReaderResumes`**, **`WriterResumes`**.
* **MyEvent.** **`ListSound`**: `ListHoldsOpenEvents`, `NoNullDereference`, `NoFreedDereference`.
  **`UnitsAccountedFor`**: `SleepersCanBeWoken`, `NobodySleepsOnResource`,
  `ValueNeverNegative`, `NumbersAreUnique`, `WokenMeansGiven`. **`ImplementsSemaphores`**.
  Of these none survives arbitrary interleavings; what does is
  **`OnlyLateSleepersAreStranded`**: a sleeper that no signal or close can reach any
  more joined its queue between the `wake_up_all` and the `kfree` of a close.
* **Shell.** **`LineLeavesNothing`**: `LineLengthMatches`, `PipesClosedAfterLine`,
  `WriteEndClosedWhileIntact`. **`OutputComplete`** (what reached the terminal is what
  the text of the line says), and live: **`LineFinishes`**.
* **sys.c.** **`PrivilegeDroppedForGood`**: `GivenUpForGood`, `CapabilitiesNeedRoot`,
  `GroupsGivenUpForGood` (an id that a program without the capability has dropped, or did not
  have when it gave the capability up, is never among its ids again, and neither is root's
  privilege). **`ResourceLimitsHold`**: `ChargedToRealUser`, `LimitExceededOnlyByRace`,
  `SoftWithinHard`, `NeverAboveCeiling`, `TimerMatchesLimit`. **`GroupsAndSessions`**:
  `SameGroupSameSession`, `LeaderLeads`, `TerminalOfOwnSession`. **`PriorityCallsRight`**:
  `SuccessMeansAllSet`, `GetpriorityPositive`, `NeverBelowRlimit`. **`ShutdownsOrderly`**:
  `RebootSerialised`, `StopsPrepared`, `StopsAsAnnounced`, `MutexLostOnlyByFailedHalt`,
  `ArgvReleased`. **`SampleBetweenBounds`**. **`WhatWasSetIsRead`**: `ReadsWholeNames` as a
  step, `AlwaysTerminated` and `McePolicyReadBack` after every step.
* **PageFault.** **`FaultsEndProperly`**: `SemBalanced`, `NoSelfDeadlock`, `UserFaultsSignal`.
  **`FaultsAnswered`**, of steps: `AllowedAccessNeverOopses`, `NoEndlessFault` (an access
  that is tried again does not take the same fault). **`PfcountLosesOnlyOverlapped`**
  (the counter is short only after faults whose increments overlapped).
* **Drivers and modules.** **`DriversCleanUp`**: `NothingLeaks` (while no
  copy has overwritten scull's list; after one, everything may be lost), `SizeWithinData`,
  `PublishedMeansReady`, `NothingLeftBehind`. **`ModulesUnloadCleanly`**: `UnloadedMeansGone`,
  `NoMethodAfterUnload`, `TableNamesLoadedCode`. **`ProcFilesRight`**: `TerminatedWhenQuiet`,
  `PiecesInOrder`.
* **Programs.** **`TimerProgramsRight`**: `PrintedTimeExplained`, `NoneKilledByTimer`, `NoOrphans`,
  `LoopMatchesRecursion`, `OnlyNestingBreaks`, `KilledOnlyBeforeHandlers`, `EveryTickCarried`,
  `ParentNeverAhead`. **`ReportsRight`**: `StreamsClosedAtEnd`, `BreakdownExact`,
  `SamplesCoverDuration`. **`ReversalLostOnlyByOverlap`**. **`ShellsKeepTrack`**:
  `TableHoldsUnreaped`, `AnnouncedAsStarted`, `EnvironmentRightForOneName`,
  `ZombiesOnlyFromMergedSignals`, `PromptBeforeEndOnlyIfCut`. **`ScannerExact`**:
  `TokensSurviveRefills`, `BufferNotOverrun`.

Several of these say *only*: the code is known to go wrong in one situation (two
overlapping calls, merged signals, nested handlers), the model records that the situation
arose, and the property says that nothing else makes it go wrong. They do not claim that
the situation is harmless: overlapping calls of `setrlimit`, of `pfcount++` and of `chkey`,
a stop without the mutex in the middle of another, handlers nested in `inter_moniter.c`, an
unload during a call, merged SIGCHLDs and the second name given to `setenv` do their damage.
Nor is everything in reach: the store that a write of no bytes makes in front of the buffer of a `/proc` file
hits memory that the model does not have, and `pm11`'s reader, which starts over for
ever, is left out of `PiecesInOrder`. The notes under `hazards` say which is which.

Each module also has one type invariant; `LinuxTypeOK` and `ProgramsTypeOK` join them.

## 5. Where code and comments disagree

Shown by runs:

1. `pipe_open_resets`. `scull_p_open` sets `rp = wp = buffer` on every open
   (`scull_pipe.c:65`) and wakes nobody. A writer asleep on a full pipe stays asleep
   although the pipe is now empty; a reader that comes next finds nothing and sleeps
   too.
2. `event_close_tail`. Closing the newest event leaves its predecessor's `next` (or
   `lpmyevent_head`) pointing at the freed node (`myevent.c:145`); the next lookup
   follows it.
3. `event_lost_wakeup`. The test of `value` and the joining of the queue are separate:
   a signal between them finds no waiter, increments `value`, and the waiter sleeps on
   an event that has a unit to give.
4. `shell_builtin_in_pipeline`. A built-in in a pipeline connects the pipe to the
   shell's own descriptors, for good. The next command inherits the write end of the
   pipe it reads and never sees its end.
5. `scull_write_hits_list`. `scull_write` looks up the quantum of the position and then
   copies to `dev->data + *f_pos`, the list head (`src/7/main.c:205`); the next operation
   that follows the list follows what the user wrote, whether the copy succeeded or not.

Further consequences that TLC shows when the restrictions are lifted, without a run of
their own: after the only event is closed, the next open follows `lpmyevent_end =
NULL` (`NoNullDereference`); two waiters that both see `value` 1 make it negative
(`ValueNeverNegative`); two opens that both see the same tail give out one number twice
(`NumbersAreUnique`); a Unix signal ends a wait that then reports success
(`WokenMeansGiven`); a waiter that has read `value` 0 joins the queue between the
`wake_up_all` of a close and its `kfree` (`myevent.c:151`, 152) and sleeps on freed memory, where
nobody can wake it (`SleepersCanBeWoken`); the message that wait prints after its sleep reads the value
of a freed node when the event was closed meanwhile (`ReportsLiveValue`). That last
read does not influence the program and is kept apart from `NoFreedDereference`.

## 6. Proofs

Each theorem holds for every value of the constants that satisfies the assumptions of its
modules: any finite number of processes, any sizes, any bounds. Where a
property has a run as well, the run shows that the interesting states occur.

| module | theorem | what it states |
|---|---|---|
| `ScullPipeProofs` | `TypeCorrect` | `TypeOK`: among the rest, no pointer leaves the buffer |
| | `SemaphoreExcludes` | `MutualExclusion` |
| | `QueuesAreClean` | `QueuedOnlyWhileWaiting` |
| | `NoReaderIsStranded` | `NoLostDataWakeup` |
| | `NoWriterIsStranded` | `~OpenDuringWrite` gives `NoLostSpaceWakeup` |
| | `BufferLifetime` | `BufferLivesWhileOpen` |
| | `AsyncListIsOpen` | `AsyncOnlyOpen` |
| | `OnlyHolderChanges` | `ChangedUnderLock` (no run checks it) |
| | `PipeIsFifo` | `ImplementsFifo`, the refinement of `PipeFifo` |
| `MyEventProofs` | `EventTypesKept` | `TypeOK` |
| | `OnlyLateWaitersAreAbandoned` | `OnlyLateSleepersAreStranded`, with all restrictions lifted |
| | `EverySleeperCanBeWoken` | `Serial` gives `SleepersCanBeWoken`, a part of `UnitsAccountedFor` |
| | `ListStaysSound` | `Serial` gives `ListSound` |
| | `UnitsAreKept` | `Serial` gives `UnitsAccountedFor` |
| | `EventsAreSemaphores` | `Serial` gives `ImplementsSemaphores`, the refinement of `EventSemaphores` |
| `PageFaultProofs` | `FaultsEnd` | `FaultsEndProperly` |
| | `FaultsCounted` | `PfcountLosesOnlyOverlapped` |
| | `FaultsAnsweredRight` | `FaultsAnswered`, an action property |
| `LinuxProofs` | `GroupsNested` | `GroupsAndSessions` |
| | `PriorityCallsDone` | `PriorityCallsRight` |
| | `ShutdownsDone` | `ShutdownsOrderly` |
| | `SamplesBounded` | `SampleBetweenBounds` |
| | `LinuxTypesKept` | `LinuxTypeOK` |
| | `PrivilegeKept` | `PrivilegeDroppedForGood` |
| | `ResourceLimitsKept` | `ResourceLimitsHold` |
| | `SetIsRead` | `WhatWasSetIsRead`, an action property |
| `ProgramsProofs` | `ReversalsKept` | `ReversalLostOnlyByOverlap` |
| | `DriversClean` | `DriversCleanUp` |
| | `ProcFilesKept` | `ProcFilesRight` |
| | `ModulesUnload` | `ModulesUnloadCleanly` |
| `TimerProofs` | `TimersAreRight` | `TimerProgramsRight` |
| `UserProofs` | `ReportsAreRight` | `ReportsRight` |
| | `ShellsTrack` | `ShellsKeepTrack` |
| | `ScannerIsExact` | `ScannerExact` |
| | `ProgramTypesKept` | `ProgramsTypeOK` |
| `ShellProofs` | `ShellTypesKept` | `TypeOK` of `Shell` |
| | `LinesLeaveNothing` | `LineLeavesNothing` |
| | `OutputIsComplete` | `OutputComplete` |

### Assumptions

They stand in the modules next to the constants, and TLC evaluates them in the runs. Most say
what kind of value a constant has. These say more: `FaultAssumption` that code under
`mmap_sem` has no entry in the exception table (a comment in `fault.c` relies on
it); `ScullAssumption` that the bound on positions is far enough below `Word` for a wrapped count
to be longer than a quantum, and so to leave the user's address space, which leaves out seeks to within a few kilobytes of 4 GiB; `TimersAssumption` that a handler adds
more than one unit; `HookAssumption` that the names of modules differ from the two values the
slot has without them; `ObserverAssumption` that a minute divides an hour and an hour a day, as
60, 3600 and 86400 do; `BgShellAssumption` that "0", which the shell shows for a place of its table
that is free, is no process number; `LinesAssumption` that a line is not empty and that its words are no freed
tokens; `SizesAssumption` that a process has at least the three standard descriptors. Threads,
processes and children are finite sets.

Two theorems have hypotheses because the code is wrong without them. `~OpenDuringWrite` in
`NoWriterIsStranded` excludes finding 1. `Serial` in the theorems about events is one CPU
without kernel preemption, no Unix signals, a newest event that is never closed (findings 2
and 3), and memory for every event. `event_serial` is an instance of it.

### scullpipe

`TypeOK` is not inductive: that `rp` stays at most `BufferSize` needs
that the copy that moved it to the end is followed by the wrap before anybody copies
again. So `Core == TypeOK /\ MutualExclusion /\ RingInv` is proved first, one case per
action, `RingInv` saying that a pointer is at `dev->end` only while its mover is about
to wrap it. What `spacefree()` computes without `%` is a lemma (`SpacefreeValue`), on
which the bound on `wp` rests.

`NoLostDataWakeup` speaks of sleeping readers only and is not inductive either.
`DataInv` extends it backwards over the unlocked test: a reader is on `dev->inq` before
it loads `rp`, and whenever the value it loaded equals `wp`, the pipe is empty or some
writer has yet to wake the queue (unless its task is already running again).
A reset by `open()` makes the pipe empty, which is why readers need no
restriction on open. For writers it makes space without a wake-up. `SpaceInv` is the dual for
them: the `rp` a writer has loaded is still `rp` when it compares it with `wp`, or some reader has
yet to wake `dev->outq`. It needs that nobody is in `open()` meanwhile (`OpenApart`).

The life of the buffer: the proof separates the four steps that open, close or register a file
from all others (`Footprint`), and then needs those four only: `CountInv` says that
`nreaders` and `nwriters` are the cardinalities of the sets of open files and that the buffer
exists when these are not empty; `AsyncInv` that a process on the SIGIO list has not
begun to leave.

`PipeIsFifo` maps the ring to the sequence of bytes from `rp` to `wp`. Lemmas about
this sequence say what it becomes when bytes are written after `wp` or taken at `rp`, before and
after the wrap, and that it never holds `BufferSize` bytes (`NeverBrimful`), so that full and
empty cannot be confused. Every step of the driver is then a step of `PipeFifo` or leaves the
queue alone.

### Events

`OnlyLateWaitersAreAbandoned` joins the types with two facts: who sleeps is on the queue of its event
as long as that exists, and while a close is at its `kfree` whoever is still asleep on that event is `late`, since
the step before has woken all others. Without preemption nobody is late, because no other
call runs between the two steps (`EverySleeperCanBeWoken`).

`SerialInv` is what keeps the list right. `Chain` says that the linked nodes form a chain
from head to end by increasing even numbers, in which every node but the first has a
predecessor; `Knows` says, for each program point, what the running call knows of its node
(where the walk came from, that a node being made is not linked yet, that a value read is
still the value); `Slept` and `Queues` that sleepers are on the queue of their event and of no event
with a unit to give. A process leaves the processor only at the points `Out`, so each
step is compared with one running call.

`ListSound` and the refinement speak of the list as a sequence, which the code does not
have. The place of an event is the number of linked events below it
(`Cardinality(Below(n))`), and `Order` says that the n-th event created is the n-th of the
abstract semaphores. The recursive functions that walk the list or delete from a queue are unfolded
by induction over a set of natural numbers, each with a lemma that the function exists.

### System calls of sys.c

One invariant per module, inductive under that module's steps: `UserInv` (ids, charge and
capabilities of current and prepared credentials together, neither with an id that was given up), `GroupInv`,
`NestedInv` (a group has the session of its namesake process, which fork and reuse of numbers need),
`PriorityInv` (what a walk has set so far, or its error, and that the task it has checked and not yet set
may have the value whatever others set meanwhile), `ShutdownInv` (who stops the machine is at
the k-th stage of one of three plans, and the stages before it have happened), `LimitsInv`
(values that passed the checks and are not stored yet), `UtsInv` (who writes holds `uts_sem` alone,
and the half that is written), `PolicyInv`.

`BetweenInv`: what a sample has added, together with the counters of the threads it has still to visit, lies
between what had been used when it began and what is used now. The sum over a set of threads is a
recursive function on `SUBSET Threads` that takes some thread off the set first; the lemmas about it (it exists, any thread may be taken
first, counters that agree on a set give it the same sum) go by induction on the
cardinality of the set, over a set of natural numbers.

### Page faults

`FaultInv` joins the types; `CountInv` (the counter is the faults taken less those lost, and a
loaded value is the counter's unless an overlap was recorded); `SemInv` (`mmap_sem` is held
exactly at the places inside); `ErrInv` (the error code still agrees with the access, as
far as each place relies on it); `MemInv` (kernel mappings are only ever added).
`FaultsAnsweredRight` looks at the steps that oops or retry and shows, with `ErrInv` and `MemInv`, that
an allowed access is not refused and that a retry has changed what caused the fault.

### Modules and programs

* `ChkeyInv`: a reading that will be written back reversed is the kernel's value, until a write overlaps it.
* `CharInv`: what exists rests on what was set up before (`Layered`), and set-up and
  clean-up stop where they may (`Stages`). `ScullInv`: the heap is exactly what the list, as the code
  has built it, reaches, also when an allocation in the middle fails, and a list that grows keeps what it had. (A copy may since
  have overwritten that list in memory, so `NothingLeaks` claims it only while none has.)
* `HookInv`: as long as nothing was rash, each loaded module has saved the one below it on the stack.
* `ProcInv`: a terminator is in the buffer or a writer has still to store one; what a reader has is the
  text up to its position.
* `TimersInv`: the seconds added are the expirations less the merged and the pending (`Counted`);
  timers run only in processes with handlers of their own (`Armed`); children end before the
  parent (`Family`). From this follows that what is printed is the time spent, plus one unit for
  each expiration (the timer is set one unit short), less `Nominal` for each merged one, plus
  `Nominal` for each handler that ran between the reading and the printing.
* `FibInv`: the loop holds the last two Fibonacci numbers as long as they fit in an int; that the
  recursion of `mytimer.c` is a function, positive and increasing, is proved by induction over a set.
* `MonInv`: with one handler on the stack, what it has shown agrees with what it has saved
  and will save. `ClockInv`: the carries of the seconds, and the parent behind the child.
* `SigInv`: there are no more zombies than signals pending, handled or merged (`ZombiesCounted`), and a
  foreground child that runs at a prompt had its `waitpid` cut short or has one of the two numbers taken
  for errors (`FrontCut`).
* `ObserverInv`: which streams are open at each point of a part (`StreamsInv`), that the uptime shown is one
  there is (`TimeInv`), and that the n-th sample was due at n times the interval (`SamplesInv`). `BreakdownExact` rests on
  lemmas about `\div` and `%` of numbers that divide each other.
* `BgInv`: a child that nobody has waited for, and that is not in the foreground, is in the table once and under
  its own command, or was left out for want of room (`TableInv`); as long as one variable at most has been set, the buffer of setenv holds it and
  every variable reads as it was given last (`EnvInv`).
* `LexInv`: the scanner stands before some character of the line. Up to there it has added the
  tokens that a plain scan of the whole line finds there, and the buffer followed by what is unread is the
  rest of the line (`ScanHere`, `Aligned`). The plain scan is a recursive function on positions; that it
  exists, and that it adds a run of characters as one token however often the buffer
  is refilled within it, is shown by induction over positions.
* `AllInv` joins the invariants of all thirteen programs, from which the types of every variable follow.

`MCLinux` and `MCPrograms` compose modules that share no state. `LinuxProofs`, `ProgramsProofs`,
`TimerProofs` and `UserProofs` show that a step of the composition is a step or a stutter of each module, so every
behaviour of it is one of each module, and cite the modules' invariants.

### The shell

Three invariants, each resting on the one before it.

`ShellInv` holds for every line. Besides the types it says, for each place in the shell's code, which descriptors
beyond the standard ones are open (`ShellTable`: none between two pipelines, the read end of
the pipe before a command, both ends of the one behind it while it is started), that the
token table ends in a `NULL` the shell has not passed (`InLine`), and that, as long as no built-in command in a
pipeline has replaced a descriptor of the shell (`Intact`, finding 4), nobody but the previous command can write to what a
process reads (`InputsAlone`). The last part is inductive only if it also speaks of a
child that has not connected its pipes yet: `Stdin` is the descriptor it will read.
`LineLeavesNothing` and `TypeOK` follow.

`SplitInv` is about lines without built-ins and "&". The tokens that are still to come are those
that were typed; the pipeline at hand ends at a ";" or the newline, and the command at hand at a "|"
or where its pipeline does.

`OutInv` compares a run of such a line with its text. `Reading(line)[x]` says what the first x words
print and what they leave in a pipe. While the line is the only thing at work, what has reached the
terminal or the pipe behind the command (`Sent`) and what the child still owes make up what the text says the
command sends (`Due`); a child that has not connected its pipes is a copy of the shell
(`Copied`), a program has the descriptors the text gives it (`Connected`), and a child that has ended owes nothing.
`Reading` is a recursive function on positions, shown to exist by induction over
a set of natural numbers; `ReadCommand` says what it adds for one command.

### Left to TLC

Liveness: `LockGranted`, `ReaderResumes`, `WriterResumes` and `LineFinishes` rest on fairness, which is
outside the provers' reach. Every other property of the passing runs is the statement of a theorem.

## 7. Not modelled

* The layout of reports, prompts, oops messages and `printk` lines; `$`-expansion in the shell.
* `myshell.c`, `shell_on_book.c`, `msh.c`: shells by other authors that fork, exec and
  wait as `Shell` does, or less. `limit_proc.c` is unfinished.
* `pipe.c`, the textbook original of `scull_pipe.c`; the drafts of the events
  (`src/6/kernel/*.c` outside `modified`), which were not built.
* In `fault.c`: the 64-bit and PAE variants, kmemcheck and kmmio, errata work-arounds other than prefetch. In
  `sys.c`: getcpu, notifier registration, prctl options that only hand their argument on.
* In the scanners: flex's tables, its stack of buffers and the scanning of strings, which the shells do not use.
* The search for the system-call table in kernel memory (`syscall.c`).
* Headers, generated `.mod.c` files, manuals.

## 8. Plan

All components of section 1 are modelled at the depth stated there, and every safety property that the
runs check is proved. What would come next:

1. Lengths of single words and lines in `Shell`, so that the sizes of `line_buf` and of a word come into play.
2. `$`-expansion as a map from words to words, between the scan and the commands.
3. `myshell.c`, whose background commands are grandchildren that init adopts.
