------------------------------- MODULE Shell -------------------------------
(***************************************************************************)
(* The shell of src/2/mysh.c and src/2/parseline.l, with the processes it  *)
(* forks and the pipes between them.                                       *)
(*                                                                         *)
(* A word of the command line is a string; the length of a line is counted *)
(* in words.  A process has a table of file descriptors; its program is    *)
(* known by what it does with them: "gen" writes OutUnits units to its     *)
(* standard output, "cat" copies its standard input to it, "nop" does      *)
(* neither.  A file is empty when it is read as standard input.            *)
(***************************************************************************)
EXTENDS Integers, Sequences, SequencesExt, FiniteSets, FiniteSetsExt

CONSTANTS
  Shell,      \* the shell's process
  Pids,       \* the processes it can have at a time
  Lines,      \* what the user may type, as sequences of words
  TOKENSZ,    \* the size of the table of tokens
  PipeCap,    \* how many units a pipe holds
  OutUnits,   \* how many units "gen" writes
  MaxLines,   \* bound: how many lines are read
  MaxFd,      \* bound: the highest file descriptor
  MaxPipe     \* bound: how many pipes exist at a time

ASSUME PidAssumption == Pids \subseteq Nat /\ Shell \in Nat \ Pids
ASSUME SizesAssumption == {TOKENSZ, PipeCap, OutUnits, MaxLines, MaxFd, MaxPipe} \subseteq Nat /\ MaxFd >= 2

\* What the user can type, what a line is made of, and what the table of tokens holds.
NULL    == "NULL"
NewLine == "\n"
Word    == UNION {Range(l) : l \in Lines}
Text    == Word \cup {NewLine}
Token   == Text \cup {NULL}

ASSUME LinesAssumption == Lines \subseteq Seq(Word) \ {<<>>} /\ NULL \notin Word

VARIABLES
  line_buf, line_len,  \* the line read so far and its length
  lines,               \* how many lines have been read
  tokens,              \* the table of tokens; NULL where freed
  sh,                  \* where the shell is: [pc, i, c, n, bg, pre, post, run, pid]
  fds,                 \* the descriptors of each process
  full,                \* how many units each pipe holds
  proc,                \* each child: [st, cmd, pre, post, left]; st is its program once it runs
  out                  \* units that reached the terminal since the line began

input == <<line_buf, line_len, lines>>
vars  == <<input, tokens, sh, fds, full, proc, out>>

Fd    == 0 .. MaxFd
Pipes == 1 .. MaxPipe
Procs == Pids \cup {Shell}

\* What a descriptor refers to.
File(k, n) == [kind |-> k, id |-> n]
closed == File("none", 0)
tty    == File("tty", 0)
file   == File("file", 0)

Nothing == [x \in Fd |-> closed]
None    == [st |-> "none", cmd |-> <<>>, pre |-> <<>>, post |-> <<>>, left |-> 0]

Init ==
  /\ line_buf = <<>> /\ line_len = 0 /\ lines = 0
  /\ tokens = [x \in 0 .. TOKENSZ - 1 |-> NULL]
  /\ sh = [pc |-> "prompt", i |-> 0, c |-> 0, n |-> 0, bg |-> FALSE,
           pre |-> <<>>, post |-> <<>>, run |-> NULL, pid |-> Shell]
  /\ fds = [p \in Procs |->
              IF p = Shell THEN [x \in Fd |-> IF x <= 2 THEN tty ELSE closed] ELSE Nothing]
  /\ full = [k \in Pipes |-> 0]
  /\ proc = [p \in Pids |-> None]
  /\ out = 0

-----------------------------------------------------------------------------
(* File descriptors and pipes *)

Holds(p, f) == \E x \in Fd : fds[p][x] = f
Open(f)     == \E p \in Procs : Holds(p, f)

FreeFds(t) == {x \in Fd : t[x] = closed}
close(t, x) == [t EXCEPT ![x] = closed]
dup2(t, x, y) == [t EXCEPT ![y] = t[x]]

\* A process dies: its descriptors are closed.
Die(p) == fds' = [fds EXCEPT ![p] = Nothing]

\* What read() does on descriptor 0 of p: there is data, or the end of the file;
\* a pipe that is empty and that somebody can still write to makes it wait.
Readable(p) == fds[p][0].kind = "r" /\ full[fds[p][0].id] > 0
AtEof(p)    == fds[p][0].kind = "r" =>
                 full[fds[p][0].id] = 0 /\ ~Open(File("w", fds[p][0].id))
Take(p)     == full' = [full EXCEPT ![fds[p][0].id] = @ - 1]

\* What write() does on descriptor 1 of p: a pipe that is full makes it wait, and
\* one that nobody can read any more kills the writer.
Broken(p)   == fds[p][1].kind = "w" /\ ~Open(File("r", fds[p][1].id))
Writable(p) == fds[p][1].kind = "w" => full[fds[p][1].id] < PipeCap
Put(p) ==
  LET f == fds[p][1]
  IN  /\ ~Broken(p) /\ Writable(p)
      /\ full' = IF f.kind = "w" THEN [full EXCEPT ![f.id] = @ + 1] ELSE full
      /\ out' = IF f = tty THEN out + 1 ELSE out

-----------------------------------------------------------------------------
(* main(): reading lines.  The shell's own standard input is the terminal     *)
(* until a built-in command replaces it; then what is in that pipe or file is *)
(* read as command lines.                                                     *)

ShellExits ==
  /\ sh' = [sh EXCEPT !.pc = "exited"]
  /\ Die(Shell)

\* readline() first writes the prompt.
Prompt ==
  /\ sh.pc = "prompt"
  /\ \/ Put(Shell) /\ sh' = [sh EXCEPT !.pc = "readline"] /\ UNCHANGED fds
     \/ Broken(Shell) /\ ShellExits /\ UNCHANGED <<full, out>>
  /\ UNCHANGED <<input, tokens, proc>>

\* A line that ends in "\" is kept, and the next one is appended to it.
ReadLine ==
  /\ sh.pc = "readline" /\ lines < MaxLines
  /\ \/ fds[Shell][0].kind # "r" /\ UNCHANGED full
     \/ Readable(Shell) /\ Take(Shell)
  /\ lines' = lines + 1
  /\ \E l \in Lines :
       \/ /\ Last(l) = "\\"
          /\ line_buf' = line_buf \o Front(l) /\ line_len' = line_len + Len(Front(l))
          /\ sh' = [sh EXCEPT !.pc = "prompt"]
       \/ /\ Last(l) # "\\"
          /\ line_buf' = line_buf \o l \o <<NewLine>> /\ line_len' = line_len + Len(l) + 1
          /\ sh' = [sh EXCEPT !.pc = "yylex"]
  /\ UNCHANGED <<tokens, fds, proc, out>>

ReadEof ==
  /\ sh.pc = "readline" /\ AtEof(Shell)
  /\ ShellExits
  /\ UNCHANGED <<input, tokens, full, proc, out>>

\* yylex() and add_token: line_len words are split off line_buf and stored, each
\* time with a NULL after it.  The test of tok_cnt lets two more of them through
\* than there is room for; the shell is not followed any further then.
yylex ==
  /\ sh.pc = "yylex"
  /\ \/ /\ line_len >= TOKENSZ
        /\ sh' = [sh EXCEPT !.pc = "overrun"]
        /\ UNCHANGED tokens
     \/ /\ line_len < TOKENSZ
        /\ tokens' = [x \in DOMAIN tokens |->
                        IF x < line_len THEN line_buf[x + 1]
                        ELSE IF x = line_len THEN NULL ELSE tokens[x]]
        /\ sh' = [sh EXCEPT !.pc = "list", !.i = 0]
  /\ out' = 0
  /\ UNCHANGED <<input, fds, full, proc>>

-----------------------------------------------------------------------------
(* do_list_cmd and do_pipe_cmd *)

\* Where the first of the tokens in S is, from x on.
Find(x, S) == Min({y \in x .. TOKENSZ - 1 : tokens[y] \in S})

\* Take the next pipeline off the list: ";" and newline run it in the foreground,
\* "&" in the background; an empty one is skipped.
do_list_cmd ==
  /\ sh.pc = "list"
  /\ LET e == Find(sh.i, {";", NewLine, "&", NULL})
     IN  /\ tokens[e] # NULL
         /\ tokens' = [tokens EXCEPT ![e] = NULL]
         /\ sh' = [sh EXCEPT !.pc = IF e = sh.i THEN "list" ELSE "pipe",
                             !.i = e + 1, !.c = sh.i, !.bg = (tokens[e] = "&"),
                             !.pre = <<>>]
  /\ UNCHANGED <<input, fds, full, proc, out>>

\* The end of the line: back to main(), which empties line_buf.
ListDone ==
  /\ sh.pc = "list" /\ tokens[sh.i] = NULL
  /\ sh' = [sh EXCEPT !.pc = "prompt"]
  /\ line_buf' = <<>> /\ line_len' = 0
  /\ UNCHANGED <<lines, tokens, fds, full, proc, out>>

\* pipe(): the lowest free descriptors, and a pipe that nobody has open.
MakePipe(r, w) ==
  LET unused == {k \in Pipes : ~Open(File("r", k)) /\ ~Open(File("w", k))}
  IN  /\ unused # {}
      /\ fds' = [fds EXCEPT ![Shell][r] = File("r", Min(unused)),
                            ![Shell][w] = File("w", Min(unused))]
      /\ full' = [full EXCEPT ![Min(unused)] = 0]

\* The next command of the pipeline, with a new pipe behind it ...  The model ends
\* where the descriptors do (bound MaxFd).
PipeCommand ==
  /\ sh.pc = "pipe" /\ Cardinality(FreeFds(fds[Shell])) >= 2
  /\ LET e == Find(sh.c, {"|", NULL})
         r == Min(FreeFds(fds[Shell]))
         w == Min(FreeFds(fds[Shell]) \ {r})
     IN  /\ tokens[e] = "|"
         /\ tokens' = [tokens EXCEPT ![e] = NULL]
         /\ MakePipe(r, w)
         /\ sh' = [sh EXCEPT !.pc = "simple", !.n = e + 1, !.post = <<r, w>>]
  /\ UNCHANGED <<input, proc, out>>

\* ... or the last one.
PipeLast ==
  /\ sh.pc = "pipe"
  /\ tokens[Find(sh.c, {"|", NULL})] = NULL
  /\ sh' = [sh EXCEPT !.pc = "simple", !.post = <<>>]
  /\ UNCHANGED <<input, tokens, fds, full, proc, out>>

\* do_simple_cmd has returned: its post pipe is the pre pipe of the next command.
Advance(s) ==
  IF s.post = <<>> THEN [s EXCEPT !.pc = "list", !.run = NULL, !.pid = Shell]
  ELSE [s EXCEPT !.pc = "pipe", !.c = s.n, !.pre = s.post, !.run = NULL, !.pid = Shell]

-----------------------------------------------------------------------------
(* scan_redirect *)

Words(c) == [x \in 1 .. Find(c, {NULL}) - c |-> tokens[c + x - 1]]

Arrow == {"<", ">"}

\* The words that are neither a redirection nor its file.
Argv(ws) ==
  LET kept == {x \in DOMAIN ws : ws[x] \notin Arrow /\ (x > 1 => ws[x - 1] \notin Arrow)}
  IN  IF kept = {} THEN NULL ELSE ws[Min(kept)]

\* A file cannot be opened for reading, or there is no file name at all.
RedirectFails(ws) ==
  \E x \in DOMAIN ws :
    \/ ws[x] \in Arrow /\ x = Len(ws)
    \/ ws[x] = "<" /\ ws[x + 1] = "missing"

\* close() and fopen(): the file gets the descriptor that was just closed, the
\* lowest one that is free.
scan_redirect(t, ws) ==
  [x \in Fd |-> IF (x = 0 /\ Contains(ws, "<")) \/ (x = 1 /\ Contains(ws, ">"))
                THEN file ELSE t[x]]

\* The command's standard input is the pipe before it, its standard output the
\* pipe behind it.
ConnectPre(t, pre)   == IF pre = <<>> THEN t ELSE close(dup2(t, pre[1], 0), pre[1])
ConnectPost(t, post) == IF post = <<>> THEN t ELSE close(dup2(t, post[2], 1), post[2])

-----------------------------------------------------------------------------
(* do_simple_cmd *)

Builtins == {"exit", "cd", "echo", "export"}

\* get_cmd_handle() is given NULL for an empty command, as in "gen |".
EmptyCommand ==
  /\ sh.pc = "simple" /\ Words(sh.c) = <<>>
  /\ ShellExits
  /\ UNCHANGED <<input, tokens, full, proc, out>>

\* A built-in command connects the shell's own descriptors.
Builtin ==
  /\ sh.pc = "simple" /\ tokens[sh.c] \in Builtins
  /\ LET ws == Words(sh.c)
     IN  /\ tokens' = [x \in DOMAIN tokens |->
                          IF x \in sh.c .. sh.c + Len(ws) - 1 THEN NULL ELSE tokens[x]]
         /\ \/ RedirectFails(ws) /\ ShellExits
            \/ /\ ~RedirectFails(ws)
               /\ fds' = [fds EXCEPT ![Shell] =
                            scan_redirect(ConnectPost(ConnectPre(@, sh.pre), sh.post), ws)]
               /\ sh' = [sh EXCEPT !.pc = "builtin", !.run = ws[1]]
  /\ UNCHANGED <<input, full, proc, out>>

BuiltinRun ==
  /\ sh.pc = "builtin"
  /\ \/ sh.run = "exit" /\ ShellExits /\ UNCHANGED <<full, out>>
     \/ sh.run = "echo" /\ Broken(Shell) /\ ShellExits /\ UNCHANGED <<full, out>>
     \/ sh.run = "echo" /\ Put(Shell) /\ sh' = Advance(sh) /\ UNCHANGED fds
     \/ sh.run \in {"cd", "export"} /\ sh' = Advance(sh) /\ UNCHANGED <<fds, full, out>>
  /\ UNCHANGED <<input, tokens, proc>>

\* Mutant: the result of fork() is not tested.
Fork_unchecked ==
  /\ sh.pc = "simple" /\ Words(sh.c) # <<>> /\ tokens[sh.c] \notin Builtins
  /\ LET free == {p \in Pids : proc[p].st = "none"}
     IN  \/ /\ free = {}
            /\ sh' = [sh EXCEPT !.pc = "waitpid", !.pid = -1]
            /\ UNCHANGED <<fds, proc>>
         \/ /\ free # {}
            /\ proc' = [proc EXCEPT ![Min(free)] =
                          [st |-> "child", cmd |-> Words(sh.c),
                           pre |-> sh.pre, post |-> sh.post, left |-> 0]]
            /\ fds' = [fds EXCEPT ![Min(free)] = fds[Shell]]
            /\ sh' = [sh EXCEPT !.pc = "waitpid", !.pid = Min(free)]
  /\ UNCHANGED <<input, tokens, full, out>>

\* fork(): the child has the shell's descriptors and its copy of the command.
Fork ==
  /\ sh.pc = "simple" /\ Words(sh.c) # <<>> /\ tokens[sh.c] \notin Builtins
  /\ LET free == {p \in Pids : proc[p].st = "none"}
     IN  \/ free = {} /\ ShellExits /\ UNCHANGED proc
         \/ /\ free # {}
            /\ proc' = [proc EXCEPT ![Min(free)] =
                          [st |-> "child", cmd |-> Words(sh.c),
                           pre |-> sh.pre, post |-> sh.post, left |-> 0]]
            /\ fds' = [fds EXCEPT ![Min(free)] = fds[Shell]]
            /\ sh' = [sh EXCEPT !.pc = "waitpid", !.pid = Min(free)]
  /\ UNCHANGED <<input, tokens, full, out>>

\* The parent's copies of the pipe ends that the command has used.
CloseEnds(t, pre, post) ==
  LET u == IF post = <<>> THEN t ELSE close(t, post[2])
  IN  IF pre = <<>> THEN u ELSE close(u, pre[1])

\* waitpid() until the child has ended, or once without waiting (WNOHANG).
waitpid(reaped) ==
  proc' = IF reaped THEN [proc EXCEPT ![sh.pid] = None] ELSE proc

\* Mutant: the write end of the pipe stays open in the shell.
AfterFork_keepsPost ==
  /\ sh.pc = "waitpid"
  /\ sh.bg \/ proc[sh.pid].st = "zombie"
  /\ waitpid(proc[sh.pid].st = "zombie")
  /\ fds' = [fds EXCEPT ![Shell] = CloseEnds(@, sh.pre, <<>>)]
  /\ sh' = Advance(sh)
  /\ UNCHANGED <<input, tokens, full, out>>

AfterFork ==
  /\ sh.pc = "waitpid"
  /\ sh.bg \/ proc[sh.pid].st = "zombie"
  /\ waitpid(proc[sh.pid].st = "zombie")
  /\ fds' = [fds EXCEPT ![Shell] = CloseEnds(@, sh.pre, sh.post)]
  /\ sh' = Advance(sh)
  /\ UNCHANGED <<input, tokens, full, out>>

-----------------------------------------------------------------------------
(* The children *)

Programs == {"gen", "cat", "nop"}

Exit(p) ==
  /\ proc' = [proc EXCEPT ![p] = [None EXCEPT !.st = "zombie"]]
  /\ Die(p)

\* Mutant: redirections are made before the pipes are connected.
ChildFds_redirectFirst(p) ==
  LET c == proc[p]
      t == ConnectPre(scan_redirect(fds[p], c.cmd), c.pre)
  IN  ConnectPost(IF c.post = <<>> THEN t ELSE close(t, c.post[1]), c.post)

\* The child's descriptors when it calls execvp().
ChildFds(p) ==
  LET c == proc[p]
      t == ConnectPre(fds[p], c.pre)
      u == IF c.post = <<>> THEN t ELSE close(t, c.post[1])
  IN  scan_redirect(ConnectPost(u, c.post), c.cmd)

\* Connect the pipes, redirect, and run the program if there is one.
ChildStart(p) ==
  /\ proc[p].st = "child"
  /\ LET prog == Argv(proc[p].cmd)
     IN  IF RedirectFails(proc[p].cmd) \/ prog \notin Programs
           THEN Exit(p)
           ELSE /\ fds' = [fds EXCEPT ![p] = ChildFds(p)]
                /\ proc' = [proc EXCEPT ![p] =
                     [None EXCEPT !.st = prog, !.left = IF prog = "gen" THEN OutUnits ELSE 0]]
  /\ UNCHANGED <<input, tokens, sh, full, out>>

\* A program writes a unit it has, or is killed because nobody can read it.
ProgramWrites(p) ==
  /\ proc[p].st \in Programs /\ proc[p].left > 0
  /\ \/ Put(p) /\ proc' = [proc EXCEPT ![p].left = @ - 1] /\ UNCHANGED fds
     \/ Broken(p) /\ Exit(p) /\ UNCHANGED <<full, out>>
  /\ UNCHANGED <<input, tokens, sh>>

ProgramReads(p) ==
  /\ proc[p].st = "cat" /\ proc[p].left = 0 /\ Readable(p)
  /\ Take(p)
  /\ proc' = [proc EXCEPT ![p].left = 1]
  /\ UNCHANGED <<input, tokens, sh, fds, out>>

ProgramEnds(p) ==
  /\ proc[p].st \in Programs /\ proc[p].left = 0
  /\ proc[p].st = "cat" => AtEof(p)
  /\ Exit(p)
  /\ UNCHANGED <<input, tokens, sh, full, out>>

-----------------------------------------------------------------------------
\* What the shell does without waiting for its user.
ShellStep ==
  \/ Prompt \/ yylex \/ do_list_cmd \/ ListDone \/ PipeCommand \/ PipeLast
  \/ EmptyCommand \/ Builtin \/ BuiltinRun \/ Fork \/ AfterFork

Child(p) == ChildStart(p) \/ ProgramWrites(p) \/ ProgramReads(p) \/ ProgramEnds(p)

Next == ShellStep \/ ReadLine \/ ReadEof \/ \E p \in Pids : Child(p)

Spec == Init /\ [][Next]_vars

\* The scheduler runs every process that can go on.
FairSpec == Spec /\ WF_vars(ShellStep) /\ \A p \in Pids : WF_vars(Child(p))

-----------------------------------------------------------------------------
(* Properties *)

TypeOK ==
  /\ line_buf \in Seq(Text) /\ line_len \in Nat /\ lines \in 0 .. MaxLines
  /\ \A x \in DOMAIN tokens : tokens[x] \in Token
  /\ sh.i \in 0 .. TOKENSZ /\ sh.c \in 0 .. TOKENSZ /\ sh.pid \in Procs
  /\ \A p \in Procs, x \in Fd :
       \/ fds[p][x] \in {closed, tty, file}
       \/ fds[p][x].kind \in {"r", "w"} /\ fds[p][x].id \in Pipes
  /\ \A k \in Pipes : full[k] \in 0 .. PipeCap
  /\ \A p \in Pids : proc[p].left \in Nat /\ proc[p].st \in {"none", "child", "zombie"} \cup Programs
  /\ out \in Nat

\* The shell's standard descriptors are what they were when it started.
Intact == \A x \in 0 .. 2 : fds[Shell][x] = tty

\* The lexer is told the length of what is in line_buf, however many continuation
\* lines it was put together from and whatever earlier lines left behind.
LineLengthMatches == line_len = Len(line_buf)

\* "The pipes of a line are closed in the shell once the line is done": with every
\* mixture of external and built-in commands, foreground and background, the
\* shell has only its three standard descriptors when it prompts again.
PipesClosedAfterLine ==
  sh.pc \in {"prompt", "readline"} => \A x \in Fd : x > 2 => fds[Shell][x] = closed

\* "The write end of prefd is certainly closed": no process holds the write end
\* of the pipe it reads from, and neither does the shell, so that the end of the
\* file comes when the command before it ends.
PreviousWriteEndClosed ==
  \A p \in Pids :
    proc[p].st \in Programs /\ fds[p][0].kind = "r" =>
      ~Holds(p, File("w", fds[p][0].id)) /\ ~Holds(Shell, File("w", fds[p][0].id))

\* The same, as long as no built-in command has taken part in a pipeline or was
\* redirected.
WriteEndClosedWhileIntact == Intact => PreviousWriteEndClosed

\* What a line should print, read off its text from left to right.  A command
\* sends on OutUnits units if it is "gen", what it is given if it is "cat", and nothing
\* if its output or its input is redirected or a redirection fails; what it sends
\* goes to the next command of the pipeline or to the terminal.
Stops == {";", "|", "&", NewLine}
Starts(l) == {x \in DOMAIN l : l[x] \notin Stops /\ (x > 1 => l[x - 1] \in Stops)}
EndOf(l, x) == Min({y \in x .. Len(l) : l[y] \in Stops})
Command(l, x) == [y \in 1 .. EndOf(l, x) - x |-> l[x + y - 1]]

Sends(ws, given) ==
  IF RedirectFails(ws) \/ Contains(ws, ">") THEN 0
  ELSE CASE Argv(ws) = "gen" -> OutUnits
         [] Argv(ws) = "cat" /\ ~Contains(ws, "<") -> given
         [] OTHER -> 0

ReadWord(l, before, x) ==
  LET given == IF x > 1 /\ l[x - 1] = "|" THEN before.piped ELSE 0
      sent  == Sends(Command(l, x), given)
  IN  CASE x \notin Starts(l) -> before
        [] x \in Starts(l) /\ l[EndOf(l, x)] = "|" -> [before EXCEPT !.piped = sent]
        [] OTHER -> [before EXCEPT !.printed = @ + sent]

Reading(l) ==
  LET r[x \in 0 .. Len(l)] ==
        IF x = 0 THEN [printed |-> 0, piped |-> 0] ELSE ReadWord(l, r[x - 1], x)
  IN  r

Expected(l) == Reading(l)[Len(l)].printed

External(l) == \A x \in DOMAIN l : l[x] \notin Builtins

\* A line of external commands that ran in the foreground has printed exactly
\* what its text says: pipes are connected before redirections, in the right
\* direction, and no command was left running.
OutputComplete ==
  /\ sh.pc = "list" /\ tokens[sh.i] = NULL
  /\ Intact /\ External(line_buf) /\ ~Contains(line_buf, "&")
  /\ \A p \in Pids : proc[p].st = "none"
  => out = Expected(line_buf)

\* A line of external commands comes to its end and the shell prompts again (or
\* has exited), although each command of a foreground pipeline is waited for
\* before the next one is started: true while a command's output fits the pipe.
LineFinishes ==
  sh.pc = "yylex" /\ Intact /\ External(line_buf)
    ~> sh.pc \in {"prompt", "exited", "overrun"}


\* What a line leaves for the next: main()'s length agrees with its buffer, no pipe
\* is open, and no write end was left where it hides an end of file.
LineLeavesNothing == LineLengthMatches /\ PipesClosedAfterLine /\ WriteEndClosedWhileIntact
=============================================================================
