----------------------------- MODULE ShellProofs ----------------------------
(***************************************************************************)
(* Proofs about the shell of src/2/mysh.c: for every set of command lines, *)
(* every number of processes, descriptors and pipes, a line that is done   *)
(* leaves nothing open, no process of a pipeline can keep another one from *)
(* seeing the end of its input, and a line of external commands has        *)
(* printed exactly what its text says.                                     *)
(***************************************************************************)
EXTENDS Shell, SequenceTheorems, FiniteSetTheorems, WellFoundedInduction, TLAPS

-----------------------------------------------------------------------------
(* The inductive invariant *)

FileType  == {closed, tty, file} \cup [kind : {"r", "w"}, id : Pipes]
TableType == [Fd -> FileType]
Ends      == {<<>>} \cup (Fd \X Fd)
States    == {"none", "child", "zombie"} \cup Programs
ChildType == [st : States, cmd : Seq(Token), pre : Ends, post : Ends, left : Nat]
Pcs       == {"prompt", "readline", "yylex", "overrun", "list", "pipe", "simple", "builtin", "waitpid", "exited"}
ShellType == [pc : Pcs, i : 0 .. TOKENSZ, c : 0 .. TOKENSZ, n : 0 .. TOKENSZ, bg : BOOLEAN,
              pre : Ends, post : Ends, run : Token, pid : Procs]

LineTyped  == line_buf \in Seq(Text) /\ line_len = Len(line_buf) /\ lines \in 0 .. MaxLines /\ out \in Nat
ShTyped    == sh \in ShellType /\ (sh.pc = "waitpid" => sh.pid \in Pids)
TablesTyped == fds \in [Procs -> TableType]
FullTyped  == full \in [Pipes -> 0 .. PipeCap]
ProcTyped  == proc \in [Pids -> ChildType]

\* The tokens of the line end in a NULL, and the shell has not gone beyond it.
InLine ==
    sh.pc \in {"list", "pipe", "simple", "builtin", "waitpid"} =>
        /\ line_len < TOKENSZ /\ tokens[line_len] = NULL
        /\ sh.i <= line_len /\ (sh.pc # "list" => sh.c <= line_len)
        /\ sh.pc \in {"simple", "builtin", "waitpid"} /\ sh.post # <<>> => sh.n <= line_len

TokensTyped == tokens \in [0 .. TOKENSZ - 1 -> Token]

\* The ends of a pipe in a table: beyond the standard descriptors, and open.
ReadEnd(t, e)  == e # <<>> => e[1] > 2 /\ t[e[1]].kind = "r"
WriteEnd(t, e) == e # <<>> => e[2] > 2 /\ t[e[2]].kind = "w" /\ t[e[2]].id = t[e[1]].id

\* Which descriptors beyond the standard ones may be open.
OnlyOpen(t, S) == \A x \in Fd : x > 2 /\ t[x] # closed => x \in S
First(e)  == IF e = <<>> THEN {} ELSE {e[1]}
Second(e) == IF e = <<>> THEN {} ELSE {e[2]}
Std(t)    == \A x \in 0 .. 2 : t[x] # closed

\* The pipe before the command and the one behind it are two.
Apart(t, pre, post) == pre # <<>> /\ post # <<>> => pre[1] # post[1] /\ t[pre[1]].id # t[post[2]].id

\* What the shell has open, from one point of the line to the next.
TableAt(pc, t, pre, post) ==
    /\ pc # "exited" => Std(t)
    /\ pc \in {"prompt", "readline", "yylex", "overrun", "list"} => OnlyOpen(t, {})
    /\ pc = "pipe" => OnlyOpen(t, First(pre)) /\ ReadEnd(t, pre)
    /\ pc \in {"simple", "waitpid"} =>
          /\ OnlyOpen(t, First(pre) \cup First(post) \cup Second(post))
          /\ ReadEnd(t, pre) /\ ReadEnd(t, post) /\ WriteEnd(t, post) /\ Apart(t, pre, post)
    /\ pc = "builtin" => OnlyOpen(t, First(post)) /\ ReadEnd(t, post)

ShellTable == TableAt(sh.pc, fds[Shell], sh.pre, sh.post)

\* What a process reads, or will read once it has connected its pipes.
Stdin(p) == IF proc[p].st = "child" /\ proc[p].pre # <<>> THEN fds[p][proc[p].pre[1]] ELSE fds[p][0]

Alone(p) == Stdin(p).kind = "r" =>
               ~Holds(p, File("w", Stdin(p).id)) /\ ~Holds(Shell, File("w", Stdin(p).id))

\* While no built-in command has replaced the shell's own descriptors, nobody but
\* the command before it can write to what a process reads.
InputsAlone == Intact => \A p \in Pids : proc[p].st \in {"child"} \cup Programs => Alone(p)

ShellTypes == LineTyped /\ ShTyped /\ TokensTyped /\ TablesTyped /\ FullTyped /\ ProcTyped
ShellInv   == ShellTypes /\ InLine /\ ShellTable /\ InputsAlone

-----------------------------------------------------------------------------
(* Least elements, tables and sequences *)

\* The least element of a nonempty set of natural numbers.
LEMMA LeastIs ==
    ASSUME NEW S \in SUBSET Nat, S # {}
    PROVE  Min(S) \in S /\ \A y \in S : Min(S) <= y
<1> SUFFICES \E x \in S : \A y \in S : x <= y
    BY DEF Min
<1>1. PICK x \in S : \A y \in S : ~(<<y, x>> \in OpToRel(<, Nat))
    BY NatLessThanWellFounded, WFMin
<1>2. \A y \in S : ~(y < x)
    BY <1>1 DEF OpToRel
<1> QED BY <1>2

\* A table with the pipe before the command at its standard input.
LEMMA PreConnected ==
    ASSUME NEW t \in TableType, NEW e \in Ends
    PROVE  /\ ConnectPre(t, e) \in TableType
           /\ \A x \in Fd : ConnectPre(t, e)[x] =
                IF e = <<>> THEN t[x] ELSE IF x = e[1] THEN closed ELSE IF x = 0 THEN t[e[1]] ELSE t[x]
<1>1. CASE e = <<>>
    BY <1>1 DEF ConnectPre
<1>2. CASE e # <<>>
  <2>1. e[1] \in Fd /\ 0 \in Fd
      BY <1>2, SizesAssumption DEF Ends, Fd
  <2>2. ConnectPre(t, e) = [[t EXCEPT ![0] = t[e[1]]] EXCEPT ![e[1]] = closed]
      BY <1>2 DEF ConnectPre, close, dup2
  <2> QED BY <1>2, <2>1, <2>2 DEF TableType, FileType
<1> QED BY <1>1, <1>2

\* A table with the pipe behind the command at its standard output.
LEMMA PostConnected ==
    ASSUME NEW t \in TableType, NEW e \in Ends
    PROVE  /\ ConnectPost(t, e) \in TableType
           /\ \A x \in Fd : ConnectPost(t, e)[x] =
                IF e = <<>> THEN t[x] ELSE IF x = e[2] THEN closed ELSE IF x = 1 THEN t[e[2]] ELSE t[x]
<1>1. CASE e = <<>>
    BY <1>1 DEF ConnectPost
<1>2. CASE e # <<>>
  <2>1. e[2] \in Fd /\ 1 \in Fd
      BY <1>2, SizesAssumption DEF Ends, Fd
  <2>2. ConnectPost(t, e) = [[t EXCEPT ![1] = t[e[2]]] EXCEPT ![e[2]] = closed]
      BY <1>2 DEF ConnectPost, close, dup2
  <2> QED BY <1>2, <2>1, <2>2 DEF TableType, FileType
<1> QED BY <1>1, <1>2

\* A redirection replaces standard input or output by a file.
LEMMA Redirected ==
    ASSUME NEW t \in TableType, NEW ws
    PROVE  /\ scan_redirect(t, ws) \in TableType
           /\ \A x \in Fd : scan_redirect(t, ws)[x] = t[x] \/ (x \in {0, 1} /\ scan_redirect(t, ws)[x] = file)
BY DEF scan_redirect, TableType, FileType

\* Where the next token of a kind is: at or before the NULL that ends the line.
LEMMA Found ==
    ASSUME TokensTyped, NEW x \in Nat, NEW S, NEW n \in 0 .. TOKENSZ - 1, x <= n, tokens[n] \in S
    PROVE  /\ Find(x, S) \in x .. n /\ tokens[Find(x, S)] \in S
           /\ Find(x, S) \in 0 .. TOKENSZ - 1
           /\ \A y \in x .. Find(x, S) - 1 : tokens[y] \notin S
<1> DEFINE Y == {y \in x .. TOKENSZ - 1 : tokens[y] \in S}
<1>1. TOKENSZ \in Nat
    BY SizesAssumption
<1>2. Y \in SUBSET Nat /\ n \in Y
    BY <1>1
<1>3. Min(Y) \in Y /\ Min(Y) <= n /\ \A y \in Y : Min(Y) <= y
    BY <1>2, LeastIs
<1>4. ASSUME NEW y \in x .. Min(Y) - 1 PROVE tokens[y] \notin S
  <2>1. y \in x .. TOKENSZ - 1 /\ ~(Min(Y) <= y)
      BY <1>1, <1>3
  <2> QED BY <1>3, <2>1
<1> QED BY <1>1, <1>3, <1>4 DEF Find

\* The words of a command are strings, and there is one when its first token is not NULL.
LEMMA WordsAre ==
    ASSUME TokensTyped, NEW c \in Nat, NEW n \in 0 .. TOKENSZ - 1, c <= n, tokens[n] = NULL
    PROVE  /\ Words(c) \in Seq(Token)
           /\ c + Len(Words(c)) <= n
           /\ tokens[c] # NULL => Len(Words(c)) > 0 /\ Words(c)[1] = tokens[c]
<1> DEFINE e == Find(c, {NULL})
<1>1. TOKENSZ \in Nat /\ tokens[n] \in {NULL}
    BY SizesAssumption
<1>2. e \in c .. n /\ tokens[e] = NULL
    BY <1>1, Found
<1>3. Words(c) = [x \in 1 .. e - c |-> tokens[c + x - 1]]
    BY DEF Words
<1> HIDE DEF e
<1>4. e - c \in Nat /\ c + (e - c) <= n
    BY <1>2
<1>5. \A x \in 1 .. e - c : tokens[c + x - 1] \in Token
    BY <1>1, <1>2 DEF TokensTyped
<1>6. Words(c) \in Seq(Token) /\ Len(Words(c)) = e - c
    BY <1>3, <1>4, <1>5
<1>7. ASSUME tokens[c] # NULL PROVE e - c > 0 /\ Words(c)[1] = tokens[c]
    BY <1>2, <1>3, <1>7
<1> QED BY <1>4, <1>6, <1>7

-----------------------------------------------------------------------------
(* What a step leaves alone *)

\* Nobody gains anything to write to, and what each process reads is what it was.
Shrinks ==
    /\ Intact' => Intact
    /\ \A f : f.kind = "w" /\ Holds(Shell, f)' => Holds(Shell, f)
    /\ \A p \in Pids : proc'[p].st \in {"child"} \cup Programs =>
          /\ proc[p].st \in {"child"} \cup Programs
          /\ Stdin(p)'.kind = "r" => Stdin(p)' = Stdin(p)
          /\ \A f : f.kind = "w" /\ Holds(p, f)' => Holds(p, f)

\* Then the inputs stay alone.
LEMMA ShrinksKeeps == InputsAlone /\ Shrinks => InputsAlone'
<1> SUFFICES ASSUME InputsAlone, Shrinks, Intact', NEW p \in Pids, proc'[p].st \in {"child"} \cup Programs, Stdin(p)'.kind = "r"
             PROVE  ~Holds(p, File("w", Stdin(p).id))' /\ ~Holds(Shell, File("w", Stdin(p).id))'
    BY DEF InputsAlone, Alone
<1>1. Stdin(p)' = Stdin(p) /\ proc[p].st \in {"child"} \cup Programs /\ Intact
    BY DEF Shrinks
<1>2. Alone(p)
    BY <1>1 DEF InputsAlone
<1> DEFINE f == File("w", Stdin(p).id)
<1>3. f.kind = "w" /\ f' = f
    BY <1>1 DEF File
<1>4. ~Holds(p, f) /\ ~Holds(Shell, f)
    BY <1>1, <1>2 DEF Alone
<1> HIDE DEF f
<1>5. ~Holds(p, f)' /\ ~Holds(Shell, f)'
    BY <1>3, <1>4 DEF Shrinks
<1> QED BY <1>3, <1>5 DEF f

\* A step that leaves the processes and their tables as they are.
LEMMA SameTables == ASSUME UNCHANGED <<fds, proc>> PROVE Shrinks
<1>1. Intact' = Intact /\ \A p, f : Holds(p, f)' = Holds(p, f)
    BY DEF Intact, Holds
<1>2. \A p \in Pids : Stdin(p)' = Stdin(p)
    BY DEF Stdin
<1> QED BY <1>1, <1>2 DEF Shrinks

\* A unit that is written has a place in its pipe.
LEMMA Puts == ASSUME TablesTyped, FullTyped, LineTyped, NEW p \in Procs, Put(p) PROVE FullTyped' /\ out' \in Nat
<1>1. 1 \in Fd /\ PipeCap \in Nat
    BY SizesAssumption DEF Fd
<1> DEFINE f == fds[p][1]
<1>2. f \in FileType
    BY <1>1 DEF TablesTyped, TableType
<1>3. f.kind = "w" => f.id \in Pipes /\ full[f.id] < PipeCap
    BY <1>2 DEF FileType, closed, tty, file, File, Put, Writable
<1>4. full' = (IF f.kind = "w" THEN [full EXCEPT ![f.id] = @ + 1] ELSE full) /\ out' \in {out, out + 1}
    BY DEF Put
<1> HIDE DEF f
<1>5. FullTyped'
    BY <1>1, <1>3, <1>4 DEF FullTyped
<1> QED BY <1>4, <1>5 DEF LineTyped

\* A unit that is read was in its pipe.
LEMMA Takes == ASSUME TablesTyped, FullTyped, NEW p \in Procs, Readable(p), Take(p) PROVE FullTyped'
<1>1. 0 \in Fd /\ PipeCap \in Nat
    BY SizesAssumption DEF Fd
<1> DEFINE f == fds[p][0]
<1>2. f \in FileType
    BY <1>1 DEF TablesTyped, TableType
<1>3. f.id \in Pipes /\ full[f.id] > 0
    BY <1>2 DEF FileType, closed, tty, file, File, Readable
<1>4. full' = [full EXCEPT ![f.id] = @ - 1]
    BY DEF Take
<1> HIDE DEF f
<1> QED BY <1>1, <1>3, <1>4 DEF FullTyped

\* A shell that exits has nothing open.
LEMMA Exits == ASSUME ShellInv, ShellExits PROVE ShTyped' /\ TablesTyped' /\ InLine' /\ ShellTable' /\ InputsAlone'
<1>1. 0 \in Fd /\ 0 \in 0 .. 2 /\ Shell \in Procs
    BY SizesAssumption DEF Fd, Procs
<1>2. sh' \in ShellType /\ sh'.pc = "exited"
    BY DEF ShellInv, ShellTypes, ShTyped, ShellType, Pcs, ShellExits
<1>3. Nothing \in TableType /\ Nothing[0] = closed
    BY <1>1 DEF Nothing, TableType, FileType
<1>4. fds' = [fds EXCEPT ![Shell] = Nothing]
    BY DEF ShellExits, Die
<1>5. TablesTyped' /\ fds'[Shell] = Nothing
    BY <1>1, <1>3, <1>4 DEF ShellInv, ShellTypes, TablesTyped
<1>6. fds'[Shell][0] # tty
    BY <1>3, <1>5 DEF closed, tty, File
<1>7. ~Intact'
    BY <1>1, <1>6 DEF Intact
<1>8. InputsAlone'
    BY <1>7 DEF InputsAlone
<1>9. InLine' /\ ShellTable' /\ ShTyped'
    BY <1>2 DEF InLine, ShellTable, TableAt, ShTyped
<1> QED BY <1>5, <1>8, <1>9

-----------------------------------------------------------------------------
(* Steps of the shell *)

\* The tables stay as they are when the shell goes on and nothing is opened.
LEMMA GoesOn ==
    ASSUME ShellInv, UNCHANGED <<fds, proc>>, TableAt(sh.pc, fds[Shell], sh.pre, sh.post)
                                              => TableAt(sh'.pc, fds[Shell], sh'.pre, sh'.post)
    PROVE  TablesTyped' /\ ProcTyped' /\ ShellTable' /\ InputsAlone'
<1>1. TablesTyped' /\ ProcTyped'
    BY DEF ShellInv, ShellTypes, TablesTyped, ProcTyped
<1>2. ShellTable'
    BY DEF ShellInv, ShellTable
<1>3. InputsAlone'
    BY SameTables, ShrinksKeeps DEF ShellInv
<1> QED BY <1>1, <1>2, <1>3

\* The prompt.
LEMMA PromptKeeps == ShellInv /\ Prompt => ShellInv'
<1> SUFFICES ASSUME ShellInv, Prompt PROVE ShellInv'
    OBVIOUS
<1>1. Shell \in Procs /\ UNCHANGED <<line_buf, line_len, lines, tokens, proc>>
    BY DEF Procs, Prompt, input
<1>2. ProcTyped' /\ TokensTyped'
    BY <1>1 DEF ShellInv, ShellTypes, ProcTyped, TokensTyped
<1>3. CASE Put(Shell) /\ sh' = [sh EXCEPT !.pc = "readline"] /\ UNCHANGED fds
  <2>1. sh.pc = "prompt" /\ sh \in ShellType
      BY DEF Prompt, ShellInv, ShellTypes, ShTyped
  <2>2. sh' \in ShellType /\ sh'.pc = "readline" /\ sh'.pre = sh.pre /\ sh'.post = sh.post
      BY <1>3, <2>1 DEF ShellType, Pcs
  <2>3. FullTyped' /\ out' \in Nat
      BY <1>1, <1>3, Puts DEF ShellInv, ShellTypes
  <2>4. LineTyped'
      BY <1>1, <2>3 DEF ShellInv, ShellTypes, LineTyped
  <2>5. ShellTable' /\ TablesTyped' /\ InputsAlone'
      BY <1>1, <1>3, <2>1, <2>2, GoesOn DEF TableAt
  <2>6. InLine' /\ ShTyped'
      BY <2>2 DEF InLine, ShTyped
  <2> QED BY <1>2, <2>3, <2>4, <2>5, <2>6 DEF ShellInv, ShellTypes
<1>4. CASE Broken(Shell) /\ ShellExits /\ UNCHANGED <<full, out>>
  <2>1. FullTyped' /\ LineTyped'
      BY <1>1, <1>4 DEF ShellInv, ShellTypes, FullTyped, LineTyped
  <2> QED BY <1>2, <1>4, <2>1, Exits DEF ShellInv, ShellTypes
<1> QED BY <1>3, <1>4 DEF Prompt

\* A line is read, or kept for the one after it: its length goes with it.
LEMMA ReadKeeps == ShellInv /\ ReadLine => ShellInv'
<1> SUFFICES ASSUME ShellInv, ReadLine PROVE ShellInv'
    OBVIOUS
<1>1. Shell \in Procs /\ UNCHANGED <<tokens, fds, proc, out>> /\ lines \in 0 .. MaxLines - 1 /\ lines' = lines + 1
    BY SizesAssumption DEF Procs, ReadLine, ShellInv, ShellTypes, LineTyped
<1>2. ProcTyped' /\ TokensTyped' /\ lines' \in 0 .. MaxLines /\ out' \in Nat
    BY <1>1, SizesAssumption DEF ShellInv, ShellTypes, ProcTyped, TokensTyped, LineTyped
<1>3. FullTyped'
    BY <1>1, Takes DEF ReadLine, ShellInv, ShellTypes, FullTyped
<1>4. sh.pc = "readline" /\ sh \in ShellType
    BY DEF ReadLine, ShellInv, ShellTypes, ShTyped
<1>5. PICK l \in Lines :
       \/ /\ Last(l) = "\\"
          /\ line_buf' = line_buf \o Front(l) /\ line_len' = line_len + Len(Front(l))
          /\ sh' = [sh EXCEPT !.pc = "prompt"]
       \/ /\ Last(l) # "\\"
          /\ line_buf' = line_buf \o l \o <<NewLine>> /\ line_len' = line_len + Len(l) + 1
          /\ sh' = [sh EXCEPT !.pc = "yylex"]
    BY DEF ReadLine
<1>6. l \in Seq(Text) /\ l # <<>> /\ Len(l) \in Nat \ {0}
  <2>1. l \in Seq(Word) /\ l # <<>>
      BY <1>5, LinesAssumption
  <2>2. Len(l) \in Nat \ {0} /\ Word \subseteq Text
      BY <2>1 DEF Text
  <2> QED BY <2>1, <2>2
<1>7. line_buf \in Seq(Text) /\ line_len = Len(line_buf)
    BY DEF ShellInv, ShellTypes, LineTyped
<1>8. Front(l) \in Seq(Text)
    BY <1>6, SubSeqProperties DEF Front
<1>9. line_buf' \in Seq(Text) /\ line_len' = Len(line_buf')
  <2>1. CASE line_buf' = line_buf \o Front(l) /\ line_len' = line_len + Len(Front(l))
      BY <1>7, <1>8, <2>1, ConcatProperties
  <2>2. CASE line_buf' = line_buf \o l \o <<NewLine>> /\ line_len' = line_len + Len(l) + 1
    <3>1. line_buf \o l \in Seq(Text) /\ Len(line_buf \o l) = line_len + Len(l)
        BY <1>6, <1>7, ConcatProperties
    <3>2. <<NewLine>> \in Seq(Text) /\ Len(<<NewLine>>) = 1
      <4>1. NewLine \in Text
          BY DEF Text
      <4> QED BY <4>1
    <3>3. line_buf' \in Seq(Text) /\ Len(line_buf') = Len(line_buf \o l) + 1
        BY <2>2, <3>1, <3>2, ConcatProperties
    <3> QED BY <2>2, <3>1, <3>3
  <2> QED BY <1>5, <2>1, <2>2
<1>10. LineTyped'
    BY <1>2, <1>9 DEF LineTyped
<1>11. sh' \in ShellType /\ sh'.pc \in {"prompt", "yylex"} /\ sh'.pre = sh.pre /\ sh'.post = sh.post
    BY <1>4, <1>5 DEF ShellType, Pcs
<1>12. ShellTable' /\ TablesTyped' /\ InputsAlone'
    BY <1>1, <1>4, <1>11, GoesOn DEF TableAt
<1>13. InLine' /\ ShTyped'
    BY <1>11 DEF InLine, ShTyped
<1> QED BY <1>2, <1>3, <1>10, <1>12, <1>13 DEF ShellInv, ShellTypes

\* The end of the shell's input.
LEMMA EofKeeps == ShellInv /\ ReadEof => ShellInv'
<1> SUFFICES ASSUME ShellInv, ReadEof PROVE ShellInv'
    OBVIOUS
<1>1. ShellExits /\ UNCHANGED <<line_buf, line_len, lines, tokens, full, proc, out>>
    BY DEF ReadEof, input
<1>2. LineTyped' /\ TokensTyped' /\ FullTyped' /\ ProcTyped'
    BY <1>1 DEF ShellInv, ShellTypes, LineTyped, TokensTyped, FullTyped, ProcTyped
<1> QED BY <1>1, <1>2, Exits DEF ShellInv, ShellTypes

\* A line is split into its tokens, unless they are too many.
LEMMA LexKeeps == ShellInv /\ yylex => ShellInv'
<1> SUFFICES ASSUME ShellInv, yylex PROVE ShellInv'
    OBVIOUS
<1>1. UNCHANGED <<line_buf, line_len, lines, fds, full, proc>> /\ out' = 0 /\ TOKENSZ \in Nat
    BY SizesAssumption DEF yylex, input
<1>2. LineTyped' /\ FullTyped' /\ ProcTyped'
    BY <1>1 DEF ShellInv, ShellTypes, LineTyped, FullTyped, ProcTyped
<1>3. sh.pc = "yylex" /\ sh \in ShellType /\ line_buf \in Seq(Text) /\ line_len = Len(line_buf) /\ line_len \in Nat
    BY DEF yylex, ShellInv, ShellTypes, ShTyped, LineTyped
<1>4. CASE line_len >= TOKENSZ /\ sh' = [sh EXCEPT !.pc = "overrun"] /\ UNCHANGED tokens
  <2>1. sh' \in ShellType /\ sh'.pc = "overrun" /\ sh'.pre = sh.pre /\ sh'.post = sh.post
      BY <1>3, <1>4 DEF ShellType, Pcs
  <2>2. InLine' /\ ShTyped' /\ TokensTyped'
      BY <1>4, <2>1 DEF InLine, ShTyped, TokensTyped, ShellInv, ShellTypes
  <2>3. ShellTable' /\ TablesTyped' /\ InputsAlone'
      BY <1>1, <1>3, <2>1, GoesOn DEF TableAt
  <2> QED BY <1>2, <2>2, <2>3 DEF ShellInv, ShellTypes
<1>5. CASE /\ line_len < TOKENSZ
           /\ tokens' = [x \in DOMAIN tokens |->
                            IF x < line_len THEN line_buf[x + 1] ELSE IF x = line_len THEN NULL ELSE tokens[x]]
           /\ sh' = [sh EXCEPT !.pc = "list", !.i = 0]
  <2>1. DOMAIN tokens = 0 .. TOKENSZ - 1 /\ \A x \in DOMAIN tokens : tokens[x] \in Token
      BY DEF ShellInv, ShellTypes, TokensTyped
  <2>2. \A x \in 0 .. TOKENSZ - 1 : tokens'[x] \in Token
    <3>1. NULL \in Token
        BY DEF Token
    <3>2. \A x \in 0 .. TOKENSZ - 1 : x < line_len => line_buf[x + 1] \in Token
        BY <1>1, <1>3 DEF Token
    <3>3. \A x \in 0 .. TOKENSZ - 1 : tokens'[x] = IF x < line_len THEN line_buf[x + 1] ELSE IF x = line_len THEN NULL ELSE tokens[x]
        BY <1>5, <2>1
    <3> QED BY <2>1, <3>1, <3>2, <3>3
  <2>3. TokensTyped'
      BY <1>1, <1>5, <2>1, <2>2 DEF TokensTyped
  <2>4. line_len \in 0 .. TOKENSZ - 1 /\ tokens'[line_len] = NULL
      BY <1>1, <1>3, <1>5, <2>1
  <2>5. /\ sh' \in ShellType /\ sh'.pc = "list" /\ sh'.pre = sh.pre /\ sh'.post = sh.post
        /\ sh'.i = 0
    <3>1. 0 \in 0 .. TOKENSZ /\ sh' = [sh EXCEPT !.pc = "list", !.i = 0]
        BY <1>1, <1>5
    <3> QED BY ONLY <1>3, <3>1 DEF ShellType, Pcs
  <2>6. ShellTable' /\ TablesTyped' /\ InputsAlone'
      BY <1>1, <1>3, <2>5, GoesOn DEF TableAt
  <2> QED BY <1>1, <1>2, <1>3, <1>5, <2>3, <2>4, <2>5, <2>6 DEF ShellInv, ShellTypes, InLine, ShTyped
<1> QED BY <1>4, <1>5 DEF yylex

\* The next pipeline of the line begins where the last one ended.
LEMMA ListKeeps == ShellInv /\ do_list_cmd => ShellInv'
<1> SUFFICES ASSUME ShellInv, do_list_cmd PROVE ShellInv'
    OBVIOUS
<1> DEFINE e == Find(sh.i, {";", NewLine, "&", NULL})
<1>1. UNCHANGED <<line_buf, line_len, lines, fds, full, proc, out>> /\ TOKENSZ \in Nat
    BY SizesAssumption DEF do_list_cmd, input
<1>2. LineTyped' /\ FullTyped' /\ ProcTyped'
    BY <1>1 DEF ShellInv, ShellTypes, LineTyped, FullTyped, ProcTyped
<1>3. sh.pc = "list" /\ sh \in ShellType /\ line_len \in Nat /\ TokensTyped /\ sh.i \in Nat
  <2>1. sh.pc = "list" /\ sh \in ShellType /\ TokensTyped
      BY DEF do_list_cmd, ShellInv, ShellTypes, ShTyped
  <2>2. line_buf \in Seq(Text) /\ line_len = Len(line_buf)
      BY DEF ShellInv, ShellTypes, LineTyped
  <2> QED BY <1>1, <2>1, <2>2 DEF ShellType
<1>4. line_len \in 0 .. TOKENSZ - 1 /\ tokens[line_len] = NULL /\ sh.i <= line_len
    BY <1>1, <1>3 DEF ShellInv, InLine
<1>5. e \in sh.i .. line_len /\ e \in 0 .. TOKENSZ - 1
    BY <1>3, <1>4, Found
<1>6. /\ tokens[e] # NULL /\ tokens' = [tokens EXCEPT ![e] = NULL]
      /\ sh' = [sh EXCEPT !.pc = IF e = sh.i THEN "list" ELSE "pipe",
                          !.i = e + 1, !.c = sh.i, !.bg = (tokens[e] = "&"), !.pre = <<>>]
    BY DEF do_list_cmd
<1> HIDE DEF e
<1>7. e + 1 <= line_len /\ e + 1 \in 0 .. TOKENSZ /\ sh.i \in 0 .. TOKENSZ
    BY <1>1, <1>3, <1>4, <1>5, <1>6 DEF ShellType
<1>8. TokensTyped' /\ tokens'[line_len] = NULL
    BY <1>3, <1>4, <1>5, <1>6 DEF TokensTyped, Token
<1>9. /\ sh' \in ShellType /\ sh'.pc \in {"list", "pipe"} /\ sh'.pre = <<>> /\ sh'.post = sh.post
      /\ sh'.i = e + 1 /\ sh'.c = sh.i
  <2>1. (IF e = sh.i THEN "list" ELSE "pipe") \in {"list", "pipe"} /\ (tokens[e] = "&") \in BOOLEAN /\ <<>> \in Ends
      BY DEF Ends
  <2> QED BY ONLY <1>3, <1>6, <1>7, <2>1 DEF ShellType, Pcs
<1>10. ShTyped' /\ InLine'
    BY <1>1, <1>3, <1>4, <1>7, <1>8, <1>9 DEF ShTyped, InLine
<1>11. ShellTable' /\ TablesTyped' /\ InputsAlone'
    BY <1>1, <1>3, <1>9, GoesOn DEF TableAt, OnlyOpen, ReadEnd
<1> QED BY <1>2, <1>8, <1>10, <1>11 DEF ShellInv, ShellTypes

\* The end of the line empties the buffer and its length together.
LEMMA DoneKeeps == ShellInv /\ ListDone => ShellInv'
<1> SUFFICES ASSUME ShellInv, ListDone PROVE ShellInv'
    OBVIOUS
<1>1. UNCHANGED <<lines, tokens, fds, full, proc, out>> /\ line_buf' = <<>> /\ line_len' = 0
    BY DEF ListDone
<1>2. TokensTyped' /\ FullTyped' /\ ProcTyped'
    BY <1>1 DEF ShellInv, ShellTypes, TokensTyped, FullTyped, ProcTyped
<1>3. LineTyped'
  <2>1. <<>> \in Seq(Text) /\ Len(<<>>) = 0
      OBVIOUS
  <2> QED BY <1>1, <2>1 DEF ShellInv, ShellTypes, LineTyped
<1>4. sh.pc = "list" /\ sh \in ShellType /\ sh' = [sh EXCEPT !.pc = "prompt"]
    BY DEF ListDone, ShellInv, ShellTypes, ShTyped
<1>5. sh' \in ShellType /\ sh'.pc = "prompt" /\ sh'.pre = sh.pre /\ sh'.post = sh.post
    BY <1>4 DEF ShellType, Pcs
<1>6. ShTyped' /\ InLine'
    BY <1>5 DEF ShTyped, InLine
<1>7. ShellTable' /\ TablesTyped' /\ InputsAlone'
    BY <1>1, <1>4, <1>5, GoesOn DEF TableAt
<1> QED BY <1>2, <1>3, <1>6, <1>7 DEF ShellInv, ShellTypes

\* The last command of a pipeline has no pipe behind it.
LEMMA LastKeeps == ShellInv /\ PipeLast => ShellInv'
<1> SUFFICES ASSUME ShellInv, PipeLast PROVE ShellInv'
    OBVIOUS
<1>1. UNCHANGED <<line_buf, line_len, lines, tokens, fds, full, proc, out>>
    BY DEF PipeLast, input
<1>2. LineTyped' /\ TokensTyped' /\ FullTyped' /\ ProcTyped'
    BY <1>1 DEF ShellInv, ShellTypes, LineTyped, TokensTyped, FullTyped, ProcTyped
<1>3. sh.pc = "pipe" /\ sh \in ShellType /\ sh' = [sh EXCEPT !.pc = "simple", !.post = <<>>]
    BY DEF PipeLast, ShellInv, ShellTypes, ShTyped
<1>4. /\ sh' \in ShellType /\ sh'.pc = "simple" /\ sh'.pre = sh.pre /\ sh'.post = <<>>
      /\ sh'.i = sh.i /\ sh'.c = sh.c
    BY <1>3 DEF ShellType, Pcs, Ends
<1>5. ShTyped' /\ InLine'
    BY <1>1, <1>3, <1>4 DEF ShTyped, InLine, ShellInv
<1>6. ShellTable' /\ TablesTyped' /\ InputsAlone'
    BY <1>1, <1>3, <1>4, GoesOn DEF TableAt, OnlyOpen, ReadEnd, WriteEnd, Apart, First, Second
<1> QED BY <1>2, <1>5, <1>6 DEF ShellInv, ShellTypes

\* Two descriptors that are free, when there are as many.
LEMMA TwoFree ==
    ASSUME NEW t \in TableType, Cardinality(FreeFds(t)) >= 2, NEW r, NEW w,
           r = Min(FreeFds(t)), w = Min(FreeFds(t) \ {r})
    PROVE  r \in Fd /\ w \in Fd /\ r # w /\ t[r] = closed /\ t[w] = closed
<1>1. FreeFds(t) \in SUBSET Nat /\ FreeFds(t) \subseteq Fd
    BY DEF FreeFds, Fd
<1>2. FreeFds(t) # {}
    BY FS_EmptySet
<1>3. r \in FreeFds(t)
    BY <1>1, <1>2, LeastIs
<1>4. FreeFds(t) \ {r} # {}
  <2> SUFFICES ASSUME FreeFds(t) \ {r} = {} PROVE FALSE
      OBVIOUS
  <2>1. FreeFds(t) = {r}
      BY <1>3
  <2>2. Cardinality({r}) = 1
      BY FS_Singleton
  <2> QED BY <2>1, <2>2
<1>5. w \in FreeFds(t) \ {r}
    BY <1>1, <1>4, LeastIs
<1> QED BY <1>3, <1>5 DEF FreeFds

\* A pipe that is made was nobody's.
LEMMA PipeMade ==
    ASSUME TablesTyped, FullTyped, NEW r \in Fd, NEW w \in Fd, r # w, MakePipe(r, w)
    PROVE  /\ FullTyped' /\ TablesTyped'
           /\ \E k \in Pipes :
                /\ ~Open(File("r", k)) /\ ~Open(File("w", k))
                /\ full'[k] = 0 /\ \A j \in Pipes : j # k => full'[j] = full[j]
                /\ \A p \in Procs : p # Shell => fds'[p] = fds[p]
                /\ \A x \in Fd : fds'[Shell][x] = IF x = w THEN File("w", k) ELSE IF x = r THEN File("r", k) ELSE fds[Shell][x]
<1> DEFINE unused == {k \in Pipes : ~Open(File("r", k)) /\ ~Open(File("w", k))}
           k == Min(unused)
           fr == File("r", k)
           fw == File("w", k)
<1>1. unused # {} /\ fds' = [fds EXCEPT ![Shell][r] = fr, ![Shell][w] = fw] /\ full' = [full EXCEPT ![k] = 0]
    BY DEF MakePipe
<1>2. unused \in SUBSET Nat
    BY DEF Pipes
<1>3. k \in unused
    BY <1>1, <1>2, LeastIs
<1>4. k \in Pipes /\ ~Open(fr) /\ ~Open(fw)
    BY <1>3
<1>5. fr \in FileType /\ fw \in FileType
    BY <1>4 DEF File, FileType
<1> HIDE DEF unused, k
<1>6. Shell \in Procs /\ 0 \in 0 .. PipeCap
    BY SizesAssumption DEF Procs
<1>7. FullTyped' /\ full'[k] = 0 /\ \A j \in Pipes : j # k => full'[j] = full[j]
    BY <1>1, <1>4, <1>6 DEF FullTyped
<1> HIDE DEF fr, fw
<1>8. PICK f1 : f1 = [fds EXCEPT ![Shell] = [fds[Shell] EXCEPT ![r] = fr]]
    OBVIOUS
<1>9. f1 \in [Procs -> TableType] /\ f1[Shell] = [fds[Shell] EXCEPT ![r] = fr] /\ \A p \in Procs : p # Shell => f1[p] = fds[p]
    BY <1>5, <1>6, <1>8 DEF TablesTyped, TableType
<1>10. fds' = [f1 EXCEPT ![Shell] = [f1[Shell] EXCEPT ![w] = fw]]
    BY <1>1, <1>8
<1>11. fds' \in [Procs -> TableType] /\ fds'[Shell] = [f1[Shell] EXCEPT ![w] = fw] /\ \A p \in Procs : p # Shell => fds'[p] = f1[p]
    BY <1>5, <1>6, <1>9, <1>10 DEF TableType
<1>12. \A x \in Fd : fds'[Shell][x] = IF x = w THEN fw ELSE IF x = r THEN fr ELSE fds[Shell][x]
    BY <1>6, <1>9, <1>11 DEF TableType, TablesTyped
<1>13. \A p \in Procs : p # Shell => fds'[p] = fds[p]
    BY <1>9, <1>11
<1> QED BY <1>4, <1>7, <1>11, <1>12, <1>13 DEF TablesTyped, fr, fw

\* A file of kind "r" is the read end of its pipe.
LEMMA IsReadEnd == ASSUME NEW f \in FileType, f.kind = "r" PROVE f = File("r", f.id) /\ f.id \in Pipes
BY DEF FileType, closed, tty, file, File

\* What a process reads is in its table.
LEMMA StdinHeld == ASSUME TablesTyped, ProcTyped, NEW p \in Pids PROVE Stdin(p) \in FileType /\ Holds(p, Stdin(p))
<1>1. 0 \in Fd /\ p \in Procs
    BY SizesAssumption DEF Fd, Procs
<1>2. proc[p].pre \in Ends
    BY DEF ProcTyped, ChildType
<1>3. proc[p].pre # <<>> => proc[p].pre[1] \in Fd
    BY <1>2 DEF Ends
<1> QED BY <1>1, <1>3 DEF Stdin, Holds, TablesTyped, TableType

\* A pipe behind the next command: beyond the standard descriptors, and nobody reads it yet.
LEMMA CommandKeeps == ShellInv /\ PipeCommand => ShellInv'
<1> SUFFICES ASSUME ShellInv, PipeCommand PROVE ShellInv'
    OBVIOUS
<1> DEFINE e == Find(sh.c, {"|", NULL})
           t == fds[Shell]
<1>1. UNCHANGED <<line_buf, line_len, lines, proc, out>> /\ TOKENSZ \in Nat /\ Shell \in Procs
    BY SizesAssumption DEF PipeCommand, input, Procs
<1>2. LineTyped' /\ ProcTyped'
    BY <1>1 DEF ShellInv, ShellTypes, LineTyped, ProcTyped
<1>3. /\ sh.pc = "pipe" /\ sh \in ShellType /\ TokensTyped /\ TablesTyped /\ FullTyped /\ ProcTyped
      /\ t \in TableType /\ Cardinality(FreeFds(t)) >= 2
    BY <1>1 DEF PipeCommand, ShellInv, ShellTypes, ShTyped, TablesTyped
<1>4. line_len \in 0 .. TOKENSZ - 1 /\ tokens[line_len] = NULL /\ sh.c <= line_len /\ sh.c \in Nat /\ sh.i <= line_len
  <2>1. line_buf \in Seq(Text) /\ line_len = Len(line_buf)
      BY DEF ShellInv, ShellTypes, LineTyped
  <2> QED BY <1>1, <1>3, <2>1 DEF ShellInv, InLine, ShellType
<1>5. e \in sh.c .. line_len /\ e \in 0 .. TOKENSZ - 1
    BY <1>3, <1>4, Found
<1>6. PICK r, w : /\ r = Min(FreeFds(t)) /\ w = Min(FreeFds(t) \ {r}) /\ tokens[e] = "|"
                  /\ tokens' = [tokens EXCEPT ![e] = NULL] /\ MakePipe(r, w)
                  /\ sh' = [sh EXCEPT !.pc = "simple", !.n = e + 1, !.post = <<r, w>>]
    BY DEF PipeCommand
<1> HIDE DEF e
<1>7. e + 1 <= line_len /\ e + 1 \in 0 .. TOKENSZ
    BY <1>1, <1>4, <1>5, <1>6 DEF NULL
<1>8. TokensTyped' /\ tokens'[line_len] = NULL
    BY <1>3, <1>4, <1>5, <1>6 DEF TokensTyped, Token
<1>9. r \in Fd /\ w \in Fd /\ r # w /\ t[r] = closed /\ t[w] = closed
    BY <1>3, <1>6, TwoFree
<1>10. /\ sh' \in ShellType /\ sh'.pc = "simple" /\ sh'.pre = sh.pre /\ sh'.post = <<r, w>>
       /\ sh'.i = sh.i /\ sh'.c = sh.c /\ sh'.n = e + 1
  <2>1. <<r, w>> \in Ends
      BY <1>9 DEF Ends
  <2> QED BY ONLY <1>3, <1>6, <1>7, <2>1 DEF ShellType, Pcs
<1>11. ShTyped' /\ InLine'
    BY <1>1, <1>4, <1>7, <1>8, <1>10 DEF ShTyped, InLine
<1>12. FullTyped' /\ TablesTyped'
    BY <1>3, <1>6, <1>9, PipeMade
<1>13. PICK k \in Pipes :
                /\ ~Open(File("r", k)) /\ ~Open(File("w", k))
                /\ \A p \in Procs : p # Shell => fds'[p] = fds[p]
                /\ \A x \in Fd : fds'[Shell][x] = IF x = w THEN File("w", k) ELSE IF x = r THEN File("r", k) ELSE t[x]
    BY <1>3, <1>6, <1>9, PipeMade
<1>14. TableAt("pipe", t, sh.pre, sh.post)
    BY <1>3 DEF ShellInv, ShellTable
<1>15. r > 2 /\ w > 2
    BY <1>9, <1>14 DEF TableAt, Std, Fd
<1>16. sh.pre \in Ends /\ (sh.pre # <<>> => sh.pre[1] \in Fd)
    BY <1>3 DEF ShellType, Ends
<1>17. ASSUME NEW p \in Procs, NEW x \in Fd, fds[p][x].kind = "r" PROVE fds[p][x].id # k
  <2>1. fds[p][x] \in FileType
      BY <1>3 DEF TablesTyped, TableType
  <2>2. fds[p][x] = File("r", fds[p][x].id)
      BY <1>17, <2>1, IsReadEnd
  <2>3. Open(File("r", fds[p][x].id))
      BY <2>2 DEF Open, Holds
  <2> QED BY <1>13, <2>3
<1>18. ShellTable'
  <2> DEFINE u == fds'[Shell]
             post == <<r, w>>
  <2>1. post # <<>> /\ post[1] = r /\ post[2] = w
      OBVIOUS
  <2>2. u[r] = File("r", k) /\ u[w] = File("w", k) /\ \A x \in Fd \ {r, w} : u[x] = t[x]
      BY <1>9, <1>13
  <2>3. u[r].kind = "r" /\ u[w].kind = "w" /\ u[w].id = k /\ u[r].id = k /\ closed.kind = "none"
      BY <2>2 DEF File, closed
  <2>4. 0 .. 2 \subseteq Fd \ {r, w}
      BY <1>15, SizesAssumption DEF Fd
  <2>5. Std(u)
      BY <1>14, <2>2, <2>4 DEF TableAt, Std
  <2>6. sh.pre # <<>> => sh.pre[1] \in Fd /\ sh.pre[1] > 2 /\ t[sh.pre[1]].kind = "r" /\ sh.pre[1] \notin {r, w}
      BY <1>9, <1>14, <1>16, <2>3 DEF TableAt, ReadEnd
  <2>7. ReadEnd(u, sh.pre) /\ ReadEnd(u, post) /\ WriteEnd(u, post)
      BY <1>15, <2>1, <2>2, <2>3, <2>6 DEF ReadEnd, WriteEnd
  <2>8. Apart(u, sh.pre, post)
      BY <1>1, <1>17, <2>1, <2>2, <2>3, <2>6 DEF Apart
  <2>9. OnlyOpen(u, First(sh.pre) \cup First(post) \cup Second(post))
      BY <1>14, <2>1, <2>2 DEF TableAt, OnlyOpen, First, Second
  <2> QED BY <1>10, <2>5, <2>7, <2>8, <2>9 DEF ShellTable, TableAt
<1>19. InputsAlone'
  <2> SUFFICES ASSUME Intact', NEW p \in Pids, proc'[p].st \in {"child"} \cup Programs, Stdin(p)'.kind = "r"
               PROVE  ~Holds(p, File("w", Stdin(p).id))' /\ ~Holds(Shell, File("w", Stdin(p).id))'
      BY DEF InputsAlone, Alone
  <2>1. p \in Procs /\ p # Shell
      BY PidAssumption DEF Procs
  <2>2. fds'[p] = fds[p] /\ proc'[p] = proc[p]
      BY <1>1, <1>13, <2>1
  <2>3. Stdin(p)' = Stdin(p)
      BY <2>2 DEF Stdin
  <2>4. Intact
    <3>1. \A x \in 0 .. 2 : x \in Fd /\ x # r /\ x # w
        BY <1>15, SizesAssumption DEF Fd
    <3> QED BY <1>13, <3>1 DEF Intact
  <2>5. ~Holds(p, File("w", Stdin(p).id)) /\ ~Holds(Shell, File("w", Stdin(p).id))
      BY <2>2, <2>3, <2>4 DEF ShellInv, InputsAlone, Alone
  <2>6. Stdin(p).id # k
    <3>1. PICK x \in Fd : Stdin(p) = fds[p][x]
        BY <1>3, StdinHeld DEF Holds
    <3> QED BY <1>17, <2>1, <2>3, <3>1
  <2>7. ~Holds(p, File("w", Stdin(p).id))'
      BY <2>2, <2>3, <2>5 DEF Holds
  <2>8. ASSUME NEW x \in Fd, fds'[Shell][x] = File("w", Stdin(p).id) PROVE FALSE
    <3>1. fds'[Shell][x] # File("w", k) /\ fds'[Shell][x] # File("r", k)
        BY <2>6, <2>8 DEF File
    <3>2. fds'[Shell][x] = t[x]
        BY <1>13, <3>1
    <3> QED BY <2>5, <2>8, <3>2 DEF Holds
  <2>9. ~Holds(Shell, File("w", Stdin(p).id))'
      BY <2>3, <2>8 DEF Holds
  <2> QED BY <2>7, <2>9
<1> QED BY <1>2, <1>8, <1>11, <1>12, <1>18, <1>19 DEF ShellInv, ShellTypes

\* An empty command ends the shell.
LEMMA EmptyKeeps == ShellInv /\ EmptyCommand => ShellInv'
<1> SUFFICES ASSUME ShellInv, EmptyCommand PROVE ShellInv'
    OBVIOUS
<1>1. ShellExits /\ UNCHANGED <<line_buf, line_len, lines, tokens, full, proc, out>>
    BY DEF EmptyCommand, input
<1>2. LineTyped' /\ TokensTyped' /\ FullTyped' /\ ProcTyped'
    BY <1>1 DEF ShellInv, ShellTypes, LineTyped, TokensTyped, FullTyped, ProcTyped
<1> QED BY <1>1, <1>2, Exits DEF ShellInv, ShellTypes

\* After a command the shell goes on with the next one of the pipeline, or with the line.
LEMMA Advances ==
    ASSUME ShellInv, sh.pc \in {"builtin", "waitpid"}, sh' = Advance(sh), UNCHANGED <<line_len, tokens>>
    PROVE  /\ ShTyped' /\ InLine' /\ sh'.post = sh.post
           /\ sh.post = <<>> => sh'.pc = "list"
           /\ sh.post # <<>> => sh'.pc = "pipe" /\ sh'.pre = sh.post
<1>1. sh \in ShellType /\ Shell \in Procs /\ NULL \in Token
    BY DEF ShellInv, ShellTypes, ShTyped, Procs, Token
<1>2. CASE sh.post = <<>>
  <2>1. sh' = [sh EXCEPT !.pc = "list", !.run = NULL, !.pid = Shell]
      BY <1>2 DEF Advance
  <2>2. sh' \in ShellType /\ sh'.pc = "list" /\ sh'.post = sh.post /\ sh'.i = sh.i
      BY ONLY <1>1, <2>1 DEF ShellType, Pcs
  <2> QED BY <1>2, <2>2 DEF ShTyped, ShellInv, InLine
<1>3. CASE sh.post # <<>>
  <2>1. sh' = [sh EXCEPT !.pc = "pipe", !.c = sh.n, !.pre = sh.post, !.run = NULL, !.pid = Shell]
      BY <1>3 DEF Advance
  <2>2. sh' \in ShellType /\ sh'.pc = "pipe" /\ sh'.post = sh.post /\ sh'.pre = sh.post /\ sh'.i = sh.i /\ sh'.c = sh.n
      BY ONLY <1>1, <2>1 DEF ShellType, Pcs
  <2> QED BY <1>3, <2>2 DEF ShTyped, ShellInv, InLine
<1> QED BY <1>2, <1>3

\* A built-in command has run.
LEMMA RunKeeps == ShellInv /\ BuiltinRun => ShellInv'
<1> SUFFICES ASSUME ShellInv, BuiltinRun PROVE ShellInv'
    OBVIOUS
<1>1. UNCHANGED <<line_buf, line_len, lines, tokens, proc>> /\ sh.pc = "builtin" /\ Shell \in Procs
    BY DEF BuiltinRun, input, Procs
<1>2. TokensTyped' /\ ProcTyped'
    BY <1>1 DEF ShellInv, ShellTypes, TokensTyped, ProcTyped
<1>3. CASE ShellExits /\ UNCHANGED <<full, out>>
  <2>1. LineTyped' /\ FullTyped'
      BY <1>1, <1>3 DEF ShellInv, ShellTypes, LineTyped, FullTyped
  <2> QED BY <1>2, <1>3, <2>1, Exits DEF ShellInv, ShellTypes
<1>4. CASE (Put(Shell) \/ UNCHANGED <<full, out>>) /\ sh' = Advance(sh) /\ UNCHANGED fds
  <2>1. FullTyped' /\ out' \in Nat
      BY <1>1, <1>4, Puts DEF ShellInv, ShellTypes, FullTyped, LineTyped
  <2>2. LineTyped'
      BY <1>1, <2>1 DEF ShellInv, ShellTypes, LineTyped
  <2>3. /\ ShTyped' /\ InLine' /\ sh'.post = sh.post
        /\ sh.post = <<>> => sh'.pc = "list"
        /\ sh.post # <<>> => sh'.pc = "pipe" /\ sh'.pre = sh.post
      BY <1>1, <1>4, Advances
  <2>4. ShellTable' /\ TablesTyped' /\ InputsAlone'
      BY <1>1, <1>4, <2>3, GoesOn DEF TableAt, OnlyOpen, First
  <2> QED BY <1>2, <2>1, <2>2, <2>3, <2>4 DEF ShellInv, ShellTypes
<1> QED BY <1>3, <1>4 DEF BuiltinRun

\* A built-in command takes the pipes on the shell's own standard descriptors: they
\* are no longer what they were, and nothing else is left but the next command's input.
LEMMA BuiltinTable ==
    ASSUME NEW t \in TableType, NEW pre \in Ends, NEW post \in Ends, NEW ws, TableAt("simple", t, pre, post),
           NEW u, u = scan_redirect(ConnectPost(ConnectPre(t, pre), post), ws)
    PROVE  /\ u \in TableType /\ TableAt("builtin", u, pre, post)
           /\ \A x \in Fd : u[x] \in {file, closed} \/ \E y \in Fd : u[x] = t[y]
           /\ \A x \in 0 .. 2 : u[x] = tty => t[x] = tty
<1> DEFINE a == ConnectPre(t, pre)
           b == ConnectPost(a, post)
<1>1. a \in TableType /\ \A x \in Fd : a[x] = IF pre = <<>> THEN t[x] ELSE IF x = pre[1] THEN closed ELSE IF x = 0 THEN t[pre[1]] ELSE t[x]
    BY PreConnected
<1> HIDE DEF a
<1>2. b \in TableType /\ \A x \in Fd : b[x] = IF post = <<>> THEN a[x] ELSE IF x = post[2] THEN closed ELSE IF x = 1 THEN a[post[2]] ELSE a[x]
    BY <1>1, PostConnected
<1> HIDE DEF b
<1>3. u \in TableType /\ \A x \in Fd : u[x] = b[x] \/ (x \in {0, 1} /\ u[x] = file)
    BY <1>2, Redirected DEF a, b
<1>4. 0 \in Fd /\ 1 \in Fd /\ 2 \in Fd /\ \A x \in 0 .. 2 : x \in Fd
    BY SizesAssumption DEF Fd
<1>5. /\ pre # <<>> => pre[1] \in Fd /\ pre[1] > 2 /\ t[pre[1]].kind = "r"
      /\ post # <<>> => /\ post[1] \in Fd /\ post[1] > 2 /\ t[post[1]].kind = "r"
                        /\ post[2] \in Fd /\ post[2] > 2 /\ t[post[2]].kind = "w"
                        /\ post[1] # post[2]
      /\ pre # <<>> /\ post # <<>> => pre[1] # post[1] /\ pre[1] # post[2]
    BY DEF TableAt, ReadEnd, WriteEnd, Apart, Ends
<1>6. closed.kind = "none" /\ file.kind = "file" /\ tty.kind = "tty" /\ closed # file
    BY DEF closed, file, tty, File
<1>7. \A x \in Fd : x > 2 => /\ x \in First(pre) \cup Second(post) => u[x] = closed
                             /\ x \notin First(pre) \cup Second(post) => u[x] = t[x]
    BY <1>1, <1>2, <1>3, <1>4, <1>5 DEF First, Second
<1>8. u[2] = t[2]
    BY <1>1, <1>2, <1>3, <1>4, <1>5
<1>9. u[0] = file \/ u[0] = t[0] \/ (pre # <<>> /\ u[0] = t[pre[1]])
    BY <1>1, <1>2, <1>3, <1>4, <1>5
<1>10. u[1] = file \/ u[1] = t[1] \/ (post # <<>> /\ u[1] = t[post[2]])
    BY <1>1, <1>2, <1>3, <1>4, <1>5
<1>11. Std(u)
  <2>1. t[0] # closed /\ t[1] # closed /\ t[2] # closed
      BY DEF TableAt, Std
  <2>2. u[0] # closed /\ u[1] # closed /\ u[2] # closed
      BY <1>5, <1>6, <1>8, <1>9, <1>10, <2>1
  <2>3. \A x \in 0 .. 2 : x = 0 \/ x = 1 \/ x = 2
      OBVIOUS
  <2> QED BY <2>2, <2>3 DEF Std
<1>12. OnlyOpen(u, First(post))
    BY <1>7 DEF TableAt, OnlyOpen
<1>13. ReadEnd(u, post)
    BY <1>5, <1>7 DEF ReadEnd, First, Second
<1>14. \A x \in Fd : u[x] \in {file, closed} \/ \E y \in Fd : u[x] = t[y]
    BY <1>1, <1>2, <1>3, <1>5
<1>15. \A x \in 0 .. 2 : u[x] = tty => t[x] = tty
  <2>1. \A x \in 0 .. 2 : x = 0 \/ x = 1 \/ x = 2
      OBVIOUS
  <2> QED BY <1>5, <1>6, <1>8, <1>9, <1>10, <2>1
<1> QED BY <1>3, <1>11, <1>12, <1>13, <1>14, <1>15 DEF TableAt

\* A built-in command is prepared.
LEMMA BuiltinKeeps == ShellInv /\ Builtin => ShellInv'
<1> SUFFICES ASSUME ShellInv, Builtin PROVE ShellInv'
    OBVIOUS
<1> DEFINE ws == Words(sh.c)
<1>1. UNCHANGED <<line_buf, line_len, lines, full, proc, out>> /\ TOKENSZ \in Nat /\ Shell \in Procs
    BY SizesAssumption DEF Builtin, input, Procs
<1>2. LineTyped' /\ FullTyped' /\ ProcTyped'
    BY <1>1 DEF ShellInv, ShellTypes, LineTyped, FullTyped, ProcTyped
<1>3. /\ sh.pc = "simple" /\ sh \in ShellType /\ TokensTyped /\ TablesTyped /\ tokens[sh.c] # NULL
      /\ fds[Shell] \in TableType /\ sh.pre \in Ends /\ sh.post \in Ends
    BY <1>1 DEF Builtin, Builtins, NULL, ShellInv, ShellTypes, ShTyped, TablesTyped, ShellType
<1>4. line_len \in 0 .. TOKENSZ - 1 /\ tokens[line_len] = NULL /\ sh.c <= line_len /\ sh.c \in Nat
  <2>1. line_buf \in Seq(Text) /\ line_len = Len(line_buf)
      BY DEF ShellInv, ShellTypes, LineTyped
  <2> QED BY <1>1, <1>3, <2>1 DEF ShellInv, InLine, ShellType
<1>5. ws \in Seq(Token) /\ Len(ws) > 0 /\ ws[1] \in Token
  <2>1. ws \in Seq(Token) /\ Len(ws) > 0
      BY <1>3, <1>4, WordsAre
  <2> QED BY <2>1
<1> HIDE DEF ws
<1>6. TokensTyped' /\ tokens'[line_len] = NULL
  <2>1. tokens' = [x \in DOMAIN tokens |-> IF x \in sh.c .. sh.c + Len(ws) - 1 THEN NULL ELSE tokens[x]]
      BY DEF Builtin, ws
  <2>2. NULL \in Token /\ DOMAIN tokens = 0 .. TOKENSZ - 1 /\ \A x \in DOMAIN tokens : tokens[x] \in Token
      BY <1>3 DEF TokensTyped, Token
  <2> QED BY <1>4, <2>1, <2>2 DEF TokensTyped
<1>7. CASE ShellExits
    BY <1>2, <1>6, <1>7, Exits DEF ShellInv, ShellTypes
<1>8. CASE /\ fds' = [fds EXCEPT ![Shell] = scan_redirect(ConnectPost(ConnectPre(@, sh.pre), sh.post), ws)]
           /\ sh' = [sh EXCEPT !.pc = "builtin", !.run = ws[1]]
  <2>1. /\ sh' \in ShellType /\ sh'.pc = "builtin" /\ sh'.pre = sh.pre /\ sh'.post = sh.post
        /\ sh'.i = sh.i /\ sh'.c = sh.c /\ sh'.n = sh.n
    <3>1. sh' = [sh EXCEPT !.pc = "builtin", !.run = ws[1]]
        BY <1>8
    <3> QED BY ONLY <1>3, <1>5, <3>1 DEF ShellType, Pcs
  <2>2. ShTyped' /\ InLine'
      BY <1>1, <1>3, <1>6, <2>1 DEF ShTyped, InLine, ShellInv
  <2>3. PICK u : u = scan_redirect(ConnectPost(ConnectPre(fds[Shell], sh.pre), sh.post), ws)
      OBVIOUS
  <2>4. fds' = [fds EXCEPT ![Shell] = u]
      BY <1>8, <2>3
  <2>5. TableAt("simple", fds[Shell], sh.pre, sh.post)
      BY <1>3 DEF ShellInv, ShellTable
  <2>6. /\ u \in TableType /\ TableAt("builtin", u, sh.pre, sh.post)
        /\ \A x \in Fd : u[x] \in {file, closed} \/ \E y \in Fd : u[x] = fds[Shell][y]
        /\ \A x \in 0 .. 2 : u[x] = tty => fds[Shell][x] = tty
      BY <1>3, <2>3, <2>5, BuiltinTable
  <2>7. TablesTyped' /\ fds'[Shell] = u /\ \A p \in Procs : p # Shell => fds'[p] = fds[p]
      BY <1>1, <1>3, <2>4, <2>6 DEF TablesTyped
  <2>8. ShellTable'
      BY <2>1, <2>6, <2>7 DEF ShellTable
  <2>9. Shrinks
    <3>1. Intact' => Intact
        BY <2>6, <2>7 DEF Intact
    <3>2. ASSUME NEW f, f.kind = "w", NEW x \in Fd, u[x] = f PROVE Holds(Shell, f)
      <4>1. u[x] # file /\ u[x] # closed
          BY <3>2 DEF file, closed, File
      <4> QED BY <2>6, <3>2, <4>1 DEF Holds
    <3>3. \A f : f.kind = "w" /\ Holds(Shell, f)' => Holds(Shell, f)
        BY <2>7, <3>2 DEF Holds
    <3>4. \A p \in Pids : fds'[p] = fds[p] /\ proc'[p] = proc[p]
        BY <1>1, <2>7, PidAssumption DEF Procs
    <3> QED BY <1>1, <3>1, <3>3, <3>4 DEF Shrinks, Stdin, Holds
  <2>10. InputsAlone'
      BY <2>9, ShrinksKeeps DEF ShellInv
  <2> QED BY <1>2, <1>6, <2>2, <2>7, <2>8, <2>10 DEF ShellInv, ShellTypes
<1> QED BY <1>7, <1>8 DEF Builtin, ws

\* A child has the shell's table: what it will read, only the command before it can write to.
LEMMA ForkKeeps == ShellInv /\ Fork => ShellInv'
<1> SUFFICES ASSUME ShellInv, Fork PROVE ShellInv'
    OBVIOUS
<1> DEFINE free == {p \in Pids : proc[p].st = "none"}
           t == fds[Shell]
<1>1. UNCHANGED <<line_buf, line_len, lines, tokens, full, out>> /\ TOKENSZ \in Nat /\ Shell \in Procs
    BY SizesAssumption DEF Fork, input, Procs
<1>2. LineTyped' /\ FullTyped' /\ TokensTyped'
    BY <1>1 DEF ShellInv, ShellTypes, LineTyped, FullTyped, TokensTyped
<1>3. /\ sh.pc = "simple" /\ sh \in ShellType /\ TokensTyped /\ TablesTyped /\ ProcTyped
      /\ t \in TableType /\ sh.pre \in Ends /\ sh.post \in Ends
    BY <1>1 DEF Fork, ShellInv, ShellTypes, ShTyped, TablesTyped, ShellType
<1>4. CASE ShellExits /\ UNCHANGED proc
  <2>1. ProcTyped'
      BY <1>3, <1>4 DEF ProcTyped
  <2> QED BY <1>2, <1>4, <2>1, Exits DEF ShellInv, ShellTypes
<1>5. CASE /\ free # {}
           /\ proc' = [proc EXCEPT ![Min(free)] = [st |-> "child", cmd |-> Words(sh.c),
                                                   pre |-> sh.pre, post |-> sh.post, left |-> 0]]
           /\ fds' = [fds EXCEPT ![Min(free)] = t]
           /\ sh' = [sh EXCEPT !.pc = "waitpid", !.pid = Min(free)]
  <2>1. Min(free) \in free
      BY <1>5, PidAssumption, LeastIs
  <2>2. PICK q \in Pids : q = Min(free)
      BY <2>1
  <2>3. q \in Procs /\ q # Shell
      BY PidAssumption DEF Procs
  <2>4. Words(sh.c) \in Seq(Token)
    <3>1. line_buf \in Seq(Text) /\ line_len = Len(line_buf)
        BY DEF ShellInv, ShellTypes, LineTyped
    <3>2. line_len \in 0 .. TOKENSZ - 1 /\ tokens[line_len] = NULL /\ sh.c <= line_len /\ sh.c \in Nat
        BY <1>1, <1>3, <3>1 DEF ShellInv, InLine, ShellType
    <3> QED BY <1>3, <3>2, WordsAre
  <2>5. PICK c : c = [st |-> "child", cmd |-> Words(sh.c), pre |-> sh.pre, post |-> sh.post, left |-> 0]
      OBVIOUS
  <2>6. c \in ChildType /\ c.st = "child" /\ c.pre = sh.pre
      BY <1>3, <2>4, <2>5 DEF ChildType, States
  <2>7. proc' = [proc EXCEPT ![q] = c] /\ fds' = [fds EXCEPT ![q] = t]
      BY <1>5, <2>2, <2>5
  <2>8. ProcTyped' /\ proc'[q] = c /\ \A p \in Pids : p # q => proc'[p] = proc[p]
      BY <1>3, <2>6, <2>7 DEF ProcTyped
  <2>9. TablesTyped' /\ fds'[q] = t /\ \A p \in Procs : p # q => fds'[p] = fds[p]
      BY <1>3, <2>3, <2>7 DEF TablesTyped
  <2>10. /\ sh' \in ShellType /\ sh'.pc = "waitpid" /\ sh'.pre = sh.pre /\ sh'.post = sh.post
         /\ sh'.i = sh.i /\ sh'.c = sh.c /\ sh'.n = sh.n /\ sh'.pid = q
    <3>1. sh' = [sh EXCEPT !.pc = "waitpid", !.pid = q]
        BY <1>5, <2>2
    <3> QED BY ONLY <1>3, <2>3, <3>1 DEF ShellType, Pcs
  <2>11. ShTyped' /\ InLine'
      BY <1>1, <1>3, <2>10 DEF ShTyped, InLine, ShellInv
  <2>12. TableAt("simple", t, sh.pre, sh.post)
      BY <1>3 DEF ShellInv, ShellTable
  <2>13. ShellTable'
      BY <1>1, <2>3, <2>9, <2>10, <2>12 DEF ShellTable, TableAt
  <2>14. Intact' = Intact /\ \A f : Holds(Shell, f)' = Holds(Shell, f)
      BY <1>1, <2>3, <2>9 DEF Intact, Holds
  <2>15. ASSUME Intact, NEW f, f = (IF sh.pre # <<>> THEN t[sh.pre[1]] ELSE t[0]), f.kind = "r",
                NEW x \in Fd, t[x] = File("w", f.id)
         PROVE  FALSE
    <3>1. t[x].kind = "w" /\ t[x].id = f.id /\ tty.kind = "tty" /\ closed.kind = "none"
        BY <2>15 DEF File, tty, closed
    <3>2. 0 \in 0 .. 2 /\ ~(x \in 0 .. 2)
        BY <2>15, <3>1 DEF Intact
    <3>3. sh.pre # <<>>
        BY <2>15, <3>1, <3>2 DEF Intact
    <3>4. x > 2 /\ t[x] # closed
        BY <3>1, <3>2 DEF Fd
    <3>5. x \in First(sh.pre) \cup First(sh.post) \cup Second(sh.post)
        BY <2>12, <3>4 DEF TableAt, OnlyOpen
    <3>6. x \notin First(sh.pre) /\ x \notin First(sh.post)
        BY <2>12, <3>1 DEF TableAt, ReadEnd, First
    <3>7. sh.post # <<>> /\ x = sh.post[2]
        BY <3>5, <3>6 DEF Second
    <3>8. t[sh.pre[1]].id # t[sh.post[2]].id
        BY <2>12, <3>3, <3>7 DEF TableAt, Apart
    <3> QED BY <2>15, <3>1, <3>3, <3>7, <3>8
  <2>16. InputsAlone'
    <3> SUFFICES ASSUME Intact', NEW p \in Pids, proc'[p].st \in {"child"} \cup Programs PROVE Alone(p)'
        BY DEF InputsAlone
    <3>1. CASE p # q
      <4>1. proc'[p] = proc[p] /\ fds'[p] = fds[p]
          BY <2>8, <2>9, <3>1 DEF Procs
      <4>2. Alone(p)
          BY <2>14, <4>1 DEF ShellInv, InputsAlone
      <4> QED BY <2>14, <4>1, <4>2 DEF Alone, Stdin, Holds
    <3>2. CASE p = q
      <4>1. Stdin(p)' = IF sh.pre # <<>> THEN t[sh.pre[1]] ELSE t[0]
          BY <2>6, <2>8, <2>9, <3>2 DEF Stdin
      <4>2. ASSUME Stdin(p)'.kind = "r", NEW x \in Fd PROVE t[x] # File("w", Stdin(p)'.id)
          BY <2>14, <2>15, <4>1, <4>2
      <4>3. fds'[p] = t /\ fds'[Shell] = t
          BY <2>3, <2>9, <3>2, <1>1
      <4>4. ASSUME Stdin(p)'.kind = "r"
            PROVE  ~Holds(p, File("w", Stdin(p).id))' /\ ~Holds(Shell, File("w", Stdin(p).id))'
          BY <4>2, <4>3, <4>4 DEF Holds, File
      <4> QED BY <4>4 DEF Alone
    <3> QED BY <3>1, <3>2
  <2> QED BY <1>2, <2>8, <2>9, <2>11, <2>13, <2>16 DEF ShellInv, ShellTypes
<1> QED BY <1>4, <1>5 DEF Fork

\* The shell closes the ends the command has used; the next command's input is left.
LEMMA EndsClosed ==
    ASSUME NEW t \in TableType, NEW pre \in Ends, NEW post \in Ends, TableAt("waitpid", t, pre, post),
           NEW u, u = CloseEnds(t, pre, post)
    PROVE  /\ u \in TableType /\ Std(u) /\ OnlyOpen(u, First(post)) /\ ReadEnd(u, post)
           /\ post # <<>> => u[post[1]] = t[post[1]]
           /\ \A x \in Fd : u[x] \in {t[x], closed}
           /\ \A x \in 0 .. 2 : u[x] = t[x]
<1> DEFINE a == IF post = <<>> THEN t ELSE close(t, post[2])
<1>1. /\ pre # <<>> => pre[1] \in Fd /\ pre[1] > 2 /\ t[pre[1]].kind = "r"
      /\ post # <<>> => /\ post[1] \in Fd /\ post[1] > 2 /\ t[post[1]].kind = "r"
                        /\ post[2] \in Fd /\ post[2] > 2 /\ t[post[2]].kind = "w"
                        /\ post[1] # post[2]
      /\ pre # <<>> /\ post # <<>> => pre[1] # post[1]
    BY DEF TableAt, ReadEnd, WriteEnd, Apart, Ends
<1>2. a \in TableType /\ \A x \in Fd : a[x] = IF x \in Second(post) THEN closed ELSE t[x]
  <2>1. CASE post = <<>>
      BY <2>1 DEF Second
  <2>2. CASE post # <<>>
    <3>1. a = [t EXCEPT ![post[2]] = closed]
        BY <2>2 DEF close
    <3> QED BY <1>1, <2>2, <3>1 DEF Second, TableType, FileType
  <2> QED BY <2>1, <2>2
<1>3. u = IF pre = <<>> THEN a ELSE close(a, pre[1])
    BY DEF CloseEnds
<1> HIDE DEF a
<1>4. u \in TableType /\ \A x \in Fd : u[x] = IF x \in First(pre) \cup Second(post) THEN closed ELSE t[x]
  <2>1. CASE pre = <<>>
      BY <1>2, <1>3, <2>1 DEF First
  <2>2. CASE pre # <<>>
    <3>1. u = [a EXCEPT ![pre[1]] = closed]
        BY <1>3, <2>2 DEF close
    <3> QED BY <1>1, <1>2, <2>2, <3>1 DEF First, TableType, FileType
  <2> QED BY <2>1, <2>2
<1>5. \A x \in 0 .. 2 : x \in Fd /\ u[x] = t[x]
  <2>1. \A x \in 0 .. 2 : x \in Fd /\ x \notin First(pre) \cup Second(post)
      BY <1>1, SizesAssumption DEF Fd, First, Second
  <2> QED BY <1>4, <2>1
<1>6. Std(u)
    BY <1>5 DEF Std, TableAt
<1>7. OnlyOpen(u, First(post))
    BY <1>4 DEF OnlyOpen, TableAt
<1>8. ReadEnd(u, post) /\ (post # <<>> => u[post[1]] = t[post[1]])
    BY <1>1, <1>4 DEF ReadEnd, First, Second
<1> QED BY <1>4, <1>5, <1>6, <1>7, <1>8

\* The command was waited for, or is left in the background.
LEMMA AfterKeeps == ShellInv /\ AfterFork => ShellInv'
<1> SUFFICES ASSUME ShellInv, AfterFork PROVE ShellInv'
    OBVIOUS
<1> DEFINE t == fds[Shell]
<1>1. UNCHANGED <<line_buf, line_len, lines, tokens, full, out>> /\ Shell \in Procs /\ sh.pc = "waitpid" /\ sh' = Advance(sh)
    BY DEF AfterFork, input, Procs
<1>2. LineTyped' /\ FullTyped' /\ TokensTyped'
    BY <1>1 DEF ShellInv, ShellTypes, LineTyped, FullTyped, TokensTyped
<1>3. /\ sh \in ShellType /\ sh.pid \in Pids /\ TablesTyped /\ ProcTyped
      /\ t \in TableType /\ sh.pre \in Ends /\ sh.post \in Ends
    BY <1>1 DEF ShellInv, ShellTypes, ShTyped, TablesTyped, ShellType
<1>4. None \in ChildType /\ None.st = "none"
  <2>1. <<>> \in Seq(Token)
      OBVIOUS
  <2> QED BY <2>1 DEF None, ChildType, States, Ends
<1>5. proc' = proc \/ proc' = [proc EXCEPT ![sh.pid] = None]
    BY DEF AfterFork, waitpid
<1>6. ProcTyped' /\ \A p \in Pids : proc'[p] = proc[p] \/ proc'[p].st = "none"
    BY <1>3, <1>4, <1>5 DEF ProcTyped
<1>7. PICK u : u = CloseEnds(t, sh.pre, sh.post)
    OBVIOUS
<1>8. TableAt("waitpid", t, sh.pre, sh.post)
    BY <1>1 DEF ShellInv, ShellTable
<1>9. /\ u \in TableType /\ Std(u) /\ OnlyOpen(u, First(sh.post)) /\ ReadEnd(u, sh.post)
      /\ \A x \in Fd : u[x] \in {t[x], closed}
      /\ \A x \in 0 .. 2 : u[x] = t[x]
    BY <1>3, <1>7, <1>8, EndsClosed
<1>10. fds' = [fds EXCEPT ![Shell] = u]
    BY <1>7 DEF AfterFork
<1>11. TablesTyped' /\ fds'[Shell] = u /\ \A p \in Procs : p # Shell => fds'[p] = fds[p]
    BY <1>1, <1>3, <1>9, <1>10 DEF TablesTyped
<1>12. /\ ShTyped' /\ InLine' /\ sh'.post = sh.post
       /\ sh.post = <<>> => sh'.pc = "list"
       /\ sh.post # <<>> => sh'.pc = "pipe" /\ sh'.pre = sh.post
    BY <1>1, Advances
<1>13. ShellTable'
    BY <1>9, <1>11, <1>12 DEF ShellTable, TableAt, First
<1>14. Shrinks
  <2>1. Intact' => Intact
      BY <1>9, <1>11 DEF Intact
  <2>2. \A f : f.kind = "w" /\ Holds(Shell, f)' => Holds(Shell, f)
    <3>1. closed.kind = "none"
        BY DEF closed, File
    <3> QED BY <1>9, <1>11, <3>1 DEF Holds
  <2>3. \A p \in Pids : fds'[p] = fds[p]
      BY <1>11, PidAssumption DEF Procs
  <2>4. ASSUME NEW p \in Pids, proc'[p].st \in {"child"} \cup Programs PROVE proc'[p] = proc[p]
      BY <1>6, <2>4 DEF Programs
  <2> QED BY <2>1, <2>2, <2>3, <2>4 DEF Shrinks, Stdin, Holds
<1>15. InputsAlone'
    BY <1>14, ShrinksKeeps DEF ShellInv
<1> QED BY <1>2, <1>6, <1>11, <1>12, <1>13, <1>15 DEF ShellInv, ShellTypes

-----------------------------------------------------------------------------
(* Steps of the children *)

\* A process that ends has nothing open, and nothing else is opened.
LEMMA Ended == ASSUME ShellInv, NEW p \in Pids, Exit(p) PROVE ProcTyped' /\ TablesTyped' /\ fds'[Shell] = fds[Shell] /\ Shrinks
<1>1. Shell \in Procs /\ p \in Procs /\ p # Shell
    BY PidAssumption DEF Procs
<1>2. TablesTyped /\ ProcTyped
    BY DEF ShellInv, ShellTypes
<1>3. PICK c : c = [None EXCEPT !.st = "zombie"]
    OBVIOUS
<1>4. c \in ChildType /\ c.st = "zombie"
  <2>1. <<>> \in Seq(Token)
      OBVIOUS
  <2> QED BY <1>3, <2>1 DEF None, ChildType, States, Ends
<1>5. Nothing \in TableType
    BY DEF Nothing, TableType, FileType
<1>6. proc' = [proc EXCEPT ![p] = c] /\ fds' = [fds EXCEPT ![p] = Nothing]
    BY <1>3 DEF Exit, Die
<1>7. ProcTyped' /\ proc'[p].st = "zombie" /\ \A q \in Pids : q # p => proc'[q] = proc[q]
    BY <1>2, <1>4, <1>6 DEF ProcTyped
<1>8. TablesTyped' /\ \A q \in Procs : q # p => fds'[q] = fds[q]
    BY <1>1, <1>2, <1>5, <1>6 DEF TablesTyped
<1>9. \A q \in Pids : proc'[q].st \in {"child"} \cup Programs => q \in Procs /\ proc'[q] = proc[q] /\ fds'[q] = fds[q]
    BY <1>7, <1>8 DEF Procs, Programs
<1>10. Shrinks
    BY <1>1, <1>8, <1>9 DEF Shrinks, Stdin, Holds, Intact
<1> QED BY <1>1, <1>7, <1>8, <1>10

\* What a child has when it runs its program: nothing it did not have before, and
\* the pipe before it as its input.
LEMMA ChildTable ==
    ASSUME TablesTyped, ProcTyped, NEW p \in Pids
    PROVE  /\ ChildFds(p) \in TableType
           /\ \A x \in Fd : ChildFds(p)[x] \in {file, closed} \/ \E y \in Fd : ChildFds(p)[x] = fds[p][y]
           /\ ChildFds(p)[0] \in {file, closed, IF proc[p].pre # <<>> THEN fds[p][proc[p].pre[1]] ELSE fds[p][0]}
<1> DEFINE c == proc[p]
           t == ConnectPre(fds[p], c.pre)
           u == IF c.post = <<>> THEN t ELSE close(t, c.post[1])
           v == ConnectPost(u, c.post)
<1>1. p \in Procs /\ 0 \in Fd /\ 1 \in Fd
    BY SizesAssumption DEF Procs, Fd
<1>2. fds[p] \in TableType /\ c.pre \in Ends /\ c.post \in Ends
    BY <1>1 DEF TablesTyped, ProcTyped, ChildType
<1>3. /\ c.pre # <<>> => c.pre[1] \in Fd
      /\ c.post # <<>> => c.post[1] \in Fd /\ c.post[2] \in Fd
    BY <1>2 DEF Ends
<1>4. t \in TableType /\ \A x \in Fd : t[x] = IF c.pre = <<>> THEN fds[p][x] ELSE IF x = c.pre[1] THEN closed
                                              ELSE IF x = 0 THEN fds[p][c.pre[1]] ELSE fds[p][x]
    BY <1>2, PreConnected
<1> HIDE DEF t
<1>5. u \in TableType /\ \A x \in Fd : u[x] \in {t[x], closed}
  <2>1. CASE c.post = <<>>
      BY <1>4, <2>1
  <2>2. CASE c.post # <<>>
    <3>1. u = [t EXCEPT ![c.post[1]] = closed]
        BY <2>2 DEF close
    <3> QED BY <1>3, <1>4, <2>2, <3>1 DEF TableType, FileType
  <2> QED BY <2>1, <2>2
<1> HIDE DEF u
<1>6. v \in TableType /\ \A x \in Fd : v[x] = IF c.post = <<>> THEN u[x] ELSE IF x = c.post[2] THEN closed
                                              ELSE IF x = 1 THEN u[c.post[2]] ELSE u[x]
    BY <1>2, <1>5, PostConnected
<1> HIDE DEF v
<1>7. /\ ChildFds(p) \in TableType
      /\ \A x \in Fd : ChildFds(p)[x] = v[x] \/ (x \in {0, 1} /\ ChildFds(p)[x] = file)
  <2>1. ChildFds(p) = scan_redirect(v, c.cmd)
      BY DEF ChildFds, v, u, t
  <2> QED BY <1>6, <2>1, Redirected
<1>8. \A x \in Fd : t[x] = closed \/ \E y \in Fd : t[x] = fds[p][y]
    BY <1>1, <1>3, <1>4
<1>9. \A x \in Fd : u[x] = closed \/ \E y \in Fd : u[x] = fds[p][y]
    BY <1>5, <1>8
<1>10. \A x \in Fd : v[x] = closed \/ \E y \in Fd : v[x] = fds[p][y]
    BY <1>3, <1>6, <1>9
<1>11. \A x \in Fd : ChildFds(p)[x] \in {file, closed} \/ \E y \in Fd : ChildFds(p)[x] = fds[p][y]
    BY <1>7, <1>10
<1>12. t[0] \in {closed, IF c.pre # <<>> THEN fds[p][c.pre[1]] ELSE fds[p][0]}
    BY <1>1, <1>4
<1>13. v[0] \in {t[0], closed}
    BY <1>1, <1>5, <1>6
<1> QED BY <1>1, <1>7, <1>11, <1>12, <1>13

\* A child runs its program, or fails.
LEMMA StartKeeps == ASSUME ShellInv, NEW p \in Pids, ChildStart(p) PROVE ProcTyped' /\ TablesTyped' /\ fds'[Shell] = fds[Shell] /\ Shrinks
<1> DEFINE prog == Argv(proc[p].cmd)
<1>1. Shell \in Procs /\ p \in Procs /\ p # Shell /\ 0 \in Fd
    BY PidAssumption, SizesAssumption DEF Procs, Fd
<1>2. TablesTyped /\ ProcTyped /\ proc[p].st = "child"
    BY DEF ShellInv, ShellTypes, ChildStart
<1>3. CASE Exit(p)
    BY <1>3, Ended
<1>4. CASE /\ prog \in Programs
           /\ fds' = [fds EXCEPT ![p] = ChildFds(p)]
           /\ proc' = [proc EXCEPT ![p] = [None EXCEPT !.st = prog, !.left = IF prog = "gen" THEN OutUnits ELSE 0]]
  <2>1. PICK c : c = [None EXCEPT !.st = prog, !.left = IF prog = "gen" THEN OutUnits ELSE 0]
      OBVIOUS
  <2> HIDE DEF prog
  <2>2. c \in ChildType /\ c.st \in Programs
    <3>1. <<>> \in Seq(Token) /\ (IF prog = "gen" THEN OutUnits ELSE 0) \in Nat
        BY SizesAssumption
    <3> QED BY <1>4, <2>1, <3>1 DEF None, ChildType, States, Ends
  <2>3. PICK u : u = ChildFds(p)
      OBVIOUS
  <2>4. /\ u \in TableType
        /\ \A x \in Fd : u[x] \in {file, closed} \/ \E y \in Fd : u[x] = fds[p][y]
        /\ u[0] \in {file, closed, Stdin(p)}
      BY <1>2, <2>3, ChildTable DEF Stdin
  <2>5. fds' = [fds EXCEPT ![p] = u] /\ proc' = [proc EXCEPT ![p] = c]
      BY <1>4, <2>1, <2>3
  <2>6. ProcTyped' /\ proc'[p] = c /\ \A q \in Pids : q # p => proc'[q] = proc[q]
      BY <1>2, <2>2, <2>5 DEF ProcTyped
  <2>7. TablesTyped' /\ fds'[p] = u /\ \A q \in Procs : q # p => fds'[q] = fds[q]
      BY <1>1, <1>2, <2>4, <2>5 DEF TablesTyped
  <2>8. file.kind = "file" /\ closed.kind = "none"
      BY DEF file, closed, File
  <2>9. Stdin(p)' = u[0]
      BY <2>2, <2>6, <2>7 DEF Stdin, Programs
  <2>10. Stdin(p)'.kind = "r" => Stdin(p)' = Stdin(p)
      BY <2>4, <2>8, <2>9
  <2>11. \A f : f.kind = "w" /\ Holds(p, f)' => Holds(p, f)
      BY <2>4, <2>7, <2>8 DEF Holds
  <2>12. Intact' = Intact /\ \A f : Holds(Shell, f)' = Holds(Shell, f)
      BY <1>1, <2>7 DEF Intact, Holds
  <2>13. ASSUME NEW q \in Pids, q # p PROVE proc'[q] = proc[q] /\ Stdin(q)' = Stdin(q) /\ \A f : Holds(q, f)' = Holds(q, f)
    <3>1. proc'[q] = proc[q] /\ fds'[q] = fds[q]
        BY <2>6, <2>7, <2>13 DEF Procs
    <3> QED BY <3>1 DEF Stdin, Holds
  <2>14. Shrinks
      BY <1>2, <2>10, <2>11, <2>12, <2>13 DEF Shrinks
  <2> QED BY <1>1, <2>6, <2>7, <2>14
<1> QED BY <1>3, <1>4 DEF ChildStart

\* A step of a child does not touch the shell.
LEMMA ChildGoes ==
    ASSUME ShellInv, UNCHANGED <<input, tokens, sh>>, ProcTyped', TablesTyped', FullTyped', out' \in Nat,
           fds'[Shell] = fds[Shell], Shrinks
    PROVE  ShellInv'
<1>1. UNCHANGED <<line_buf, line_len, lines>>
    BY DEF input
<1>2. LineTyped' /\ TokensTyped' /\ ShTyped' /\ InLine'
    BY <1>1 DEF ShellInv, ShellTypes, LineTyped, TokensTyped, ShTyped, InLine
<1>3. ShellTable'
    BY DEF ShellInv, ShellTable
<1>4. InputsAlone'
    BY ShrinksKeeps DEF ShellInv
<1> QED BY <1>2, <1>3, <1>4 DEF ShellInv, ShellTypes

\* A program counts what it still has to write, and opens nothing.
LEMMA Counted ==
    ASSUME ShellInv, NEW p \in Pids, NEW n \in Nat, proc' = [proc EXCEPT ![p].left = n], UNCHANGED fds
    PROVE  ProcTyped' /\ TablesTyped' /\ fds'[Shell] = fds[Shell] /\ Shrinks
<1>1. TablesTyped /\ ProcTyped
    BY DEF ShellInv, ShellTypes
<1>2. PICK c : c = [proc[p] EXCEPT !.left = n]
    OBVIOUS
<1>3. proc[p] \in ChildType
    BY <1>1 DEF ProcTyped
<1>4. c \in ChildType /\ c.st = proc[p].st /\ c.pre = proc[p].pre
    BY <1>2, <1>3 DEF ChildType
<1>5. proc' = [proc EXCEPT ![p] = c]
    BY <1>2
<1>6. ProcTyped' /\ \A q \in Pids : proc'[q].st = proc[q].st /\ proc'[q].pre = proc[q].pre
    BY <1>1, <1>4, <1>5 DEF ProcTyped
<1>7. Shrinks
    BY <1>6 DEF Shrinks, Stdin, Holds, Intact
<1> QED BY <1>1, <1>6, <1>7 DEF TablesTyped

\* Every step of a child keeps the invariant.
LEMMA ChildKeeps == ASSUME ShellInv, NEW p \in Pids, Child(p) PROVE ShellInv'
<1>1. p \in Procs /\ TablesTyped /\ ProcTyped /\ FullTyped /\ LineTyped
    BY DEF Procs, ShellInv, ShellTypes
<1>2. proc[p] \in ChildType /\ proc[p].left \in Nat
    BY <1>1 DEF ProcTyped, ChildType
<1>3. ASSUME ChildStart(p) PROVE ShellInv'
  <2>1. UNCHANGED <<input, tokens, sh, full, out>>
      BY <1>3 DEF ChildStart
  <2>2. FullTyped' /\ out' \in Nat
      BY <1>1, <2>1 DEF FullTyped, LineTyped
  <2> QED BY <1>3, <2>1, <2>2, StartKeeps, ChildGoes
<1>4. ASSUME ProgramWrites(p) PROVE ShellInv'
  <2>1. UNCHANGED <<input, tokens, sh>> /\ proc[p].left > 0
      BY <1>4 DEF ProgramWrites
  <2>2. CASE Put(p) /\ proc' = [proc EXCEPT ![p].left = @ - 1] /\ UNCHANGED fds
    <3>1. FullTyped' /\ out' \in Nat
        BY <1>1, <2>2, Puts
    <3>2. PICK n \in Nat : n = proc[p].left - 1
        BY <1>2, <2>1
    <3>3. proc' = [proc EXCEPT ![p].left = n]
        BY <2>2, <3>2
    <3> QED BY <2>1, <2>2, <3>1, <3>3, Counted, ChildGoes
  <2>3. CASE Broken(p) /\ Exit(p) /\ UNCHANGED <<full, out>>
    <3>1. FullTyped' /\ out' \in Nat
        BY <1>1, <2>3 DEF FullTyped, LineTyped
    <3> QED BY <2>1, <2>3, <3>1, Ended, ChildGoes
  <2> QED BY <1>4, <2>2, <2>3 DEF ProgramWrites
<1>5. ASSUME ProgramReads(p) PROVE ShellInv'
  <2>1. UNCHANGED <<input, tokens, sh, fds, out>> /\ Readable(p) /\ Take(p) /\ proc' = [proc EXCEPT ![p].left = 1]
      BY <1>5 DEF ProgramReads
  <2>2. FullTyped' /\ out' \in Nat
      BY <1>1, <2>1, Takes DEF LineTyped
  <2> QED BY <2>1, <2>2, Counted, ChildGoes
<1>6. ASSUME ProgramEnds(p) PROVE ShellInv'
  <2>1. UNCHANGED <<input, tokens, sh, full, out>> /\ Exit(p)
      BY <1>6 DEF ProgramEnds
  <2>2. FullTyped' /\ out' \in Nat
      BY <1>1, <2>1 DEF FullTyped, LineTyped
  <2> QED BY <2>1, <2>2, Ended, ChildGoes
<1> QED BY <1>3, <1>4, <1>5, <1>6 DEF Child

-----------------------------------------------------------------------------
(* Types, and what a line leaves *)

\* The shell begins with its three standard descriptors and no children.
LEMMA ShellStarts == Init => ShellInv
<1> SUFFICES ASSUME Init PROVE ShellInv
    OBVIOUS
<1>1. /\ Shell \in Procs /\ \A p \in Pids : p \in Procs /\ p # Shell
      /\ TOKENSZ \in Nat /\ PipeCap \in Nat /\ MaxLines \in Nat /\ \A x \in 0 .. 2 : x \in Fd
    BY PidAssumption, SizesAssumption DEF Procs, Fd
<1>2. LineTyped
  <2>1. <<>> \in Seq(Text) /\ Len(<<>>) = 0
      OBVIOUS
  <2> QED BY <1>1, <2>1 DEF Init, LineTyped
<1>3. TokensTyped
    BY DEF Init, TokensTyped, Token
<1>4. sh.pc = "prompt" /\ ShTyped
  <2>1. sh = [pc |-> "prompt", i |-> 0, c |-> 0, n |-> 0, bg |-> FALSE,
              pre |-> <<>>, post |-> <<>>, run |-> NULL, pid |-> Shell]
      BY DEF Init
  <2>2. 0 \in 0 .. TOKENSZ /\ <<>> \in Ends /\ NULL \in Token
      BY <1>1 DEF Ends, Token
  <2> QED BY <1>1, <2>1, <2>2 DEF ShTyped, ShellType, Pcs
<1>5. closed \in FileType /\ tty \in FileType /\ closed.kind = "none" /\ tty.kind = "tty"
    BY DEF FileType, closed, tty, File
<1>6. PICK t : t = [x \in Fd |-> IF x <= 2 THEN tty ELSE closed]
    OBVIOUS
<1>7. t \in TableType /\ Nothing \in TableType
    BY <1>5, <1>6 DEF TableType, Nothing
<1>8. fds = [p \in Procs |-> IF p = Shell THEN t ELSE Nothing]
    BY <1>6 DEF Init
<1>9. TablesTyped /\ fds[Shell] = t
    BY <1>1, <1>7, <1>8 DEF TablesTyped
<1>10. Std(t) /\ OnlyOpen(t, {})
  <2>1. \A x \in Fd : t[x] = IF x <= 2 THEN tty ELSE closed
      BY <1>6
  <2>2. \A x \in 0 .. 2 : x \in Fd /\ x <= 2
      BY <1>1
  <2>3. \A x \in Fd : x > 2 => ~(x <= 2)
      BY DEF Fd
  <2> QED BY <1>5, <2>1, <2>2, <2>3 DEF Std, OnlyOpen
<1>11. ShellTable
    BY <1>4, <1>9, <1>10 DEF ShellTable, TableAt
<1>12. FullTyped
    BY <1>1 DEF Init, FullTyped
<1>13. None \in ChildType /\ None.st = "none"
  <2>1. <<>> \in Seq(Token)
      OBVIOUS
  <2> QED BY <2>1 DEF None, ChildType, States, Ends
<1>14. ProcTyped /\ \A p \in Pids : proc[p].st = "none"
    BY <1>13 DEF Init, ProcTyped
<1>15. InputsAlone
    BY <1>14 DEF InputsAlone, Programs
<1>16. InLine
    BY <1>4 DEF InLine
<1> QED BY <1>2, <1>3, <1>4, <1>9, <1>11, <1>12, <1>14, <1>15, <1>16 DEF ShellInv, ShellTypes

\* Every step of the shell and its children keeps the invariant.
LEMMA ShellStepKeeps == ShellInv /\ [Next]_vars => ShellInv'
<1> SUFFICES ASSUME ShellInv, [Next]_vars PROVE ShellInv'
    OBVIOUS
<1>1. CASE ShellStep
    BY <1>1, PromptKeeps, LexKeeps, ListKeeps, DoneKeeps, CommandKeeps, LastKeeps, EmptyKeeps,
       BuiltinKeeps, RunKeeps, ForkKeeps, AfterKeeps DEF ShellStep
<1>2. CASE ReadLine
    BY <1>2, ReadKeeps
<1>3. CASE ReadEof
    BY <1>3, EofKeeps
<1>4. ASSUME NEW p \in Pids, Child(p) PROVE ShellInv'
    BY <1>4, ChildKeeps
<1>5. CASE UNCHANGED vars
  <2>1. UNCHANGED <<line_buf, line_len, lines, tokens, sh, fds, full, proc, out>>
      BY <1>5 DEF vars, input
  <2>2. LineTyped' /\ TokensTyped' /\ ShTyped' /\ InLine' /\ FullTyped'
      BY <2>1 DEF ShellInv, ShellTypes, LineTyped, TokensTyped, ShTyped, InLine, FullTyped
  <2>3. ShellTable' /\ TablesTyped' /\ ProcTyped' /\ InputsAlone'
      BY <2>1, GoesOn
  <2> QED BY <2>2, <2>3 DEF ShellInv, ShellTypes
<1> QED BY <1>1, <1>2, <1>3, <1>4, <1>5 DEF Next

\* The invariant gives the types.
LEMMA ShellTyped == ShellInv => TypeOK
<1> SUFFICES ASSUME ShellInv PROVE TypeOK
    OBVIOUS
<1>1. line_buf \in Seq(Text) /\ line_len \in Nat /\ lines \in 0 .. MaxLines /\ out \in Nat
  <2>1. line_buf \in Seq(Text) /\ line_len = Len(line_buf) /\ lines \in 0 .. MaxLines /\ out \in Nat
      BY DEF ShellInv, ShellTypes, LineTyped
  <2> QED BY <2>1
<1>2. \A x \in DOMAIN tokens : tokens[x] \in Token
    BY DEF ShellInv, ShellTypes, TokensTyped
<1>3. sh.i \in 0 .. TOKENSZ /\ sh.c \in 0 .. TOKENSZ /\ sh.pid \in Procs
    BY DEF ShellInv, ShellTypes, ShTyped, ShellType
<1>4. ASSUME NEW p \in Procs, NEW x \in Fd
      PROVE  fds[p][x] \in {closed, tty, file} \/ (fds[p][x].kind \in {"r", "w"} /\ fds[p][x].id \in Pipes)
  <2>1. fds[p][x] \in FileType
      BY DEF ShellInv, ShellTypes, TablesTyped, TableType
  <2> QED BY <2>1 DEF FileType
<1>5. \A k \in Pipes : full[k] \in 0 .. PipeCap
    BY DEF ShellInv, ShellTypes, FullTyped
<1>6. \A p \in Pids : proc[p].left \in Nat /\ proc[p].st \in {"none", "child", "zombie"} \cup Programs
    BY DEF ShellInv, ShellTypes, ProcTyped, ChildType, States
<1> QED BY <1>1, <1>2, <1>3, <1>4, <1>5, <1>6 DEF TypeOK

\* The invariant gives what a line leaves.
LEMMA NothingLeft == ShellInv => LineLeavesNothing
<1> SUFFICES ASSUME ShellInv PROVE LineLeavesNothing
    OBVIOUS
<1>1. LineLengthMatches
    BY DEF ShellInv, ShellTypes, LineTyped, LineLengthMatches
<1>2. PipesClosedAfterLine
    BY DEF ShellInv, ShellTable, TableAt, OnlyOpen, PipesClosedAfterLine
<1>3. WriteEndClosedWhileIntact
  <2> SUFFICES ASSUME Intact, NEW p \in Pids, proc[p].st \in Programs, fds[p][0].kind = "r"
               PROVE  ~Holds(p, File("w", fds[p][0].id)) /\ ~Holds(Shell, File("w", fds[p][0].id))
      BY DEF WriteEndClosedWhileIntact, PreviousWriteEndClosed
  <2>1. Stdin(p) = fds[p][0]
      BY DEF Stdin, Programs
  <2>2. Alone(p)
      BY DEF ShellInv, InputsAlone
  <2> QED BY <2>1, <2>2 DEF Alone
<1> QED BY <1>1, <1>2, <1>3 DEF LineLeavesNothing

\* For every set of command lines, every number of processes, descriptors and pipes
\* and every size of the table of tokens: the shell's variables have their types,
\* its place in the line lies in the table, and no pipe holds more than it can.
THEOREM ShellTypesKept == Spec => []TypeOK
<1>1. Init => ShellInv
    BY ShellStarts
<1>2. ShellInv /\ [Next]_vars => ShellInv'
    BY ShellStepKeeps
<1>3. ShellInv => TypeOK
    BY ShellTyped
<1> QED BY <1>1, <1>2, <1>3, PTL DEF Spec

\* What a line leaves for the next one, whatever came before it: the length that the
\* lexer is told is that of the buffer, do_simple_cmd and do_pipe_cmd have closed
\* every end of every pipe, and as long as the shell's own descriptors are what they
\* were, neither a program nor the shell can write to the pipe the program reads.
THEOREM LinesLeaveNothing == Spec => []LineLeavesNothing
<1>1. Init => ShellInv
    BY ShellStarts
<1>2. ShellInv /\ [Next]_vars => ShellInv'
    BY ShellStepKeeps
<1>3. ShellInv => LineLeavesNothing
    BY NothingLeft
<1> QED BY <1>1, <1>2, <1>3, PTL DEF Spec

-----------------------------------------------------------------------------
(* What a line should print *)

\* Induction over the naturals, for a set.
LEMMA SetInduction ==
    ASSUME NEW T, 0 \in T, \A n \in Nat : n \in T => n + 1 \in T
    PROVE  Nat \subseteq T
<1> SUFFICES ASSUME Nat \ T # {} PROVE FALSE
    OBVIOUS
<1> DEFINE U == Nat \ T
<1>1. PICK x \in U : \A y \in U : ~(<<y, x>> \in OpToRel(<, Nat))
    BY NatLessThanWellFounded, WFMin
<1>2. \A y \in U : ~(y < x)
    BY <1>1 DEF OpToRel
<1>3. x \in Nat /\ x # 0
    OBVIOUS
<1>4. x - 1 \in Nat /\ x - 1 \notin U
    BY <1>2, <1>3
<1>5. (x - 1) + 1 \in T
    BY <1>4
<1> QED BY <1>3, <1>5

\* Nothing has been read yet.
Unread == [printed |-> 0, piped |-> 0]

\* What Reading says of a position, from a function for the positions before it.
ReadAt(f, l, x) == IF x = 0 THEN Unread ELSE ReadWord(l, f[x - 1], x)

\* The function that Reading defines by recursion exists.
LEMMA ReadingExists == ASSUME NEW l, Len(l) \in Nat PROVE \E f : f = [x \in 0 .. Len(l) |-> ReadAt(f, l, x)]
<1> DEFINE Upto(m) == \E f : f = [x \in 0 .. m |-> ReadAt(f, l, x)]
           T == {m \in Nat : Upto(m)}
<1>1. 0 \in T
  <2> DEFINE f == [x \in 0 .. 0 |-> Unread]
  <2>1. f = [x \in 0 .. 0 |-> ReadAt(f, l, x)]
      BY DEF ReadAt
  <2> HIDE DEF f
  <2> QED BY <2>1
<1>2. \A m \in Nat : m \in T => m + 1 \in T
  <2> SUFFICES ASSUME NEW m \in Nat, m \in T PROVE m + 1 \in T
      OBVIOUS
  <2>1. PICK f : f = [x \in 0 .. m |-> ReadAt(f, l, x)]
      OBVIOUS
  <2> DEFINE g == [x \in 0 .. m + 1 |-> IF x = m + 1 THEN ReadAt(f, l, x) ELSE f[x]]
  <2>2. \A x \in 0 .. m + 1 : ReadAt(g, l, x) = ReadAt(f, l, x)
    <3> SUFFICES ASSUME NEW x \in 0 .. m + 1 PROVE ReadAt(g, l, x) = ReadAt(f, l, x)
        OBVIOUS
    <3>1. x # 0 => g[x - 1] = f[x - 1]
        OBVIOUS
    <3> HIDE DEF g
    <3> QED BY <3>1, Zenon DEF ReadAt
  <2>3. \A x \in 0 .. m : f[x] = ReadAt(f, l, x)
      BY <2>1
  <2>4. g = [x \in 0 .. m + 1 |-> ReadAt(g, l, x)]
    <3>1. \A x \in 0 .. m + 1 : g[x] = ReadAt(g, l, x)
        BY <2>2, <2>3
    <3>2. g = [x \in 0 .. m + 1 |-> g[x]]
        OBVIOUS
    <3> HIDE DEF g
    <3> QED BY <3>1, <3>2
  <2> HIDE DEF g
  <2>5. Upto(m + 1)
      BY <2>4
  <2> QED BY <2>5
<1>3. Nat \subseteq T
  <2> HIDE DEF T
  <2> QED BY <1>1, <1>2, SetInduction
<1>4. Len(l) \in T
    BY <1>3
<1> QED BY <1>4

\* So Reading has the values that its recursion says.
LEMMA ReadingIs ==
    ASSUME NEW l, Len(l) \in Nat
    PROVE  /\ Reading(l)[0] = Unread
           /\ \A x \in 1 .. Len(l) : Reading(l)[x] = ReadWord(l, Reading(l)[x - 1], x)
<1> DEFINE h == CHOOSE f : f = [x \in 0 .. Len(l) |-> ReadAt(f, l, x)]
<1>1. h = [x \in 0 .. Len(l) |-> ReadAt(h, l, x)]
    BY SMTT(60), ReadingExists
<1>2. Reading(l) = h
    BY DEF Reading, ReadAt, Unread
<1> HIDE DEF h
<1>3. \A x \in 0 .. Len(l) : h[x] = ReadAt(h, l, x)
    BY <1>1
<1> QED BY <1>2, <1>3 DEF ReadAt

ReadType == [printed : Nat, piped : Nat]

\* A command sends a number of units.
LEMMA SendsNat == ASSUME NEW ws, NEW given \in Nat PROVE Sends(ws, given) \in Nat
BY SizesAssumption DEF Sends

\* What is read of a line has its type.
LEMMA ReadingTyped == ASSUME NEW l, Len(l) \in Nat PROVE \A x \in 0 .. Len(l) : Reading(l)[x] \in ReadType
<1> DEFINE R == Reading(l)
           T == {m \in Nat : m <= Len(l) => R[m] \in ReadType}
<1>1. R[0] = Unread /\ \A x \in 1 .. Len(l) : R[x] = ReadWord(l, R[x - 1], x)
    BY ReadingIs
<1> HIDE DEF R
<1>2. 0 \in T
    BY <1>1 DEF Unread, ReadType
<1>3. ASSUME NEW m \in Nat, m \in T PROVE m + 1 \in T
  <2> SUFFICES ASSUME m + 1 <= Len(l) PROVE R[m + 1] \in ReadType
      OBVIOUS
  <2>1. R[m] \in ReadType
      BY <1>3
  <2> DEFINE given == IF m + 1 > 1 /\ l[m + 1 - 1] = "|" THEN R[m].piped ELSE 0
             sent == Sends(Command(l, m + 1), given)
  <2>2. given \in Nat
      BY <2>1 DEF ReadType
  <2>3. sent \in Nat
      BY <2>2, SendsNat
  <2>4. R[m + 1] = ReadWord(l, R[m], m + 1)
      BY <1>1
  <2>5. R[m + 1] \in {R[m], [R[m] EXCEPT !.piped = sent], [R[m] EXCEPT !.printed = @ + sent]}
      BY <2>4 DEF ReadWord
  <2> HIDE DEF sent
  <2> QED BY <2>1, <2>3, <2>5 DEF ReadType
<1>4. Nat \subseteq T
  <2> HIDE DEF T
  <2> QED BY <1>2, <1>3, SetInduction
<1> QED BY <1>4 DEF R

\* A word that begins no command changes nothing.
LEMMA SkipWord == ASSUME NEW l, Len(l) \in Nat, NEW x \in 1 .. Len(l), x \notin Starts(l) PROVE Reading(l)[x] = Reading(l)[x - 1]
<1>1. Reading(l)[x] = ReadWord(l, Reading(l)[x - 1], x)
    BY ReadingIs
<1> QED BY <1>1 DEF ReadWord

\* A command of line l stands from c + 1 up to the separator at stop; given what it
\* reads, it sends so much.
IsCommand(l, c, stop, given, sent) ==
    /\ l \in Seq(Text) /\ c \in Nat /\ stop \in Nat /\ c + 1 < stop /\ stop <= Len(l)
    /\ c = 0 \/ l[c] \in Stops
    /\ \A y \in c + 1 .. stop - 1 : l[y] \notin Stops
    /\ l[stop] \in Stops
    /\ given = (IF c > 0 /\ l[c] = "|" THEN Reading(l)[c].piped ELSE 0)
    /\ sent = Sends(Command(l, c + 1), given)
ReadsAs(l, c, stop, sent) ==
    /\ Command(l, c + 1) = [y \in 1 .. stop - c - 1 |-> l[c + y]]
    /\ Reading(l)[stop] = IF l[stop] = "|" THEN [Reading(l)[c] EXCEPT !.piped = sent]
                                          ELSE [Reading(l)[c] EXCEPT !.printed = @ + sent]

\* What is read of it.
LEMMA ReadCommand ==
    ASSUME NEW l, NEW c, NEW stop, NEW given, NEW sent, IsCommand(l, c, stop, given, sent)
    PROVE  ReadsAs(l, c, stop, sent)
<1> USE DEF IsCommand
<1> DEFINE Y == {y \in c + 1 .. Len(l) : l[y] \in Stops}
           R == Reading(l)
<1>1. Len(l) \in Nat
    OBVIOUS
<1>2. EndOf(l, c + 1) = stop
  <2>1. Y \in SUBSET Nat /\ stop \in Y
      BY <1>1
  <2>2. Min(Y) \in Y /\ Min(Y) <= stop
      BY <2>1, LeastIs
  <2>3. Min(Y) = stop
      BY <1>1, <2>2
  <2> QED BY <2>3 DEF EndOf
<1>3. Command(l, c + 1) = [y \in 1 .. stop - c - 1 |-> l[c + y]]
  <2>1. stop - (c + 1) = stop - c - 1 /\ \A y \in 1 .. stop - c - 1 : c + 1 + y - 1 = c + y
      OBVIOUS
  <2> QED BY <1>2, <2>1 DEF Command
<1>4. c + 1 \in Starts(l) /\ c + 1 \in 1 .. Len(l)
  <2>1. c + 1 \in DOMAIN l /\ l[c + 1] \notin Stops
      BY <1>1
  <2>2. c + 1 > 1 => l[c + 1 - 1] \in Stops
      OBVIOUS
  <2> QED BY <1>1, <2>1, <2>2 DEF Starts
<1>5. R[c + 1] = ReadWord(l, R[c], c + 1)
  <2>1. R[c + 1] = ReadWord(l, R[c + 1 - 1], c + 1)
      BY <1>1, <1>4, ReadingIs
  <2>2. c + 1 - 1 = c
      OBVIOUS
  <2> QED BY <2>1, <2>2
<1>6. given = (IF c + 1 > 1 /\ l[c + 1 - 1] = "|" THEN R[c].piped ELSE 0)
    OBVIOUS
<1> HIDE DEF R
<1>7. R[c + 1] = IF l[stop] = "|" THEN [R[c] EXCEPT !.piped = sent] ELSE [R[c] EXCEPT !.printed = @ + sent]
    BY <1>2, <1>4, <1>5, <1>6 DEF ReadWord
<1> DEFINE T == {m \in Nat : c + 1 + m <= stop => R[c + 1 + m] = R[c + 1]}
<1>8. 0 \in T
    OBVIOUS
<1>9. ASSUME NEW m \in Nat, m \in T PROVE m + 1 \in T
  <2> SUFFICES ASSUME c + 1 + (m + 1) <= stop PROVE R[c + 1 + (m + 1)] = R[c + 1]
      OBVIOUS
  <2> DEFINE x == c + 1 + (m + 1)
  <2>1. x \in 1 .. Len(l) /\ x - 1 = c + 1 + m /\ x - 1 \in c + 1 .. stop - 1 /\ x > 1
      BY <1>1
  <2>2. x \notin Starts(l)
      BY <2>1 DEF Starts
  <2>3. R[x] = R[x - 1]
      BY <1>1, <2>1, <2>2, SkipWord DEF R
  <2> QED BY <1>9, <2>1, <2>3
<1>10. Nat \subseteq T
  <2> HIDE DEF T
  <2> QED BY <1>8, <1>9, SetInduction
<1>11. stop - c - 1 \in T /\ c + 1 + (stop - c - 1) = stop
    BY <1>10
<1>12. R[stop] = R[c + 1]
    BY <1>11
<1> QED BY <1>3, <1>7, <1>12 DEF R, ReadsAs

-----------------------------------------------------------------------------
(* Where the shell is in its line *)

Plain   == External(line_buf) /\ ~Contains(line_buf, "&")
Enders  == {";", NewLine}
InCommand == sh.pc \in {"simple", "waitpid"}

\* Where the command at hand ends.
Stop == IF sh.post = <<>> THEN sh.i ELSE sh.n

\* What is left of the pipeline, from position x on, is still as it was typed.
Rest(x) == tokens[sh.i - 1] = NULL /\ \A y \in x .. sh.i - 2 : tokens[y] = line_buf[y + 1] /\ line_buf[y + 1] \notin Enders

CommandSplit ==
    /\ sh.c < Stop /\ tokens[Stop - 1] = NULL
    /\ \A y \in sh.c .. Stop - 2 : tokens[y] = line_buf[y + 1] /\ line_buf[y + 1] \notin Stops
    /\ sh.post # <<>> => line_buf[sh.n] = "|" /\ sh.n < sh.i /\ Rest(sh.n)
    /\ sh.pc = "waitpid" => sh.c + 1 < Stop

PipelineSplit ==
    /\ ~sh.bg /\ sh.c < sh.i
    /\ sh.c > 0 => line_buf[sh.c] \in Enders \cup {"|"}
    /\ sh.pre # <<>> <=> (sh.c > 0 /\ line_buf[sh.c] = "|")
    /\ sh.pc = "pipe" => Rest(sh.c)
    /\ InCommand => CommandSplit

LineSplit ==
    /\ sh.pc # "builtin"
    /\ \A y \in sh.i .. line_len - 1 : tokens[y] = line_buf[y + 1]
    /\ sh.i > 0 => line_buf[sh.i] \in Enders
    /\ sh.pc # "list" => PipelineSplit

\* What is typed ends in a newline.
NewLineLast == line_len > 0 /\ line_buf[line_len] = NewLine

\* A line of external commands in the foreground is split as it was typed.
SplitInv ==
    /\ sh.pc \in {"yylex", "list", "pipe", "simple", "builtin", "waitpid"} => NewLineLast
    /\ Plain /\ sh.pc \in {"list", "pipe", "simple", "builtin", "waitpid"} => LineSplit

\* The words of a plain line.
LEMMA PlainWords ==
    ASSUME ShellInv, Plain
    PROVE  /\ line_len \in Nat /\ Len(line_buf) = line_len /\ line_buf \in Seq(Text)
           /\ \A x \in 1 .. line_len : line_buf[x] # NULL /\ line_buf[x] # "&" /\ line_buf[x] \notin Builtins
<1>1. line_buf \in Seq(Text) /\ line_len = Len(line_buf) /\ line_len \in Nat
  <2>1. line_buf \in Seq(Text) /\ line_len = Len(line_buf)
      BY DEF ShellInv, ShellTypes, LineTyped
  <2> QED BY <2>1
<1>2. \A x \in 1 .. line_len : line_buf[x] \in Text /\ x \in DOMAIN line_buf
    BY <1>1
<1>3. NULL \notin Text
    BY LinesAssumption, Zenon DEF Text, NULL, NewLine
<1>4. \A x \in 1 .. line_len : line_buf[x] # "&"
    BY <1>1 DEF Plain, Contains
<1>5. \A x \in 1 .. line_len : line_buf[x] \notin Builtins
    BY <1>2 DEF Plain, External
<1> QED BY <1>1, <1>2, <1>3, <1>4, <1>5

\* The places of the shell in its line.
LEMMA Places ==
    ASSUME ShellInv, sh.pc \in {"list", "pipe", "simple", "builtin", "waitpid"}
    PROVE  /\ TOKENSZ \in Nat /\ line_len \in 0 .. TOKENSZ - 1 /\ tokens[line_len] = NULL
           /\ line_len \in Nat /\ sh.i \in Nat /\ sh.i <= line_len /\ sh.c \in 0 .. TOKENSZ /\ sh.n \in 0 .. TOKENSZ
           /\ sh \in ShellType /\ TokensTyped
<1>1. TOKENSZ \in Nat /\ sh \in ShellType /\ TokensTyped
    BY SizesAssumption DEF ShellInv, ShellTypes, ShTyped
<1>2. line_len \in Nat
  <2>1. line_buf \in Seq(Text) /\ line_len = Len(line_buf)
      BY DEF ShellInv, ShellTypes, LineTyped
  <2> QED BY <2>1
<1>3. line_len < TOKENSZ /\ tokens[line_len] = NULL /\ sh.i <= line_len
    BY DEF ShellInv, InLine
<1> QED BY <1>1, <1>2, <1>3 DEF ShellType

\* A line that is read ends in a newline.
LEMMA ReadSplits == ASSUME ShellInv, ReadLine PROVE SplitInv'
<1>1. sh \in ShellType /\ line_buf \in Seq(Text) /\ line_len = Len(line_buf) /\ line_len \in Nat
  <2>1. sh \in ShellType /\ line_buf \in Seq(Text) /\ line_len = Len(line_buf)
      BY DEF ShellInv, ShellTypes, ShTyped, LineTyped
  <2> QED BY <2>1
<1>2. PICK l \in Lines :
       \/ sh' = [sh EXCEPT !.pc = "prompt"]
       \/ /\ line_buf' = line_buf \o l \o <<NewLine>> /\ line_len' = line_len + Len(l) + 1
          /\ sh' = [sh EXCEPT !.pc = "yylex"]
    BY DEF ReadLine
<1>3. CASE sh' = [sh EXCEPT !.pc = "prompt"]
  <2>1. sh'.pc = "prompt"
      BY <1>1, <1>3 DEF ShellType
  <2> QED BY <2>1 DEF SplitInv
<1>4. CASE /\ line_buf' = line_buf \o l \o <<NewLine>> /\ line_len' = line_len + Len(l) + 1
           /\ sh' = [sh EXCEPT !.pc = "yylex"]
  <2>1. sh'.pc = "yylex"
      BY <1>1, <1>4 DEF ShellType
  <2>2. l \in Seq(Word) /\ Len(l) \in Nat
      BY LinesAssumption
  <2>3. l \in Seq(Text)
      BY <2>2 DEF Text
  <2>4. line_buf \o l \in Seq(Text) /\ Len(line_buf \o l) = line_len + Len(l)
      BY <1>1, <2>3, ConcatProperties
  <2>5. PICK s \in Seq(Text) : s = line_buf \o l /\ Len(s) = line_len + Len(l)
      BY <2>4
  <2>6. PICK nl : nl = NewLine
      OBVIOUS
  <2>7. nl \in Text
      BY <2>6 DEF Text
  <2>8. <<nl>> \in Seq(Text) /\ Len(<<nl>>) = 1 /\ <<nl>>[1] = nl
      BY <2>7
  <2>9. (s \o <<nl>>)[Len(s) + 1] = nl
    <3>1. \A x \in 1 .. Len(s) + Len(<<nl>>) : (s \o <<nl>>)[x] = IF x <= Len(s) THEN s[x] ELSE <<nl>>[x - Len(s)]
        BY <2>5, <2>8, ConcatProperties
    <3>2. Len(s) \in Nat
        BY <2>5
    <3>3. PICK n \in Nat : n = Len(s)
        BY <3>2
    <3>4. n + 1 \in 1 .. n + 1 /\ n + 1 - n = 1 /\ ~(n + 1 <= n)
        OBVIOUS
    <3>5. (s \o <<nl>>)[n + 1] = <<nl>>[n + 1 - n]
        BY <2>8, <3>1, <3>3, <3>4
    <3> QED BY <2>8, <3>3, <3>4, <3>5
  <2>10. line_len' > 0 /\ line_buf'[line_len'] = NewLine
      BY <1>1, <1>4, <2>2, <2>5, <2>6, <2>9
  <2> QED BY <2>1, <2>10 DEF SplitInv, NewLineLast
<1> QED BY <1>2, <1>3, <1>4

\* yylex stores the words of the line as they are.
LEMMA LexSplits == ASSUME ShellInv, SplitInv, yylex PROVE SplitInv'
<1>1. /\ sh \in ShellType /\ UNCHANGED <<line_buf, line_len>> /\ NewLineLast /\ line_len \in Nat /\ TOKENSZ \in Nat
      /\ DOMAIN tokens = 0 .. TOKENSZ - 1
  <2>1. sh \in ShellType /\ line_buf \in Seq(Text) /\ line_len = Len(line_buf)
      BY DEF ShellInv, ShellTypes, ShTyped, LineTyped
  <2>2. UNCHANGED <<line_buf, line_len>> /\ NewLineLast
      BY DEF yylex, input, SplitInv
  <2> QED BY <2>1, <2>2, SizesAssumption DEF ShellInv, ShellTypes, TokensTyped
<1>2. CASE sh' = [sh EXCEPT !.pc = "overrun"]
  <2>1. sh'.pc = "overrun"
      BY <1>1, <1>2 DEF ShellType
  <2> QED BY <2>1 DEF SplitInv
<1>3. CASE /\ line_len < TOKENSZ
           /\ tokens' = [x \in DOMAIN tokens |->
                            IF x < line_len THEN line_buf[x + 1] ELSE IF x = line_len THEN NULL ELSE tokens[x]]
           /\ sh' = [sh EXCEPT !.pc = "list", !.i = 0]
  <2>1. sh'.pc = "list" /\ sh'.i = 0
      BY <1>1, <1>3 DEF ShellType
  <2>2. \A y \in 0 .. line_len - 1 : tokens'[y] = line_buf[y + 1]
      BY <1>1, <1>3
  <2> QED BY <1>1, <2>1, <2>2 DEF SplitInv, LineSplit, NewLineLast
<1> QED BY <1>2, <1>3 DEF yylex

\* What ends a pipeline in the table of tokens.
Separators == {";", NewLine, "&", NULL}

\* The next pipeline is what was typed up to its semicolon or the newline.
LEMMA ListSplits ==
    ASSUME ShellInv, SplitInv, Plain, do_list_cmd, NEW e, e = Find(sh.i, Separators)
    PROVE  /\ SplitInv' /\ e \in sh.i .. line_len - 1 /\ line_buf[e + 1] \in Enders
           /\ sh'.i = e + 1 /\ sh'.pc = (IF e = sh.i THEN "list" ELSE "pipe") /\ sh'.c = sh.i /\ sh'.pre = <<>>
<1>1. /\ sh.pc = "list" /\ UNCHANGED <<line_buf, line_len>>
      /\ tokens[e] # NULL /\ tokens' = [tokens EXCEPT ![e] = NULL]
      /\ sh' = [sh EXCEPT !.pc = IF e = sh.i THEN "list" ELSE "pipe",
                          !.i = e + 1, !.c = sh.i, !.bg = (tokens[e] = "&"), !.pre = <<>>]
    BY Zenon DEF do_list_cmd, input, Separators
<1>2. /\ TOKENSZ \in Nat /\ line_len \in 0 .. TOKENSZ - 1 /\ tokens[line_len] = NULL
      /\ line_len \in Nat /\ sh.i \in Nat /\ sh.i <= line_len /\ sh \in ShellType /\ TokensTyped
    BY <1>1, Places
<1>3. /\ e \in sh.i .. line_len /\ tokens[e] \in Separators
      /\ \A y \in sh.i .. e - 1 : tokens[y] \notin Separators
  <2>1. tokens[line_len] \in Separators
      BY <1>2 DEF Separators
  <2> QED BY <1>2, <2>1, Found
<1>4. e \in sh.i .. line_len - 1
  <2>1. tokens[e] # NULL
      BY <1>1
  <2>2. e # line_len
      BY <1>2, <2>1
  <2>3. e \in Int /\ sh.i <= e /\ e <= line_len
      BY <1>2, <1>3
  <2> QED BY ONLY <1>2, <2>2, <2>3
<1>5. NewLineLast /\ \A y \in sh.i .. line_len - 1 : tokens[y] = line_buf[y + 1]
    BY <1>1 DEF SplitInv, LineSplit
<1>6. line_buf[e + 1] \in Enders /\ tokens[e] # "&"
  <2>1. e + 1 \in 1 .. line_len /\ tokens[e] = line_buf[e + 1]
      BY <1>2, <1>4, <1>5
  <2> QED BY <1>1, <1>3, <2>1, PlainWords DEF Enders, Separators
<1>7. /\ sh'.i = e + 1 /\ sh'.pc = (IF e = sh.i THEN "list" ELSE "pipe") /\ sh'.c = sh.i /\ sh'.pre = <<>>
      /\ sh'.bg = (tokens[e] = "&")
    BY ONLY <1>1, <1>2 DEF ShellType
<1>8. ~sh'.bg
    BY <1>6, <1>7
<1>9. tokens'[e] = NULL /\ \A y \in 0 .. TOKENSZ - 1 : y # e => tokens'[y] = tokens[y]
    BY <1>1, <1>2, <1>4 DEF TokensTyped
<1>10. \A y \in e + 1 .. line_len - 1 : tokens'[y] = line_buf[y + 1]
    BY <1>2, <1>4, <1>5, <1>9
<1>11. sh.i > 0 => line_buf[sh.i] \in Enders
    BY <1>1 DEF SplitInv, LineSplit
<1>12. \A y \in sh.i .. e - 1 : tokens'[y] = line_buf[y + 1] /\ line_buf[y + 1] \notin Enders
  <2>1. \A v : v \notin Separators => v \notin Enders
      BY DEF Enders, Separators
  <2>2. SUFFICES ASSUME NEW y \in sh.i .. e - 1 PROVE tokens'[y] = line_buf[y + 1] /\ tokens[y] = line_buf[y + 1]
      BY <1>3, <2>1
  <2>3. y \in sh.i .. line_len - 1 /\ y \in 0 .. TOKENSZ - 1 /\ y # e
      BY <1>2, <1>4
  <2> QED BY <1>5, <1>9, <2>3
<1>13. sh'.pc = "pipe" => PipelineSplit'
  <2> SUFFICES ASSUME sh'.pc = "pipe" PROVE PipelineSplit'
      OBVIOUS
  <2>1. sh.i < e + 1 /\ e + 1 - 1 = e /\ e + 1 - 2 = e - 1
      BY <1>2, <1>4
  <2>2. Rest(sh.c)'
    <3>1. sh'.i - 1 = e /\ sh'.i - 2 = e - 1
      <4>1. sh'.i = e + 1
          BY <1>7
      <4>2. e \in Nat
          BY <1>2, <1>4
      <4> QED BY <4>1, <4>2
    <3> QED BY <1>1, <1>7, <1>9, <1>12, <3>1 DEF Rest
  <2>3. "|" \notin Enders
      BY Zenon DEF Enders, NewLine
  <2> QED BY <1>1, <1>7, <1>8, <1>11, <2>1, <2>2, <2>3 DEF PipelineSplit, InCommand
<1>14. SplitInv'
    BY <1>1, <1>2, <1>4, <1>5, <1>6, <1>7, <1>10, <1>13 DEF SplitInv, LineSplit, NewLineLast
<1> QED BY <1>4, <1>6, <1>7, <1>14

\* Steps after which the shell is in no line.
LEMMA QuietSplits == sh'.pc \in {"prompt", "readline", "overrun", "exited"} => SplitInv'
BY DEF SplitInv

\* A line that is not plain is left as it is.
LEMMA OtherSplits ==
    ASSUME SplitInv, sh.pc \in {"list", "pipe", "simple", "builtin", "waitpid"}, UNCHANGED <<line_buf, line_len>>, ~Plain
    PROVE  SplitInv'
BY DEF SplitInv, NewLineLast, Plain

\* What the shell has before it in a pipeline of a plain line.
LEMMA Ahead ==
    ASSUME ShellInv, SplitInv, Plain, sh.pc = "pipe"
    PROVE  /\ sh.c \in Nat /\ sh.i \in Nat /\ sh.c < sh.i /\ sh.i <= line_len /\ line_len < TOKENSZ /\ TOKENSZ \in Nat
           /\ line_len \in Nat /\ sh \in ShellType /\ TokensTyped /\ PipelineSplit /\ NewLineLast
           /\ tokens[sh.i - 1] = NULL
           /\ \A y \in sh.c .. sh.i - 2 : tokens[y] = line_buf[y + 1] /\ line_buf[y + 1] \notin Enders \cup {NULL, "&"}
<1>1. /\ TOKENSZ \in Nat /\ line_len \in 0 .. TOKENSZ - 1 /\ sh.i \in Nat /\ sh.i <= line_len /\ sh.c \in 0 .. TOKENSZ
      /\ line_len \in Nat /\ sh \in ShellType /\ TokensTyped
    BY Places
<1>2. PipelineSplit /\ NewLineLast
    BY DEF SplitInv, LineSplit
<1>3. Rest(sh.c) /\ sh.c < sh.i
    BY <1>2 DEF PipelineSplit
<1>4. ASSUME NEW y \in sh.c .. sh.i - 2 PROVE tokens[y] = line_buf[y + 1] /\ line_buf[y + 1] \notin Enders \cup {NULL, "&"}
  <2>1. y + 1 \in 1 .. line_len
      BY <1>1
  <2> QED BY <1>3, <2>1, PlainWords DEF Rest
<1> QED BY <1>1, <1>2, <1>3, <1>4 DEF Rest

\* The separators of a line are what ends a pipeline and the bar.
LEMMA StopsAre == Stops = Enders \cup {"|", "&"} /\ "|" \notin Enders /\ "|" # NULL /\ NULL \notin Builtins
<1>1. Stops = Enders \cup {"|", "&"}
    BY Zenon DEF Stops, Enders
<1>2. "|" \notin Enders
    BY Zenon DEF Enders, NewLine
<1>3. "|" # NULL /\ NULL \notin Builtins
    BY DEF NULL, Builtins
<1> QED BY <1>1, <1>2, <1>3

\* What ends a command in the table of tokens.
Bar == {"|", NULL}

\* The next command of the pipeline is what was typed up to its bar.
LEMMA CommandSplits ==
    ASSUME ShellInv, SplitInv, Plain, PipeCommand, sh'.post # <<>>
    PROVE  SplitInv'
<1> DEFINE e == Find(sh.c, Bar)
<1>1. /\ sh.pc = "pipe" /\ UNCHANGED <<line_buf, line_len>> /\ tokens[e] = "|" /\ tokens' = [tokens EXCEPT ![e] = NULL]
      /\ \E v : sh' = [sh EXCEPT !.pc = "simple", !.n = e + 1, !.post = v]
    BY Zenon DEF PipeCommand, input, Bar
<1>2. /\ sh.c \in Nat /\ sh.i \in Nat /\ sh.c < sh.i /\ sh.i <= line_len /\ line_len < TOKENSZ /\ TOKENSZ \in Nat
      /\ line_len \in Nat /\ sh \in ShellType /\ TokensTyped /\ PipelineSplit /\ NewLineLast
      /\ tokens[sh.i - 1] = NULL
      /\ \A y \in sh.c .. sh.i - 2 : tokens[y] = line_buf[y + 1] /\ line_buf[y + 1] \notin Enders \cup {NULL, "&"}
    BY <1>1, Ahead
<1>3. e \in sh.c .. sh.i - 1 /\ \A y \in sh.c .. e - 1 : tokens[y] \notin Bar
  <2>1. sh.i - 1 \in 0 .. TOKENSZ - 1 /\ sh.c <= sh.i - 1
      BY <1>2
  <2>2. PICK n, c : n = sh.i - 1 /\ c = sh.c
      OBVIOUS
  <2>3. TokensTyped /\ c \in Nat /\ n \in 0 .. TOKENSZ - 1 /\ c <= n /\ tokens[n] \in Bar
      BY <1>2, <2>1, <2>2 DEF Bar
  <2>4. Find(c, Bar) \in c .. n /\ \A y \in c .. Find(c, Bar) - 1 : tokens[y] \notin Bar
      BY ONLY <2>3, Found
  <2> QED BY <2>2, <2>4
<1> HIDE DEF e
<1>4. e \in sh.c .. sh.i - 2 /\ e \in Nat
  <2>1. e # sh.i - 1
      BY <1>1, <1>2, StopsAre
  <2> QED BY <1>2, <1>3, <2>1
<1>5. /\ sh'.pc = "simple" /\ sh'.n = e + 1 /\ sh'.i = sh.i /\ sh'.c = sh.c /\ sh'.pre = sh.pre /\ sh'.bg = sh.bg
    BY ONLY <1>1, <1>2 DEF ShellType
<1>6. tokens'[e] = NULL /\ \A y \in 0 .. TOKENSZ - 1 : y # e => tokens'[y] = tokens[y]
    BY <1>1, <1>2, <1>4 DEF TokensTyped
<1>7. line_buf[e + 1] = "|"
    BY <1>1, <1>2, <1>4
<1>8. Stop' = e + 1 /\ e + 1 - 1 = e /\ e + 1 - 2 = e - 1 /\ sh.c < e + 1 /\ e + 1 < sh.i
  <2>1. Stop' = e + 1
      BY <1>5 DEF Stop
  <2> QED BY <1>2, <1>4, <2>1
<1>9. ASSUME NEW y \in sh.c .. e - 1 PROVE tokens'[y] = line_buf[y + 1] /\ line_buf[y + 1] \notin Stops
  <2>1. y \in sh.c .. sh.i - 2 /\ y # e /\ y \in 0 .. TOKENSZ - 1
      BY <1>2, <1>4
  <2>2. tokens[y] = line_buf[y + 1] /\ line_buf[y + 1] \notin Enders \cup {"|", "&"}
      BY <1>2, <1>3, <2>1 DEF Bar
  <2> QED BY <1>6, <2>1, <2>2, StopsAre
<1>10. /\ tokens'[sh.i - 1] = NULL
       /\ \A y \in e + 1 .. sh.i - 2 : tokens'[y] = line_buf[y + 1] /\ line_buf[y + 1] \notin Enders
  <2>1. sh.i - 1 \in 0 .. TOKENSZ - 1 /\ sh.i - 1 # e
      BY <1>2, <1>4
  <2>2. tokens'[sh.i - 1] = NULL
      BY <1>2, <1>6, <2>1
  <2>3. ASSUME NEW y \in e + 1 .. sh.i - 2 PROVE tokens'[y] = line_buf[y + 1] /\ line_buf[y + 1] \notin Enders
    <3>1. y \in sh.c .. sh.i - 2 /\ y # e /\ y \in 0 .. TOKENSZ - 1
        BY <1>2, <1>4
    <3> QED BY <1>2, <1>6, <3>1
  <2> QED BY <2>2, <2>3
<1>11. CommandSplit'
  <2>1. sh'.c < Stop' /\ tokens'[Stop' - 1] = NULL
      BY <1>4, <1>5, <1>6, <1>8
  <2>2. \A y \in sh'.c .. Stop' - 2 : tokens'[y] = line_buf'[y + 1] /\ line_buf'[y + 1] \notin Stops
      BY <1>1, <1>4, <1>5, <1>8, <1>9
  <2>3. line_buf'[sh'.n] = "|" /\ sh'.n < sh'.i /\ sh'.pc # "waitpid"
      BY <1>1, <1>5, <1>7, <1>8
  <2>4. Rest(sh.n)'
      BY <1>1, <1>5, <1>10 DEF Rest
  <2> QED BY <2>1, <2>2, <2>3, <2>4 DEF CommandSplit
<1>12. PipelineSplit'
    BY <1>1, <1>2, <1>5, <1>11 DEF PipelineSplit
<1>13. /\ \A y \in sh.i .. line_len - 1 : tokens[y] = line_buf[y + 1]
       /\ sh.i > 0 => line_buf[sh.i] \in Enders
    BY <1>1 DEF SplitInv, LineSplit
<1>14. ASSUME NEW y \in sh.i .. line_len - 1 PROVE tokens'[y] = line_buf[y + 1]
  <2>1. y \in 0 .. TOKENSZ - 1 /\ y # e
      BY <1>2, <1>4
  <2> QED BY <1>6, <1>13, <2>1
<1>15. LineSplit'
    BY <1>1, <1>5, <1>12, <1>13, <1>14 DEF LineSplit
<1> QED BY <1>1, <1>2, <1>5, <1>15 DEF SplitInv, NewLineLast

\* The last command of the pipeline is what was typed up to its end.
LEMMA LastSplits == ASSUME ShellInv, SplitInv, Plain, PipeLast PROVE SplitInv'
<1> DEFINE e == Find(sh.c, Bar)
<1>1. /\ sh.pc = "pipe" /\ UNCHANGED <<line_buf, line_len, tokens>> /\ tokens[e] = NULL
      /\ sh' = [sh EXCEPT !.pc = "simple", !.post = <<>>]
    BY Zenon DEF PipeLast, input, Bar
<1>2. /\ sh.c \in Nat /\ sh.i \in Nat /\ sh.c < sh.i /\ sh.i <= line_len /\ line_len < TOKENSZ /\ TOKENSZ \in Nat
      /\ line_len \in Nat /\ sh \in ShellType /\ TokensTyped /\ PipelineSplit /\ NewLineLast
      /\ tokens[sh.i - 1] = NULL
      /\ \A y \in sh.c .. sh.i - 2 : tokens[y] = line_buf[y + 1] /\ line_buf[y + 1] \notin Enders \cup {NULL, "&"}
    BY <1>1, Ahead
<1>3. e \in sh.c .. sh.i - 1 /\ \A y \in sh.c .. e - 1 : tokens[y] \notin Bar
  <2>1. sh.i - 1 \in 0 .. TOKENSZ - 1 /\ sh.c <= sh.i - 1
      BY <1>2
  <2>2. PICK n, c : n = sh.i - 1 /\ c = sh.c
      OBVIOUS
  <2>3. TokensTyped /\ c \in Nat /\ n \in 0 .. TOKENSZ - 1 /\ c <= n /\ tokens[n] \in Bar
      BY <1>2, <2>1, <2>2 DEF Bar
  <2>4. Find(c, Bar) \in c .. n /\ \A y \in c .. Find(c, Bar) - 1 : tokens[y] \notin Bar
      BY ONLY <2>3, Found
  <2> QED BY <2>2, <2>4
<1> HIDE DEF e
<1>4. e = sh.i - 1
  <2>1. e \notin sh.c .. sh.i - 2
      BY <1>1, <1>2
  <2> QED BY <1>2, <1>3, <2>1
<1>5. /\ sh'.pc = "simple" /\ sh'.i = sh.i /\ sh'.c = sh.c /\ sh'.pre = sh.pre /\ sh'.bg = sh.bg /\ sh'.post = <<>>
    BY ONLY <1>1, <1>2 DEF ShellType
<1>6. Stop' = sh.i
    BY <1>5 DEF Stop
<1>7. ASSUME NEW y \in sh.c .. sh.i - 2 PROVE tokens[y] = line_buf[y + 1] /\ line_buf[y + 1] \notin Stops
  <2>1. y \in sh.c .. e - 1
      BY <1>2, <1>4
  <2>2. tokens[y] = line_buf[y + 1] /\ line_buf[y + 1] \notin Enders \cup {"|", "&"}
      BY <1>2, <1>3, <2>1 DEF Bar
  <2> QED BY <2>2, StopsAre
<1>8. CommandSplit'
    BY <1>1, <1>2, <1>5, <1>6, <1>7 DEF CommandSplit
<1>9. PipelineSplit'
    BY <1>1, <1>2, <1>5, <1>8 DEF PipelineSplit
<1>10. LineSplit'
    BY <1>1, <1>5, <1>9 DEF SplitInv, LineSplit
<1> QED BY <1>1, <1>2, <1>5, <1>10 DEF SplitInv, NewLineLast

\* The command at hand, in the table of tokens and in the line.
AtCommand ==
    /\ sh.c \in Nat /\ Stop \in Nat /\ sh.c < Stop /\ Stop <= line_len /\ line_len < TOKENSZ /\ TOKENSZ \in Nat
    /\ line_len \in Nat /\ line_buf \in Seq(Text) /\ Len(line_buf) = line_len
    /\ sh \in ShellType /\ TokensTyped /\ PipelineSplit /\ CommandSplit /\ NewLineLast
    /\ sh.c = 0 \/ line_buf[sh.c] \in Stops
    /\ sh.pre # <<>> <=> sh.c > 0 /\ line_buf[sh.c] = "|"
    /\ line_buf[Stop] \in Stops /\ (sh.post # <<>> <=> line_buf[Stop] = "|")
    /\ tokens[Stop - 1] = NULL
    /\ \A y \in sh.c .. Stop - 2 :
          tokens[y] = line_buf[y + 1] /\ line_buf[y + 1] \notin Stops /\ line_buf[y + 1] # NULL /\ line_buf[y + 1] \notin Builtins

\* What is known of it while the line is plain.
LEMMA CommandAt == ASSUME ShellInv, SplitInv, Plain, InCommand PROVE AtCommand
<1>1. /\ TOKENSZ \in Nat /\ line_len \in 0 .. TOKENSZ - 1 /\ line_len \in Nat /\ sh.i \in Nat /\ sh.i <= line_len
      /\ sh.c \in 0 .. TOKENSZ /\ sh.n \in 0 .. TOKENSZ /\ sh \in ShellType /\ TokensTyped
    BY Places DEF InCommand
<1>2. LineSplit /\ NewLineLast
    BY DEF SplitInv, InCommand
<1>3. PipelineSplit
    BY <1>2 DEF LineSplit, InCommand
<1>4. CommandSplit
    BY <1>3 DEF PipelineSplit
<1>5. line_buf \in Seq(Text) /\ Len(line_buf) = line_len
    BY PlainWords
<1>6. sh.c \in Nat /\ Stop \in Nat /\ sh.c < Stop /\ Stop <= line_len
    BY <1>1, <1>4 DEF Stop, CommandSplit
<1>7. sh.c = 0 \/ line_buf[sh.c] \in Stops
    BY <1>3, <1>6, StopsAre DEF PipelineSplit
<1>8. line_buf[Stop] \in Stops /\ (sh.post # <<>> <=> line_buf[Stop] = "|")
  <2>1. CASE sh.post = <<>>
    <3>1. line_buf[sh.i] \in Enders
        BY <1>2, <1>6, <2>1 DEF LineSplit, Stop
    <3> QED BY <2>1, <3>1, StopsAre DEF Stop
  <2>2. CASE sh.post # <<>>
      BY <1>4, <2>2, StopsAre DEF Stop, CommandSplit
  <2> QED BY <2>1, <2>2
<1>9. ASSUME NEW y \in sh.c .. Stop - 2
      PROVE  tokens[y] = line_buf[y + 1] /\ line_buf[y + 1] \notin Stops /\ line_buf[y + 1] # NULL /\ line_buf[y + 1] \notin Builtins
  <2>1. y + 1 \in 1 .. line_len
      BY <1>1, <1>6
  <2> QED BY <1>4, <2>1, PlainWords DEF CommandSplit
<1>10. sh.pre # <<>> <=> sh.c > 0 /\ line_buf[sh.c] = "|"
    BY <1>3 DEF PipelineSplit
<1>11. tokens[Stop - 1] = NULL
    BY <1>4 DEF CommandSplit
<1> QED BY <1>1, <1>2, <1>3, <1>4, <1>5, <1>6, <1>7, <1>8, <1>9, <1>10, <1>11 DEF AtCommand

\* Its words are those of the line, and none is a built-in command.
LEMMA CommandWords ==
    ASSUME AtCommand
    PROVE  /\ Words(sh.c) = [y \in 1 .. Stop - sh.c - 1 |-> line_buf[sh.c + y]]
           /\ tokens[sh.c] \notin Builtins
           /\ Words(sh.c) # <<>> => sh.c + 1 < Stop
<1> DEFINE n == Find(sh.c, {NULL})
<1>1. /\ sh.c \in Nat /\ Stop \in Nat /\ sh.c < Stop /\ Stop <= line_len /\ line_len < TOKENSZ /\ TOKENSZ \in Nat
      /\ line_len \in Nat /\ TokensTyped /\ tokens[Stop - 1] = NULL
    BY DEF AtCommand
<1>2. ASSUME NEW y \in sh.c .. Stop - 2 PROVE tokens[y] = line_buf[y + 1] /\ tokens[y] # NULL /\ tokens[y] \notin Builtins
    BY DEF AtCommand
<1>3. n \in sh.c .. Stop - 1 /\ tokens[n] = NULL
  <2>1. Stop - 1 \in 0 .. TOKENSZ - 1 /\ sh.c <= Stop - 1 /\ tokens[Stop - 1] \in {NULL}
      BY <1>1
  <2>2. n \in sh.c .. Stop - 1 /\ tokens[n] \in {NULL}
      BY <1>1, <2>1, Found
  <2> QED BY <2>2
<1>4. Words(sh.c) = [x \in 1 .. n - sh.c |-> tokens[sh.c + x - 1]]
    BY DEF Words
<1> HIDE DEF n
<1>5. n = Stop - 1
  <2>1. n \notin sh.c .. Stop - 2
      BY <1>2, <1>3
  <2> QED BY <1>1, <1>3, <2>1
<1>6. n - sh.c = Stop - sh.c - 1
    BY <1>1, <1>5
<1>7. ASSUME NEW y \in 1 .. Stop - sh.c - 1 PROVE tokens[sh.c + y - 1] = line_buf[sh.c + y]
  <2>1. sh.c + y - 1 \in sh.c .. Stop - 2 /\ sh.c + y - 1 + 1 = sh.c + y
      BY <1>1
  <2> QED BY <1>2, <2>1
<1>8. Words(sh.c) = [y \in 1 .. Stop - sh.c - 1 |-> line_buf[sh.c + y]]
    BY <1>4, <1>6, <1>7
<1>9. tokens[sh.c] \notin Builtins
  <2>1. CASE sh.c = Stop - 1
      BY <1>1, <2>1, StopsAre
  <2>2. CASE sh.c # Stop - 1
    <3>1. sh.c \in sh.c .. Stop - 2
        BY <1>1, <2>2
    <3> QED BY <1>2, <3>1
  <2> QED BY <2>1, <2>2
<1>10. ASSUME Words(sh.c) # <<>> PROVE sh.c + 1 < Stop
  <2> SUFFICES ASSUME sh.c + 1 = Stop PROVE FALSE
      BY <1>1
  <2>1. 1 .. Stop - sh.c - 1 = {}
      BY <1>1
  <2> QED BY <1>8, <1>10, <2>1
<1> QED BY <1>8, <1>9, <1>10

\* fork() takes a command that has words.
LEMMA ForkSplits == ASSUME ShellInv, SplitInv, Plain, Fork, sh'.pc = "waitpid" PROVE SplitInv' /\ UNCHANGED <<line_buf, line_len, tokens>>
<1>1. /\ sh.pc = "simple" /\ Words(sh.c) # <<>> /\ UNCHANGED <<line_buf, line_len, tokens>>
      /\ sh' = [sh EXCEPT !.pc = "exited"] \/ \E v : sh' = [sh EXCEPT !.pc = "waitpid", !.pid = v]
    BY DEF Fork, ShellExits, input
<1>2. AtCommand
    BY <1>1, CommandAt DEF InCommand
<1>3. sh \in ShellType /\ PipelineSplit /\ CommandSplit /\ NewLineLast /\ sh.c + 1 < Stop
    BY <1>1, <1>2, CommandWords DEF AtCommand
<1>4. sh'.i = sh.i /\ sh'.c = sh.c /\ sh'.n = sh.n /\ sh'.pre = sh.pre /\ sh'.post = sh.post /\ sh'.bg = sh.bg
    BY ONLY <1>1, <1>3 DEF ShellType
<1>5. CommandSplit'
  <2>1. Stop' = Stop /\ (\A x : Rest(x)' = Rest(x))
      BY <1>1, <1>4 DEF Stop, Rest
  <2> QED BY <1>1, <1>3, <1>4, <2>1 DEF CommandSplit, Rest, Stop
<1>6. PipelineSplit'
    BY <1>1, <1>3, <1>4, <1>5 DEF PipelineSplit
<1>7. LineSplit'
    BY <1>1, <1>4, <1>6 DEF SplitInv, LineSplit
<1> QED BY <1>1, <1>3, <1>7 DEF SplitInv, NewLineLast

\* The shell goes on with the next command of the pipeline, or of the list.
LEMMA AfterSplits == ASSUME ShellInv, SplitInv, Plain, AfterFork PROVE SplitInv' /\ AtCommand /\ sh' = Advance(sh) /\ ~sh.bg
<1>1. sh.pc = "waitpid" /\ UNCHANGED <<line_buf, line_len, tokens>> /\ sh' = Advance(sh)
    BY DEF AfterFork, input
<1>2. AtCommand
    BY <1>1, CommandAt DEF InCommand
<1>3. /\ sh \in ShellType /\ PipelineSplit /\ CommandSplit /\ NewLineLast /\ ~sh.bg /\ sh.c \in Nat /\ Stop \in Nat
      /\ sh.c < Stop /\ sh.pc # "list"
    BY <1>1, <1>2 DEF AtCommand, PipelineSplit
<1>4. LineSplit
    BY <1>1 DEF SplitInv
<1>5. CASE sh.post = <<>>
  <2>1. sh' = [sh EXCEPT !.pc = "list", !.run = NULL, !.pid = Shell]
      BY <1>1, <1>5 DEF Advance
  <2>2. sh'.pc = "list" /\ sh'.i = sh.i
      BY ONLY <1>3, <2>1 DEF ShellType
  <2>3. LineSplit'
      BY <1>1, <1>4, <2>2 DEF LineSplit
  <2> QED BY <1>1, <1>2, <1>3, <2>2, <2>3 DEF SplitInv, NewLineLast
<1>6. CASE sh.post # <<>>
  <2>1. sh' = [sh EXCEPT !.pc = "pipe", !.c = sh.n, !.pre = sh.post, !.run = NULL, !.pid = Shell]
      BY <1>1, <1>6 DEF Advance
  <2>2. sh'.pc = "pipe" /\ sh'.i = sh.i /\ sh'.c = sh.n /\ sh'.pre = sh.post /\ sh'.bg = sh.bg
      BY ONLY <1>3, <2>1 DEF ShellType
  <2>3. line_buf[sh.n] = "|" /\ sh.n < sh.i /\ Rest(sh.n) /\ Stop = sh.n
      BY <1>3, <1>6 DEF CommandSplit, Stop
  <2>4. Rest(sh.c)'
      BY <1>1, <2>2, <2>3 DEF Rest
  <2>5. sh.n > 0
      BY <1>3, <2>3
  <2>6. PipelineSplit'
      BY <1>1, <1>3, <1>6, <2>2, <2>3, <2>4, <2>5 DEF PipelineSplit, InCommand
  <2>7. LineSplit'
      BY <1>1, <1>4, <2>2, <2>6 DEF LineSplit
  <2> QED BY <1>1, <1>2, <1>3, <2>2, <2>7 DEF SplitInv, NewLineLast
<1> QED BY <1>5, <1>6

\* What leaves the shell and its line alone.
LEMMA SameSplits == ASSUME SplitInv, UNCHANGED <<sh, line_buf, line_len, tokens>> PROVE SplitInv'
BY DEF SplitInv, NewLineLast, Plain, LineSplit, PipelineSplit, CommandSplit, InCommand, Rest, Stop

\* Every step keeps the line split as it was typed.
LEMMA SplitKeeps == ASSUME ShellInv, SplitInv, [Next]_vars PROVE SplitInv'
<1>1. sh \in ShellType
    BY DEF ShellInv, ShellTypes, ShTyped
<1> DEFINE Busy == sh.pc \in {"list", "pipe", "simple", "builtin", "waitpid"} /\ UNCHANGED <<line_buf, line_len>>
<1>2. ShellExits => SplitInv'
  <2> SUFFICES ASSUME ShellExits PROVE SplitInv'
      OBVIOUS
  <2>1. sh'.pc = "exited"
      BY <1>1 DEF ShellExits, ShellType
  <2> QED BY <2>1, QuietSplits
<1>3. CASE Prompt
  <2>1. CASE sh' = [sh EXCEPT !.pc = "readline"]
    <3>1. sh'.pc = "readline"
        BY <1>1, <2>1 DEF ShellType
    <3> QED BY <3>1, QuietSplits
  <2> QED BY <1>2, <1>3, <2>1 DEF Prompt
<1>4. CASE ReadLine
    BY <1>4, ReadSplits
<1>5. CASE ReadEof
    BY <1>2, <1>5 DEF ReadEof
<1>6. CASE yylex
    BY <1>6, LexSplits
<1>7. CASE do_list_cmd
  <2>1. Plain => SplitInv'
    <3> SUFFICES ASSUME Plain PROVE SplitInv'
        OBVIOUS
    <3>1. PICK e : e = Find(sh.i, Separators)
        OBVIOUS
    <3> QED BY ONLY ShellInv, SplitInv, Plain, <1>7, <3>1, ListSplits
  <2>2. Busy
      BY <1>7 DEF do_list_cmd, input
  <2> QED BY <2>1, <2>2, OtherSplits
<1>8. CASE ListDone
  <2>1. sh'.pc = "prompt"
      BY <1>1, <1>8 DEF ListDone, ShellType
  <2> QED BY <2>1, QuietSplits
<1>9. CASE PipeCommand
  <2>1. sh'.post # <<>>
      BY <1>1, <1>9 DEF PipeCommand, ShellType
  <2>2. Plain => SplitInv'
      BY <1>9, <2>1, CommandSplits
  <2>3. Busy
      BY <1>9 DEF PipeCommand, input
  <2> QED BY <2>2, <2>3, OtherSplits
<1>10. CASE PipeLast
  <2>1. Plain => SplitInv'
      BY <1>10, LastSplits
  <2>2. Busy
      BY <1>10 DEF PipeLast, input
  <2> QED BY <2>1, <2>2, OtherSplits
<1>11. CASE EmptyCommand
    BY <1>2, <1>11 DEF EmptyCommand
<1>12. CASE Builtin
  <2>1. Busy /\ sh.pc = "simple" /\ tokens[sh.c] \in Builtins
      BY <1>12 DEF Builtin, input
  <2>2. ~Plain
      BY <2>1, CommandAt, CommandWords DEF InCommand
  <2> QED BY <2>1, <2>2, OtherSplits
<1>13. CASE BuiltinRun
  <2>1. Busy /\ sh.pc = "builtin"
      BY <1>13 DEF BuiltinRun, input
  <2>2. ~Plain
      BY <2>1 DEF SplitInv, LineSplit
  <2> QED BY <2>1, <2>2, OtherSplits
<1>14. CASE Fork
  <2>1. ShellExits \/ \E v : sh' = [sh EXCEPT !.pc = "waitpid", !.pid = v]
      BY <1>14 DEF Fork
  <2>2. CASE \E v : sh' = [sh EXCEPT !.pc = "waitpid", !.pid = v]
    <3>1. sh'.pc = "waitpid"
        BY <1>1, <2>2 DEF ShellType
    <3>2. Plain => SplitInv'
        BY <1>14, <3>1, ForkSplits
    <3>3. Busy
        BY <1>14 DEF Fork, input
    <3> QED BY <3>2, <3>3, OtherSplits
  <2> QED BY <1>2, <2>1, <2>2
<1>15. CASE AfterFork
  <2>1. Plain => SplitInv'
      BY <1>15, AfterSplits
  <2>2. Busy
      BY <1>15 DEF AfterFork, input
  <2> QED BY <2>1, <2>2, OtherSplits
<1>16. CASE \E p \in Pids : Child(p)
  <2>1. UNCHANGED <<sh, line_buf, line_len, tokens>>
      BY <1>16 DEF Child, ChildStart, ProgramWrites, ProgramReads, ProgramEnds, input
  <2> QED BY <2>1, SameSplits
<1>17. CASE UNCHANGED vars
    BY <1>17, SameSplits DEF vars, input
<1> QED BY <1>3, <1>4, <1>5, <1>6, <1>7, <1>8, <1>9, <1>10, <1>11, <1>12, <1>13, <1>14, <1>15, <1>16, <1>17 DEF Next, ShellStep

-----------------------------------------------------------------------------
(* What a line has printed so far *)

\* While the line at hand is the only one at work.
Others      == \A p \in Pids : proc[p].st # "none" => sh.pc = "waitpid" /\ p = sh.pid
Undisturbed == Intact /\ Plain /\ Others

\* What the text says up to a position, and of the command at hand.
Printed(x) == Reading(line_buf)[x].printed
Piped(x)   == Reading(line_buf)[x].piped
Given      == IF sh.pre = <<>> THEN 0 ELSE Piped(sh.c)
Due        == Sends(Command(line_buf, sh.c + 1), Given)

\* The pipes before and behind it.
Before == fds[Shell][sh.pre[1]].id
Behind == fds[Shell][sh.post[1]].id

\* What has come out of the command so far.
Sent == IF sh.post = <<>> THEN out - Printed(sh.c) ELSE full[Behind]

\* What it has still to send.
Owed(p) == IF fds[p][1] = file THEN 0
           ELSE proc[p].left + (IF proc[p].st = "cat" /\ fds[p][0].kind = "r" THEN full[fds[p][0].id] ELSE 0)

\* The child is a copy of the shell; the program writes to a file or where the shell meant it to.
Copied(p) ==
    /\ proc[p].cmd = Command(line_buf, sh.c + 1) /\ proc[p].pre = sh.pre /\ proc[p].post = sh.post
    /\ fds[p] = fds[Shell]
    /\ Sent = 0
    /\ sh.pre # <<>> => full[Before] = Given
Connected(p) ==
    /\ fds[p][1] = file \/ fds[p][1] = (IF sh.post = <<>> THEN tty ELSE fds[Shell][sh.post[2]])
    /\ sh.pre # <<>> /\ fds[p][0].kind = "r" => fds[p][0].id = Before
    /\ fds[p][0].kind = "r" => sh.pre # <<>>
    /\ Sent + Owed(p) = Due

Running ==
    /\ sh.post # <<>> => out = Printed(sh.c)
    /\ proc[sh.pid].st = "child" => Copied(sh.pid)
    /\ proc[sh.pid].st \in Programs => Connected(sh.pid)
    /\ proc[sh.pid].st = "zombie" => Sent = Due
    /\ proc[sh.pid].st # "none"

OutInv ==
    Undisturbed =>
        /\ sh.pc = "list" => out = Printed(sh.i)
        /\ sh.pc \in {"pipe", "simple"} => out = Printed(sh.c) /\ (sh.pre # <<>> => full[Before] = Given)
        /\ sh.pc = "simple" => (sh.post # <<>> => full[Behind] = 0)
        /\ sh.pc = "waitpid" => Running

\* What the text says of a line has its type.
LEMMA SaidTyped == ASSUME ShellInv PROVE \A x \in 0 .. line_len : Reading(line_buf)[x] \in ReadType /\ Printed(x) \in Nat /\ Piped(x) \in Nat
<1>1. Len(line_buf) = line_len /\ Len(line_buf) \in Nat
  <2>1. line_buf \in Seq(Text) /\ line_len = Len(line_buf)
      BY DEF ShellInv, ShellTypes, LineTyped
  <2> QED BY <2>1
<1>2. \A x \in 0 .. line_len : Reading(line_buf)[x] \in ReadType
    BY <1>1, ReadingTyped
<1> QED BY <1>2 DEF Printed, Piped, ReadType

\* What the text says of the command at hand.
LEMMA SaidOf ==
    ASSUME ShellInv, AtCommand, sh.c + 1 < Stop
    PROVE  /\ Command(line_buf, sh.c + 1) = [y \in 1 .. Stop - sh.c - 1 |-> line_buf[sh.c + y]]
           /\ Printed(sh.c) \in Nat /\ Given \in Nat /\ Due \in Nat
           /\ sh.post = <<>> => Printed(Stop) = Printed(sh.c) + Due
           /\ sh.post # <<>> => Printed(Stop) = Printed(sh.c) /\ Piped(Stop) = Due
<1>1. /\ sh.c \in Nat /\ Stop \in Nat /\ line_buf \in Seq(Text) /\ Len(line_buf) = line_len /\ line_len \in Nat
      /\ sh.c < Stop /\ Stop <= line_len
      /\ sh.c = 0 \/ line_buf[sh.c] \in Stops
      /\ sh.pre # <<>> <=> sh.c > 0 /\ line_buf[sh.c] = "|"
      /\ line_buf[Stop] \in Stops /\ (sh.post # <<>> <=> line_buf[Stop] = "|")
      /\ \A y \in sh.c .. Stop - 2 : line_buf[y + 1] \notin Stops
    BY DEF AtCommand
<1>2. \A y \in sh.c + 1 .. Stop - 1 : line_buf[y] \notin Stops
  <2> SUFFICES ASSUME NEW y \in sh.c + 1 .. Stop - 1 PROVE line_buf[y] \notin Stops
      OBVIOUS
  <2>1. y - 1 \in sh.c .. Stop - 2 /\ y - 1 + 1 = y
      BY <1>1
  <2> QED BY <1>1, <2>1
<1>3. Given = (IF sh.c > 0 /\ line_buf[sh.c] = "|" THEN Reading(line_buf)[sh.c].piped ELSE 0)
    BY <1>1 DEF Given, Piped
<1>4. /\ Reading(line_buf)[sh.c] \in ReadType /\ Printed(sh.c) \in Nat /\ Piped(sh.c) \in Nat
    BY <1>1, SaidTyped
<1>5. Given \in Nat
    BY <1>4 DEF Given
<1>6. Due \in Nat
    BY <1>5, SendsNat DEF Due
<1>7. Due = Sends(Command(line_buf, sh.c + 1), Given)
    BY DEF Due
<1> HIDE DEF Due, Given
<1>8. /\ Command(line_buf, sh.c + 1) = [y \in 1 .. Stop - sh.c - 1 |-> line_buf[sh.c + y]]
      /\ Reading(line_buf)[Stop] = IF line_buf[Stop] = "|" THEN [Reading(line_buf)[sh.c] EXCEPT !.piped = Due]
                                                           ELSE [Reading(line_buf)[sh.c] EXCEPT !.printed = @ + Due]
  <2>1. PICK l, c, stop, given, sent : l = line_buf /\ c = sh.c /\ stop = Stop /\ given = Given /\ sent = Due
      OBVIOUS
  <2>2. IsCommand(l, c, stop, given, sent)
      BY <1>1, <1>2, <1>3, <1>7, <2>1 DEF IsCommand
  <2>3. ReadsAs(l, c, stop, sent)
      BY ONLY <2>2, ReadCommand
  <2> QED BY <2>1, <2>3 DEF ReadsAs
<1>9. CASE sh.post = <<>>
  <2>1. Reading(line_buf)[Stop] = [Reading(line_buf)[sh.c] EXCEPT !.printed = @ + Due]
      BY <1>1, <1>8, <1>9
  <2> QED BY <1>4, <1>5, <1>6, <1>8, <1>9, <2>1 DEF Printed, ReadType
<1>10. CASE sh.post # <<>>
  <2>1. Reading(line_buf)[Stop] = [Reading(line_buf)[sh.c] EXCEPT !.piped = Due]
      BY <1>1, <1>8, <1>10
  <2> QED BY <1>4, <1>5, <1>6, <1>8, <1>10, <2>1 DEF Printed, Piped, ReadType
<1> QED BY <1>9, <1>10

\* Steps after which the shell is in no line.
LEMMA QuietOut == sh'.pc \in {"prompt", "readline", "yylex", "overrun", "exited", "builtin"} => OutInv'
BY DEF OutInv

\* At the beginning of a line nothing has been printed.
LEMMA LexOut == ASSUME ShellInv, yylex PROVE OutInv'
<1>1. sh \in ShellType
    BY DEF ShellInv, ShellTypes, ShTyped
<1>2. CASE sh' = [sh EXCEPT !.pc = "overrun"]
  <2>1. sh'.pc = "overrun"
      BY <1>1, <1>2 DEF ShellType
  <2> QED BY <2>1, QuietOut
<1>3. CASE sh' = [sh EXCEPT !.pc = "list", !.i = 0]
  <2>1. sh'.pc = "list" /\ sh'.i = 0
      BY <1>1, <1>3 DEF ShellType
  <2>2. Len(line_buf) \in Nat
    <3>1. line_buf \in Seq(Text)
        BY DEF ShellInv, ShellTypes, LineTyped
    <3> QED BY <3>1
  <2>3. Reading(line_buf)[0] = Unread
      BY <2>2, ReadingIs
  <2>4. line_buf' = line_buf /\ out' = 0
      BY DEF yylex, input
  <2>5. Printed(0)' = 0
      BY <2>3, <2>4 DEF Printed, Unread
  <2>6. (out = Printed(sh.i))'
      BY <2>1, <2>4, <2>5 DEF Printed
  <2> QED BY <2>1, <2>6 DEF OutInv
<1> QED BY <1>2, <1>3 DEF yylex

\* What has been printed stays the same while the shell goes on in its line.
LEMMA SamePeace ==
    ASSUME UNCHANGED <<line_buf, proc>>, \A x \in 0 .. 2 : fds'[Shell][x] = fds[Shell][x], sh.pc # "waitpid", sh'.pc # "waitpid"
    PROVE  Undisturbed' = Undisturbed
<1>1. Intact' = Intact /\ Plain' = Plain /\ Others' = Others
    BY DEF Intact, Plain, Others
<1> QED BY <1>1 DEF Undisturbed

\* An empty pipeline prints nothing.
LEMMA ListOut == ASSUME ShellInv, SplitInv, OutInv, do_list_cmd PROVE OutInv'
<1> SUFFICES ASSUME Undisturbed' PROVE OutInv'
    BY DEF OutInv
<1>1. sh.pc = "list" /\ UNCHANGED <<line_buf, line_len, fds, full, proc, out>>
    BY DEF do_list_cmd, input
<1>2. PICK e : e = Find(sh.i, Separators)
    OBVIOUS
<1>3. Plain
    BY <1>1 DEF Undisturbed, Plain
<1>4. /\ e \in sh.i .. line_len - 1 /\ line_buf[e + 1] \in Enders
      /\ sh'.i = e + 1 /\ sh'.pc = (IF e = sh.i THEN "list" ELSE "pipe") /\ sh'.c = sh.i /\ sh'.pre = <<>>
    BY ONLY ShellInv, SplitInv, <1>2, <1>3, do_list_cmd, ListSplits
<1>5. Undisturbed
    BY <1>1, <1>4, SamePeace
<1>6. out = Printed(sh.i)
    BY <1>1, <1>5 DEF OutInv
<1>7. line_len \in Nat /\ sh.i \in Nat /\ Len(line_buf) = line_len
    BY <1>1, <1>3, Places, PlainWords
<1>8. CASE e = sh.i
  <2>1. e + 1 \in 1 .. Len(line_buf) /\ e + 1 - 1 = sh.i
      BY <1>4, <1>7, <1>8
  <2>2. e + 1 \notin Starts(line_buf)
      BY <1>4, StopsAre DEF Starts
  <2>3. Reading(line_buf)[e + 1] = Reading(line_buf)[sh.i]
    <3>1. Reading(line_buf)[e + 1] = Reading(line_buf)[e + 1 - 1]
      <4>1. PICK l, x : l = line_buf /\ x = e + 1
          OBVIOUS
      <4>2. Len(l) \in Nat /\ x \in 1 .. Len(l) /\ x \notin Starts(l)
          BY <1>7, <2>1, <2>2, <4>1
      <4>3. Reading(l)[x] = Reading(l)[x - 1]
          BY ONLY <4>2, SkipWord
      <4> QED BY <1>4, <1>7, <4>1, <4>3
    <3> QED BY <2>1, <3>1
  <2>4. Printed(sh.i)' = Printed(sh.i)
      BY <1>1, <1>4, <2>3 DEF Printed
  <2> QED BY <1>1, <1>4, <1>6, <1>8, <2>4 DEF OutInv
<1>9. CASE e # sh.i
  <2>1. Printed(sh.c)' = Printed(sh.i)
      BY <1>1, <1>4 DEF Printed
  <2> QED BY <1>1, <1>4, <1>6, <1>9, <2>1 DEF OutInv
<1> QED BY <1>8, <1>9

\* A pipe that is made is empty, and the one before the command keeps what it holds.
LEMMA CommandOut == ASSUME ShellInv, OutInv, PipeCommand PROVE OutInv'
<1> DEFINE e == Find(sh.c, Bar)
           t == fds[Shell]
<1> SUFFICES ASSUME Undisturbed' PROVE OutInv'
    BY DEF OutInv
<1>1. /\ UNCHANGED <<line_buf, proc, out>> /\ sh.pc = "pipe" /\ sh \in ShellType /\ TablesTyped /\ FullTyped
      /\ t \in TableType /\ Cardinality(FreeFds(t)) >= 2 /\ TableAt("pipe", t, sh.pre, sh.post)
    BY DEF PipeCommand, input, ShellInv, ShellTypes, ShTyped, TablesTyped, Procs, ShellTable
<1>2. PICK r, w, n : /\ r = Min(FreeFds(t)) /\ w = Min(FreeFds(t) \ {r}) /\ MakePipe(r, w)
                     /\ sh' = [sh EXCEPT !.pc = "simple", !.n = n, !.post = <<r, w>>]
    BY DEF PipeCommand
<1>3. r \in Fd /\ w \in Fd /\ r # w /\ t[r] = closed /\ t[w] = closed
    BY <1>1, <1>2, TwoFree
<1>4. PICK k \in Pipes :
                /\ ~Open(File("r", k)) /\ ~Open(File("w", k))
                /\ full'[k] = 0 /\ \A j \in Pipes : j # k => full'[j] = full[j]
                /\ \A x \in Fd : fds'[Shell][x] = IF x = w THEN File("w", k) ELSE IF x = r THEN File("r", k) ELSE t[x]
    BY <1>1, <1>2, <1>3, PipeMade
<1>5. sh'.pc = "simple" /\ sh'.c = sh.c /\ sh'.pre = sh.pre /\ sh'.post = <<r, w>>
    BY ONLY <1>1, <1>2 DEF ShellType
<1>6. \A x \in 0 .. 2 : x \in Fd /\ x # r /\ x # w
    BY <1>1, <1>3, SizesAssumption DEF TableAt, Std, Fd
<1>7. Undisturbed
  <2>1. \A x \in 0 .. 2 : fds'[Shell][x] = t[x]
      BY <1>4, <1>6
  <2> QED BY <1>1, <1>5, <2>1, SamePeace
<1>8. out = Printed(sh.c) /\ (sh.pre # <<>> => full[Before] = Given)
    BY <1>1, <1>7 DEF OutInv
<1>9. Printed(sh.c)' = Printed(sh.c) /\ Given' = Given
    BY <1>1, <1>5 DEF Printed, Piped, Given
<1>10. full'[Behind'] = 0
  <2>1. fds'[Shell][r] = File("r", k)
      BY <1>3, <1>4
  <2>2. Behind' = k
      BY <1>5, <2>1 DEF Behind, File
  <2> QED BY <1>4, <2>2
<1>11. ASSUME sh.pre # <<>> PROVE full'[Before'] = full[Before]
  <2>1. sh.pre[1] \in Fd /\ t[sh.pre[1]].kind = "r" /\ t[sh.pre[1]] \in FileType
      BY <1>1, <1>11 DEF ShellType, Ends, TableAt, ReadEnd, TableType
  <2>2. t[sh.pre[1]] = File("r", Before) /\ Before \in Pipes
      BY <2>1, IsReadEnd DEF Before
  <2>3. Open(File("r", Before))
      BY <2>1, <2>2 DEF Open, Holds, Procs
  <2>4. Before # k
      BY <1>4, <2>3
  <2>5. sh.pre[1] # r /\ sh.pre[1] # w
      BY <1>3, <2>1 DEF closed, File
  <2>6. Before' = Before
      BY <1>4, <1>5, <2>1, <2>5 DEF Before
  <2> QED BY <1>4, <2>2, <2>4, <2>6
<1> QED BY <1>1, <1>5, <1>8, <1>9, <1>10, <1>11 DEF OutInv

\* The last command of a pipeline has no pipe behind it.
LEMMA LastOut == ASSUME ShellInv, OutInv, PipeLast PROVE OutInv'
<1> SUFFICES ASSUME Undisturbed' PROVE OutInv'
    BY DEF OutInv
<1>1. /\ UNCHANGED <<line_buf, fds, full, proc, out>> /\ sh.pc = "pipe" /\ sh \in ShellType
      /\ sh' = [sh EXCEPT !.pc = "simple", !.post = <<>>]
    BY DEF PipeLast, input, ShellInv, ShellTypes, ShTyped
<1>2. sh'.pc = "simple" /\ sh'.c = sh.c /\ sh'.pre = sh.pre /\ sh'.post = <<>>
    BY ONLY <1>1 DEF ShellType
<1>3. Undisturbed
    BY <1>1, <1>2, SamePeace
<1>4. Printed(sh.c)' = Printed(sh.c) /\ Given' = Given /\ Before' = Before
    BY <1>1, <1>2 DEF Printed, Piped, Given, Before
<1> QED BY <1>1, <1>2, <1>3, <1>4 DEF OutInv

\* The pipes before and behind a command are two, and the shell has both ends it needs.
LEMMA Held ==
    ASSUME ShellInv, sh.pc \in {"simple", "waitpid"}
    PROVE  /\ sh.pre # <<>> => sh.pre[1] \in Fd /\ fds[Shell][sh.pre[1]] = File("r", Before) /\ Before \in Pipes
           /\ sh.post # <<>> => /\ sh.post[1] \in Fd /\ fds[Shell][sh.post[1]] = File("r", Behind) /\ Behind \in Pipes
                                /\ sh.post[2] \in Fd /\ fds[Shell][sh.post[2]] = File("w", Behind)
           /\ sh.pre # <<>> /\ sh.post # <<>> => Before # Behind
           /\ TableAt("waitpid", fds[Shell], sh.pre, sh.post) /\ fds[Shell] \in TableType /\ sh \in ShellType
           /\ sh.pre \in Ends /\ sh.post \in Ends
<1> DEFINE t == fds[Shell]
<1>1. t \in TableType /\ sh \in ShellType /\ sh.pre \in Ends /\ sh.post \in Ends
    BY DEF ShellInv, ShellTypes, ShTyped, ShellType, TablesTyped, Procs
<1>2. ReadEnd(t, sh.pre) /\ ReadEnd(t, sh.post) /\ WriteEnd(t, sh.post) /\ Apart(t, sh.pre, sh.post)
    BY DEF ShellInv, ShellTable, TableAt
<1>3. TableAt("waitpid", t, sh.pre, sh.post)
    BY DEF ShellInv, ShellTable, TableAt
<1>4. \A x \in Fd : t[x] \in FileType
    BY <1>1 DEF TableType
<1>5. sh.pre # <<>> => sh.pre[1] \in Fd /\ t[sh.pre[1]] = File("r", Before) /\ Before \in Pipes
  <2> SUFFICES ASSUME sh.pre # <<>> PROVE sh.pre[1] \in Fd /\ t[sh.pre[1]] = File("r", Before) /\ Before \in Pipes
      OBVIOUS
  <2>1. sh.pre[1] \in Fd /\ t[sh.pre[1]].kind = "r"
      BY <1>1, <1>2 DEF Ends, ReadEnd
  <2> QED BY <1>4, <2>1, IsReadEnd DEF Before
<1>6. sh.post # <<>> => /\ sh.post[1] \in Fd /\ t[sh.post[1]] = File("r", Behind) /\ Behind \in Pipes
                        /\ sh.post[2] \in Fd /\ t[sh.post[2]] = File("w", Behind)
  <2> SUFFICES ASSUME sh.post # <<>>
               PROVE  /\ sh.post[1] \in Fd /\ t[sh.post[1]] = File("r", Behind) /\ Behind \in Pipes
                      /\ sh.post[2] \in Fd /\ t[sh.post[2]] = File("w", Behind)
      OBVIOUS
  <2>1. sh.post[1] \in Fd /\ t[sh.post[1]].kind = "r" /\ sh.post[2] \in Fd /\ t[sh.post[2]].kind = "w" /\ t[sh.post[2]].id = Behind
      BY <1>1, <1>2 DEF Ends, ReadEnd, WriteEnd, Behind
  <2>2. t[sh.post[1]] = File("r", Behind) /\ Behind \in Pipes
      BY <1>4, <2>1, IsReadEnd DEF Behind
  <2>3. t[sh.post[2]] = File("w", Behind)
      BY <1>4, <2>1 DEF FileType, closed, tty, file, File
  <2> QED BY <2>1, <2>2, <2>3
<1>7. sh.pre # <<>> /\ sh.post # <<>> => Before # Behind
  <2>1. sh.pre # <<>> /\ sh.post # <<>> => t[sh.pre[1]].id # t[sh.post[2]].id
      BY <1>2 DEF Apart
  <2>2. sh.post # <<>> => t[sh.post[2]].id = Behind
      BY <1>6 DEF File
  <2> QED BY <2>1, <2>2 DEF Before
<1> QED BY <1>1, <1>3, <1>5, <1>6, <1>7

\* fork() copies the command and the shell's descriptors.
LEMMA ForkOut == ASSUME ShellInv, SplitInv, OutInv, Fork PROVE OutInv'
<1> SUFFICES ASSUME Undisturbed' PROVE OutInv'
    BY DEF OutInv
<1> DEFINE free == {p \in Pids : proc[p].st = "none"}
           t == fds[Shell]
<1>1. /\ UNCHANGED <<line_buf, full, out>> /\ sh.pc = "simple" /\ Words(sh.c) # <<>> /\ sh \in ShellType
      /\ TablesTyped /\ ProcTyped /\ out \in Nat /\ Plain
    BY DEF Fork, input, ShellInv, ShellTypes, ShTyped, LineTyped, Undisturbed, Plain
<1>2. CASE ShellExits
  <2>1. sh'.pc = "exited"
      BY <1>1, <1>2 DEF ShellExits, ShellType
  <2> QED BY <2>1, QuietOut
<1>3. CASE /\ free # {}
           /\ proc' = [proc EXCEPT ![Min(free)] = [st |-> "child", cmd |-> Words(sh.c),
                                                   pre |-> sh.pre, post |-> sh.post, left |-> 0]]
           /\ fds' = [fds EXCEPT ![Min(free)] = t]
           /\ sh' = [sh EXCEPT !.pc = "waitpid", !.pid = Min(free)]
  <2>1. Min(free) \in free
      BY <1>3, PidAssumption, LeastIs
  <2>2. PICK q \in Pids : q = Min(free) /\ proc[q].st = "none"
      BY <2>1
  <2>3. q \in Procs /\ q # Shell /\ Shell \in Procs
      BY PidAssumption DEF Procs
  <2>4. PICK c : c = [st |-> "child", cmd |-> Words(sh.c), pre |-> sh.pre, post |-> sh.post, left |-> 0]
      OBVIOUS
  <2>5. c.st = "child" /\ c.cmd = Words(sh.c) /\ c.pre = sh.pre /\ c.post = sh.post
      BY <2>4
  <2>6. proc' = [proc EXCEPT ![q] = c] /\ fds' = [fds EXCEPT ![q] = t] /\ sh' = [sh EXCEPT !.pc = "waitpid", !.pid = q]
      BY <1>3, <2>2, <2>4
  <2>7. proc'[q] = c /\ \A p \in Pids : p # q => proc'[p] = proc[p]
      BY <1>1, <2>6 DEF ProcTyped
  <2>8. fds'[q] = t /\ fds'[Shell] = t
      BY <1>1, <2>3, <2>6 DEF TablesTyped
  <2>9. sh'.pc = "waitpid" /\ sh'.c = sh.c /\ sh'.pre = sh.pre /\ sh'.post = sh.post /\ sh'.pid = q
      BY ONLY <1>1, <2>6 DEF ShellType
  <2>10. Undisturbed
    <3>1. Intact
        BY <2>8 DEF Undisturbed, Intact
    <3>2. \A p \in Pids : proc[p].st = "none"
        BY <2>2, <2>7, <2>9 DEF Undisturbed, Others
    <3> QED BY <1>1, <3>1, <3>2 DEF Undisturbed, Others
  <2>11. /\ out = Printed(sh.c) /\ (sh.pre # <<>> => full[Before] = Given)
         /\ sh.post # <<>> => full[Behind] = 0
      BY <1>1, <2>10 DEF OutInv
  <2>12. AtCommand /\ sh.c + 1 < Stop /\ Words(sh.c) = Command(line_buf, sh.c + 1)
    <3>1. AtCommand
        BY <1>1, CommandAt DEF InCommand
    <3>2. sh.c + 1 < Stop /\ Words(sh.c) = [y \in 1 .. Stop - sh.c - 1 |-> line_buf[sh.c + y]]
        BY <1>1, <3>1, CommandWords
    <3> QED BY <3>1, <3>2, SaidOf
  <2>13. /\ Printed(sh.c)' = Printed(sh.c) /\ Given' = Given /\ Before' = Before /\ Behind' = Behind
         /\ Command(line_buf, sh.c + 1)' = Command(line_buf, sh.c + 1)
      BY <1>1, <2>8, <2>9 DEF Printed, Piped, Given, Before, Behind
  <2>14. Sent' = 0
      BY <1>1, <2>9, <2>11, <2>13 DEF Sent
  <2>15. proc'[q].cmd = Command(line_buf, sh.c + 1)' /\ proc'[q].pre = sh'.pre /\ proc'[q].post = sh'.post /\ fds'[q] = fds'[Shell]
      BY <2>5, <2>7, <2>8, <2>9, <2>12, <2>13
  <2>16. sh'.pre # <<>> => full'[Before'] = Given'
      BY <1>1, <2>9, <2>11, <2>13
  <2>17. Copied(sh.pid)'
      BY <2>9, <2>14, <2>15, <2>16 DEF Copied
  <2>18. proc'[sh'.pid].st = "child"
      BY <2>5, <2>7, <2>9
  <2>19. Running'
      BY <1>1, <2>9, <2>11, <2>13, <2>17, <2>18 DEF Running, Programs
  <2> QED BY <2>9, <2>19 DEF OutInv
<1> QED BY <1>2, <1>3 DEF Fork

\* A command that was waited for has sent all it should.
LEMMA AfterOut == ASSUME ShellInv, SplitInv, OutInv, AfterFork PROVE OutInv'
<1> SUFFICES ASSUME Undisturbed' PROVE OutInv'
    BY DEF OutInv
<1> DEFINE t == fds[Shell]
<1>1. /\ UNCHANGED <<line_buf, full, out>> /\ sh.pc = "waitpid" /\ TablesTyped /\ ProcTyped /\ out \in Nat /\ Plain
      /\ sh.pid \in Pids
    BY DEF AfterFork, input, ShellInv, ShellTypes, ShTyped, LineTyped, Undisturbed, Plain
<1>2. AtCommand /\ sh' = Advance(sh) /\ ~sh.bg
    BY <1>1, AfterSplits
<1>3. proc[sh.pid].st = "zombie" /\ proc' = [proc EXCEPT ![sh.pid] = None]
    BY <1>2 DEF AfterFork, waitpid
<1>4. /\ sh.pre \in Ends /\ sh.post \in Ends /\ t \in TableType /\ sh \in ShellType
      /\ TableAt("waitpid", t, sh.pre, sh.post)
    BY <1>1, Held
<1>5. PICK u : u = CloseEnds(t, sh.pre, sh.post)
    OBVIOUS
<1>6. (sh.post # <<>> => u[sh.post[1]] = t[sh.post[1]]) /\ \A x \in 0 .. 2 : u[x] = t[x]
    BY <1>4, <1>5, EndsClosed
<1>7. fds'[Shell] = u
  <2>1. fds' = [fds EXCEPT ![Shell] = u]
      BY <1>5 DEF AfterFork
  <2> QED BY <1>1, <2>1 DEF TablesTyped, Procs
<1>8. sh.c + 1 < Stop
    BY <1>1, <1>2 DEF AtCommand, CommandSplit
<1>9. /\ Printed(sh.c) \in Nat /\ Given \in Nat /\ Due \in Nat
      /\ sh.post = <<>> => Printed(Stop) = Printed(sh.c) + Due
      /\ sh.post # <<>> => Printed(Stop) = Printed(sh.c) /\ Piped(Stop) = Due
    BY <1>2, <1>8, SaidOf
<1>10. /\ sh.post = <<>> => sh'.pc = "list" /\ sh'.i = sh.i
       /\ sh.post # <<>> => sh'.pc = "pipe" /\ sh'.c = sh.n /\ sh'.pre = sh.post
  <2>1. CASE sh.post = <<>>
    <3>1. sh' = [sh EXCEPT !.pc = "list", !.run = NULL, !.pid = Shell]
        BY <1>2, <2>1 DEF Advance
    <3> QED BY ONLY <1>4, <2>1, <3>1 DEF ShellType
  <2>2. CASE sh.post # <<>>
    <3>1. sh' = [sh EXCEPT !.pc = "pipe", !.c = sh.n, !.pre = sh.post, !.run = NULL, !.pid = Shell]
        BY <1>2, <2>2 DEF Advance
    <3> QED BY ONLY <1>4, <2>2, <3>1 DEF ShellType
  <2> QED BY <2>1, <2>2
<1>11. Undisturbed
  <2>1. Intact
      BY <1>6, <1>7 DEF Undisturbed, Intact
  <2>2. sh'.pc # "waitpid"
      BY <1>10
  <2>3. \A p \in Pids : p # sh.pid => proc'[p] = proc[p]
      BY <1>3, <1>1 DEF ProcTyped
  <2>4. Others
      BY <1>1, <2>2, <2>3 DEF Undisturbed, Others
  <2> QED BY <1>1, <2>1, <2>4 DEF Undisturbed
<1>12. Sent = Due /\ (sh.post # <<>> => out = Printed(sh.c))
  <2>1. Running
      BY <1>1, <1>11 DEF OutInv
  <2> QED BY <1>3, <2>1 DEF Running
<1>13. CASE sh.post = <<>>
  <2>1. out = Printed(sh.i)
    <3>1. Stop = sh.i
        BY <1>13 DEF Stop
    <3>2. out - Printed(sh.c) = Due
        BY <1>12, <1>13 DEF Sent
    <3> QED BY <1>1, <1>9, <1>13, <3>1, <3>2
  <2>2. Printed(sh.i)' = Printed(sh.i)
      BY <1>1, <1>10, <1>13 DEF Printed
  <2> QED BY <1>1, <1>10, <1>13, <2>1, <2>2 DEF OutInv
<1>14. CASE sh.post # <<>>
  <2>1. Stop = sh.n
      BY <1>14 DEF Stop
  <2>2. Printed(sh.c)' = Printed(sh.n) /\ Given' = Piped(sh.n)
      BY <1>1, <1>10, <1>14 DEF Printed, Piped, Given
  <2>3. Before' = Behind
      BY <1>6, <1>7, <1>10, <1>14 DEF Before, Behind
  <2>4. full[Behind] = Due
      BY <1>12, <1>14 DEF Sent
  <2>5. out' = Printed(sh.c)' /\ full'[Before'] = Given'
      BY <1>1, <1>9, <1>12, <1>14, <2>1, <2>2, <2>3, <2>4
  <2> QED BY <1>10, <1>14, <2>5 DEF OutInv
<1> QED BY <1>13, <1>14

\* The standard descriptors of a program: the files it was redirected to, or the pipes.
LEMMA ChildEnds ==
    ASSUME ProcTyped, NEW p \in Pids, NEW t \in TableType, fds[p] = t, TableAt("waitpid", t, proc[p].pre, proc[p].post)
    PROVE  /\ ChildFds(p)[0] = IF Contains(proc[p].cmd, "<") THEN file
                               ELSE IF proc[p].pre = <<>> THEN t[0] ELSE t[proc[p].pre[1]]
           /\ ChildFds(p)[1] = IF Contains(proc[p].cmd, ">") THEN file
                               ELSE IF proc[p].post = <<>> THEN t[1] ELSE t[proc[p].post[2]]
<1> DEFINE c == proc[p]
           a == ConnectPre(t, c.pre)
           u == IF c.post = <<>> THEN a ELSE close(a, c.post[1])
           v == ConnectPost(u, c.post)
<1>1. 0 \in Fd /\ 1 \in Fd
    BY SizesAssumption DEF Fd
<1>2. c.pre \in Ends /\ c.post \in Ends
    BY DEF ProcTyped, ChildType
<1>3. /\ c.pre # <<>> => c.pre[1] \in Fd /\ c.pre[1] > 2 /\ t[c.pre[1]].kind = "r"
      /\ c.post # <<>> => /\ c.post[1] \in Fd /\ c.post[1] > 2 /\ t[c.post[1]].kind = "r"
                          /\ c.post[2] \in Fd /\ c.post[2] > 2 /\ t[c.post[2]].kind = "w"
    BY <1>2 DEF TableAt, ReadEnd, WriteEnd, Ends
<1>4. a \in TableType /\ \A x \in Fd : a[x] = IF c.pre = <<>> THEN t[x] ELSE IF x = c.pre[1] THEN closed
                                              ELSE IF x = 0 THEN t[c.pre[1]] ELSE t[x]
    BY <1>2, PreConnected
<1> HIDE DEF a
<1>5. u \in TableType /\ \A x \in Fd : u[x] = IF c.post # <<>> /\ x = c.post[1] THEN closed ELSE a[x]
  <2>1. CASE c.post = <<>>
      BY <1>4, <2>1
  <2>2. CASE c.post # <<>>
    <3>1. u = [a EXCEPT ![c.post[1]] = closed]
        BY <2>2 DEF close
    <3> QED BY <1>3, <1>4, <2>2, <3>1 DEF TableType, FileType
  <2> QED BY <2>1, <2>2
<1> HIDE DEF u
<1>6. v \in TableType /\ \A x \in Fd : v[x] = IF c.post = <<>> THEN u[x] ELSE IF x = c.post[2] THEN closed
                                              ELSE IF x = 1 THEN u[c.post[2]] ELSE u[x]
    BY <1>2, <1>5, PostConnected
<1> HIDE DEF v
<1>7. a[0] = (IF c.pre = <<>> THEN t[0] ELSE t[c.pre[1]]) /\ a[1] = t[1]
    BY <1>1, <1>3, <1>4
<1>8. u[0] = a[0] /\ u[1] = a[1]
    BY <1>1, <1>3, <1>5
<1>9. c.post # <<>> => u[c.post[2]] = t[c.post[2]]
    BY <1>3, <1>4, <1>5
<1>10. v[0] = u[0] /\ v[1] = IF c.post = <<>> THEN u[1] ELSE u[c.post[2]]
    BY <1>1, <1>3, <1>6
<1>11. ChildFds(p) = scan_redirect(v, c.cmd)
    BY DEF ChildFds, v, u, a
<1>12. /\ ChildFds(p)[0] = IF Contains(c.cmd, "<") THEN file ELSE v[0]
       /\ ChildFds(p)[1] = IF Contains(c.cmd, ">") THEN file ELSE v[1]
    BY <1>1, <1>11 DEF scan_redirect
<1> QED BY <1>7, <1>8, <1>9, <1>10, <1>12

\* While a line runs undisturbed, whoever takes a step is its command.
LEMMA AtWork ==
    ASSUME ShellInv, SplitInv, OutInv, Undisturbed', NEW p \in Pids, UNCHANGED <<line_buf, sh>>,
           fds'[Shell] = fds[Shell], proc[p].st # "none", proc'[p].st # "none", \A q \in Pids : q # p => proc'[q] = proc[q]
    PROVE  /\ Undisturbed /\ sh.pc = "waitpid" /\ p = sh.pid /\ Running
           /\ Printed(sh.c)' = Printed(sh.c) /\ Given' = Given /\ Before' = Before /\ Behind' = Behind /\ Due' = Due
           /\ Command(line_buf, sh.c + 1)' = Command(line_buf, sh.c + 1)
           /\ Printed(sh.c) \in Nat /\ Given \in Nat /\ Due \in Nat
           /\ (Running' => OutInv')
<1>1. Intact /\ Plain
    BY DEF Undisturbed, Intact, Plain
<1>2. Others
    BY DEF Undisturbed, Others
<1>3. sh.pc = "waitpid" /\ p = sh.pid
    BY <1>2 DEF Others
<1>4. Undisturbed
    BY <1>1, <1>2 DEF Undisturbed
<1>5. Running
    BY <1>3, <1>4 DEF OutInv
<1>6. AtCommand /\ sh.c + 1 < Stop
    BY <1>1, <1>3, CommandAt DEF InCommand, AtCommand, CommandSplit
<1>7. Printed(sh.c) \in Nat /\ Given \in Nat /\ Due \in Nat
    BY <1>6, SaidOf
<1>8. /\ Printed(sh.c)' = Printed(sh.c) /\ Given' = Given /\ Before' = Before /\ Behind' = Behind
      /\ Command(line_buf, sh.c + 1)' = Command(line_buf, sh.c + 1)
    BY DEF Printed, Piped, Given, Before, Behind
<1>9. Due' = Due
    BY <1>8 DEF Due
<1>10. Running' => OutInv'
    BY <1>3 DEF OutInv
<1> QED BY <1>3, <1>4, <1>5, <1>7, <1>8, <1>9, <1>10

\* A command that is over sends nothing more.
LEMMA EndOut ==
    ASSUME ShellInv, SplitInv, OutInv, NEW p \in Pids, Exit(p), UNCHANGED <<line_buf, sh, full, out>>, proc[p].st # "none",
           Undisturbed /\ Running => Sent = Due
    PROVE  OutInv'
<1> SUFFICES ASSUME Undisturbed' PROVE OutInv'
    BY DEF OutInv
<1>1. p \in Procs /\ Shell \in Procs /\ p # Shell
    BY PidAssumption DEF Procs
<1>2. PICK c : c = [None EXCEPT !.st = "zombie"]
    OBVIOUS
<1>3. c.st = "zombie"
    BY <1>2 DEF None
<1>4. proc' = [proc EXCEPT ![p] = c] /\ fds' = [fds EXCEPT ![p] = Nothing]
    BY <1>2 DEF Exit, Die
<1>5. proc'[p] = c /\ (\A q \in Pids : q # p => proc'[q] = proc[q]) /\ fds'[Shell] = fds[Shell]
    BY <1>1, <1>4 DEF ShellInv, ShellTypes, TablesTyped, ProcTyped
<1>6. /\ Undisturbed /\ sh.pc = "waitpid" /\ p = sh.pid /\ Running
      /\ Printed(sh.c)' = Printed(sh.c) /\ Behind' = Behind /\ Due' = Due
      /\ (Running' => OutInv')
    BY <1>3, <1>5, AtWork
<1>7. Sent' = Due'
  <2>1. Sent' = Sent
      BY <1>6 DEF Sent
  <2> QED BY <1>6, <2>1
<1>8. sh.post # <<>> => out' = Printed(sh.c)'
    BY <1>6 DEF Running
<1>9. proc'[sh'.pid].st = "zombie"
    BY <1>3, <1>5, <1>6
<1>10. Running'
    BY <1>7, <1>8, <1>9 DEF Running, Programs
<1> QED BY <1>6, <1>10

\* A child that runs its program owes what the text says.
LEMMA StartOut == ASSUME ShellInv, SplitInv, OutInv, NEW p \in Pids, ChildStart(p) PROVE OutInv'
<1> DEFINE cmd == proc[p].cmd
           prog == Argv(cmd)
           t == fds[Shell]
<1>1. /\ UNCHANGED <<line_buf, sh, full, out>> /\ proc[p].st = "child" /\ TablesTyped /\ ProcTyped /\ out \in Nat
      /\ p \in Procs /\ Shell \in Procs /\ p # Shell /\ 0 \in Fd /\ 1 \in Fd
    BY PidAssumption, SizesAssumption DEF ChildStart, input, ShellInv, ShellTypes, LineTyped, Procs, Fd
<1>2. CASE Exit(p) /\ (RedirectFails(cmd) \/ prog \notin Programs)
  <2>1. ASSUME Undisturbed, Running PROVE Sent = Due
    <3>1. p = sh.pid
        BY <1>1, <2>1 DEF Undisturbed, Others
    <3>2. Sent = 0 /\ cmd = Command(line_buf, sh.c + 1)
        BY <1>1, <2>1, <3>1 DEF Running, Copied
    <3>3. Sends(cmd, Given) = 0
        BY <1>2 DEF Sends, Programs
    <3> QED BY <3>2, <3>3 DEF Due
  <2> QED BY <1>1, <1>2, <2>1, EndOut
<1>3. CASE /\ ~RedirectFails(cmd) /\ prog \in Programs
           /\ fds' = [fds EXCEPT ![p] = ChildFds(p)]
           /\ proc' = [proc EXCEPT ![p] = [None EXCEPT !.st = prog, !.left = IF prog = "gen" THEN OutUnits ELSE 0]]
  <2> SUFFICES ASSUME Undisturbed' PROVE OutInv'
      BY DEF OutInv
  <2>1. PICK n : n = IF prog = "gen" THEN OutUnits ELSE 0
      OBVIOUS
  <2>2. PICK c : c = [None EXCEPT !.st = prog, !.left = n]
      OBVIOUS
  <2>3. c.st = prog /\ c.left = n /\ n \in Nat
      BY <2>1, <2>2, SizesAssumption DEF None
  <2>4. PICK u : u = ChildFds(p)
      OBVIOUS
  <2>5. fds' = [fds EXCEPT ![p] = u] /\ proc' = [proc EXCEPT ![p] = c]
      BY <1>3, <2>1, <2>2, <2>4
  <2>6. proc'[p] = c /\ (\A q \in Pids : q # p => proc'[q] = proc[q]) /\ fds'[Shell] = t /\ fds'[p] = u
      BY <1>1, <2>5 DEF TablesTyped, ProcTyped
  <2>7. c.st # "none" /\ c.st \in Programs
      BY <1>3, <2>3 DEF Programs
  <2>8. /\ Undisturbed /\ sh.pc = "waitpid" /\ p = sh.pid /\ Running
        /\ Printed(sh.c)' = Printed(sh.c) /\ Given' = Given /\ Before' = Before /\ Behind' = Behind /\ Due' = Due
        /\ Printed(sh.c) \in Nat /\ Given \in Nat /\ Due \in Nat
        /\ (Running' => OutInv')
      BY <1>1, <2>6, <2>7, AtWork
  <2>9. /\ cmd = Command(line_buf, sh.c + 1) /\ proc[p].pre = sh.pre /\ proc[p].post = sh.post
        /\ fds[p] = t /\ Sent = 0
        /\ sh.pre # <<>> => full[Before] = Given
      BY <1>1, <2>8 DEF Running, Copied
  <2>10. /\ sh.pre # <<>> => t[sh.pre[1]] = File("r", Before)
         /\ sh.post # <<>> => t[sh.post[2]] = File("w", Behind)
         /\ TableAt("waitpid", t, sh.pre, sh.post) /\ t \in TableType
      BY <2>8, Held
  <2>11. t[0] = tty /\ t[1] = tty
      BY <2>8 DEF Undisturbed, Intact
  <2>12. /\ u[0] = IF Contains(cmd, "<") THEN file ELSE IF sh.pre = <<>> THEN tty ELSE File("r", Before)
         /\ u[1] = IF Contains(cmd, ">") THEN file ELSE IF sh.post = <<>> THEN tty ELSE t[sh.post[2]]
    <3>1. /\ ChildFds(p)[0] = IF Contains(cmd, "<") THEN file
                              ELSE IF proc[p].pre = <<>> THEN t[0] ELSE t[proc[p].pre[1]]
          /\ ChildFds(p)[1] = IF Contains(cmd, ">") THEN file
                              ELSE IF proc[p].post = <<>> THEN t[1] ELSE t[proc[p].post[2]]
        BY <1>1, <2>9, <2>10, ChildEnds
    <3> QED BY <2>4, <2>9, <2>10, <2>11, <3>1
  <2>13. /\ file.kind = "file" /\ tty.kind = "tty" /\ tty # file /\ \A k : File("w", k).kind = "w" /\ File("w", k) # file
         /\ \A k : File("r", k).kind = "r" /\ File("r", k).id = k
      BY DEF file, tty, File
  <2>14. Sent' = 0
      BY <1>1, <2>8, <2>9 DEF Sent
  <2>15. Due = Sends(cmd, Given)
      BY <2>9 DEF Due
  <2> HIDE DEF cmd, prog
  <2>16. Owed(p)' = IF u[1] = file THEN 0 ELSE n + (IF prog = "cat" /\ u[0].kind = "r" THEN full[u[0].id] ELSE 0)
      BY <1>1, <2>3, <2>6 DEF Owed
  <2>17. Owed(p)' = Due
    <3>1. CASE Contains(cmd, ">")
        BY <2>12, <2>15, <2>16, <3>1 DEF Sends
    <3>2. CASE ~Contains(cmd, ">")
      <4>1. u[1] # file
          BY <2>10, <2>12, <2>13, <3>2
      <4>2. CASE prog = "gen"
          BY <1>3, <2>1, <2>3, <2>15, <2>16, <3>2, <4>1, <4>2 DEF Sends, prog
      <4>3. CASE prog = "cat" /\ Contains(cmd, "<")
          BY <2>1, <2>3, <2>12, <2>13, <2>15, <2>16, <4>1, <4>3 DEF Sends, prog
      <4>4. CASE prog = "cat" /\ ~Contains(cmd, "<")
        <5>1. Due = Given
            BY <1>3, <2>15, <3>2, <4>4 DEF Sends, prog
        <5>2. CASE sh.pre = <<>>
            BY <2>1, <2>3, <2>12, <2>13, <2>16, <4>1, <4>4, <5>1, <5>2 DEF Given
        <5>3. CASE sh.pre # <<>>
            BY <2>1, <2>3, <2>8, <2>9, <2>12, <2>13, <2>16, <4>1, <4>4, <5>1, <5>3
        <5> QED BY <5>2, <5>3
      <4>5. CASE prog = "nop"
          BY <2>1, <2>3, <2>15, <2>16, <4>1, <4>5 DEF Sends, prog
      <4> QED BY <1>3, <4>2, <4>3, <4>4, <4>5 DEF Programs
    <3> QED BY <3>1, <3>2
  <2>18. (Sent + Owed(p))' = Due'
      BY <2>8, <2>14, <2>17
  <2>19. Connected(sh.pid)'
    <3>1. fds'[p][1] = file \/ fds'[p][1] = (IF sh.post = <<>> THEN tty ELSE fds'[Shell][sh.post[2]])
        BY <2>6, <2>12
    <3>2. fds'[p][0].kind = "r" => sh.pre # <<>> /\ fds'[p][0].id = Before
        BY <2>6, <2>12, <2>13
    <3> QED BY <1>1, <2>8, <2>18, <3>1, <3>2 DEF Connected
  <2>20. Running'
    <3>1. sh.post # <<>> => out' = Printed(sh.c)'
        BY <1>1, <2>8 DEF Running
    <3>2. proc'[sh'.pid].st \in Programs /\ proc'[sh'.pid].st \notin {"child", "zombie", "none"}
        BY <1>1, <2>6, <2>7, <2>8 DEF Programs
    <3> QED BY <1>1, <2>19, <3>1, <3>2 DEF Running
  <2> QED BY <2>8, <2>20
<1> QED BY <1>2, <1>3 DEF ChildStart

\* What is known of a program that takes a step while its line is undisturbed.
LEMMA ProgramAt ==
    ASSUME ShellInv, Undisturbed, sh.pc = "waitpid", Running, NEW p \in Pids, p = sh.pid, proc[p].st \in Programs
    PROVE  /\ fds[p][1] = file \/ fds[p][1] = (IF sh.post = <<>> THEN tty ELSE File("w", Behind))
           /\ fds[p][0].kind = "r" => sh.pre # <<>> /\ fds[p][0].id = Before
           /\ Sent + Owed(p) = Due
           /\ sh.post # <<>> => Behind \in Pipes /\ Open(File("r", Behind)) /\ out = Printed(sh.c)
           /\ sh.pre # <<>> => Before \in Pipes
           /\ sh.pre # <<>> /\ sh.post # <<>> => Before # Behind
           /\ proc[p] \in ChildType /\ proc[p].left \in Nat /\ out \in Nat
           /\ \A k \in Pipes : full[k] \in Nat
<1>1. Connected(p)
    BY DEF Running
<1>2. /\ sh.post # <<>> => Behind \in Pipes /\ sh.post[1] \in Fd /\ fds[Shell][sh.post[1]] = File("r", Behind)
                           /\ fds[Shell][sh.post[2]] = File("w", Behind)
      /\ sh.pre # <<>> => Before \in Pipes
      /\ sh.pre # <<>> /\ sh.post # <<>> => Before # Behind
    BY Held
<1>3. sh.post # <<>> => Open(File("r", Behind))
    BY <1>2 DEF Open, Holds, Procs
<1>4. proc[p] \in ChildType /\ out \in Nat /\ full \in [Pipes -> 0 .. PipeCap] /\ PipeCap \in Nat
    BY SizesAssumption DEF ShellInv, ShellTypes, ProcTyped, LineTyped, FullTyped
<1>5. proc[p].left \in Nat /\ \A k \in Pipes : full[k] \in Nat
    BY <1>4 DEF ChildType
<1> QED BY <1>1, <1>2, <1>3, <1>4, <1>5 DEF Connected, Running

\* A unit that is written is one that was owed.
LEMMA WriteOut == ASSUME ShellInv, SplitInv, OutInv, NEW p \in Pids, ProgramWrites(p) PROVE OutInv'
<1>1. /\ UNCHANGED <<line_buf, sh>> /\ proc[p].st \in Programs /\ proc[p].left > 0 /\ TablesTyped /\ ProcTyped /\ FullTyped
      /\ proc[p].st # "none"
    BY DEF ProgramWrites, input, ShellInv, ShellTypes, Programs
<1>2. CASE Broken(p) /\ Exit(p) /\ UNCHANGED <<full, out>>
  <2>1. ASSUME Undisturbed, Running PROVE Sent = Due
    <3>1. sh.pc = "waitpid" /\ p = sh.pid
        BY <1>1, <2>1 DEF Undisturbed, Others
    <3>2. /\ fds[p][1] = file \/ fds[p][1] = (IF sh.post = <<>> THEN tty ELSE File("w", Behind))
          /\ sh.post # <<>> => Open(File("r", Behind))
        BY <1>1, <2>1, <3>1, ProgramAt
    <3>3. file.kind = "file" /\ tty.kind = "tty" /\ File("w", Behind).id = Behind
        BY DEF file, tty, File
    <3>4. ~Broken(p)
        BY <3>2, <3>3 DEF Broken
    <3> QED BY <1>2, <3>4
  <2> QED BY <1>1, <1>2, <2>1, EndOut
<1>3. CASE Put(p) /\ proc' = [proc EXCEPT ![p].left = @ - 1] /\ UNCHANGED fds
  <2> SUFFICES ASSUME Undisturbed' PROVE OutInv'
      BY DEF OutInv
  <2>1. PICK c : c = [proc[p] EXCEPT !.left = @ - 1]
      OBVIOUS
  <2>2. proc' = [proc EXCEPT ![p] = c]
      BY <1>3, <2>1
  <2>3. proc[p] \in ChildType
      BY <1>1 DEF ProcTyped
  <2>4. c.st = proc[p].st /\ c.left = proc[p].left - 1
      BY <2>1, <2>3 DEF ChildType
  <2>5. proc'[p] = c /\ \A q \in Pids : q # p => proc'[q] = proc[q]
      BY <1>1, <2>2 DEF ProcTyped
  <2>6. /\ Undisturbed /\ sh.pc = "waitpid" /\ p = sh.pid /\ Running
        /\ Printed(sh.c)' = Printed(sh.c) /\ Before' = Before /\ Behind' = Behind /\ Due' = Due
        /\ Printed(sh.c) \in Nat
        /\ (Running' => OutInv')
      BY <1>1, <1>3, <2>4, <2>5, AtWork
  <2>7. /\ fds[p][1] = file \/ fds[p][1] = (IF sh.post = <<>> THEN tty ELSE File("w", Behind))
        /\ fds[p][0].kind = "r" => sh.pre # <<>> /\ fds[p][0].id = Before
        /\ Sent + Owed(p) = Due
        /\ sh.post # <<>> => Behind \in Pipes /\ out = Printed(sh.c)
        /\ sh.pre # <<>> => Before \in Pipes
        /\ sh.pre # <<>> /\ sh.post # <<>> => Before # Behind
        /\ proc[p].left \in Nat /\ out \in Nat
        /\ \A k \in Pipes : full[k] \in Nat
      BY <1>1, <2>6, ProgramAt
  <2> DEFINE f == fds[p][1]
             g == fds[p][0]
  <2>8. /\ full' = IF f.kind = "w" THEN [full EXCEPT ![f.id] = @ + 1] ELSE full
        /\ out' = IF f = tty THEN out + 1 ELSE out
      BY <1>3 DEF Put
  <2>9. /\ Owed(p) = IF f = file THEN 0 ELSE proc[p].left + (IF proc[p].st = "cat" /\ g.kind = "r" THEN full[g.id] ELSE 0)
        /\ Owed(p)' = IF f = file THEN 0
                      ELSE (proc[p].left - 1) + (IF proc[p].st = "cat" /\ g.kind = "r" THEN full'[g.id] ELSE 0)
      BY <1>3, <2>4, <2>5 DEF Owed
  <2>10. /\ Sent = IF sh.post = <<>> THEN out - Printed(sh.c) ELSE full[Behind]
         /\ Sent' = IF sh.post = <<>> THEN out' - Printed(sh.c) ELSE full'[Behind]
      BY <1>1, <2>6 DEF Sent
  <2> HIDE DEF f, g
  <2>11. file.kind = "file" /\ tty.kind = "tty" /\ file # tty /\ File("w", Behind).kind = "w" /\ File("w", Behind).id = Behind
      BY DEF file, tty, File
  <2>12. Sent' + Owed(p)' = Due /\ (sh.post # <<>> => out' = Printed(sh.c))
    <3>1. CASE f = file
      <4>1. full' = full /\ out' = out
          BY <2>8, <2>11, <3>1
      <4> QED BY <2>7, <2>9, <2>10, <3>1, <4>1
    <3>2. CASE f # file /\ sh.post = <<>>
      <4>1. f = tty
          BY <2>7, <3>2 DEF f
      <4>2. full' = full /\ out' = out + 1
          BY <2>8, <2>11, <4>1
      <4>3. PICK x, y, z : x = out /\ y = Printed(sh.c) /\ z = proc[p].left
          OBVIOUS
      <4>4. x \in Nat /\ y \in Nat /\ z \in Nat
          BY <2>6, <2>7, <4>3
      <4>5. PICK d : d = IF proc[p].st = "cat" /\ g.kind = "r" THEN full[g.id] ELSE 0
          OBVIOUS
      <4>6. d \in Nat
          BY <2>7, <4>5 DEF g
      <4>7. (x - y) + (z + d) = Due
          BY <2>7, <2>9, <2>10, <3>2, <4>3, <4>5
      <4>8. Sent' = (x + 1) - y /\ Owed(p)' = (z - 1) + d
          BY <2>9, <2>10, <3>2, <4>2, <4>3, <4>5
      <4> QED BY <3>2, <4>4, <4>6, <4>7, <4>8
    <3>3. CASE f # file /\ sh.post # <<>>
      <4>1. f = File("w", Behind)
          BY <2>7, <3>3 DEF f
      <4>2. full' = [full EXCEPT ![Behind] = @ + 1] /\ out' = out
          BY <2>8, <2>11, <4>1
      <4>3. full'[Behind] = full[Behind] + 1 /\ \A k \in Pipes : k # Behind => full'[k] = full[k]
          BY <1>1, <2>7, <3>3, <4>2 DEF FullTyped
      <4>4. PICK x, z : x = full[Behind] /\ z = proc[p].left
          OBVIOUS
      <4>5. x \in Nat /\ z \in Nat
          BY <2>7, <3>3, <4>4
      <4>6. PICK d : d = IF proc[p].st = "cat" /\ g.kind = "r" THEN full[g.id] ELSE 0
          OBVIOUS
      <4>7. d \in Nat
          BY <2>7, <4>6 DEF g
      <4>8. d = IF proc[p].st = "cat" /\ g.kind = "r" THEN full'[g.id] ELSE 0
          BY <2>7, <3>3, <4>3, <4>6 DEF g
      <4>9. x + (z + d) = Due
          BY <2>7, <2>9, <2>10, <3>3, <4>4, <4>6
      <4>10. Sent' = x + 1 /\ Owed(p)' = (z - 1) + d
          BY <2>9, <2>10, <3>3, <4>3, <4>4, <4>8
      <4> QED BY <2>7, <3>3, <4>2, <4>5, <4>7, <4>9, <4>10
    <3> QED BY <3>1, <3>2, <3>3
  <2>13. Connected(sh.pid)'
    <3>1. fds'[p][1] = file \/ fds'[p][1] = (IF sh.post = <<>> THEN tty ELSE fds'[Shell][sh.post[2]])
        BY <1>1, <1>3, <2>6 DEF Running, Connected
    <3> QED BY <1>1, <1>3, <2>6, <2>7, <2>12, <3>1 DEF Connected
  <2>14. Running'
    <3>1. proc'[sh'.pid].st \in Programs /\ proc'[sh'.pid].st \notin {"child", "zombie", "none"}
        BY <1>1, <2>4, <2>5, <2>6 DEF Programs
    <3> QED BY <1>1, <2>6, <2>12, <2>13, <3>1 DEF Running
  <2> QED BY <2>6, <2>14
<1> QED BY <1>2, <1>3 DEF ProgramWrites

\* A unit that is read has still to be sent on.
LEMMA ReadOut == ASSUME ShellInv, SplitInv, OutInv, NEW p \in Pids, ProgramReads(p) PROVE OutInv'
<1> SUFFICES ASSUME Undisturbed' PROVE OutInv'
    BY DEF OutInv
<1>1. /\ UNCHANGED <<line_buf, sh, fds, out>> /\ proc[p].st = "cat" /\ proc[p].left = 0 /\ TablesTyped /\ ProcTyped /\ FullTyped
      /\ Readable(p) /\ Take(p) /\ proc' = [proc EXCEPT ![p].left = 1] /\ proc[p].st \in Programs
    BY DEF ProgramReads, input, ShellInv, ShellTypes, Programs
<1>2. PICK c : c = [proc[p] EXCEPT !.left = 1]
    OBVIOUS
<1>3. proc' = [proc EXCEPT ![p] = c]
    BY <1>1, <1>2
<1>4. proc[p] \in ChildType
    BY <1>1 DEF ProcTyped
<1>5. c.st = "cat" /\ c.left = 1
    BY <1>1, <1>2, <1>4 DEF ChildType
<1>6. proc'[p] = c /\ \A q \in Pids : q # p => proc'[q] = proc[q]
    BY <1>1, <1>3 DEF ProcTyped
<1>7. /\ Undisturbed /\ sh.pc = "waitpid" /\ p = sh.pid /\ Running
      /\ Printed(sh.c)' = Printed(sh.c) /\ Before' = Before /\ Behind' = Behind /\ Due' = Due
      /\ (Running' => OutInv')
    BY <1>1, <1>5, <1>6, AtWork
<1>8. /\ fds[p][0].kind = "r" => sh.pre # <<>> /\ fds[p][0].id = Before
      /\ Sent + Owed(p) = Due
      /\ sh.post # <<>> => Behind \in Pipes /\ out = Printed(sh.c)
      /\ sh.pre # <<>> => Before \in Pipes
      /\ sh.pre # <<>> /\ sh.post # <<>> => Before # Behind
      /\ \A k \in Pipes : full[k] \in Nat
    BY <1>1, <1>7, ProgramAt
<1>9. fds[p][0].kind = "r" /\ fds[p][0].id = Before /\ Before \in Pipes /\ full' = [full EXCEPT ![Before] = @ - 1]
    BY <1>1, <1>8 DEF Readable, Take
<1>10. full'[Before] = full[Before] - 1 /\ full[Before] \in Nat /\ \A k \in Pipes : k # Before => full'[k] = full[k]
    BY <1>1, <1>8, <1>9 DEF FullTyped
<1>11. Sent' = Sent
    BY <1>1, <1>7, <1>8, <1>9, <1>10 DEF Sent
<1>12. Owed(p)' = Owed(p)
  <2>1. Owed(p) = IF fds[p][1] = file THEN 0 ELSE 0 + full[Before]
      BY <1>1, <1>9 DEF Owed
  <2>2. Owed(p)' = IF fds[p][1] = file THEN 0 ELSE 1 + full'[Before]
      BY <1>1, <1>5, <1>6, <1>9 DEF Owed
  <2> QED BY <1>10, <2>1, <2>2
<1>13. Connected(sh.pid)'
    BY <1>1, <1>7, <1>8, <1>11, <1>12 DEF Running, Connected
<1>14. Running'
  <2>1. proc'[sh'.pid].st \in Programs /\ proc'[sh'.pid].st \notin {"child", "zombie", "none"}
      BY <1>1, <1>5, <1>6, <1>7 DEF Programs
  <2> QED BY <1>1, <1>7, <1>8, <1>13, <2>1 DEF Running
<1> QED BY <1>7, <1>14

\* A program that ends owes nothing.
LEMMA DoneOut == ASSUME ShellInv, SplitInv, OutInv, NEW p \in Pids, ProgramEnds(p) PROVE OutInv'
<1>1. /\ UNCHANGED <<line_buf, sh, full, out>> /\ proc[p].st \in Programs /\ proc[p].left = 0 /\ Exit(p)
      /\ proc[p].st = "cat" => AtEof(p)
      /\ proc[p].st # "none"
    BY DEF ProgramEnds, input, Programs
<1>2. ASSUME Undisturbed, Running PROVE Sent = Due
  <2>1. sh.pc = "waitpid" /\ p = sh.pid
      BY <1>1, <1>2 DEF Undisturbed, Others
  <2>2. Sent + Owed(p) = Due /\ out \in Nat /\ (sh.post # <<>> => full[Behind] \in Nat)
      BY <1>1, <1>2, <2>1, ProgramAt
  <2>3. Owed(p) = 0
      BY <1>1 DEF Owed, AtEof
  <2>4. Printed(sh.c) \in Nat
    <3>1. line_len \in Nat /\ sh.c \in 0 .. line_len
        BY <1>2, <2>1, CommandAt DEF AtCommand, InCommand, Undisturbed
    <3> QED BY <3>1, SaidTyped
  <2>5. Sent \in Int
      BY <2>2, <2>4 DEF Sent
  <2> QED BY <2>2, <2>3, <2>5
<1> QED BY <1>1, <1>2, EndOut

\* Every step keeps the count of what a line prints.
LEMMA OutKeeps == ASSUME ShellInv, SplitInv, OutInv, [Next]_vars PROVE OutInv'
<1>1. sh \in ShellType
    BY DEF ShellInv, ShellTypes, ShTyped
<1>2. ShellExits => OutInv'
  <2> SUFFICES ASSUME ShellExits PROVE OutInv'
      OBVIOUS
  <2>1. sh'.pc = "exited"
      BY <1>1 DEF ShellExits, ShellType
  <2> QED BY <2>1, QuietOut
<1>3. CASE Prompt
  <2>1. CASE sh' = [sh EXCEPT !.pc = "readline"]
    <3>1. sh'.pc = "readline"
        BY <1>1, <2>1 DEF ShellType
    <3> QED BY <3>1, QuietOut
  <2> QED BY <1>2, <1>3, <2>1 DEF Prompt
<1>4. CASE ReadLine
  <2>1. sh' \in {[sh EXCEPT !.pc = "prompt"], [sh EXCEPT !.pc = "yylex"]}
      BY <1>4 DEF ReadLine
  <2>2. sh'.pc \in {"prompt", "yylex"}
      BY <1>1, <2>1 DEF ShellType
  <2> QED BY <2>2, QuietOut
<1>5. CASE ReadEof
    BY <1>2, <1>5 DEF ReadEof
<1>6. CASE yylex
    BY <1>6, LexOut
<1>7. CASE do_list_cmd
    BY <1>7, ListOut
<1>8. CASE ListDone
  <2>1. sh'.pc = "prompt"
      BY <1>1, <1>8 DEF ListDone, ShellType
  <2> QED BY <2>1, QuietOut
<1>9. CASE PipeCommand
    BY <1>9, CommandOut
<1>10. CASE PipeLast
    BY <1>10, LastOut
<1>11. CASE EmptyCommand
    BY <1>2, <1>11 DEF EmptyCommand
<1>12. CASE Builtin
  <2>1. UNCHANGED line_buf /\ sh.pc = "simple" /\ tokens[sh.c] \in Builtins
      BY <1>12 DEF Builtin, input
  <2>2. ~Plain
      BY <2>1, CommandAt, CommandWords DEF InCommand
  <2>3. ~Undisturbed'
      BY <2>1, <2>2 DEF Undisturbed, Plain
  <2> QED BY <2>3 DEF OutInv
<1>13. CASE BuiltinRun
  <2>1. UNCHANGED line_buf /\ sh.pc = "builtin"
      BY <1>13 DEF BuiltinRun, input
  <2>2. ~Plain
      BY <2>1 DEF SplitInv, LineSplit
  <2>3. ~Undisturbed'
      BY <2>1, <2>2 DEF Undisturbed, Plain
  <2> QED BY <2>3 DEF OutInv
<1>14. CASE Fork
    BY <1>14, ForkOut
<1>15. CASE AfterFork
    BY <1>15, AfterOut
<1>16. CASE \E p \in Pids : Child(p)
    BY <1>16, StartOut, WriteOut, ReadOut, DoneOut DEF Child
<1>17. CASE UNCHANGED vars
  <2>1. UNCHANGED <<line_buf, sh, fds, full, proc, out>>
      BY <1>17 DEF vars, input
  <2>2. /\ Undisturbed' = Undisturbed /\ Given' = Given /\ Before' = Before /\ Behind' = Behind
        /\ (\A x : Printed(x)' = Printed(x)) /\ Running' = Running
      BY <2>1 DEF Undisturbed, Intact, Plain, Others, Given, Before, Behind, Printed, Piped, Running, Copied, Connected, Sent, Due, Owed
  <2>3. Printed(sh.i)' = Printed(sh.i) /\ Printed(sh.c)' = Printed(sh.c)
      BY <2>1 DEF Printed
  <2> QED BY <2>1, <2>2, <2>3 DEF OutInv
<1> QED BY <1>3, <1>4, <1>5, <1>6, <1>7, <1>8, <1>9, <1>10, <1>11, <1>12, <1>13, <1>14, <1>15, <1>16, <1>17 DEF Next, ShellStep

\* A line that is done has printed what its text says.
LEMMA AllPrinted == ShellInv /\ SplitInv /\ OutInv => OutputComplete
<1> SUFFICES ASSUME ShellInv, SplitInv, OutInv, sh.pc = "list", tokens[sh.i] = NULL, Intact, Plain, \A p \in Pids : proc[p].st = "none"
             PROVE  out = Expected(line_buf)
    BY DEF OutputComplete, Plain
<1>1. out = Printed(sh.i)
    BY DEF OutInv, Undisturbed, Others
<1>2. line_len \in Nat /\ sh.i \in Nat /\ sh.i <= line_len /\ Len(line_buf) = line_len
    BY Places, PlainWords
<1>3. sh.i = line_len
  <2> SUFFICES ASSUME sh.i < line_len PROVE FALSE
      BY <1>2
  <2>1. sh.i \in sh.i .. line_len - 1 /\ sh.i + 1 \in 1 .. line_len
      BY <1>2
  <2>2. tokens[sh.i] = line_buf[sh.i + 1]
      BY <2>1 DEF SplitInv, LineSplit
  <2> QED BY <2>1, <2>2, PlainWords
<1> QED BY <1>1, <1>2, <1>3 DEF Expected, Printed

\* Theorem: whatever lines are typed, with any number of commands, pipes, redirections
\* and empty commands in them, and whatever the size of the pipes, a line of external commands
\* that ran in the foreground, while no other child was left and the shell's own
\* descriptors were its terminal, has printed exactly what its text says, read from left
\* to right (mysh.c: do_list_cmd, do_pipe_cmd and do_simple_cmd split the line as it
\* was typed and connect each command to its neighbours).
THEOREM OutputIsComplete == Spec => []OutputComplete
<1>1. Init => ShellInv /\ SplitInv /\ OutInv
  <2> SUFFICES ASSUME Init PROVE ShellInv /\ SplitInv /\ OutInv
      OBVIOUS
  <2>1. sh.pc = "prompt"
      BY DEF Init
  <2> QED BY <2>1, ShellStarts DEF SplitInv, OutInv
<1>2. ShellInv /\ SplitInv /\ OutInv /\ [Next]_vars => (ShellInv /\ SplitInv /\ OutInv)'
    BY ShellStepKeeps, SplitKeeps, OutKeeps
<1>3. ShellInv /\ SplitInv /\ OutInv => OutputComplete
    BY AllPrinted
<1> QED BY <1>1, <1>2, <1>3, PTL DEF Spec
=============================================================================
