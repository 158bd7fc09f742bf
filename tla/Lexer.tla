------------------------------- MODULE Lexer -------------------------------
(***************************************************************************)
(* The scanners flex generated for two of the shells: src/2/parseline.c    *)
(* (mysh), which is handed a whole line at a time, and lex.yy.c (msh),     *)
(* which takes a line in pieces.  A token that reaches the end of the      *)
(* buffer is moved to its front and scanning resumes after a refill.       *)
(* Characters are reduced to the classes the rules tell apart.             *)
(***************************************************************************)
EXTENDS Integers, Sequences

CONSTANTS BufSize,     \* YY_BUF_SIZE
          ReadSize,    \* YY_READ_BUF_SIZE
          MaxLength,   \* bound on the length of a line and the one before it
          LinesToScan  \* bound on their number

ASSUME LexerAssumption == BufSize \in Nat \ {0} /\ ReadSize \in Nat \ {0} /\ MaxLength \in Nat

VARIABLES shell,       \* "mysh" or "msh"
          lxpc,        \* "idle", "scan" or "fatal"
          scanned,     \* lines so far
          wholeLine,   \* the line at hand
          unread,      \* what msh has not read of it
          ch_buf,      \* the characters in the buffer
          buf_size,
          text, c_buf_p,   \* the characters before the token, and before the next one
          status,      \* of the buffer: "new", "normal" or "eof_pending"
          startCond,   \* "INITIAL" or "QUOTE"
          args,        \* the tokens added since the last command
          ran          \* the tokens the last command was made of

lexVars == <<shell, lxpc, scanned, wholeLine, unread, ch_buf, buf_size, text, c_buf_p, status, startCond, args, ran>>

Chars == {"w", "b", ";", "q"}     \* of a word, blank, operator, quote
Lines == UNION {[1..n -> Chars] : n \in 0..MaxLength}
-----------------------------------------------------------------------------
(* The rules *)

\* Characters that go on as one token: a word, or the text between quotes.
InRun(cond, ch) == IF cond = "QUOTE" THEN ch \notin {"q", "n"} ELSE ch = "w"

\* The longest match from the start of the token.
Longest ==
    LET rest == SubSeq(ch_buf, text + 1, Len(ch_buf))
        run == {k \in 1..Len(rest) : \A i \in 1..k : InRun(startCond, rest[i])}
    IN IF rest = <<>> THEN 0 ELSE IF run = {} THEN 1 ELSE CHOOSE k \in run : \A j \in run : j <= k

\* The token has reached the end of the buffer and might go on.
EndOfBuffer ==
    LET rest == SubSeq(ch_buf, text + 1, Len(ch_buf))
    IN IF rest = <<>> THEN TRUE
       ELSE Longest = Len(rest) /\ InRun(startCond, rest[1]) /\ status # "last_match"

\* The action of the rule: words, quoted texts and operators are added; msh has
\* rules for quotes, mysh skips them.  At the newline the command is run.
rule ==
    LET token == SubSeq(ch_buf, text + 1, text + Longest)
        ch == token[1]
        quoting == shell = "msh" /\ ch = "q"
    IN
    /\ lxpc = "scan" /\ ~EndOfBuffer
    /\ text' = text + Longest /\ c_buf_p' = text + Longest
    /\ startCond' = IF ch = "n" THEN "INITIAL"
                    ELSE IF quoting THEN (IF startCond = "QUOTE" THEN "INITIAL" ELSE "QUOTE") ELSE startCond
    /\ IF ch = "n" THEN ran' = args /\ args' = <<>>
       ELSE /\ args' = IF InRun(startCond, ch) \/ ch = ";" THEN Append(args, token) ELSE args
            /\ UNCHANGED ran
    /\ lxpc' = IF ch = "n" /\ shell = "mysh" THEN "idle" ELSE "scan"
    /\ status' = IF status = "last_match" THEN "eof_pending" ELSE status
    /\ UNCHANGED <<shell, scanned, wholeLine, unread, ch_buf, buf_size>>
-----------------------------------------------------------------------------
(* Refilling the buffer *)

\* mysh: the whole line, or -1; here: the characters, and whether there was room.
my_yyinput(max) ==
    IF shell = "mysh" THEN [got |-> IF Len(wholeLine) < max THEN wholeLine ELSE <<>>, ok |-> Len(wholeLine) < max]
    ELSE [got |-> SubSeq(unread, 1, IF max < Len(unread) THEN max ELSE Len(unread)), ok |-> TRUE]

\* The buffer is doubled until there is room beside what is moved.
Grown(size, moved) == CHOOSE s \in {size, 2 * size, 4 * size, 8 * size} :
                          s - moved - 1 > 0 /\ (s = size \/ (s \div 2) - moved - 1 <= 0)

\* num_to_read
Room(size, moved) == size - moved - 1

Kept_dropped(k) == k + 1

\* The first character that is moved to the front.
Kept(k) == k

\* yy_get_next_buffer, and what yylex does with its answer.
yy_get_next_buffer ==
    LET moved == SubSeq(ch_buf, Kept(text) + 1, Len(ch_buf))
        size == Grown(buf_size, Len(moved))
        room == Room(size, Len(moved))
        input == IF status = "eof_pending" THEN [got |-> <<>>, ok |-> TRUE]
                 ELSE my_yyinput(IF room > ReadSize THEN ReadSize ELSE room)
    IN
    /\ lxpc = "scan" /\ EndOfBuffer
    /\ buf_size' = size /\ text' = 0 /\ c_buf_p' = Len(moved)
    /\ unread' = IF shell = "msh" THEN SubSeq(unread, Len(input.got) + 1, Len(unread)) ELSE unread
    /\ CASE ~input.ok -> \* the count of -1 makes realloc fail
              lxpc' = "fatal" /\ UNCHANGED <<ch_buf, status>>
         [] input.ok /\ input.got # <<>> -> \* EOB_ACT_CONTINUE_SCAN
              ch_buf' = moved \o input.got /\ status' = "normal" /\ UNCHANGED lxpc
         [] input.ok /\ input.got = <<>> /\ moved = <<>> -> \* EOB_ACT_END_OF_FILE: yyrestart, yywrap
              ch_buf' = <<>> /\ status' = "new" /\ lxpc' = "idle"
         [] OTHER -> \* EOB_ACT_LAST_MATCH
              ch_buf' = moved /\ status' = "last_match" /\ UNCHANGED lxpc
    /\ UNCHANGED <<shell, scanned, wholeLine, startCond, args, ran>>
-----------------------------------------------------------------------------
\* The shell reads a line, adds the newline and calls the scanner.
yylex(l) ==
    /\ lxpc = "idle" /\ scanned < LinesToScan /\ scanned' = scanned + 1
    /\ Len(l) + Len(wholeLine) <= MaxLength + 1
    /\ wholeLine' = Append(l, "n") /\ unread' = Append(l, "n") /\ lxpc' = "scan" /\ text' = c_buf_p
    /\ ran' = <<>>
    /\ UNCHANGED <<shell, ch_buf, buf_size, c_buf_p, status, startCond, args>>

LexerInit ==
    /\ shell \in {"mysh", "msh"} /\ lxpc = "idle" /\ scanned = 0 /\ wholeLine = <<>> /\ unread = <<>>
    /\ ch_buf = <<>> /\ buf_size = BufSize /\ text = 0 /\ c_buf_p = 0 /\ status = "new"
    /\ startCond = "INITIAL" /\ args = <<>> /\ ran = <<>>

LexerNext == rule \/ yy_get_next_buffer \/ \E l \in Lines : yylex(l)

LexerSpec == LexerInit /\ [][LexerNext]_lexVars
-----------------------------------------------------------------------------
LexerTypeOK ==
    /\ lxpc \in {"idle", "scan", "fatal"} /\ startCond \in {"INITIAL", "QUOTE"}
    /\ text \in 0..Len(ch_buf) /\ status \in {"new", "normal", "eof_pending", "last_match"}

\* One character of the line, read in order: the tokens, the token at hand and
\* whether a quote is open.
TakeChar(s, ch) ==
    LET quoted == s.quoted /\ ch \notin {"q", "n"}
        closed == IF s.cur = <<>> THEN s.toks ELSE Append(s.toks, s.cur)
    IN IF quoted \/ (ch = "w" /\ ~s.quoted) THEN [s EXCEPT !.cur = Append(@, ch)]
       ELSE [toks |-> IF ch = ";" THEN Append(closed, <<ch>>) ELSE closed, cur |-> <<>>,
             quoted |-> ch = "q" /\ shell = "msh" /\ ~s.quoted]

Scan(l) == LET f[i \in 0..Len(l)] == IF i = 0 THEN [toks |-> <<>>, cur |-> <<>>, quoted |-> FALSE]
                                      ELSE TakeChar(f[i - 1], l[i])
           IN f

TokensOf(l) == Scan(l)[Len(l)].toks

\* When the scanner returns, the command that was run consists of the tokens of
\* the line, wherever the pieces it was read in ended, whatever the lines before
\* left in the buffer, and nothing of the line is left.
TokensSurviveRefills ==
    lxpc = "idle" /\ scanned > 0 =>
       /\ ran = TokensOf(wholeLine) /\ args = <<>> /\ text = Len(ch_buf)
       /\ (shell = "msh" => unread = <<>>)

\* The characters in the buffer stay below its size, whatever was moved to its
\* front; the two that mark its end come on top of that.
BufferNotOverrun == Len(ch_buf) < buf_size

\* The scanner gives the shell the tokens of its line, within its buffer.
ScannerExact == TokensSurviveRefills /\ BufferNotOverrun
=============================================================================
