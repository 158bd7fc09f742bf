------------------------------ MODULE MCShell ------------------------------
(* Shell for TLC: command lines that between them use every separator, the   *)
(* built-in commands, redirections, continuation lines and errors.           *)
EXTENDS Shell

MCLines == {
  <<"gen", "|", "cat">>,
  <<"gen", "|", "cat", "|", "cat">>,
  <<"gen", ">", "f", "|", "cat", ";", "gen">>,
  <<"gen", "|", "nop", "&">>,
  <<"gen", "|", "cat", "&", "nop">>,
  <<"gen", "|", "echo", ";", "nop">>,
  <<"echo", "|", "nop", "&">>,
  <<"gen", "|", "cat", "<", "g">>,
  <<">", "f", "gen", ";", "gen", "x">>,
  <<"gen", "<">>,
  <<"echo", ">", "f">>,
  <<"echo", "<", "missing">>,
  <<"cat", "<", "missing">>,
  <<"cd", ";", "export">>,
  <<"exit">>,
  <<"typo">>,
  <<"gen", "\\">>,
  <<"|", "cat">>,
  <<"nop", "&", "nop", "&", "nop", "&", "nop", "&", "nop", "&">>}

\* A built-in command at the head of a pipeline.
MCBuiltinLines == {<<"echo", "|", "cat">>, <<"gen", "|", "cat">>}
=============================================================================
