---------------------------- MODULE MCScullPipe ----------------------------
(* ScullPipe for TLC: two or three processes and a buffer of a few bytes.    *)
EXTENDS ScullPipe, TLC

CONSTANTS r1, r2, w1, w2, a, b
=============================================================================
