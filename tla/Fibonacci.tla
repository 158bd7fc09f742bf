----------------------------- MODULE Fibonacci -----------------------------
(***************************************************************************)
(* The loop of src/3/fibnocci.c, which adds in variables of type int,      *)
(* against the recursion of src/3/mytimer.c, which adds in a wider type.   *)
(***************************************************************************)
EXTENDS Integers

CONSTANTS MaxFib,    \* bound on the arguments
          IntMax     \* 2^(w-1), the first number that is not an int

ASSUME FibonacciAssumption == MaxFib \in Nat /\ IntMax \in Nat \ {0, 1}

VARIABLE loop        \* n, the number of items asked for, and the locals of fib

fibonacci[n \in 0..MaxFib] == IF n \in {0, 1} THEN n ELSE fibonacci[n - 1] + fibonacci[n - 2]

\* A sum that does not fit in an int wraps around.
WrapInt(n) == ((n + IntMax) % (2 * IntMax)) - IntMax

\* The first two items are not computed.
Constant(k) == k <= 1

\* One round of the loop.
fib ==
    /\ loop.i < loop.n
    /\ LET sum == WrapInt(loop.f1 + loop.f2) IN
       loop' = IF Constant(loop.i) THEN [loop EXCEPT !.f = loop.i, !.i = @ + 1]
               ELSE [loop EXCEPT !.f = sum, !.f1 = loop.f2, !.f2 = sum, !.i = @ + 1]

FibInit == \E n \in 0..MaxFib : loop = [n |-> n, i |-> 0, f1 |-> 0, f2 |-> 1, f |-> 0]

FibSpec == FibInit /\ [][fib]_loop
-----------------------------------------------------------------------------
FibTypeOK ==
    /\ loop.n \in 0..MaxFib /\ loop.i \in 0..loop.n
    /\ {loop.f1, loop.f2, loop.f} \subseteq (-IntMax)..(IntMax - 1)

\* The loop ends with the Fibonacci number before the one asked for (n items
\* are the numbers 0 to n - 1), up to the largest that is an int: no sum made
\* on the way there overflows.
LoopMatchesRecursion ==
    loop.i = loop.n /\ loop.n > 0 /\ fibonacci[loop.n - 1] < IntMax => loop.f = fibonacci[loop.n - 1]
=============================================================================
