----------------------------- MODULE TimerProofs -----------------------------
(***************************************************************************)
(* What the programs of src/3 print is right, for every number of timers   *)
(* and processes' expirations, for every width of an int and every number  *)
(* of Fibonacci numbers, however their signals come: the proofs of         *)
(* TimerProgramsRight.                                                     *)
(***************************************************************************)
EXTENDS ProgramsProofs, WellFoundedInduction

(* The loop of fibnocci.c *)

\* Induction over the naturals, for a set.
LEMMA NatInductionForSet ==
    ASSUME NEW T, 0 \in T, \A n \in Nat : n \in T => n + 1 \in T
    PROVE  Nat \subseteq T
<1> SUFFICES ASSUME Nat \ T # {} PROVE FALSE
    OBVIOUS
<1> DEFINE U == Nat \ T
<1>1. PICK x \in U : \A y \in U : ~(<<y, x>> \in OpToRel(<, Nat))
    BY NatLessThanWellFounded, WFMin
<1>2. \A y \in U : ~(y < x)
    BY <1>1 DEF OpToRel
<1>3. x \in Nat /\ x # 0
    OBVIOUS
<1>4. x - 1 \in Nat /\ x - 1 \notin U
    BY <1>2, <1>3
<1>5. (x - 1) + 1 \in T
    BY <1>4
<1> QED BY <1>3, <1>5

\* One step of the recursion.
Recur(g, n) == IF n \in {0, 1} THEN n ELSE g[n - 1] + g[n - 2]

\* The function that the recursion of mytimer.c defines exists.
LEMMA FibonacciExists == \E g : g = [n \in 0..MaxFib |-> Recur(g, n)]
<1> DEFINE Upto(m) == \E g : g = [n \in 0..m |-> Recur(g, n)]
           T == {m \in Nat : Upto(m)}
<1>1. 0 \in T
    <2> DEFINE g == [n \in 0..0 |-> 0]
    <2>1. g = [n \in 0..0 |-> Recur(g, n)]
        BY DEF Recur
    <2> HIDE DEF g
    <2> QED BY <2>1
<1>2. \A m \in Nat : m \in T => m + 1 \in T
    <2> SUFFICES ASSUME NEW m \in Nat, m \in T PROVE m + 1 \in T
        OBVIOUS
    <2>1. PICK g : g = [n \in 0..m |-> Recur(g, n)]
        OBVIOUS
    <2> DEFINE h == [n \in 0..(m + 1) |-> IF n = m + 1 THEN Recur(g, n) ELSE g[n]]
    <2>2. \A n \in 0..(m + 1) : Recur(h, n) = Recur(g, n)
        <3> SUFFICES ASSUME NEW n \in 0..(m + 1) PROVE Recur(h, n) = Recur(g, n)
            OBVIOUS
        <3>1. n \notin {0, 1} => h[n - 1] = g[n - 1] /\ h[n - 2] = g[n - 2]
            OBVIOUS
        <3> HIDE DEF h
        <3> QED BY <3>1 DEF Recur
    <2>3. \A n \in 0..m : g[n] = Recur(g, n)
        BY <2>1
    <2>4. h = [n \in 0..(m + 1) |-> Recur(h, n)]
        <3>1. \A n \in 0..(m + 1) : h[n] = Recur(h, n)
            BY <2>2, <2>3
        <3>2. h = [n \in 0..(m + 1) |-> h[n]]
            OBVIOUS
        <3> HIDE DEF h
        <3> QED BY <3>1, <3>2
    <2> HIDE DEF h
    <2>5. Upto(m + 1)
        BY <2>4
    <2> QED BY <2>5
<1>3. Nat \subseteq T
    <2> HIDE DEF T
    <2> QED BY <1>1, <1>2, NatInductionForSet
<1>4. MaxFib \in T
    BY <1>3, FibonacciAssumption
<1> QED BY <1>4

\* So the recursion has the values its equation says,
LEMMA FibonacciValue == \A n \in 0..MaxFib : fibonacci[n] = Recur(fibonacci, n)
<1>1. fibonacci = [n \in 0..MaxFib |-> Recur(fibonacci, n)]
    BY FibonacciExists DEF fibonacci, Recur
<1> HIDE DEF fibonacci
<1> QED BY <1>1

\* which are natural numbers.
LEMMA FibonacciNat == \A n \in 0..MaxFib : fibonacci[n] \in Nat
<1> DEFINE T == {m \in Nat : \A n \in 0..MaxFib : n <= m => fibonacci[n] \in Nat}
<1>1. 0 \in T
    BY FibonacciValue, FibonacciAssumption DEF Recur
<1>2. \A m \in Nat : m \in T => m + 1 \in T
    <2> SUFFICES ASSUME NEW m \in Nat, m \in T, NEW n \in 0..MaxFib, n <= m + 1 PROVE fibonacci[n] \in Nat
        OBVIOUS
    <2>1. CASE n <= m
        BY <2>1
    <2>2. CASE n \in {0, 1}
        BY <2>2, FibonacciValue DEF Recur
    <2>3. CASE n = m + 1 /\ n \notin {0, 1}
        <3>1. n - 1 \in 0..MaxFib /\ n - 2 \in 0..MaxFib /\ n - 1 <= m /\ n - 2 <= m
            BY <2>3, FibonacciAssumption
        <3>2. fibonacci[n - 1] \in Nat /\ fibonacci[n - 2] \in Nat
            BY <3>1
        <3>3. fibonacci[n] = fibonacci[n - 1] + fibonacci[n - 2]
            BY <2>3, FibonacciValue DEF Recur
        <3> QED BY <3>2, <3>3
    <2> QED BY <2>1, <2>2, <2>3
<1>3. Nat \subseteq T
    <2> HIDE DEF T
    <2> QED BY <1>1, <1>2, NatInductionForSet
<1>4. MaxFib \in T
    BY <1>3, FibonacciAssumption
<1> QED BY <1>4

\* A sum that fits in an int is not changed, and every sum becomes an int.
LEMMA WrapFacts ==
    /\ \A n \in 0..(IntMax - 1) : WrapInt(n) = n
    /\ \A n \in Int : WrapInt(n) \in (-IntMax)..(IntMax - 1)
<1>1. \A n \in 0..(IntMax - 1) : (n + IntMax) % (2 * IntMax) = n + IntMax
    BY FibonacciAssumption
<1>2. \A n \in Int : (n + IntMax) % (2 * IntMax) \in 0..(2 * IntMax - 1)
    BY FibonacciAssumption
<1> QED BY <1>1, <1>2, FibonacciAssumption DEF WrapInt

\* The loop holds the last two numbers it has computed, and f the last, as long
\* as they fit in an int.
FibFound ==
    /\ loop.i \in {0, 1, 2} => loop.f1 = 0 /\ loop.f2 = 1
    /\ loop.i \in {1, 2} => loop.f = loop.i - 1
    /\ loop.i >= 2 /\ fibonacci[loop.i - 1] < IntMax =>
          loop.f1 = fibonacci[loop.i - 2] /\ loop.f2 = fibonacci[loop.i - 1] /\ loop.f = loop.f2

FibInv ==
    /\ loop = [n |-> loop.n, i |-> loop.i, f1 |-> loop.f1, f2 |-> loop.f2, f |-> loop.f]
    /\ loop.n \in 0..MaxFib /\ loop.i \in 0..loop.n
    /\ {loop.f1, loop.f2, loop.f} \subseteq (-IntMax)..(IntMax - 1)
    /\ FibFound

\* FibInv holds before the first round.
LEMMA FibInitOK == FibInit => FibInv
<1> SUFFICES ASSUME NEW n \in 0..MaxFib, loop = [n |-> n, i |-> 0, f1 |-> 0, f2 |-> 1, f |-> 0] PROVE FibInv
    BY DEF FibInit
<1>1. loop.n = n /\ loop.i = 0 /\ loop.f1 = 0 /\ loop.f2 = 1 /\ loop.f = 0
    OBVIOUS
<1>2. {0, 1} \subseteq (-IntMax)..(IntMax - 1)
    BY FibonacciAssumption
<1> QED BY <1>1, <1>2, FibonacciAssumption DEF FibInv, FibFound

\* A round keeps it: no sum before the last number that fits overflows.
LEMMA FibStep == FibInv /\ [fib]_loop => FibInv'
<1> SUFFICES ASSUME FibInv, [fib]_loop PROVE FibInv'
    OBVIOUS
<1>1. CASE UNCHANGED loop
    BY <1>1 DEF FibInv, FibFound
<1>2. CASE fib
    <2> DEFINE k == loop.i
               sum == WrapInt(loop.f1 + loop.f2)
    <2>1. /\ loop = [n |-> loop.n, i |-> loop.i, f1 |-> loop.f1, f2 |-> loop.f2, f |-> loop.f]
          /\ loop.n \in 0..MaxFib /\ k \in 0..loop.n /\ k < loop.n
          /\ loop.f1 \in (-IntMax)..(IntMax - 1) /\ loop.f2 \in (-IntMax)..(IntMax - 1)
        BY <1>2 DEF fib, FibInv
    <2>2. k \in Nat /\ k \in 0..MaxFib /\ k + 1 \in 0..loop.n
        BY <2>1, FibonacciAssumption
    <2>3. sum \in (-IntMax)..(IntMax - 1)
        BY <2>1, WrapFacts, FibonacciAssumption
    <2>4. CASE k <= 1
        <3>1. loop' = [n |-> loop.n, i |-> k + 1, f1 |-> loop.f1, f2 |-> loop.f2, f |-> k]
            BY <1>2, <2>1, <2>4 DEF fib, Constant
        <3>2. /\ loop'.n = loop.n /\ loop'.i = k + 1 /\ loop'.f1 = loop.f1 /\ loop'.f2 = loop.f2 /\ loop'.f = k
            BY <3>1
        <3>3. loop.f1 = 0 /\ loop.f2 = 1 /\ k \in {0, 1}
            BY <2>2, <2>4 DEF FibInv, FibFound
        <3>4. k = 1 => fibonacci[0] = 0 /\ fibonacci[1] = 1
            <4> SUFFICES ASSUME k = 1 PROVE fibonacci[0] = 0 /\ fibonacci[1] = 1
                OBVIOUS
            <4>1. 0 \in 0..MaxFib /\ 1 \in 0..MaxFib
                <5>1. 1 \in 0..MaxFib
                    BY <2>2
                <5> QED BY <5>1, FibonacciAssumption
            <4>2. fibonacci[0] = Recur(fibonacci, 0) /\ fibonacci[1] = Recur(fibonacci, 1)
                BY <4>1, FibonacciValue
            <4>3. Recur(fibonacci, 0) = 0 /\ Recur(fibonacci, 1) = 1
                BY DEF Recur
            <4> QED BY <4>2, <4>3
        <3>5. FibFound'
            BY <3>2, <3>3, <3>4 DEF FibFound
        <3>6. k \in (-IntMax)..(IntMax - 1)
            BY <3>3, FibonacciAssumption
        <3> QED BY <2>1, <2>2, <3>1, <3>2, <3>5, <3>6 DEF FibInv
    <2>5. CASE k >= 2
        <3>1. loop' = [n |-> loop.n, i |-> k + 1, f1 |-> loop.f2, f2 |-> sum, f |-> sum]
            <4>1. loop' = [loop EXCEPT !.f = sum, !.f1 = loop.f2, !.f2 = sum, !.i = @ + 1]
                BY <1>2, <2>5, <2>2 DEF fib, Constant
            <4> HIDE DEF sum
            <4> QED BY <2>1, <4>1
        <3> HIDE DEF sum
        <3>2. /\ loop'.n = loop.n /\ loop'.i = k + 1 /\ loop'.f1 = loop.f2 /\ loop'.f2 = sum /\ loop'.f = sum
            BY <3>1
        <3>3. ASSUME fibonacci[k] < IntMax PROVE loop.f2 = fibonacci[k - 1] /\ sum = fibonacci[k]
            <4>1. /\ fibonacci[k] = fibonacci[k - 1] + fibonacci[k - 2]
                  /\ fibonacci[k] \in Nat /\ fibonacci[k - 1] \in Nat /\ fibonacci[k - 2] \in Nat
                BY <2>2, <2>5, FibonacciValue, FibonacciNat, FibonacciAssumption DEF Recur
            <4>2. fibonacci[k - 1] < IntMax
                BY <3>3, <4>1, FibonacciAssumption
            <4>3. loop.f1 = fibonacci[k - 2] /\ loop.f2 = fibonacci[k - 1]
                BY <2>5, <4>2 DEF FibInv, FibFound
            <4>4. loop.f1 + loop.f2 = fibonacci[k] /\ fibonacci[k] \in 0..(IntMax - 1)
                BY <3>3, <4>1, <4>3, FibonacciAssumption
            <4> QED BY <4>3, <4>4, WrapFacts DEF sum
        <3>4. FibFound'
            BY <2>2, <2>5, <3>2, <3>3 DEF FibFound
        <3> QED BY <2>1, <2>2, <2>3, <3>1, <3>2, <3>4 DEF FibInv
    <2> QED BY <2>2, <2>4, <2>5
<1> QED BY <1>1, <1>2

\* At the end f is the number before the one asked for.
LEMMA FibImplies == FibInv => FibTypeOK /\ LoopMatchesRecursion
<1> SUFFICES ASSUME FibInv PROVE FibTypeOK /\ LoopMatchesRecursion
    OBVIOUS
<1>1. FibTypeOK
    BY DEF FibInv, FibTypeOK
<1>2. ASSUME loop.i = loop.n, loop.n > 0, fibonacci[loop.n - 1] < IntMax PROVE loop.f = fibonacci[loop.n - 1]
    <2>1. loop.n \in 1..MaxFib /\ MaxFib \in Nat
        BY <1>2, FibonacciAssumption DEF FibInv
    <2>2. CASE loop.n = 1
        <3>1. fibonacci[0] = 0 /\ loop.f = 0
            BY <1>2, <2>1, <2>2, FibonacciValue DEF Recur, FibInv, FibFound
        <3> QED BY <2>2, <3>1
    <2>3. CASE loop.n >= 2
        BY <1>2, <2>3 DEF FibInv, FibFound
    <2> QED BY <2>1, <2>2, <2>3
<1> QED BY <1>1, <1>2 DEF LoopMatchesRecursion

-----------------------------------------------------------------------------
(* The handlers of inter_moniter.c *)

Frames == [sig : Alarms, at : {"open", "read", "assign", "print", "save"}, value : Int]

\* What the only handler on the stack has reached, and what it will still do.
HandlerAt(f) ==
    /\ f.at = "read" => procFile = "open"
    /\ f.at = "assign" => f.value <= intrs /\ (f.value >= 0 \/ f.value = NotFound)
    /\ f.at \in {"print", "save"} => cur_intr <= intrs /\ (cur_intr >= 0 \/ cur_intr = NotFound)
    /\ f.at = "save" => cur_intr # NotFound
    /\ \A k \in Alarms \ {f.sig} : shownSum[k] = old_intr[k]
    /\ shownSum[f.sig] = IF f.at = "save" THEN cur_intr ELSE old_intr[f.sig]

\* As long as no handler has interrupted another.
Alone ==
    /\ ended # "undefined" /\ frames \in Seq(Frames) /\ Len(frames) <= 1 /\ cur_intr \in Int
    /\ old_intr \in [Alarms -> Nat] /\ shownSum \in [Alarms -> Int]
    /\ \A k \in Alarms : old_intr[k] <= intrs
    /\ Len(frames) = 0 => \A k \in Alarms : shownSum[k] = old_intr[k]
    /\ Len(frames) = 1 => HandlerAt(frames[1])

MonInv ==
    /\ main \in 1..7 /\ intrs \in Nat
    /\ pendingSig \subseteq Alarms /\ \A k \in pendingSig : Started(k)
    /\ ended = "killed" => main \in 2..6
    /\ ~nested => Alone

\* MonInv holds when the program starts.
LEMMA MonInitOK == MonInit => MonInv
<1> SUFFICES ASSUME MonInit PROVE MonInv
    OBVIOUS
<1>1. <<>> \in Seq(Frames) /\ Len(<<>>) = 0
    OBVIOUS
<1>2. Alone
    <2>1. frames \in Seq(Frames) /\ Len(frames) = 0
        BY <1>1 DEF MonInit
    <2>2. /\ old_intr \in [Alarms -> Nat] /\ shownSum \in [Alarms -> Int] /\ cur_intr \in Int
          /\ \A k \in Alarms : old_intr[k] <= intrs /\ shownSum[k] = old_intr[k]
        BY DEF MonInit
    <2>3. ended # "undefined"
        BY DEF MonInit
    <2> QED BY <2>1, <2>2, <2>3 DEF Alone
<1> QED BY <1>2 DEF MonInit, MonInv

\* A timer of which a signal is pending has been started; when its handler is
\* not there yet, main is between its first setitimer and its last signal().
LEMMA KilledWhere ==
    ASSUME NEW k, main \in 1..7, Started(k), ~Installed(k)
    PROVE  main \in 2..6
BY DEF Started, Installed

\* A step of the only handler changes its entry of the stack.
LEMMA MovesOn ==
    ASSUME frames \in Seq(Frames), Len(frames) = 1, NEW f \in Frames, frames' = [frames EXCEPT ![1] = f]
    PROVE  frames' \in Seq(Frames) /\ Len(frames') = 1 /\ frames'[1] = f
OBVIOUS

\* What Goto does to the only handler.
LEMMA GotoMoves ==
    ASSUME frames \in Seq(Frames), Len(frames) = 1, NEW a, Goto(a)
    PROVE  frames' = [frames EXCEPT ![1] = [sig |-> frames[1].sig, at |-> a, value |-> frames[1].value]]
<1>1. frames' = [frames EXCEPT ![1] = [frames[1] EXCEPT !.at = a]]
    BY DEF Goto
<1>2. frames[1] = [sig |-> frames[1].sig, at |-> frames[1].at, value |-> frames[1].value]
    <2>1. frames[1] \in Frames
        OBVIOUS
    <2> QED BY <2>1 DEF Frames
<1>3. [frames[1] EXCEPT !.at = a] = [sig |-> frames[1].sig, at |-> a, value |-> frames[1].value]
    BY <1>2
<1> QED BY <1>1, <1>3

\* Every step of main, of the timers and of the handlers keeps MonInv.
LEMMA MonStep == MonInv /\ [MonNext]_monVars => MonInv'
<1> SUFFICES ASSUME MonInv, [MonNext]_monVars PROVE MonInv'
    OBVIOUS
<1>0. /\ main \in 1..7 /\ intrs \in Nat
      /\ pendingSig \subseteq Alarms /\ (\A k \in pendingSig : Started(k))
      /\ (ended = "killed" => main \in 2..6) /\ (~nested => Alone)
    BY DEF MonInv
<1>1. CASE UNCHANGED monVars
    <2>1. Alone => Alone'
        BY <1>1 DEF monVars, Alone, HandlerAt
    <2> QED BY <1>0, <1>1, <2>1 DEF monVars, MonInv, Started
<1>2. CASE main_step
    <2>1. main \in 1..6 /\ main' = main + 1 /\ main' \in 1..7
          /\ UNCHANGED <<intrs, pendingSig, frames, procFile, cur_intr, old_intr, shownSum, nested, ended>> /\ ended = "no"
        BY <1>0, <1>2 DEF main_step
    <2>2. Alone => Alone'
        BY <2>1 DEF Alone, HandlerAt
    <2>3. \A k \in pendingSig' : Started(k)'
        BY <1>0, <2>1 DEF Started
    <2> QED BY <1>0, <2>1, <2>2, <2>3 DEF MonInv
<1>3. CASE Interrupt
    <2>1. intrs' = intrs + 1 /\ UNCHANGED <<main, pendingSig, frames, procFile, cur_intr, old_intr, shownSum, nested, ended>>
        BY <1>3 DEF Interrupt
    <2>2. ASSUME Alone PROVE Alone'
        <3>1. \A k \in Alarms : old_intr'[k] <= intrs'
            BY <1>0, <2>1, <2>2 DEF Alone
        <3>2. Len(frames) = 1 => HandlerAt(frames[1])'
            <4> SUFFICES ASSUME Len(frames) = 1 PROVE HandlerAt(frames[1])'
                OBVIOUS
            <4>f. PICK f : f = frames[1]
                OBVIOUS
            <4>0. frames \in Seq(Frames) /\ HandlerAt(frames[1]) /\ cur_intr \in Int
                BY <2>2 DEF Alone
            <4>1. f \in Frames /\ HandlerAt(f) /\ cur_intr \in Int
                <5>1. f \in Frames
                    BY <4>f, <4>0
                <5> QED BY <4>f, <4>0, <5>1 DEF HandlerAt
            <4>2. f.value \in Int
                BY <4>1 DEF Frames
            <4>3. frames'[1] = f
                BY <4>f, <2>1
            <4>4. (f.at = "assign" => f.value <= intrs') /\ (f.at \in {"print", "save"} => cur_intr <= intrs')
                BY <1>0, <2>1, <4>1, <4>2 DEF HandlerAt
            <4> QED BY <2>1, <4>1, <4>3, <4>4 DEF HandlerAt
        <3> QED BY <2>1, <2>2, <3>1, <3>2 DEF Alone
    <2> QED BY <1>0, <2>1, <2>2 DEF MonInv, Started
<1>4. CASE clean
    <2>1. ended' = "exit" /\ UNCHANGED <<main, intrs, pendingSig, frames, procFile, cur_intr, old_intr, shownSum, nested>>
        BY <1>4 DEF clean
    <2>2. Alone => Alone'
        BY <2>1 DEF Alone, HandlerAt
    <2> QED BY <1>0, <2>1, <2>2 DEF MonInv, Started
<1>5. ASSUME NEW k \in Alarms, Expire(k) PROVE MonInv'
    <2>1. /\ Started(k) /\ pendingSig' = pendingSig \cup {k}
          /\ UNCHANGED <<main, intrs, frames, procFile, cur_intr, old_intr, shownSum, nested, ended>>
        BY <1>5 DEF Expire
    <2>2. Alone => Alone'
        BY <2>1 DEF Alone, HandlerAt
    <2>3. \A j \in pendingSig' : Started(j)'
        BY <1>0, <2>1 DEF Started
    <2> QED BY <1>0, <2>1, <2>2, <2>3 DEF MonInv
<1>6. ASSUME NEW k \in Alarms, Deliver(k) PROVE MonInv'
    <2>1. /\ k \in pendingSig /\ pendingSig' = pendingSig \ {k} /\ ended = "no"
          /\ UNCHANGED <<main, intrs, procFile, cur_intr, old_intr, shownSum>>
        BY <1>6 DEF Deliver
    <2>2. \A j \in pendingSig' : Started(j)'
        BY <1>0, <2>1 DEF Started
    <2>3. CASE Installed(k)
        <3>f. PICK f : f = [sig |-> k, at |-> "open", value |-> 0]
            OBVIOUS
        <3>1. frames' = Append(frames, f) /\ nested' = (nested \/ frames # <<>>) /\ ended' = "no"
            <4>1. /\ frames' = Append(frames, [sig |-> k, at |-> "open", value |-> 0])
                  /\ nested' = (nested \/ frames # <<>>) /\ ended' = "no"
                BY <1>6, <2>1, <2>3 DEF Deliver
            <4> QED BY <3>f, <4>1
        <3>2. ASSUME ~nested' PROVE Alone'
            <4>1. ~nested /\ frames = <<>>
                BY <3>1, <3>2
            <4>2. f \in Frames /\ f.sig = k /\ f.at = "open"
                BY <3>f DEF Frames
            <4>3. <<>> \in Seq(Frames) /\ Len(<<>>) = 0
                OBVIOUS
            <4>4. frames' \in Seq(Frames) /\ Len(frames') = 1 /\ frames'[1] = f
                BY <3>1, <4>1, <4>2, <4>3
            <4>5. \A j \in Alarms : shownSum[j] = old_intr[j]
                BY <1>0, <4>1, <4>3 DEF Alone
            <4>6. HandlerAt(f)'
                BY <2>1, <4>2, <4>5 DEF HandlerAt
            <4> QED BY <1>0, <2>1, <3>1, <4>1, <4>4, <4>6 DEF Alone, HandlerAt
        <3> QED BY <1>0, <2>1, <2>2, <3>1, <3>2 DEF MonInv
    <2>4. CASE ~Installed(k)
        <3>1. ended' = "killed" /\ UNCHANGED <<frames, nested>>
            BY <1>6, <2>4 DEF Deliver
        <3>2. Started(k)
            BY <1>0, <2>1
        <3>3. main \in 2..6
            BY <1>0, <2>4, <3>2, KilledWhere
        <3>4. Alone => Alone'
            BY <2>1, <3>1 DEF Alone, HandlerAt
        <3> QED BY <1>0, <2>1, <2>2, <3>1, <3>3, <3>4 DEF MonInv
    <2> QED BY <2>3, <2>4
<1>7. ASSUME NEW here, At(here), ~nested
      PROVE  /\ Alone /\ frames \in Seq(Frames) /\ Len(frames) = 1 /\ frames[1] \in Frames /\ Top = frames[1]
             /\ frames[1].at = here /\ HandlerAt(frames[1]) /\ ended = "no"
    <2>1. frames # <<>> /\ Top.at = here /\ ended = "no" /\ Alone
        BY <1>0, <1>7 DEF At
    <2>2. frames \in Seq(Frames) /\ Len(frames) <= 1 /\ Len(frames) \in Nat
        BY <2>1 DEF Alone
    <2>3. Len(frames) \in Nat \ {0}
        BY <2>1, <2>2, EmptySeq
    <2>4. Len(frames) = 1
        BY <2>2, <2>3
    <2> QED BY <2>1, <2>2, <2>4 DEF Alone, Top
<1>8. ASSUME UNCHANGED <<main, intrs, pendingSig, nested>>, ended' # "killed", ~nested => Alone' PROVE MonInv'
    BY <1>0, <1>8 DEF MonInv, Started
<1>9. CASE read_intr_open
    <2>1. At("open") /\ UNCHANGED <<main, intrs, pendingSig, nested, cur_intr, old_intr, shownSum>>
        BY <1>9 DEF read_intr_open
    <2>2. CASE ended' = "exit" /\ UNCHANGED <<procFile, frames>>
        <3>1. Alone => Alone'
            BY <2>1, <2>2 DEF Alone, HandlerAt
        <3> QED BY <1>0, <1>8, <2>1, <2>2, <3>1
    <2>3. CASE procFile' = "open" /\ Goto("read") /\ UNCHANGED ended
        <3>1. ASSUME ~nested PROVE Alone'
            <4>1. /\ Alone /\ frames \in Seq(Frames) /\ Len(frames) = 1 /\ frames[1] \in Frames
                  /\ frames[1].at = "open" /\ HandlerAt(frames[1])
                BY <1>7, <2>1, <3>1
            <4>f. PICK f : f = [sig |-> frames[1].sig, at |-> "read", value |-> frames[1].value]
                OBVIOUS
            <4>2. f \in Frames /\ f.sig = frames[1].sig /\ f.at = "read"
                BY <4>f, <4>1 DEF Frames
            <4>3. frames' = [frames EXCEPT ![1] = f]
                BY <4>f, <2>3, <4>1, GotoMoves
            <4>4. frames' \in Seq(Frames) /\ Len(frames') = 1 /\ frames'[1] = f
                BY <4>1, <4>2, <4>3, MovesOn
            <4>5. HandlerAt(f)'
                BY <2>1, <2>3, <4>1, <4>2 DEF HandlerAt
            <4> QED BY <2>1, <2>3, <4>1, <4>4, <4>5 DEF Alone, HandlerAt
        <3>2. ended' # "killed"
            BY <2>1, <2>3 DEF At
        <3> QED BY <1>8, <2>1, <3>1, <3>2
    <2> QED BY <1>9, <2>2, <2>3 DEF read_intr_open
<1>10. CASE read_intr
    <2>1. At("read") /\ UNCHANGED <<main, intrs, pendingSig, nested, cur_intr, old_intr, shownSum>>
        BY <1>10 DEF read_intr
    <2>2. ASSUME ~nested PROVE Alone'
        <3>1. /\ Alone /\ frames \in Seq(Frames) /\ Len(frames) = 1 /\ frames[1] \in Frames
              /\ frames[1].at = "read" /\ HandlerAt(frames[1])
            BY <1>7, <2>1, <2>2
        <3>2. procFile = "open"
            BY <3>1 DEF HandlerAt
        <3>v. PICK v \in {intrs, NotFound} :
                 /\ frames' = [frames EXCEPT ![1] = [frames[1] EXCEPT !.at = "assign", !.value = v]]
                 /\ UNCHANGED ended
            BY <1>10, <3>1, <3>2 DEF read_intr
        <3>f. PICK f : f = [sig |-> frames[1].sig, at |-> "assign", value |-> v]
            OBVIOUS
        <3>i. v \in Int /\ v <= intrs /\ (v >= 0 \/ v = NotFound)
            BY <1>0 DEF NotFound
        <3>3. f \in Frames /\ f.sig = frames[1].sig /\ f.at = "assign" /\ f.value = v
            BY <3>f, <3>i, <3>1 DEF Frames
        <3>4. frames' = [frames EXCEPT ![1] = f] /\ UNCHANGED ended
            <4>1. frames[1] = [sig |-> frames[1].sig, at |-> frames[1].at, value |-> frames[1].value]
                BY <3>1 DEF Frames
            <4>2. [frames[1] EXCEPT !.at = "assign", !.value = v] = [sig |-> frames[1].sig, at |-> "assign", value |-> v]
                <5>1. PICK e : e = [frames[1] EXCEPT !.at = "assign"]
                    OBVIOUS
                <5>2. e = [sig |-> frames[1].sig, at |-> "assign", value |-> frames[1].value]
                    BY <4>1, <5>1
                <5>3. e = [sig |-> e.sig, at |-> e.at, value |-> e.value] /\ e.sig = frames[1].sig /\ e.at = "assign"
                    BY <5>2
                <5>4. [e EXCEPT !.value = v] = [sig |-> e.sig, at |-> e.at, value |-> v]
                    BY <5>3
                <5> QED BY <5>1, <5>3, <5>4
            <4> QED BY <3>f, <3>v, <4>2
        <3>5. frames' \in Seq(Frames) /\ Len(frames') = 1 /\ frames'[1] = f
            BY <3>1, <3>3, <3>4, MovesOn
        <3>6. HandlerAt(f)'
            BY <1>0, <2>1, <3>1, <3>3, <3>i DEF HandlerAt
        <3> QED BY <2>1, <3>1, <3>4, <3>5, <3>6 DEF Alone, HandlerAt
    <2>3. ended' # "killed"
        BY <1>10, <2>1 DEF read_intr, At
    <2> QED BY <1>8, <2>1, <2>2, <2>3
<1>11. CASE sigh_assign
    <2>1. /\ At("assign") /\ cur_intr' = Top.value /\ Goto("print")
          /\ UNCHANGED <<main, intrs, pendingSig, nested, procFile, old_intr, shownSum, ended>>
        BY <1>11 DEF sigh_assign
    <2>2. ASSUME ~nested PROVE Alone'
        <3>1. /\ Alone /\ frames \in Seq(Frames) /\ Len(frames) = 1 /\ frames[1] \in Frames /\ Top = frames[1]
              /\ frames[1].at = "assign" /\ HandlerAt(frames[1])
            BY <1>7, <2>1, <2>2
        <3>f. PICK f : f = [sig |-> frames[1].sig, at |-> "print", value |-> frames[1].value]
            OBVIOUS
        <3>2. f \in Frames /\ f.sig = frames[1].sig /\ f.at = "print" /\ frames[1].value \in Int
            BY <3>f, <3>1 DEF Frames
        <3>3. frames' = [frames EXCEPT ![1] = f]
            BY <3>f, <2>1, <3>1, GotoMoves
        <3>4. frames' \in Seq(Frames) /\ Len(frames') = 1 /\ frames'[1] = f
            BY <3>1, <3>2, <3>3, MovesOn
        <3>5. cur_intr' \in Int /\ cur_intr' <= intrs /\ (cur_intr' >= 0 \/ cur_intr' = NotFound)
            BY <2>1, <3>1, <3>2 DEF HandlerAt
        <3>6. HandlerAt(f)'
            BY <2>1, <3>1, <3>2, <3>5 DEF HandlerAt
        <3> QED BY <2>1, <3>1, <3>4, <3>5, <3>6 DEF Alone, HandlerAt
    <2>3. ended' # "killed"
        BY <2>1 DEF At
    <2> QED BY <1>8, <2>1, <2>2, <2>3
<1>12. CASE sigh_print
    <2>1. /\ At("print") /\ cur_intr # NotFound
          /\ shownSum' = [shownSum EXCEPT ![Top.sig] = @ + cur_intr - old_intr[Top.sig]] /\ Goto("save")
          /\ UNCHANGED <<main, intrs, pendingSig, nested, procFile, cur_intr, old_intr, ended>>
        BY <1>12 DEF sigh_print
    <2>2. ASSUME ~nested PROVE Alone'
        <3>1. /\ Alone /\ frames \in Seq(Frames) /\ Len(frames) = 1 /\ frames[1] \in Frames /\ Top = frames[1]
              /\ frames[1].at = "print" /\ HandlerAt(frames[1])
            BY <1>7, <2>1, <2>2
        <3>f. PICK f : f = [sig |-> frames[1].sig, at |-> "save", value |-> frames[1].value]
            OBVIOUS
        <3> DEFINE k == frames[1].sig
        <3>2. f \in Frames /\ f.sig = k /\ f.at = "save" /\ k \in Alarms
            BY <3>f, <3>1 DEF Frames
        <3>3. frames' = [frames EXCEPT ![1] = f]
            BY <3>f, <2>1, <3>1, GotoMoves
        <3>4. shownSum' = [shownSum EXCEPT ![k] = @ + cur_intr - old_intr[k]]
            BY <2>1, <3>1
        <3>5. /\ shownSum[k] = old_intr[k] /\ cur_intr <= intrs /\ (cur_intr >= 0 \/ cur_intr = NotFound)
              /\ \A j \in Alarms \ {k} : shownSum[j] = old_intr[j]
            BY <3>1 DEF HandlerAt
        <3> HIDE DEF k
        <3>6. frames' \in Seq(Frames) /\ Len(frames') = 1 /\ frames'[1] = f
            BY <3>1, <3>2, <3>3, MovesOn
        <3>7. old_intr \in [Alarms -> Nat] /\ shownSum \in [Alarms -> Int] /\ cur_intr \in Int
            BY <3>1 DEF Alone
        <3>8. shownSum' \in [Alarms -> Int] /\ shownSum'[k] = cur_intr
            BY <3>2, <3>4, <3>5, <3>7
        <3>9. \A j \in Alarms \ {k} : shownSum'[j] = old_intr[j]
            BY <3>4, <3>5, <3>7
        <3>10. HandlerAt(f)'
            BY <2>1, <3>2, <3>5, <3>8, <3>9 DEF HandlerAt
        <3> QED BY <2>1, <3>1, <3>6, <3>8, <3>10 DEF Alone, HandlerAt
    <2>3. ended' # "killed"
        BY <2>1 DEF At
    <2> QED BY <1>8, <2>1, <2>2, <2>3
<1>13. CASE sigh_save
    <2>1. /\ At("save") /\ old_intr' = [old_intr EXCEPT ![Top.sig] = cur_intr] /\ frames' = Front(frames)
          /\ UNCHANGED <<main, intrs, pendingSig, nested, procFile, cur_intr, shownSum, ended>>
        BY <1>13 DEF sigh_save, SavedFor
    <2>2. ASSUME ~nested PROVE Alone'
        <3>1. /\ Alone /\ frames \in Seq(Frames) /\ Len(frames) = 1 /\ frames[1] \in Frames /\ Top = frames[1]
              /\ frames[1].at = "save" /\ HandlerAt(frames[1])
            BY <1>7, <2>1, <2>2
        <3> DEFINE k == frames[1].sig
        <3>2. k \in Alarms
            BY <3>1 DEF Frames
        <3>3. old_intr' = [old_intr EXCEPT ![k] = cur_intr]
            BY <2>1, <3>1
        <3>4. /\ shownSum[k] = cur_intr /\ cur_intr <= intrs /\ cur_intr >= 0
              /\ \A j \in Alarms \ {k} : shownSum[j] = old_intr[j]
            BY <3>1 DEF HandlerAt
        <3> HIDE DEF k
        <3>5. frames' \in Seq(Frames) /\ Len(frames') = 0
            BY <2>1, <3>1 DEF Front
        <3>6. /\ old_intr \in [Alarms -> Nat] /\ shownSum \in [Alarms -> Int] /\ cur_intr \in Int
              /\ \A j \in Alarms : old_intr[j] <= intrs
            BY <3>1 DEF Alone
        <3>7. old_intr' \in [Alarms -> Nat] /\ \A j \in Alarms : old_intr'[j] <= intrs /\ shownSum[j] = old_intr'[j]
            BY <3>2, <3>3, <3>4, <3>6
        <3> QED BY <2>1, <3>1, <3>5, <3>6, <3>7 DEF Alone
    <2>3. ended' # "killed"
        BY <2>1 DEF At
    <2> QED BY <1>8, <2>1, <2>2, <2>3
<1>14. CASE sigh_fail
    <2>1. UNCHANGED <<main, intrs, pendingSig, frames, procFile, cur_intr, old_intr, shownSum, nested>> /\ ended' = "exit"
        BY <1>14 DEF sigh_fail
    <2>2. Alone => Alone'
        BY <2>1 DEF Alone, HandlerAt
    <2> QED BY <1>0, <1>8, <2>1, <2>2
<1> QED
    BY <1>1, <1>2, <1>3, <1>4, <1>5, <1>6, <1>9, <1>10, <1>11, <1>12, <1>13, <1>14 DEF MonNext

\* What it says of the program: only nesting spoils a reading.
LEMMA MonImplies == MonInv => OnlyNestingBreaks /\ KilledOnlyBeforeHandlers
<1>1. <<>> \in Seq(Frames) /\ Len(<<>>) = 0
    OBVIOUS
<1>2. MonInv => OnlyNestingBreaks
    BY <1>1 DEF MonInv, Alone, OnlyNestingBreaks
<1> QED BY <1>2 DEF MonInv, KilledOnlyBeforeHandlers

-----------------------------------------------------------------------------
(* The timers of mytimer.c *)

Samples == [kind : Kinds \cup {"none"}, left : Int, raced : Nat, spent : Int, late : Int]
Shows == [printed : Int, spent : Int, raced : Nat, late : Int]

TimersTypes ==
    /\ tpc \in [People -> {"none", "start", "fork", "compute", "print", "read", "wait", "done", "killed", "segv"}]
    /\ handlers \in [People -> {"default", "parent", "own"}]
    /\ left \in [People -> [Kinds -> 0..Full]] /\ secs \in [People -> [Kinds -> Int]]
    /\ fires \in [People -> [Kinds -> Nat]] /\ lost \in [People -> [Kinds -> Nat]]
    /\ due \subseteq People \X Kinds /\ forked \subseteq Children
    /\ sampled \in [People -> Samples] /\ shown \in [People -> [Kinds -> Shows]]

\* The bound of the model, which the type invariant states.
Bounded ==
    \A k \in Kinds : /\ fires["p"][k] + fires["c1"][k] + fires["c2"][k] <= MaxFires
                     /\ \A x \in People : lost[x][k] <= fires[x][k]

\* Only a process with handlers of its own has timers, and only a timer has signals.
Armed ==
    \A x \in People, k \in Kinds :
       /\ left[x][k] > 0 => handlers[x] = "own" /\ tpc[x] # "none"
       /\ <<x, k>> \in due => left[x][k] > 0

\* Children are there once they are forked, and gone when the parent has ended.
Family ==
    /\ \A x \in People : tpc[x] # "killed"
    /\ \A c \in forked : tpc[c] # "none"
    /\ tpc["p"] = "start" => forked = {}
    /\ tpc["p"] = "done" => \A c \in forked : tpc[c] \in {"done", "segv"}

\* Every expiration has been added, but for the pending one and those that were lost.
Pending(x, k) == IF <<x, k>> \in due THEN 1 ELSE 0
Counted == \A x \in People, k \in Kinds : secs[x][k] = Nominal * (fires[x][k] - lost[x][k] - Pending(x, k))

\* What is about to be printed, and what has been.
Explained(printed, s) == printed = s.spent + s.late + Nominal * s.raced

Reading ==
    \A x \in People : tpc[x] = "read" =>
       sampled[x].kind \in Kinds /\ Explained(secs[x][sampled[x].kind] + Full - sampled[x].left, sampled[x])

Showing ==
    \A x \in People, k \in Kinds : shown[x][k] # NoShow => Explained(shown[x][k].printed, shown[x][k])

TimersInv == TimersTypes /\ Bounded /\ Armed /\ Family /\ Counted /\ Reading /\ Showing

\* TimersInv holds when the program starts.
LEMMA TimersInitOK == TimersInit => TimersInv
<1> SUFFICES ASSUME TimersInit PROVE TimersInv
    OBVIOUS
<1>1. /\ tpc = [x \in People |-> IF x = "p" THEN "start" ELSE "none"] /\ handlers = [x \in People |-> "default"]
      /\ forked = {} /\ due = {} /\ left = [x \in People |-> [k \in Kinds |-> 0]]
      /\ secs = left /\ fires = left /\ lost = left
    BY DEF TimersInit
<1>2. left \in [People -> [Kinds -> 0..Full]] /\ left \in [People -> [Kinds -> Nat]]
    BY <1>1, TimersAssumption DEF Full
<1>3. \A x \in People, k \in Kinds : left[x][k] = 0
    BY <1>1
<1>4. sampled \in [People -> Samples] /\ shown \in [People -> [Kinds -> Shows]]
    <2>1. [kind |-> "none", left |-> 0, raced |-> 0, spent |-> 0, late |-> 0] \in Samples
        BY DEF Samples
    <2>2. NoShow \in Shows
        BY DEF NoShow, Shows
    <2> QED BY <2>1, <2>2 DEF TimersInit
<1>5. tpc \in [People -> {"none", "start", "fork", "compute", "print", "read", "wait", "done", "killed", "segv"}]
      /\ (\A x \in People : tpc[x] \in {"start", "none"}) /\ tpc["p"] = "start"
    BY <1>1 DEF People
<1>6. TimersTypes
    BY <1>1, <1>2, <1>4, <1>5 DEF TimersTypes
<1>7. Bounded
    BY <1>1, <1>3, TimersAssumption DEF Bounded, People
<1>8. Armed /\ Family /\ Reading
    BY <1>1, <1>3, <1>5 DEF Armed, Family, Reading
<1>9. Counted
    <2>1. Nominal * 0 = 0
        BY TimersAssumption
    <2> QED BY <1>1, <1>3, <2>1, TimersAssumption DEF Counted, Pending
<1>10. Showing
    BY DEF TimersInit, Showing
<1> QED BY <1>6, <1>7, <1>8, <1>9, <1>10 DEF TimersInv

\* An entry of a table of tables is changed.
LEMMA EntryChanged ==
    ASSUME NEW S, NEW f \in [People -> [Kinds -> S]], NEW x \in People, NEW k \in Kinds, NEW v \in S,
           NEW g, g = [f EXCEPT ![x][k] = v]
    PROVE  /\ g \in [People -> [Kinds -> S]]
           /\ \A y \in People, j \in Kinds : g[y][j] = IF y = x /\ j = k THEN v ELSE f[y][j]
OBVIOUS

\* Every period that ran out is Full units long and counted as Nominal.
LEMMA PeriodsCounted ==
    ASSUME NEW f \in Nat, NEW l \in Nat, NEW r \in Int
    PROVE  Nominal * (f - l) + Full - r = (f * Full + Full - r) + (f - Nominal * l)
<1>1. Nominal * (f - l) = Nominal * f - Nominal * l
    BY TimersAssumption
<1>2. f * (Nominal - 1) = Nominal * f - f
    BY TimersAssumption
<1>3. Nominal * f \in Int /\ Nominal * l \in Int /\ Nominal \in Int
    BY TimersAssumption
<1> QED BY <1>1, <1>2, <1>3 DEF Full

\* A step that moves one process on, with its variables as they are.
LEMMA MovesProcess ==
    ASSUME TimersInv, NEW x \in People, NEW to \in {"compute", "print", "done", "segv", "wait", "fork"},
           tpc' = [tpc EXCEPT ![x] = to], tpc[x] \notin {"none", "done", "segv"},
           to = "done" /\ x = "p" => \A c \in forked : tpc[c] \in {"done", "segv"},
           UNCHANGED <<handlers, left, due, secs, fires, lost, sampled, shown, forked>>
    PROVE  TimersInv'
<1>0. TimersTypes /\ Bounded /\ Armed /\ Family /\ Counted /\ Reading /\ Showing
    BY DEF TimersInv
<1>1. tpc' \in [People -> {"none", "start", "fork", "compute", "print", "read", "wait", "done", "killed", "segv"}]
      /\ tpc'[x] = to /\ \A y \in People : y # x => tpc'[y] = tpc[y]
    BY <1>0 DEF TimersTypes
<1>2. TimersTypes'
    BY <1>0, <1>1 DEF TimersTypes
<1>3. Bounded' /\ Counted' /\ Showing'
    BY <1>0 DEF Bounded, Counted, Pending, Showing
<1>4. Armed'
    BY <1>0, <1>1 DEF Armed
<1>5. Family'
    BY <1>0, <1>1 DEF Family, TimersTypes, Children, People
<1>6. Reading'
    BY <1>0, <1>1 DEF Reading
<1> QED BY <1>2, <1>3, <1>4, <1>5, <1>6 DEF TimersInv

\* Neither the processes nor their timers and handlers break TimersInv.
LEMMA TimersStep == TimersInv /\ [TimersNext]_timerVars => TimersInv'
<1> SUFFICES ASSUME TimersInv, [TimersNext]_timerVars PROVE TimersInv'
    OBVIOUS
<1>0. TimersTypes /\ Bounded /\ Armed /\ Family /\ Counted /\ Reading /\ Showing
    BY DEF TimersInv
<1>1. CASE UNCHANGED timerVars
    BY <1>0, <1>1 DEF timerVars, TimersInv, TimersTypes, Bounded, Armed, Family, Counted, Pending, Reading, Showing
<1>2. CASE usage
    <2>1. /\ tpc["p"] = "start" /\ tpc' = [tpc EXCEPT !["p"] = "done"] /\ "p" \in People
          /\ UNCHANGED <<handlers, left, due, secs, fires, lost, sampled, shown, forked>>
        BY <1>2 DEF usage, People
    <2>2. forked = {}
        BY <1>0, <2>1 DEF Family
    <2> QED BY <2>1, <2>2, MovesProcess
<1>3. CASE fork
    <2>1. PICK c \in Children, ok \in BOOLEAN :
             /\ tpc[c] = "none"
             /\ handlers' = IF ok THEN [handlers EXCEPT ![c] = "parent"] ELSE handlers
             /\ forked' = IF ok THEN forked \cup {c} ELSE forked
             /\ tpc' = [tpc EXCEPT ![c] = IF ok THEN "start" ELSE "done", !["p"] = IF c = "c2" THEN "compute" ELSE "fork"]
        BY <1>3 DEF fork
    <2>2. tpc["p"] = "fork" /\ UNCHANGED <<left, due, secs, fires, lost, sampled, shown>>
        BY <1>3 DEF fork
    <2>3. c \in People /\ "p" \in People /\ c # "p"
        BY DEF Children, People
    <2>4. /\ tpc'[c] = (IF ok THEN "start" ELSE "done") /\ tpc'["p"] \in {"compute", "fork"}
          /\ \A y \in People \ {c, "p"} : tpc'[y] = tpc[y]
        BY <1>0, <2>1, <2>3 DEF TimersTypes
    <2>5. /\ tpc' \in [People -> {"none", "start", "fork", "compute", "print", "read", "wait", "done", "killed", "segv"}]
          /\ handlers' \in [People -> {"default", "parent", "own"}] /\ \A y \in People \ {c} : handlers'[y] = handlers[y]
        BY <1>0, <2>1, <2>3 DEF TimersTypes
    <2>6. TimersTypes'
        BY <1>0, <2>1, <2>2, <2>5 DEF TimersTypes
    <2>7. Bounded' /\ Counted' /\ Showing'
        BY <1>0, <2>2 DEF Bounded, Counted, Pending, Showing
    <2>8. Armed'
        <3>1. \A k \in Kinds : left[c][k] \in 0..Full /\ ~(left[c][k] > 0)
            <4>1. \A k \in Kinds : left[c][k] \in 0..Full
                BY <1>0, <2>3 DEF TimersTypes
            <4> QED BY <1>0, <2>1, <2>3, <4>1 DEF Armed
        <3>2. ASSUME NEW y \in People, NEW k \in Kinds
              PROVE  /\ left[y][k] > 0 => handlers'[y] = "own" /\ tpc'[y] # "none"
                     /\ <<y, k>> \in due => left[y][k] > 0
            <4>1. CASE y = c
                BY <1>0, <2>3, <3>1, <4>1 DEF Armed
            <4>2. CASE y # c
                BY <1>0, <2>4, <2>5, <3>1, <4>2 DEF Armed
            <4> QED BY <4>1, <4>2
        <3> QED BY <2>2, <3>2 DEF Armed
    <2>9. Family'
        <3>1. \A x \in People : tpc'[x] # "killed"
            BY <1>0, <2>3, <2>4 DEF Family
        <3>2. \A d \in forked' : tpc'[d] # "none"
            BY <1>0, <2>1, <2>3, <2>4 DEF Family, TimersTypes, Children, People
        <3> QED BY <2>4, <3>1, <3>2 DEF Family
    <2>10. Reading'
        BY <1>0, <2>2, <2>3, <2>4 DEF Reading
    <2> QED BY <2>6, <2>7, <2>8, <2>9, <2>10 DEF TimersInv
<1>4. CASE waitpid
    <2>1. /\ tpc["p"] = "wait" /\ tpc' = [tpc EXCEPT !["p"] = "done"] /\ "p" \in People
          /\ UNCHANGED <<handlers, left, due, secs, fires, lost, sampled, shown, forked>>
          /\ \A c \in forked : ~Alive(c)
        BY <1>4 DEF waitpid, Reaped, People
    <2>2. \A c \in forked : tpc[c] \in {"done", "segv"}
        BY <1>0, <2>1 DEF Alive, Family, TimersTypes, Children, People
    <2> QED BY <2>1, <2>2, MovesProcess
<1>5. ASSUME NEW x \in People, signal(x) PROVE TimersInv'
    <2>1. /\ tpc[x] = "start" /\ handlers' = [handlers EXCEPT ![x] = "own"]
          /\ UNCHANGED <<tpc, left, due, secs, fires, lost, sampled, shown, forked>>
        BY <1>5 DEF signal
    <2>2. handlers' \in [People -> {"default", "parent", "own"}] /\ handlers'[x] = "own"
          /\ \A y \in People : y # x => handlers'[y] = handlers[y]
        BY <1>0, <2>1 DEF TimersTypes
    <2>3. TimersTypes' /\ Armed'
        BY <1>0, <2>1, <2>2 DEF TimersTypes, Armed
    <2>4. Bounded' /\ Counted' /\ Showing' /\ Family' /\ Reading'
        BY <1>0, <2>1 DEF Bounded, Counted, Pending, Showing, Family, Reading
    <2> QED BY <2>3, <2>4 DEF TimersInv
<1>6. ASSUME NEW x \in People, compute(x) PROVE TimersInv'
    <2>1. /\ tpc[x] = "compute" /\ tpc' = [tpc EXCEPT ![x] = IF x = "p" /\ argc = 3 THEN "segv" ELSE "print"]
          /\ UNCHANGED <<handlers, left, due, secs, fires, lost, sampled, shown, forked>>
        BY <1>6 DEF compute
    <2>2. CASE x = "p" /\ argc = 3
        BY <2>1, <2>2, MovesProcess
    <2>3. CASE ~(x = "p" /\ argc = 3)
        BY <2>1, <2>3, MovesProcess
    <2> QED BY <2>2, <2>3
<1>7. ASSUME NEW x \in People, NEW k \in Kinds, setitimer(x, k) PROVE TimersInv'
    <2>1. /\ tpc[x] = "start" /\ handlers[x] = "own" /\ left[x][k] = 0 /\ left' = [left EXCEPT ![x][k] = Full]
          /\ UNCHANGED <<handlers, due, secs, fires, lost, sampled, shown, forked>>
        BY <1>7 DEF setitimer, HandlersFirst
    <2>2. PICK to \in {"start", "fork", "compute"} : tpc' = [tpc EXCEPT ![x] = to] /\ (x # "p" => to # "fork")
        <3>1. \/ tpc' = tpc \/ tpc' = [tpc EXCEPT ![x] = "compute"]
              \/ x = "p" /\ tpc' = [tpc EXCEPT ![x] = "fork"]
            BY <1>7 DEF setitimer
        <3>2. tpc = [tpc EXCEPT ![x] = "start"]
            BY <1>0, <2>1 DEF TimersTypes
        <3> QED BY <3>1, <3>2
    <2>3. /\ tpc' \in [People -> {"none", "start", "fork", "compute", "print", "read", "wait", "done", "killed", "segv"}]
          /\ tpc'[x] = to /\ \A y \in People : y # x => tpc'[y] = tpc[y]
        BY <1>0, <2>2 DEF TimersTypes
    <2>4. /\ left' \in [People -> [Kinds -> 0..Full]]
          /\ \A y \in People, j \in Kinds : left'[y][j] = IF y = x /\ j = k THEN Full ELSE left[y][j]
        <3>1. Full \in 0..Full /\ left \in [People -> [Kinds -> 0..Full]]
            BY <1>0, TimersAssumption DEF Full, TimersTypes
        <3> QED BY <2>1, <3>1, EntryChanged
    <2>5. Full > 0
        BY TimersAssumption DEF Full
    <2>6. TimersTypes'
        BY <1>0, <2>1, <2>3, <2>4 DEF TimersTypes
    <2>7. Bounded' /\ Counted' /\ Showing'
        BY <1>0, <2>1 DEF Bounded, Counted, Pending, Showing
    <2>8. Armed'
        <3>1. ASSUME NEW y \in People, NEW j \in Kinds
              PROVE  /\ left'[y][j] > 0 => handlers[y] = "own" /\ tpc'[y] # "none"
                     /\ <<y, j>> \in due => left'[y][j] > 0
            <4>1. CASE y = x /\ j = k
                BY <2>1, <2>3, <2>4, <2>5, <4>1
            <4>2. CASE ~(y = x /\ j = k)
                BY <1>0, <2>1, <2>3, <2>4, <4>2 DEF Armed
            <4> QED BY <4>1, <4>2
        <3> QED BY <2>1, <3>1 DEF Armed
    <2>9. Family'
        BY <1>0, <2>1, <2>3 DEF Family, TimersTypes, Children, People
    <2>10. Reading'
        BY <1>0, <2>1, <2>3 DEF Reading
    <2> QED BY <2>6, <2>7, <2>8, <2>9, <2>10 DEF TimersInv
<1>8. ASSUME NEW x \in People, NEW k \in Kinds, Elapse(x, k) PROVE TimersInv'
    <2>1. /\ left[x][k] > 0 /\ UNCHANGED <<tpc, handlers, secs, sampled, shown, forked>>
        BY <1>8 DEF Elapse
    <2>2. left[x][k] \in 0..Full /\ Full \in Nat /\ Full > 0
        BY <1>0, TimersAssumption DEF TimersTypes, Full
    <2>3. ASSUME NEW v \in 1..Full, left' = [left EXCEPT ![x][k] = v]
          PROVE  /\ left' \in [People -> [Kinds -> 0..Full]]
                 /\ \A y \in People, j \in Kinds : left'[y][j] = (IF y = x /\ j = k THEN v ELSE left[y][j])
                                                    /\ (left'[y][j] > 0 <=> left[y][j] > 0)
        <3>1. left \in [People -> [Kinds -> 0..Full]] /\ v \in 0..Full
            BY <1>0, <2>2, <2>3 DEF TimersTypes
        <3>2. /\ left' \in [People -> [Kinds -> 0..Full]]
              /\ \A y \in People, j \in Kinds : left'[y][j] = IF y = x /\ j = k THEN v ELSE left[y][j]
            BY <2>3, <3>1, EntryChanged
        <3> QED BY <2>1, <2>2, <2>3, <3>2
    <2>4. Family' /\ Reading' /\ Showing'
        BY <1>0, <2>1 DEF Family, Reading, Showing
    <2>5. CASE left[x][k] > 1
        <3>1. left' = [left EXCEPT ![x][k] = left[x][k] - 1] /\ UNCHANGED <<due, fires, lost>>
            BY <1>8, <2>5 DEF Elapse
        <3>2. left[x][k] - 1 \in 1..Full
            BY <2>2, <2>5
        <3>3. /\ left' \in [People -> [Kinds -> 0..Full]]
              /\ \A y \in People, j \in Kinds : left'[y][j] > 0 <=> left[y][j] > 0
            BY <2>3, <3>1, <3>2
        <3>4. TimersTypes' /\ Armed'
            BY <1>0, <2>1, <3>1, <3>3 DEF TimersTypes, Armed
        <3>5. Bounded' /\ Counted'
            BY <1>0, <2>1, <3>1 DEF Bounded, Counted, Pending
        <3> QED BY <2>4, <3>4, <3>5 DEF TimersInv
    <2>6. CASE ~(left[x][k] > 1)
        <3>1. /\ fires["p"][k] + fires["c1"][k] + fires["c2"][k] < MaxFires
              /\ left' = [left EXCEPT ![x][k] = Full] /\ due' = due \cup {<<x, k>>}
              /\ fires' = [fires EXCEPT ![x][k] = fires[x][k] + 1]
              /\ lost' = IF <<x, k>> \in due THEN [lost EXCEPT ![x][k] = lost[x][k] + 1] ELSE lost
            BY <1>8, <2>6 DEF Elapse
        <3>2. /\ left' \in [People -> [Kinds -> 0..Full]]
              /\ \A y \in People, j \in Kinds : left'[y][j] = (IF y = x /\ j = k THEN Full ELSE left[y][j])
                                                 /\ (left'[y][j] > 0 <=> left[y][j] > 0)
            <4>1. Full \in 1..Full
                BY <2>2
            <4> QED BY <2>3, <3>1, <4>1
        <3>3. /\ fires' \in [People -> [Kinds -> Nat]]
              /\ \A y \in People, j \in Kinds : fires'[y][j] = IF y = x /\ j = k THEN fires[x][k] + 1 ELSE fires[y][j]
            <4>1. fires \in [People -> [Kinds -> Nat]] /\ fires[x][k] + 1 \in Nat
                BY <1>0 DEF TimersTypes
            <4> QED BY <3>1, <4>1, EntryChanged
        <3>4. /\ lost' \in [People -> [Kinds -> Nat]]
              /\ \A y \in People, j \in Kinds :
                    lost'[y][j] = IF y = x /\ j = k /\ <<x, k>> \in due THEN lost[x][k] + 1 ELSE lost[y][j]
            <4>1. lost \in [People -> [Kinds -> Nat]] /\ lost[x][k] + 1 \in Nat
                BY <1>0 DEF TimersTypes
            <4>2. CASE <<x, k>> \in due
                <5>1. lost' = [lost EXCEPT ![x][k] = lost[x][k] + 1]
                    BY <3>1, <4>2
                <5>2. /\ lost' \in [People -> [Kinds -> Nat]]
                      /\ \A y \in People, j \in Kinds : lost'[y][j] = IF y = x /\ j = k THEN lost[x][k] + 1 ELSE lost[y][j]
                    BY <4>1, <5>1, EntryChanged
                <5> QED BY <4>2, <5>2
            <4>3. CASE <<x, k>> \notin due
                BY <3>1, <4>1, <4>3
            <4> QED BY <4>2, <4>3
        <3>5. TimersTypes'
            BY <1>0, <2>1, <3>1, <3>2, <3>3, <3>4 DEF TimersTypes
        <3>6. Armed'
            BY <1>0, <2>1, <2>2, <3>1, <3>2 DEF Armed
        <3>7. \A y \in People, j \in Kinds : fires[y][j] \in Nat /\ lost[y][j] \in Nat
            BY <1>0 DEF TimersTypes
        <3>8. Bounded'
            <4>1. "p" \in People /\ "c1" \in People /\ "c2" \in People
                BY DEF People
            <4>2. \A j \in Kinds : fires'["p"][j] + fires'["c1"][j] + fires'["c2"][j] <= MaxFires
                <5> SUFFICES ASSUME NEW j \in Kinds
                             PROVE  fires'["p"][j] + fires'["c1"][j] + fires'["c2"][j] <= MaxFires
                    OBVIOUS
                <5>1. CASE j # k
                    BY <1>0, <3>3, <4>1, <5>1 DEF Bounded
                <5>2. CASE j = k
                    <6>1. x \in {"p", "c1", "c2"}
                        BY DEF People
                    <6> QED BY <3>1, <3>3, <3>7, <4>1, <5>2, <6>1, TimersAssumption
                <5> QED BY <5>1, <5>2
            <4>3. \A y \in People, j \in Kinds : lost'[y][j] <= fires'[y][j]
                BY <1>0, <3>3, <3>4, <3>7 DEF Bounded
            <4> QED BY <4>2, <4>3 DEF Bounded
        <3>9. Counted'
            <4> SUFFICES ASSUME NEW y \in People, NEW j \in Kinds
                         PROVE  secs[y][j] = Nominal * (fires'[y][j] - lost'[y][j] - Pending(y, j)')
                BY <2>1 DEF Counted
            <4>1. secs[y][j] = Nominal * (fires[y][j] - lost[y][j] - Pending(y, j))
                BY <1>0 DEF Counted
            <4>2. fires'[y][j] - lost'[y][j] - Pending(y, j)' = fires[y][j] - lost[y][j] - Pending(y, j)
                <5>1. CASE y = x /\ j = k
                    <6>1. fires'[y][j] = fires[y][j] + 1 /\ Pending(y, j)' = 1
                        BY <3>1, <3>3, <5>1 DEF Pending
                    <6>2. lost'[y][j] - lost[y][j] = Pending(y, j) /\ Pending(y, j) \in {0, 1}
                        BY <3>4, <3>7, <5>1 DEF Pending
                    <6> QED BY <3>4, <3>7, <5>1, <6>1, <6>2
                <5>2. CASE ~(y = x /\ j = k)
                    <6>1. <<y, j>> \in due' <=> <<y, j>> \in due
                        BY <3>1, <5>2
                    <6> QED BY <3>3, <3>4, <3>7, <5>2, <6>1 DEF Pending
                <5> QED BY <5>1, <5>2
            <4> QED BY <4>1, <4>2
        <3> QED BY <2>4, <3>5, <3>6, <3>8, <3>9 DEF TimersInv
    <2> QED BY <2>5, <2>6
<1>9. ASSUME NEW x \in People, NEW k \in Kinds, sig_handler(x, k) PROVE TimersInv'
    <2>1. <<x, k>> \in due /\ handlers[x] = "own"
        BY <1>0, <1>9 DEF sig_handler, Armed
    <2>2. /\ due' = due \ {<<x, k>>} /\ secs' = [secs EXCEPT ![x][k] = secs[x][k] + Nominal]
          /\ sampled' = IF tpc[x] = "read" /\ sampled[x].kind = k THEN [sampled EXCEPT ![x].raced = @ + 1] ELSE sampled
          /\ UNCHANGED <<tpc, handlers, left, fires, lost, shown, forked>>
        BY <1>9, <2>1 DEF sig_handler
    <2>3. /\ secs' \in [People -> [Kinds -> Int]]
          /\ \A y \in People, j \in Kinds : secs'[y][j] = IF y = x /\ j = k THEN secs[x][k] + Nominal ELSE secs[y][j]
        <3>1. secs \in [People -> [Kinds -> Int]] /\ secs[x][k] + Nominal \in Int
            BY <1>0, TimersAssumption DEF TimersTypes
        <3> QED BY <2>2, <3>1, EntryChanged
    <2>4. \A y \in People : /\ sampled[y] \in Samples
                            /\ sampled[y] = [kind |-> sampled[y].kind, left |-> sampled[y].left, raced |-> sampled[y].raced,
                                             spent |-> sampled[y].spent, late |-> sampled[y].late]
        BY <1>0 DEF TimersTypes, Samples
    <2>5. ASSUME tpc[x] = "read", sampled[x].kind = k
          PROVE  /\ sampled' \in [People -> Samples] /\ \A y \in People : y # x => sampled'[y] = sampled[y]
                 /\ sampled'[x] = [kind |-> k, left |-> sampled[x].left, raced |-> sampled[x].raced + 1,
                                   spent |-> sampled[x].spent, late |-> sampled[x].late]
        <3>1. PICK r : r = [kind |-> k, left |-> sampled[x].left, raced |-> sampled[x].raced + 1,
                            spent |-> sampled[x].spent, late |-> sampled[x].late]
            OBVIOUS
        <3>2. PICK e \in Samples : e = sampled[x] /\ e = [kind |-> e.kind, left |-> e.left, raced |-> e.raced,
                                                         spent |-> e.spent, late |-> e.late]
            BY <2>4
        <3>3. r = [kind |-> e.kind, left |-> e.left, raced |-> e.raced + 1, spent |-> e.spent, late |-> e.late]
            BY <2>5, <3>1, <3>2
        <3>4. r \in Samples
            BY <3>2, <3>3 DEF Samples
        <3>5. [sampled[x] EXCEPT !.raced = @ + 1] = r
            <4>1. [e EXCEPT !.raced = @ + 1]
                      = [kind |-> e.kind, left |-> e.left, raced |-> e.raced + 1, spent |-> e.spent, late |-> e.late]
                BY <3>2
            <4> QED BY <3>2, <3>3, <4>1
        <3>6. sampled' = [sampled EXCEPT ![x] = r]
            BY <2>2, <2>5, <3>5
        <3> QED BY <1>0, <3>1, <3>4, <3>6 DEF TimersTypes
    <2>6. TimersTypes'
        <3>1. sampled' \in [People -> Samples]
            BY <1>0, <2>2, <2>5 DEF TimersTypes
        <3> QED BY <1>0, <2>2, <2>3, <3>1 DEF TimersTypes
    <2>7. Bounded' /\ Family' /\ Showing' /\ Armed'
        BY <1>0, <2>2 DEF Bounded, Family, Showing, Armed
    <2>8. Counted'
        <3> SUFFICES ASSUME NEW y \in People, NEW j \in Kinds
                     PROVE  secs'[y][j] = Nominal * (fires[y][j] - lost[y][j] - Pending(y, j)')
            BY <2>2 DEF Counted
        <3>1. secs[y][j] = Nominal * (fires[y][j] - lost[y][j] - Pending(y, j))
            BY <1>0 DEF Counted
        <3>2. CASE y = x /\ j = k
            <4>1. Pending(y, j) = 1 /\ Pending(y, j)' = 0
                BY <2>1, <2>2, <3>2 DEF Pending
            <4>2. fires[y][j] - lost[y][j] \in Int
                BY <1>0 DEF TimersTypes
            <4>3. \A a \in Int : Nominal * (a - 1) + Nominal = Nominal * a
                BY TimersAssumption
            <4>4. /\ Nominal * (fires[y][j] - lost[y][j] - 1) + Nominal = Nominal * (fires[y][j] - lost[y][j])
                  /\ fires[y][j] - lost[y][j] - 0 = fires[y][j] - lost[y][j]
                BY <4>2, <4>3
            <4> QED BY <2>3, <3>1, <3>2, <4>1, <4>4
        <3>3. CASE ~(y = x /\ j = k)
            <4>1. <<y, j>> \in due' <=> <<y, j>> \in due
                BY <2>2, <3>3
            <4> QED BY <2>3, <3>1, <3>3, <4>1 DEF Pending
        <3> QED BY <3>2, <3>3
    <2>9. Reading'
        <3> SUFFICES ASSUME NEW y \in People, tpc[y] = "read"
                     PROVE  /\ sampled'[y].kind \in Kinds
                            /\ Explained(secs'[y][sampled'[y].kind] + Full - sampled'[y].left, sampled'[y])
            BY <2>2 DEF Reading, Explained
        <3>1. sampled[y].kind \in Kinds /\ Explained(secs[y][sampled[y].kind] + Full - sampled[y].left, sampled[y])
            BY <1>0 DEF Reading
        <3>2. CASE y = x /\ sampled[x].kind = k
            <4>1. PICK r \in Nat, a \in Int, l \in Int, u \in Int, v \in Int :
                     /\ sampled[x].raced = r /\ secs[x][k] = a /\ sampled[x].left = l
                     /\ sampled[x].spent = u /\ sampled[x].late = v
                <5>1. secs[x][k] \in Int
                    BY <1>0 DEF TimersTypes
                <5> QED BY <2>4, <5>1 DEF Samples
            <4>2. a + Full - l = u + v + Nominal * r
                BY <3>1, <3>2, <4>1 DEF Explained
            <4>3. /\ sampled'[x].kind = k /\ sampled'[x].left = l /\ sampled'[x].raced = r + 1
                  /\ sampled'[x].spent = u /\ sampled'[x].late = v /\ secs'[x][k] = a + Nominal
                BY <2>3, <2>5, <3>2, <4>1
            <4>4. Nominal * (r + 1) = Nominal * r + Nominal /\ Nominal * r \in Int /\ Nominal \in Int /\ Full \in Int
                BY TimersAssumption DEF Full
            <4>5. a + Nominal + Full - l = u + v + Nominal * (r + 1)
                BY <4>2, <4>4
            <4> QED BY <3>2, <4>3, <4>5 DEF Explained
        <3>3. CASE ~(y = x /\ sampled[x].kind = k)
            <4>1. sampled'[y] = sampled[y]
                BY <1>0, <2>2, <2>5, <3>3 DEF TimersTypes
            <4>2. secs'[y][sampled[y].kind] = secs[y][sampled[y].kind]
                BY <2>3, <3>1, <3>3
            <4> QED BY <3>1, <4>1, <4>2 DEF Explained
        <3> QED BY <3>2, <3>3
    <2> QED BY <2>6, <2>7, <2>8, <2>9 DEF TimersInv
<1>10. ASSUME NEW x \in People, NEW k \in Kinds, getitimer(x, k) PROVE TimersInv'
    <2> DEFINE spent == fires[x][k] * Full + Full - left[x][k]
               late == fires[x][k] - Nominal * lost[x][k]
    <2>1. PICK r : r = [kind |-> k, left |-> left[x][k], raced |-> 0, spent |-> spent, late |-> late]
        OBVIOUS
    <2>2. /\ tpc[x] = "print" /\ <<x, k>> \notin due /\ sampled' = [sampled EXCEPT ![x] = r]
          /\ tpc' = [tpc EXCEPT ![x] = "read"] /\ UNCHANGED <<handlers, left, due, secs, fires, lost, shown, forked>>
        BY <1>10, <2>1 DEF getitimer
    <2>3. left[x][k] \in Int /\ fires[x][k] \in Nat /\ lost[x][k] \in Nat /\ Full \in Int /\ Nominal \in Int
        BY <1>0, TimersAssumption DEF TimersTypes, Full
    <2>4. spent \in Int /\ late \in Int
        <3>1. fires[x][k] * Full \in Int /\ Nominal * lost[x][k] \in Int
            BY <2>3
        <3> QED BY <2>3, <3>1
    <2>5. secs[x][k] + Full - left[x][k] = spent + late
        <3>1. secs[x][k] = Nominal * (fires[x][k] - lost[x][k] - 0) /\ fires[x][k] - lost[x][k] - 0 = fires[x][k] - lost[x][k]
            BY <1>0, <2>2, <2>3 DEF Counted, Pending
        <3>2. Nominal * (fires[x][k] - lost[x][k]) + Full - left[x][k] = spent + late
            BY <2>3, PeriodsCounted
        <3> QED BY <3>1, <3>2
    <2> HIDE DEF spent, late
    <2>6. /\ r \in Samples /\ r.kind = k /\ r.left = left[x][k] /\ r.raced = 0 /\ r.spent = spent /\ r.late = late
        BY <2>1, <2>3, <2>4 DEF Samples
    <2>7. /\ sampled' \in [People -> Samples] /\ sampled'[x] = r /\ \A y \in People : y # x => sampled'[y] = sampled[y]
        BY <1>0, <2>2, <2>6 DEF TimersTypes
    <2>8. tpc' \in [People -> {"none", "start", "fork", "compute", "print", "read", "wait", "done", "killed", "segv"}]
          /\ tpc'[x] = "read" /\ \A y \in People : y # x => tpc'[y] = tpc[y]
        BY <1>0, <2>2 DEF TimersTypes
    <2>9. TimersTypes'
        BY <1>0, <2>2, <2>7, <2>8 DEF TimersTypes
    <2>10. Bounded' /\ Counted' /\ Showing' /\ Armed'
        BY <1>0, <2>2, <2>8 DEF Bounded, Counted, Pending, Showing, Armed
    <2>11. Family'
        BY <1>0, <2>2, <2>8 DEF Family, TimersTypes, Children, People
    <2>12. Reading'
        <3> SUFFICES ASSUME NEW y \in People, tpc'[y] = "read"
                     PROVE  /\ sampled'[y].kind \in Kinds
                            /\ Explained(secs[y][sampled'[y].kind] + Full - sampled'[y].left, sampled'[y])
            BY <2>2 DEF Reading, Explained
        <3>1. CASE y # x
            BY <1>0, <2>7, <2>8, <3>1 DEF Reading
        <3>2. CASE y = x
            <4>1. Nominal * 0 = 0 /\ spent + late + 0 = spent + late
                BY <2>4, TimersAssumption
            <4> QED BY <2>5, <2>6, <2>7, <3>2, <4>1 DEF Explained
        <3> QED BY <3>1, <3>2
    <2> QED BY <2>9, <2>10, <2>11, <2>12 DEF TimersInv
<1>11. ASSUME NEW x \in People, print(x) PROVE TimersInv'
    <2>1. /\ tpc[x] = "read" /\ UNCHANGED <<handlers, left, due, secs, fires, lost, sampled, forked>>
        BY <1>11 DEF print
    <2>2. PICK k \in Kinds : k = sampled[x].kind
        BY <1>0, <2>1 DEF Reading
    <2>3. PICK r : r = [printed |-> secs[x][k] + Full - sampled[x].left, spent |-> sampled[x].spent,
                        raced |-> sampled[x].raced, late |-> sampled[x].late]
        OBVIOUS
    <2>4. shown' = [shown EXCEPT ![x][k] = r]
        BY <1>11, <2>2, <2>3 DEF print, Printed
    <2>5. PICK to \in {"wait", "done", "print"} : tpc' = [tpc EXCEPT ![x] = to] /\ (x = "p" => to # "done")
        BY <1>11 DEF print
    <2>6. sampled[x] \in Samples /\ secs[x][k] \in Int /\ Full \in Int
        BY <1>0, TimersAssumption DEF TimersTypes, Full
    <2>7. r \in Shows /\ Explained(r.printed, r)
        <3>1. Explained(secs[x][k] + Full - sampled[x].left, sampled[x])
            BY <1>0, <2>1, <2>2 DEF Reading
        <3>2. /\ r.printed = secs[x][k] + Full - sampled[x].left /\ r.spent = sampled[x].spent
              /\ r.raced = sampled[x].raced /\ r.late = sampled[x].late
            BY <2>3
        <3>3. secs[x][k] + Full - sampled[x].left \in Int
            BY <2>6 DEF Samples
        <3>4. r \in Shows
            BY <2>3, <2>6, <3>3 DEF Samples, Shows
        <3> QED BY <3>1, <3>2, <3>4 DEF Explained
    <2>8. /\ shown' \in [People -> [Kinds -> Shows]]
          /\ \A y \in People, j \in Kinds : shown'[y][j] = IF y = x /\ j = k THEN r ELSE shown[y][j]
        <3>1. shown \in [People -> [Kinds -> Shows]]
            BY <1>0 DEF TimersTypes
        <3> QED BY <2>4, <2>7, <3>1, EntryChanged
    <2>9. tpc' \in [People -> {"none", "start", "fork", "compute", "print", "read", "wait", "done", "killed", "segv"}]
          /\ tpc'[x] = to /\ \A y \in People : y # x => tpc'[y] = tpc[y]
        BY <1>0, <2>5 DEF TimersTypes
    <2>10. TimersTypes'
        BY <1>0, <2>1, <2>8, <2>9 DEF TimersTypes
    <2>11. Bounded' /\ Counted' /\ Armed' /\ Reading'
        BY <1>0, <2>1, <2>9 DEF Bounded, Counted, Pending, Armed, Reading
    <2>12. Family'
        BY <1>0, <2>1, <2>5, <2>9 DEF Family, TimersTypes, Children, People
    <2>13. Showing'
        BY <1>0, <2>7, <2>8 DEF Showing
    <2> QED BY <2>10, <2>11, <2>12, <2>13 DEF TimersInv
<1> QED
    BY <1>1, <1>2, <1>3, <1>4, <1>5, <1>6, <1>7, <1>8, <1>9, <1>10, <1>11 DEF TimersNext

\* What it says of what is printed, of signals and of children.
LEMMA TimersImplies == TimersInv => TimersTypeOK /\ PrintedTimeExplained /\ NoneKilledByTimer /\ NoOrphans
<1> SUFFICES ASSUME TimersInv PROVE TimersTypeOK /\ PrintedTimeExplained /\ NoneKilledByTimer /\ NoOrphans
    OBVIOUS
<1>0. TimersTypes /\ Bounded /\ Family /\ Showing
    BY DEF TimersInv
<1>1. PrintedTimeExplained
    <2>1. \A x \in {"p"} \cup forked : x \in People
        BY <1>0 DEF TimersTypes, Children, People
    <2> QED BY <1>0, <2>1 DEF Showing, Explained, PrintedTimeExplained
<1>2. NoneKilledByTimer /\ NoOrphans
    BY <1>0 DEF Family, NoneKilledByTimer, NoOrphans, Alive
<1>3. fires \in [People -> [Kinds -> 0..MaxFires]] /\ lost \in [People -> [Kinds -> 0..MaxFires]]
    <2>1. \A x \in People, k \in Kinds : fires[x][k] \in Nat /\ lost[x][k] \in Nat
        BY <1>0 DEF TimersTypes
    <2>2. ASSUME NEW x \in People, NEW k \in Kinds PROVE fires[x][k] \in 0..MaxFires /\ lost[x][k] \in 0..MaxFires
        <3>1. fires[x][k] <= fires["p"][k] + fires["c1"][k] + fires["c2"][k]
            BY <2>1 DEF People
        <3>2. fires["p"][k] + fires["c1"][k] + fires["c2"][k] <= MaxFires /\ lost[x][k] <= fires[x][k]
            BY <1>0 DEF Bounded
        <3>3. fires["p"][k] \in Nat /\ fires["c1"][k] \in Nat /\ fires["c2"][k] \in Nat
            BY <2>1 DEF People
        <3> QED BY <2>1, <3>1, <3>2, <3>3, TimersAssumption
    <2> QED BY <1>0, <2>2 DEF TimersTypes
<1>4. TimersTypeOK
    BY <1>0, <1>3 DEF TimersTypes, TimersTypeOK
<1> QED BY <1>1, <1>2, <1>4

-----------------------------------------------------------------------------
(* The theorem of the composition *)

\* The components of src/3 take their own steps in the composition.
LEMMA TimerProgramsMove ==
    /\ MCInit => TimersInit /\ FibInit /\ MonInit /\ ClockInit
    /\ [MCNext]_vars => [TimersNext]_timerVars /\ [fib]_loop /\ [MonNext]_monVars /\ [ClockNext]_clockVars
BY DEF MCInit, MCNext, Rest, vars

\* However signals come, are merged, nest or race with a reading, the programs of
\* src/3 account for each of them in what they print.
THEOREM TimersAreRight == MCSpec => []TimerProgramsRight
<1>1. TimersInv /\ FibInv /\ MonInv /\ ClockInv => TimerProgramsRight
    BY TimersImplies, FibImplies, MonImplies DEF ClockInv, TimerProgramsRight
<1> QED
    BY <1>1, TimerProgramsMove, TimersInitOK, TimersStep, FibInitOK, FibStep, MonInitOK, MonStep,
       ClockInitOK, ClockStep, PTL DEF MCSpec
=============================================================================
