----------------------------- MODULE UserProofs -----------------------------
(***************************************************************************)
(* Proofs about the programs of MCPrograms that are shells, observers and  *)
(* scanners: what each keeps, for every number of children, files, lines   *)
(* and sizes, and that no step of the others disturbs it.                  *)
(***************************************************************************)
EXTENDS TimerProofs, FunctionTheorems

-----------------------------------------------------------------------------
(* The shell that waits by signal: SigShell *)

(* src/2/myshell_cs_pitt_edu.c *)

\* One for a flag that is set.
One(b) == IF b THEN 1 ELSE 0

\* Every child that has ended and was not waited for has a signal pending, a
\* handler at work, or a signal that was merged; and every merged signal is that
\* of a command.
ZombiesCounted ==
    /\ Cardinality(Some("zombie")) <= merged + One(chldPending) + One(inHandler)
    /\ merged + Cardinality(Some("run")) <= commands

\* The foreground command that runs at a prompt, or beside another one.
FrontCut ==
    /\ spc = "prompt" => (inFront \cap Some("run")) \subseteq (cut \cup ErrnoPids)
    /\ spc = "waiting" => (inFront \cap Some("run")) \subseteq (cut \cup ErrnoPids \cup {target})

SigTypes ==
    /\ spc \in {"prompt", "waiting", "exit"} /\ target \in ShPids \cup {"any", "none"}
    /\ children \in [ShPids -> {"none", "run", "zombie"}] /\ merged \in Nat
    /\ commands \in 0..MaxForks /\ chldPending \in BOOLEAN /\ inHandler \in BOOLEAN

SigInv == SigTypes /\ ZombiesCounted /\ FrontCut

\* Sets of children are finite.
LEMMA SomeFinite == \A st : IsFiniteSet(Some(st)) /\ Cardinality(Some(st)) \in Nat
<1> SUFFICES ASSUME NEW st PROVE IsFiniteSet(Some(st)) /\ Cardinality(Some(st)) \in Nat
    OBVIOUS
<1>1. Some(st) \subseteq ShPids
    BY DEF Some
<1> QED BY <1>1, SigShellAssumption, FS_Subset, FS_CardinalityType

\* A child that changes from one state to another moves between the two sets.
LEMMA ChildMoves ==
    ASSUME SigTypes, NEW p \in ShPids, NEW old \in {"none", "run", "zombie"}, NEW new \in {"none", "run", "zombie"},
           children[p] = old, old # new, children' = [children EXCEPT ![p] = new]
    PROVE  /\ \A st : st \notin {new, old} => Some(st)' = Some(st)
           /\ Some(new)' = Some(new) \cup {p} /\ Cardinality(Some(new)') = Cardinality(Some(new)) + 1
           /\ Some(old)' = Some(old) \ {p} /\ Cardinality(Some(old)') = Cardinality(Some(old)) - 1
<1>1. \A q \in ShPids : children'[q] = IF q = p THEN new ELSE children[q]
    BY DEF SigTypes
<1>2. \A st : st \notin {new, old} => Some(st)' = Some(st)
    BY <1>1 DEF Some
<1>3. Some(new)' = Some(new) \cup {p} /\ p \notin Some(new)
    BY <1>1 DEF Some
<1>4. Some(old)' = Some(old) \ {p} /\ p \in Some(old)
    BY <1>1 DEF Some
<1>5. Cardinality(Some(new) \cup {p}) = Cardinality(Some(new)) + 1
    BY <1>3, SomeFinite, FS_AddElement
<1>6. Cardinality(Some(old) \ {p}) = Cardinality(Some(old)) - 1
    BY <1>4, SomeFinite, FS_RemoveElement
<1> QED BY <1>2, <1>3, <1>4, <1>5, <1>6

\* Without children everything is counted.
LEMMA SigInitOK == SigInit => SigInv
<1> SUFFICES ASSUME SigInit PROVE SigInv
    OBVIOUS
<1>1. SigTypes
    <2>1. chldPending \in BOOLEAN /\ inHandler \in BOOLEAN
        BY Zenon DEF SigInit
    <2> QED BY <2>1, SigShellAssumption DEF SigInit, SigTypes
<1>2. Some("run") = {} /\ Some("zombie") = {}
    BY DEF SigInit, Some
<1>3. Cardinality({}) = 0
    BY FS_EmptySet
<1>4. ZombiesCounted
    BY <1>2, <1>3 DEF ZombiesCounted, SigInit, One
<1> QED BY <1>1, <1>2, <1>4 DEF SigInv, FrontCut, SigInit

\* Every step of the shell, its handler and its children keeps the counts.
LEMMA SigStep == SigInv /\ [SigNext]_sigVars => SigInv'
<1> SUFFICES ASSUME SigInv, [SigNext]_sigVars PROVE SigInv'
    OBVIOUS
<1>f. /\ Cardinality(Some("zombie")) \in Nat /\ Cardinality(Some("run")) \in Nat
      /\ SigTypes /\ ZombiesCounted /\ FrontCut
    BY SomeFinite DEF SigInv
<1>1. CASE internal_command
    <2>1. SigTypes' /\ Some("zombie")' = Some("zombie") /\ Some("run")' = Some("run")
        BY <1>1, <1>f DEF internal_command, SigTypes, Some
    <2> QED BY <1>1, <1>f, <2>1 DEF internal_command, SigInv, ZombiesCounted, FrontCut, One
<1>2. ASSUME NEW p \in ShPids, NEW block \in BOOLEAN, do_command(p, block) PROVE SigInv'
    <2>1. SigTypes'
        <3>1. /\ children' \in [ShPids -> {"none", "run", "zombie"}]
              /\ spc' \in {"prompt", "waiting", "exit"} /\ target' \in ShPids \cup {"any", "none"}
              /\ merged' = merged /\ commands' = commands + 1 /\ commands < MaxForks
            BY <1>2, <1>f DEF do_command, SigTypes
        <3>2. chldPending' \in BOOLEAN /\ inHandler' \in BOOLEAN
            BY <1>2, <1>f, Zenon DEF do_command, SigTypes
        <3> QED BY <3>1, <3>2, <1>f, SigShellAssumption DEF SigTypes
    <2>2. children[p] = "none" /\ children' = [children EXCEPT ![p] = "run"]
        BY <1>2 DEF do_command
    <2>3. /\ Some("zombie")' = Some("zombie") /\ Some("run")' = Some("run") \cup {p}
          /\ Cardinality(Some("run")') = Cardinality(Some("run")) + 1
        BY <2>2, <1>f, ChildMoves
    <2>4. ZombiesCounted'
        <3>1. /\ merged' = merged /\ commands' = commands + 1 /\ One(chldPending') = One(chldPending)
              /\ One(inHandler') = One(inHandler)
            BY <1>2 DEF do_command
        <3> QED BY <1>f, <2>3, <3>1 DEF ZombiesCounted, SigTypes
    <2>5. FrontCut'
        <3>0. p \notin Some("run")
            BY <2>2 DEF Some
        <3>1. CASE block /\ p \notin ErrnoPids
            BY <1>2, <1>f, <2>3, <3>1 DEF do_command, FrontCut
        <3>2. CASE block /\ p \in ErrnoPids
            BY <1>2, <1>f, <2>3, <3>2 DEF do_command, FrontCut
        <3>3. CASE ~block
            <4>1. inFront' = inFront \ {p} /\ cut' = cut \ {p} /\ spc' = "prompt" /\ spc = "prompt"
                BY <1>2, <3>3 DEF do_command
            <4> QED BY <4>1, <2>3, <3>0, <1>f DEF FrontCut
        <3> QED BY <3>1, <3>2, <3>3
    <2> QED BY <2>1, <2>4, <2>5 DEF SigInv
<1>3. ASSUME NEW block \in BOOLEAN, do_command_nofork(block) PROVE SigInv'
    <2>1. /\ spc' \in {"prompt", "waiting", "exit"} /\ target' \in ShPids \cup {"any", "none"}
          /\ commands' = commands + 1 /\ commands < MaxForks /\ spc = "prompt"
          /\ UNCHANGED <<children, inFront, chldPending, inHandler, merged, cut>>
        BY <1>3, <1>f DEF do_command_nofork, SigTypes
    <2>2. SigTypes'
        <3>1. chldPending' \in BOOLEAN /\ inHandler' \in BOOLEAN
            BY <2>1, <1>f, Zenon DEF SigTypes
        <3> QED BY <2>1, <3>1, <1>f, SigShellAssumption DEF SigTypes
    <2>3. Some("zombie")' = Some("zombie") /\ Some("run")' = Some("run")
        BY <2>1 DEF Some
    <2>4. ZombiesCounted'
        BY <1>f, <2>1, <2>3 DEF ZombiesCounted, One, SigTypes
    <2>5. FrontCut'
        BY <1>f, <2>1, <2>3 DEF FrontCut
    <2> QED BY <2>2, <2>4, <2>5 DEF SigInv
<1>4. ASSUME NEW p \in ShPids, ChildExit(p) PROVE SigInv'
    <2>1. children[p] = "run" /\ children' = [children EXCEPT ![p] = "zombie"]
        BY <1>4 DEF ChildExit
    <2>2. /\ Some("zombie")' = Some("zombie") \cup {p} /\ Cardinality(Some("zombie")') = Cardinality(Some("zombie")) + 1
          /\ Some("run")' = Some("run") \ {p} /\ Cardinality(Some("run")') = Cardinality(Some("run")) - 1
        BY <2>1, <1>f, ChildMoves
    <2>3. /\ merged' + One(chldPending') = merged + One(chldPending) + 1
          /\ merged' \in Nat /\ merged' <= merged + 1 /\ One(inHandler') = One(inHandler) /\ commands' = commands
        <3>1. CASE chldPending
            BY <1>4, <1>f, <3>1 DEF ChildExit, One, SigTypes
        <3>2. CASE ~chldPending
            BY <1>4, <1>f, <3>2 DEF ChildExit, One, SigTypes
        <3> QED BY <3>1, <3>2
    <2>4. One(chldPending) \in Nat /\ One(inHandler) \in Nat /\ One(chldPending') \in Nat
        BY DEF One
    <2>5. ZombiesCounted'
        BY <1>f, <2>2, <2>3, <2>4 DEF ZombiesCounted, SigTypes
    <2>6. SigTypes'
        <3>1. chldPending' \in BOOLEAN /\ inHandler' \in BOOLEAN
            BY <1>4, <1>f, Zenon DEF ChildExit, SigTypes
        <3>2. spc' = spc /\ target' = target /\ children' \in [ShPids -> {"none", "run", "zombie"}]
            BY <1>4, <1>f DEF ChildExit, SigTypes
        <3> QED BY <2>3, <3>1, <3>2, <1>f DEF SigTypes
    <2>7. FrontCut'
        <3>1. spc' = spc /\ target' = target /\ inFront' = inFront /\ cut' = cut
            BY <1>4 DEF ChildExit
        <3> QED BY <1>f, <2>2, <3>1 DEF FrontCut
    <2> QED BY <2>5, <2>6, <2>7 DEF SigInv
<1>5. CASE waitpid_child
    <2> DEFINE mine == IF target = "any" THEN ShPids ELSE {target}
    <2>1. /\ spc = "waiting" /\ spc' = "prompt" /\ target' = "none"
          /\ UNCHANGED <<inFront, chldPending, inHandler, commands, merged, cut>>
        BY <1>5 DEF waitpid_child
    <2>2. \/ \E p \in mine : p \in Some("zombie") /\ children' = [children EXCEPT ![p] = "none"]
          \/ mine \subseteq Some("none") /\ children' = children
        BY <1>5 DEF waitpid_child
    <2>3. /\ Some("run")' = Some("run") /\ Cardinality(Some("zombie")') \in Nat
          /\ Cardinality(Some("zombie")') <= Cardinality(Some("zombie")) /\ target \notin Some("run")
          /\ children' \in [ShPids -> {"none", "run", "zombie"}]
        <3>1. CASE mine \subseteq Some("none") /\ children' = children
            <4>1. Some("run")' = Some("run") /\ Some("zombie")' = Some("zombie")
                BY <3>1 DEF Some
            <4> QED BY <3>1, <4>1, <1>f, SigShellAssumption DEF SigTypes, Some
        <3>2. ASSUME NEW p \in mine, p \in Some("zombie"), children' = [children EXCEPT ![p] = "none"]
              PROVE /\ Some("run")' = Some("run") /\ Cardinality(Some("zombie")') \in Nat
                    /\ Cardinality(Some("zombie")') <= Cardinality(Some("zombie")) /\ target \notin Some("run")
                    /\ children' \in [ShPids -> {"none", "run", "zombie"}]
            <4>1. p \in ShPids /\ children[p] = "zombie"
                BY <3>2 DEF Some
            <4>2. /\ Some("run")' = Some("run") /\ Some("zombie")' = Some("zombie") \ {p}
                  /\ Cardinality(Some("zombie")') = Cardinality(Some("zombie")) - 1
                BY <4>1, <3>2, <1>f, ChildMoves
            <4>3. Cardinality(Some("zombie")') \in Nat
                <5>1. IsFiniteSet(Some("zombie") \ {p})
                    BY SomeFinite, FS_RemoveElement
                <5> QED BY <4>2, <5>1, FS_CardinalityType
            <4>4. target \notin Some("run")
                BY <3>2, <4>1, SigShellAssumption DEF Some
            <4>5. children' \in [ShPids -> {"none", "run", "zombie"}]
                BY <3>2, <1>f DEF SigTypes
            <4> QED BY <4>2, <4>3, <4>4, <4>5, SomeFinite
        <3> QED BY <2>2, <3>1, <3>2
    <2>4. SigTypes'
        <3>1. chldPending' \in BOOLEAN /\ inHandler' \in BOOLEAN
            BY <2>1, <1>f, Zenon DEF SigTypes
        <3> QED BY <2>1, <2>3, <3>1, <1>f DEF SigTypes
    <2>5. ZombiesCounted'
        BY <1>f, <2>1, <2>3 DEF ZombiesCounted, One, SigTypes
    <2>6. FrontCut'
        BY <1>f, <2>1, <2>3 DEF FrontCut
    <2> QED BY <2>4, <2>5, <2>6 DEF SigInv
<1>6. CASE sig_enter
    <2>1. /\ spc # "exit" /\ chldPending /\ ~inHandler /\ inHandler' /\ ~chldPending'
          /\ inHandler' \in BOOLEAN /\ chldPending' \in BOOLEAN
        BY <1>6, Zenon DEF sig_enter
    <2>2. /\ spc' = "prompt" /\ target' = "none" /\ cut' = cut \cup ({target} \cap ShPids)
          /\ UNCHANGED <<children, inFront, commands, merged>>
        BY <1>6 DEF sig_enter
    <2>3. SigTypes'
        BY <2>1, <2>2, <1>f DEF SigTypes
    <2>4. Some("zombie")' = Some("zombie") /\ Some("run")' = Some("run")
        BY <2>2 DEF Some
    <2>5. ZombiesCounted'
        BY <2>1, <2>2, <2>4, <1>f DEF ZombiesCounted, One, SigTypes
    <2>6. FrontCut'
        <3>1. Some("run") \subseteq ShPids
            BY DEF Some
        <3> QED BY <2>1, <2>2, <2>4, <3>1, <1>f DEF FrontCut, SigTypes
    <2> QED BY <2>3, <2>5, <2>6 DEF SigInv
<1>7. CASE sig_handler_wait
    <2>1. /\ inHandler /\ ~inHandler' /\ inHandler' \in BOOLEAN
        BY <1>7, Zenon DEF sig_handler_wait
    <2>2. UNCHANGED <<spc, target, inFront, commands, merged, cut>>
        BY <1>7 DEF sig_handler_wait
    <2>3. chldPending' = chldPending /\ chldPending' \in BOOLEAN
        BY <1>7, <1>f, Zenon DEF sig_handler_wait, SigTypes
    <2>4. /\ Some("run")' = Some("run") /\ Cardinality(Some("zombie")') \in Nat
          /\ (Cardinality(Some("zombie")') = Cardinality(Some("zombie")) - 1 \/ Cardinality(Some("zombie")') = 0)
          /\ children' \in [ShPids -> {"none", "run", "zombie"}]
        <3>1. CASE Some("run") \cup Some("zombie") = {} /\ children' = children
            <4>1. Some("run")' = Some("run") /\ Some("zombie")' = {}
                BY <3>1 DEF Some
            <4> QED BY <3>1, <4>1, <1>f, FS_EmptySet DEF SigTypes
        <3>2. ASSUME NEW p \in Some("zombie"), children' = [children EXCEPT ![p] = "none"]
              PROVE /\ Some("run")' = Some("run") /\ Cardinality(Some("zombie")') \in Nat
                    /\ (Cardinality(Some("zombie")') = Cardinality(Some("zombie")) - 1 \/ Cardinality(Some("zombie")') = 0)
                    /\ children' \in [ShPids -> {"none", "run", "zombie"}]
            <4>1. p \in ShPids /\ children[p] = "zombie"
                BY <3>2 DEF Some
            <4>2. /\ Some("run")' = Some("run") /\ Some("zombie")' = Some("zombie") \ {p}
                  /\ Cardinality(Some("zombie")') = Cardinality(Some("zombie")) - 1
                BY <4>1, <3>2, <1>f, ChildMoves
            <4>3. Cardinality(Some("zombie")') \in Nat
                <5>1. IsFiniteSet(Some("zombie") \ {p})
                    BY SomeFinite, FS_RemoveElement
                <5> QED BY <4>2, <5>1, FS_CardinalityType
            <4> QED BY <4>2, <4>3, <3>2, <1>f DEF SigTypes
        <3> QED BY <1>7, <3>1, <3>2 DEF sig_handler_wait
    <2>5. SigTypes'
        BY <2>1, <2>2, <2>3, <2>4, <1>f DEF SigTypes
    <2>6. ZombiesCounted'
        BY <2>1, <2>2, <2>3, <2>4, <1>f DEF ZombiesCounted, One, SigTypes
    <2>7. FrontCut'
        BY <2>2, <2>4, <1>f DEF FrontCut
    <2> QED BY <2>5, <2>6, <2>7 DEF SigInv
<1>8. CASE UNCHANGED sigVars
    BY <1>8, <1>f DEF sigVars, SigInv, SigTypes, ZombiesCounted, FrontCut, Some, One
<1> QED BY <1>1, <1>2, <1>3, <1>4, <1>5, <1>6, <1>7, <1>8 DEF SigNext

\* What the run checks.
LEMMA SigImplies == SigInv => SigTypeOK /\ ZombiesOnlyFromMergedSignals /\ PromptBeforeEndOnlyIfCut
<1> SUFFICES ASSUME SigInv PROVE SigTypeOK /\ ZombiesOnlyFromMergedSignals /\ PromptBeforeEndOnlyIfCut
    OBVIOUS
<1>1. Cardinality(Some("run")) \in Nat
    BY SomeFinite
<1>2. merged \in 0..MaxForks
    BY <1>1, SigShellAssumption DEF SigInv, SigTypes, ZombiesCounted
<1>3. SigTypeOK
    BY <1>2 DEF SigInv, SigTypes, SigTypeOK
<1>4. ZombiesOnlyFromMergedSignals
    BY DEF SigInv, SigTypes, ZombiesCounted, ZombiesOnlyFromMergedSignals, One
<1>5. PromptBeforeEndOnlyIfCut
    BY DEF SigInv, FrontCut, PromptBeforeEndOnlyIfCut
<1> QED BY <1>3, <1>4, <1>5

-----------------------------------------------------------------------------
(* The observers: Observer *)

\* Division with a remainder,
LEMMA DivMod ==
    ASSUME NEW t \in Nat, NEW d \in Nat \ {0}
    PROVE  \E q \in Nat, r \in 0..(d - 1) : q = t \div d /\ r = t % d /\ t = d * q + r
<1>1. t \div d \in Nat /\ t % d \in 0..(d - 1) /\ t = d * (t \div d) + (t % d)
    OBVIOUS
<1> QED BY <1>1

\* multiples of a number are as far apart as the number,
LEMMA Multiples == \A d \in Nat \ {0} : \A a \in Int, b \in Int : a < b => d * a + d <= d * b
OBVIOUS

\* products of natural numbers,
LEMMA Products == \A a \in Nat, b \in Nat : a * b \in Nat /\ b * a = a * b
OBVIOUS

\* and division has one result only.
LEMMA ModUnique ==
    ASSUME NEW t \in Nat, NEW d \in Nat \ {0}, NEW q \in Nat, NEW r \in 0..(d - 1), t = d * q + r
    PROVE  t % d = r /\ t \div d = q
<1>1. PICK u \in Nat, v \in 0..(d - 1) : u = t \div d /\ v = t % d /\ t = d * u + v
    BY DivMod
<1>2. t = d * u + v
    BY <1>1
<1>3. (u < q => d * u + d <= d * q) /\ (q < u => d * q + d <= d * u)
    BY <1>2, Multiples
<1>4. d * u \in Nat /\ d * q \in Nat
    BY <1>2, Products
<1>5. u = q
    BY <1>2, <1>3, <1>4
<1>6. v = r
    BY <1>2, <1>4, <1>5
<1> QED BY <1>1, <1>5, <1>6

\* The remainder by a multiple of d has the same remainder by d.
LEMMA ModMod ==
    ASSUME NEW t \in Nat, NEW d \in Nat \ {0}, NEW e \in Nat \ {0}, e % d = 0
    PROVE  (t % e) % d = t % d
<1>1. PICK m \in Nat : e = d * m
  <2>1. PICK q \in Nat, r \in 0..(d - 1) : q = e \div d /\ r = e % d /\ e = d * q + r
      BY DivMod
  <2>2. r = 0 /\ d * q \in Nat
      BY <2>1, Products
  <2> QED BY <2>1, <2>2
<1>2. PICK a \in Nat, r \in 0..(e - 1) : a = t \div e /\ r = t % e /\ t = e * a + r
    BY DivMod
<1>3. PICK b \in Nat, s \in 0..(d - 1) : b = r \div d /\ s = r % d /\ r = d * b + s
    BY DivMod
<1>4. e * a = d * (m * a)
    BY <1>1
<1>5. m * a \in Nat
    BY Products
<1>6. PICK c \in Nat : c = m * a
    BY <1>5
<1>7. d * c + d * b = d * (c + b) /\ d * c \in Nat /\ d * b \in Nat /\ c + b \in Nat
    OBVIOUS
<1>8. t = d * (c + b) + s
  <2>1. PICK x \in Nat, y \in Nat, z \in Nat : x = d * c /\ y = d * b /\ z = d * (c + b)
      BY <1>7, Products
  <2>2. e * a = x
      BY <1>4, <1>6, <2>1
  <2>3. t = x + r
      BY <1>2, <2>2
  <2>4. r = y + s
      BY <1>3, <2>1
  <2>5. x + y = z
      BY <1>7, <2>1
  <2>6. t = z + s
      BY ONLY <2>3, <2>4, <2>5
  <2> QED BY <2>1, <2>6
<1>9. t % d = s
    BY <1>7, <1>8, ModUnique
<1> QED BY <1>2, <1>3, <1>9

\* What sampleTime prints adds up.
LEMMA BreakdownRight ==
    ASSUME NEW t \in Nat
    PROVE  LET b == Breakdown(t) IN
           /\ b.day * Day + b.hour * Hour + b.minute * Minute + b.second = t
           /\ b.hour * Hour < Day /\ b.minute * Minute < Hour /\ b.second < Minute
<1> USE ObserverAssumption
<1>1. PICK d \in Nat, r \in 0..(Day - 1) : d = t \div Day /\ r = t % Day /\ t = Day * d + r
    BY DivMod
<1>2. PICK h \in Nat, s \in 0..(Hour - 1) : h = r \div Hour /\ s = r % Hour /\ r = Hour * h + s
    BY DivMod
<1>3. s = t % Hour
    BY <1>1, <1>2, ModMod
<1>4. PICK m \in Nat, u \in 0..(Minute - 1) : m = s \div Minute /\ u = s % Minute /\ s = Minute * m + u
    BY DivMod
<1>5. u = t % Minute
    BY <1>3, <1>4, ModMod
<1>6. PICK b : b = Breakdown(t)
    OBVIOUS
<1>7. b.day = d /\ b.hour = h /\ b.minute = m /\ b.second = u
    BY <1>1, <1>2, <1>3, <1>4, <1>5, <1>6 DEF Breakdown, Hours
<1>8. d * Day = Day * d /\ h * Hour = Hour * h /\ m * Minute = Minute * m
      /\ Day * d \in Nat /\ Hour * h \in Nat /\ Minute * m \in Nat
    BY Products
<1>80. PICK x, y, z \in Nat : x = Day * d /\ y = Hour * h /\ z = Minute * m
    BY <1>8
<1>81. b.day * Day = x /\ b.hour * Hour = y /\ b.minute * Minute = z
    BY <1>7, <1>8, <1>80
<1>82. t = x + r /\ r = y + s /\ s = z + u
    BY <1>1, <1>2, <1>4, <1>80
<1>9. b.day * Day + b.hour * Hour + b.minute * Minute + b.second = t
  <2>1. x + y + z + u = t
      BY ONLY <1>82
  <2> QED BY <1>7, <1>81, <2>1
<1>10. b.hour * Hour < Day /\ b.minute * Minute < Hour /\ b.second < Minute
  <2>1. y < Day /\ z < Hour /\ u < Minute
      BY ONLY <1>82, ObserverAssumption
  <2> QED BY <1>7, <1>81, <2>1
<1> QED BY <1>6, <1>9, <1>10

\* The files of the options.
LEMMA FilesAre ==
    /\ option = "a" => Files = PartA
    /\ option = "b" => Files = PartB
    /\ option = "c" => Files = PartC
    /\ option \notin {"a", "b", "c"} => Files = <<>>
BY DEF Files

\* Part a has five files, the first of them is never closed,
LEMMA FilesOfA ==
    ASSUME option = "a"
    PROVE  /\ Len(Files) = 5 /\ Files[1].name = "rtc" /\ Files[1].closed = FALSE
           /\ \A k \in 1..5 : Files[k].onFail \in {"crash", "error", "ok"} /\ Files[k].name # "uptime"
           /\ \A k \in 2..5 : Files[k].closed = TRUE /\ Files[k].name # "rtc"
<1>1. Files = PartA
    BY FilesAre
<1>2. Len(PartA) = 5 /\ \A k \in 1..5 : k = 1 \/ k = 2 \/ k = 3 \/ k = 4 \/ k = 5
    BY DEF PartA
<1>3. PartA[1].name = "rtc" /\ PartA[1].closed = FALSE /\ PartA[1].onFail = "crash"
    BY DEF PartA, File
<1>4. PartA[2].name = "hostname" /\ PartA[2].closed = TRUE /\ PartA[2].onFail = "error"
    BY DEF PartA, File
<1>5. PartA[3].name = "cpuinfo" /\ PartA[3].closed = TRUE /\ PartA[3].onFail = "error"
    BY DEF PartA, File
<1>6. PartA[4].name = "version" /\ PartA[4].closed = TRUE /\ PartA[4].onFail = "crash"
    BY DEF PartA, File
<1>7. PartA[5].name = "version_signature" /\ PartA[5].closed = TRUE /\ PartA[5].onFail = "crash"
    BY DEF PartA, File
<1> QED BY <1>1, <1>2, <1>3, <1>4, <1>5, <1>6, <1>7

\* Part b has two files, the last of them the uptime,
LEMMA FilesOfB ==
    ASSUME option = "b"
    PROVE  /\ Len(Files) = 2 /\ Files[1].name = "meminfo" /\ Files[1].closed = TRUE
           /\ Files[2].name = "uptime"
           /\ \A k \in 1..2 : Files[k].onFail \in {"crash", "error", "ok"}
<1>1. Files = PartB
    BY FilesAre
<1>2. Len(PartB) = 2 /\ \A k \in 1..2 : k = 1 \/ k = 2
    BY DEF PartB
<1>3. PartB[1].name = "meminfo" /\ PartB[1].closed = TRUE /\ PartB[1].onFail = "error"
    BY DEF PartB, File
<1>4. PartB[2].name = "uptime" /\ PartB[2].onFail = "ok"
    BY DEF PartB, File
<1> QED BY <1>1, <1>2, <1>3, <1>4

\* and part c one.
LEMMA FilesOfC ==
    ASSUME option = "c"
    PROVE  /\ Len(Files) = 1 /\ Files[1].name = "stat" /\ Files[1].closed = TRUE
           /\ Files[1].onFail \in {"crash", "error", "ok"}
<1>1. Files = PartC
    BY FilesAre
<1>2. Len(PartC) = 1 /\ PartC[1].name = "stat" /\ PartC[1].closed = TRUE /\ PartC[1].onFail = "error"
    BY DEF PartC, File
<1> QED BY <1>1, <1>2

\* How many files there are.
LEMMA FileCount ==
    /\ option = "a" => Len(Files) = 5
    /\ option = "b" => Len(Files) = 2
    /\ option = "c" => Len(Files) = 1
    /\ option \notin {"a", "b", "c"} => Len(Files) = 0
    /\ Len(Files) \in Nat
<1>1. Len(PartA) = 5 /\ Len(PartB) = 2 /\ Len(PartC) = 1 /\ Len(<<>>) = 0
    BY DEF PartA, PartB, PartC
<1> QED BY <1>1, FilesAre

\* The file at work is one of them, can fail as it says, and is the uptime in part
\* b only.
LEMMA FileAtWork ==
    ASSUME option \in {"a", "b", "c"}, fileAt \in 1..Len(Files)
    PROVE  /\ Files[fileAt].onFail \in {"crash", "error", "ok"}
           /\ Files[fileAt].name = "uptime" => option = "b"
           /\ option = "a" => fileAt \in 1..5
           /\ option = "b" => fileAt \in 1..2
           /\ option = "c" => fileAt = 1
<1>0. PICK n \in Nat : n = Len(Files)
    BY FileCount
<1>01. fileAt \in 1..n
    BY <1>0
<1>02. (option = "a" => n = 5) /\ (option = "b" => n = 2) /\ (option = "c" => n = 1)
    BY <1>0, FileCount
<1>1. (option = "a" => fileAt \in 1..5) /\ (option = "b" => fileAt \in 1..2) /\ (option = "c" => fileAt = 1)
    BY <1>01, <1>02
<1>2. CASE option = "a"
  <2>1. \A k \in 1..5 : Files[k].onFail \in {"crash", "error", "ok"} /\ Files[k].name # "uptime"
      BY <1>2, FilesOfA, Zenon
  <2> QED BY <1>1, <1>2, <2>1
<1>3. CASE option = "b"
    BY <1>1, <1>3, FilesOfB
<1>4. CASE option = "c"
    BY <1>1, <1>4, FilesOfC
<1> QED BY <1>1, <1>2, <1>3, <1>4

\* The stream that is left open while part a goes on to its other files.
LeftOpen == IF option = "a" /\ fileAt > 1 THEN {"rtc"} ELSE {}

\* The streams that are open at each point of a part.
StreamsInv ==
    /\ version \in {"observer", "v1"} /\ option \in {"a", "b", "c", "d", "x", "dash", "bad"}
    /\ phase \in {"main", "open", "read", "sample", "sleep", "end"}
    /\ outcome \in {"none", "ok", "error", "usage", "crash"} /\ (phase = "end") = (outcome # "none")
    /\ fileAt \in 0..Len(Files)
    /\ phase \in {"open", "read"} => option \in {"a", "b", "c"} /\ fileAt >= 1
    /\ phase = "open" => streams = LeftOpen
    /\ phase = "read" => streams = LeftOpen \cup {Files[fileAt].name}
    /\ phase = "end" => streams \in {{}, {"rtc"}, {"uptime"}}
    /\ phase \notin {"open", "read", "end"} => streams = {}

\* The uptime printed is one there is.
TimeInv == /\ shownTime.up \in (0 - 1)..MaxUptime /\ shownTime.idle \in {0 - 1, 0, MaxUptime}

\* The time that the first interval counts for.
FirstCounted == IF version = "observer" THEN period[1] ELSE 0

\* How far part d has come: n samples at the multiples of the interval, the last
\* of them due when its turn came.
SamplesInv ==
    /\ option # "d" => period = <<>>
    /\ period = <<>> \/ (period \in (1..MaxPeriod) \X (0..MaxPeriod))
    /\ samples \in Seq(Nat)
    /\ \A i \in 1..Len(samples) : samples[i] = period[1] * (i - 1)
    /\ phase \in {"main", "open", "read"} \/ option # "d" \/ period = <<>> => samples = <<>>
    /\ phase = "main" => seconds = 0
    /\ phase \in {"sample", "sleep"} => option = "d" /\ period # <<>>
    /\ phase = "sample" => seconds = period[1] * Len(samples)
    /\ phase = "sleep" => Len(samples) > 0 /\ seconds = period[1] * (Len(samples) - 1)
    /\ Len(samples) > 1 => period[1] * (Len(samples) - 2) + FirstCounted < period[2]
    /\ phase = "sample" /\ Len(samples) > 0 => iteration = period[1] * (Len(samples) - 1) + FirstCounted /\ iteration < period[2]
    /\ phase = "sleep" /\ Len(samples) > 1 => iteration = period[1] * (Len(samples) - 2) + FirstCounted
    /\ phase = "end" /\ Len(samples) > 0 => period[1] * (Len(samples) - 1) + FirstCounted >= period[2]

ObserverInv == StreamsInv /\ TimeInv /\ SamplesInv

\* Nothing is open or sampled at first.
LEMMA ObserverInitOK == ObserverInit => ObserverInv
<1> SUFFICES ASSUME ObserverInit PROVE ObserverInv
    OBVIOUS
<1>1. StreamsInv
    BY FilesAre DEF ObserverInit, StreamsInv, PartA, PartB, PartC
<1>2. TimeInv
    BY ObserverAssumption DEF ObserverInit, TimeInv, NoTime
<1>3. <<>> \in Seq(Nat) /\ Len(<<>>) = 0
    OBVIOUS
<1>4. samples \in Seq(Nat) /\ Len(samples) = 0 /\ samples = <<>>
    BY <1>3 DEF ObserverInit
<1>5. SamplesInv
    BY <1>4 DEF ObserverInit, SamplesInv
<1> QED BY <1>1, <1>2, <1>5 DEF ObserverInv

\* What a step does to the streams.
LEMMA StreamsStep == StreamsInv /\ [ObserverNext]_obsVars => StreamsInv'
<1> SUFFICES ASSUME StreamsInv, [ObserverNext]_obsVars PROVE StreamsInv'
    OBVIOUS
<1>0. UNCHANGED option => Files' = Files
    BY DEF Files
<1>02. Len(Files) \in Nat /\ (option = "a" => Len(Files) = 5) /\ (option = "b" => Len(Files) = 2)
       /\ (option = "c" => Len(Files) = 1) /\ (option \notin {"a", "b", "c"} => Len(Files) = 0)
    BY FileCount
<1>1. CASE obs_main
  <2>1. UNCHANGED option
      BY <1>1 DEF obs_main
  <2>2. option \in {"a", "b", "c"} => 1 <= Len(Files)
      BY <1>02
  <2> QED BY <1>1, <1>0, <1>02, <2>1, <2>2 DEF obs_main, StreamsInv, Finish, LeftOpen
<1>2. CASE obs_fopen
  <2>1. UNCHANGED <<version, option, fileAt>> /\ phase = "open" /\ streams = LeftOpen /\ option \in {"a", "b", "c"} /\ fileAt \in 1..Len(Files)
      BY <1>2, <1>02 DEF obs_fopen, StreamsInv
  <2>2. LeftOpen' = LeftOpen /\ Files' = Files
      BY <2>1, <1>0 DEF LeftOpen
  <2>3. CASE streams' = streams \cup {Files[fileAt].name} /\ phase' = "read" /\ UNCHANGED <<outcome, failedOpen>>
      BY <2>1, <2>2, <2>3 DEF StreamsInv
  <2>4. CASE Finish(Files[fileAt].onFail) /\ UNCHANGED streams
    <3>1. Files[fileAt].onFail \in {"crash", "error", "ok"}
        BY <2>1, FileAtWork
    <3> QED BY <2>1, <2>2, <2>4, <3>1 DEF StreamsInv, LeftOpen, Finish
  <2> QED BY <1>2, <2>3, <2>4 DEF obs_fopen
<1>3. CASE obs_read
  <2>1. /\ UNCHANGED <<version, option>> /\ phase = "read" /\ option \in {"a", "b", "c"} /\ fileAt \in 1..Len(Files)
        /\ streams = LeftOpen \cup {Files[fileAt].name} /\ Files[fileAt].name # "uptime"
        /\ streams' = (IF Files[fileAt].closed THEN streams \ {Files[fileAt].name} ELSE streams)
        /\ NextFile
      BY <1>3, <1>02 DEF obs_read, StreamsInv
  <2>2. Files' = Files
      BY <2>1, <1>0
  <2>3. streams' = IF option = "a" THEN {"rtc"} ELSE {}
    <3>0. (option = "a" => fileAt \in 1..5) /\ (option = "b" => fileAt \in 1..2) /\ (option = "c" => fileAt = 1)
        BY <2>1, FileAtWork
    <3>1. CASE option = "a"
      <4>1. CASE fileAt = 1
          BY <2>1, <3>1, <4>1, FilesOfA DEF LeftOpen
      <4>2. CASE fileAt \in 2..5
        <5>0. \A k \in 2..5 : Files[k].closed = TRUE /\ Files[k].name # "rtc"
            BY <3>1, FilesOfA, Zenon
        <5>1. Files[fileAt].closed = TRUE /\ Files[fileAt].name # "rtc" /\ LeftOpen = {"rtc"}
            BY <3>1, <4>2, <5>0 DEF LeftOpen
        <5> QED BY <2>1, <3>1, <5>1
      <4> QED BY <4>1, <4>2, <3>0, <3>1
    <3>2. CASE option = "b"
      <4>1. fileAt = 1
          BY <2>1, <3>0, <3>2, FilesOfB
      <4> QED BY <2>1, <3>2, <4>1, FilesOfB DEF LeftOpen
    <3>3. CASE option = "c"
        BY <2>1, <3>0, <3>3, FilesOfC DEF LeftOpen
    <3> QED BY <2>1, <3>1, <3>2, <3>3
  <2>4. CASE fileAt < Len(Files) /\ fileAt' = fileAt + 1 /\ phase' = "open" /\ UNCHANGED outcome
    <3>1. PICK n \in Nat : n = Len(Files)
        BY <1>02
    <3>2. fileAt' \in 1..n /\ fileAt' > 1
        BY <2>1, <2>4, <3>1
    <3>3. fileAt' \in 1..Len(Files')
        BY <2>2, <3>1, <3>2
    <3>4. LeftOpen' = IF option = "a" THEN {"rtc"} ELSE {}
        BY <2>1, <3>2 DEF LeftOpen
    <3>5. fileAt' \in 0..Len(Files)' /\ fileAt' >= 1
        BY <3>1, <3>2, <2>2
    <3>6. version' \in {"observer", "v1"} /\ option' \in {"a", "b", "c"} /\ phase' = "open" /\ outcome' = "none"
        BY <2>1, <2>4 DEF StreamsInv
    <3> QED BY <2>3, <3>4, <3>5, <3>6, <2>1 DEF StreamsInv
  <2>5. CASE Finish("ok") /\ UNCHANGED fileAt
      BY <2>1, <2>2, <2>3, <2>5, <1>02 DEF StreamsInv, LeftOpen, Finish
  <2> QED BY <2>1, <2>4, <2>5 DEF NextFile
<1>4. CASE sampleTime
  <2>1. /\ UNCHANGED <<version, option, fileAt>> /\ phase = "read" /\ option \in {"a", "b", "c"} /\ fileAt \in 1..Len(Files)
        /\ streams = LeftOpen \cup {"uptime"} /\ Files[fileAt].name = "uptime" /\ phase' = "end" /\ outcome' \in {"ok", "crash"}
        /\ streams' \in {streams, streams \ {"uptime"}}
      BY <1>4, <1>02 DEF sampleTime, StreamsInv, Finish
  <2>2. option = "b"
      BY <2>1, FileAtWork
  <2> QED BY <2>1, <2>2, <1>0 DEF StreamsInv, LeftOpen
<1>5. CASE sampleLoadAvg
    BY <1>5, <1>0 DEF sampleLoadAvg, StreamsInv, LeftOpen
<1>6. CASE obs_loop
    BY <1>6, <1>0 DEF obs_loop, StreamsInv, LeftOpen, Finish
<1>7. CASE UNCHANGED obsVars
    BY <1>7, <1>0 DEF obsVars, StreamsInv, LeftOpen
<1> QED BY <1>1, <1>2, <1>3, <1>4, <1>5, <1>6, <1>7 DEF ObserverNext

\* The times shown come from sampleTime only.
LEMMA TimeStep == TimeInv /\ [ObserverNext]_obsVars => TimeInv'
<1> SUFFICES ASSUME TimeInv, [ObserverNext]_obsVars PROVE TimeInv'
    OBVIOUS
<1>1. CASE UNCHANGED shownTime
    BY <1>1 DEF TimeInv
<1>2. CASE sampleTime
  <2>1. UNCHANGED shownTime \/ \E up \in 0..MaxUptime, idle \in {0, MaxUptime} : shownTime' = [up |-> up, idle |-> idle]
      BY <1>2 DEF sampleTime
  <2>2. ASSUME NEW up \in 0..MaxUptime, NEW idle \in {0, MaxUptime}, shownTime' = [up |-> up, idle |-> idle]
        PROVE  TimeInv'
    <3>1. shownTime'.up = up /\ shownTime'.idle = idle
        BY <2>2
    <3> QED BY <3>1, ObserverAssumption DEF TimeInv
  <2> QED BY <1>1, <2>1, <2>2
<1> QED BY <1>1, <1>2 DEF ObserverNext, obs_main, obs_fopen, obs_read, sampleLoadAvg, obs_loop, obsVars

\* The samples follow the intervals.
LEMMA SamplesStep == StreamsInv /\ SamplesInv /\ [ObserverNext]_obsVars => SamplesInv'
<1> SUFFICES ASSUME StreamsInv, SamplesInv, [ObserverNext]_obsVars PROVE SamplesInv'
    OBVIOUS
<1>0. UNCHANGED <<version, option, period>>
    BY DEF ObserverNext, obs_main, obs_fopen, obs_read, sampleTime, sampleLoadAvg, obs_loop, obsVars
<1>1. PICK n \in Nat : n = Len(samples)
    BY DEF SamplesInv
<1>2. FirstCounted' = FirstCounted
    BY <1>0 DEF FirstCounted
<1>3. <<>> \in Seq(Nat) /\ Len(<<>>) = 0
    OBVIOUS
<1>4. CASE obs_main
  <2>1. samples = <<>> /\ samples' = <<>> /\ seconds' = 0 /\ phase' \in {"sample", "end", "open"} /\ iteration' = iteration
        /\ (phase' = "sample" => option = "d" /\ period # <<>>)
      BY <1>4 DEF obs_main, SamplesInv, Finish
  <2>2. Len(samples') = 0 /\ samples' \in Seq(Nat)
      BY <1>3, <2>1
  <2>3. period # <<>> => period[1] * Len(samples') = 0
    <3>1. period # <<>> => \E p \in Nat : p = period[1]
        BY ObserverAssumption DEF SamplesInv
    <3>2. \A p \in Nat : p * 0 = 0
        OBVIOUS
    <3> QED BY <2>2, <3>1, <3>2
  <2> QED BY <1>0, <2>1, <2>2, <2>3 DEF SamplesInv
<1>5. CASE obs_fopen \/ obs_read \/ sampleTime
  <2>1. phase \in {"open", "read"} /\ phase' \in {"open", "read", "end"} /\ UNCHANGED <<samples, seconds, iteration>>
      BY <1>5 DEF obs_fopen, obs_read, sampleTime, NextFile, Finish
  <2>2. samples = <<>> /\ Len(samples') = 0
      BY <1>3, <2>1 DEF SamplesInv
  <2> QED BY <1>0, <2>1, <2>2 DEF SamplesInv
<1>6. CASE sampleLoadAvg
  <2>1. /\ phase = "sample" /\ phase' = "sleep" /\ samples' = Append(samples, seconds) /\ UNCHANGED <<seconds, iteration>>
        /\ option = "d" /\ period # <<>>
      BY <1>6 DEF sampleLoadAvg, SamplesInv
  <2>2. PICK p \in Nat, d \in Nat : p = period[1] /\ d = period[2]
      BY <2>1, ObserverAssumption DEF SamplesInv
  <2>3. seconds = p * n
      BY <1>1, <2>1, <2>2 DEF SamplesInv
  <2>4. PICK q \in Nat : q = p * n
      BY Products
  <2>5. samples \in Seq(Nat) /\ seconds \in Nat
      BY <2>3, <2>4 DEF SamplesInv
  <2>6. samples' \in Seq(Nat) /\ Len(samples') = n + 1 /\ samples'[n + 1] = seconds
        /\ \A i \in 1..n : samples'[i] = samples[i]
      BY <1>1, <2>1, <2>5
  <2>7. \A i \in 1..Len(samples') : samples'[i] = period'[1] * (i - 1)
    <3> SUFFICES ASSUME NEW i \in 1..(n + 1) PROVE samples'[i] = p * (i - 1)
        BY <1>0, <2>2, <2>6
    <3>1. CASE i \in 1..n
        BY <3>1, <1>1, <2>2, <2>6 DEF SamplesInv
    <3>2. CASE i = n + 1
      <4>1. i - 1 = n
          BY <3>2
      <4> QED BY <3>2, <4>1, <2>3, <2>6
    <3> QED BY <3>1, <3>2
  <2>8. n > 0 => iteration = p * (n - 1) + FirstCounted /\ iteration < d
      BY <1>1, <2>1, <2>2 DEF SamplesInv
  <2>9. (n + 1) - 2 = n - 1 /\ (n + 1) - 1 = n
      OBVIOUS
  <2>10. Len(samples') > 1 => period'[1] * (Len(samples') - 2) + FirstCounted' < period'[2]
      BY <1>0, <1>2, <2>2, <2>6, <2>8, <2>9
  <2>11. Len(samples') > 0 /\ seconds' = period'[1] * (Len(samples') - 1)
      BY <1>0, <2>1, <2>2, <2>3, <2>6, <2>9
  <2>12. Len(samples') > 1 => iteration' = period'[1] * (Len(samples') - 2) + FirstCounted'
      BY <1>0, <1>2, <2>1, <2>2, <2>6, <2>8, <2>9
  <2>13. samples' # <<>>
      BY <1>3, <2>11
  <2> QED BY <1>0, <2>1, <2>6, <2>7, <2>10, <2>11, <2>12 DEF SamplesInv
<1>7. CASE obs_loop
  <2>1. /\ phase = "sleep" /\ UNCHANGED samples /\ option = "d" /\ period # <<>> /\ n > 0
        /\ iteration' = (IF n = 1 THEN FirstCounted ELSE iteration + period[1])
        /\ IF iteration' < period[2] THEN seconds' = seconds + period[1] /\ phase' = "sample" ELSE phase' = "end" /\ seconds' = seconds
      BY <1>7, <1>1 DEF obs_loop, SamplesInv, Finish, FirstIteration, FirstCounted
  <2>2. PICK p \in Nat, d \in Nat : p = period[1] /\ d = period[2]
      BY <2>1, ObserverAssumption DEF SamplesInv
  <2>3. FirstCounted \in Nat
      BY <2>2 DEF FirstCounted
  <2>4. PICK q \in Nat, r \in Nat : q = p * (n - 1) /\ r = p * n
      BY <2>1, Products
  <2>5. r = q + p
      BY <2>4
  <2>6. n > 1 => p * (n - 2) = q - p
    <3> SUFFICES ASSUME n > 1 PROVE p * (n - 2) = q - p
        OBVIOUS
    <3>1. PICK m \in Nat : n = m + 2
      <4>1. n - 2 \in Nat /\ n = (n - 2) + 2
          OBVIOUS
      <4> QED BY <4>1
    <3>2. n - 1 = m + 1 /\ n - 2 = m
        BY <3>1
    <3>3. p * (m + 1) = p * m + p
        OBVIOUS
    <3>4. p * m \in Nat
        BY Products
    <3> QED BY <2>4, <3>2, <3>3, <3>4
  <2>7. n > 1 => iteration = (q - p) + FirstCounted
      BY <1>1, <2>1, <2>2, <2>6 DEF SamplesInv
  <2>8. iteration' = q + FirstCounted
    <3>1. CASE n = 1
      <4>1. q = 0
          BY <3>1, <2>4
      <4> QED BY <3>1, <4>1, <2>1, <2>3
    <3>2. CASE n > 1
        BY <3>2, <2>1, <2>2, <2>3, <2>7
    <3> QED BY <3>1, <3>2, <2>1
  <2>9. seconds = q
      BY <1>1, <2>1, <2>2, <2>4 DEF SamplesInv
  <2>10. CASE iteration' < period[2]
    <3>1. seconds' = r /\ phase' = "sample"
        BY <2>1, <2>2, <2>5, <2>9, <2>10
    <3>2. seconds' = period'[1] * Len(samples')
        BY <3>1, <1>0, <1>1, <2>1, <2>2, <2>4
    <3>3. iteration' = period'[1] * (Len(samples') - 1) + FirstCounted' /\ iteration' < period'[2]
        BY <1>0, <1>1, <1>2, <2>1, <2>2, <2>4, <2>8, <2>10
    <3> QED BY <1>0, <1>2, <2>1, <3>1, <3>2, <3>3 DEF SamplesInv
  <2>11. CASE ~(iteration' < period[2])
    <3>1. period'[1] * (Len(samples') - 1) + FirstCounted' >= period'[2]
      <4>1. q + FirstCounted >= d
          BY <2>2, <2>3, <2>8, <2>11
      <4>2. period'[1] * (Len(samples') - 1) = q
          BY <1>0, <1>1, <2>1, <2>2, <2>4
      <4> QED BY <1>0, <1>2, <2>2, <4>1, <4>2
    <3>2. phase' = "end" /\ UNCHANGED seconds
        BY <2>1, <2>11
    <3> QED BY <1>0, <1>2, <2>1, <3>1, <3>2 DEF SamplesInv
  <2> QED BY <2>10, <2>11
<1>8. CASE UNCHANGED obsVars
    BY <1>8, <1>2 DEF obsVars, SamplesInv
<1> QED BY <1>4, <1>5, <1>6, <1>7, <1>8 DEF ObserverNext

\* Every step of the observer keeps all of it.
LEMMA ObserverStep == ObserverInv /\ [ObserverNext]_obsVars => ObserverInv'
BY StreamsStep, TimeStep, SamplesStep DEF ObserverInv

\* A sequence without repetitions has as many values as entries.
LEMMA CountOfValues ==
    ASSUME NEW q \in Seq(Nat), \A i \in 1..Len(q), j \in 1..Len(q) : q[i] = q[j] => i = j
    PROVE  Cardinality({q[i] : i \in DOMAIN q}) = Len(q)
<1> DEFINE V == {q[i] : i \in DOMAIN q}
           f == [i \in 1..Len(q) |-> q[i]]
<1>1. DOMAIN q = 1..Len(q) /\ Len(q) \in Nat
    OBVIOUS
<1>2. f \in [1..Len(q) -> V] /\ \A i \in 1..Len(q) : f[i] = q[i]
    BY <1>1
<1>3. \A v \in V : \E i \in 1..Len(q) : f[i] = v
    BY <1>1
<1> HIDE DEF V, f
<1>30. \A i \in 1..Len(q), j \in 1..Len(q) : f[i] = f[j] => i = j
    BY <1>2
<1>4. f \in Bijection(1..Len(q), V)
    BY <1>2, <1>3, <1>30, Fun_IsBij
<1>40. IsFiniteSet(1..Len(q))
    BY <1>1, FS_Interval
<1>41. ExistsBijection(1..Len(q), V)
    BY <1>4 DEF ExistsBijection
<1>5. Cardinality(V) = Cardinality(1..Len(q))
    BY <1>40, <1>41, FS_Bijection
<1>6. Cardinality(1..Len(q)) = Len(q)
  <2>1. PICK n \in Nat : n = Len(q)
      BY <1>1
  <2>2. Cardinality(1..n) = IF 1 > n THEN 0 ELSE n - 1 + 1
      BY FS_Interval
  <2>3. Cardinality(1..n) = n
      BY <2>2
  <2> QED BY <2>1, <2>3
<1> QED BY <1>5, <1>6 DEF V

\* Part d covers its duration.
LEMMA SamplesCover == StreamsInv /\ SamplesInv => SamplesCoverDuration
<1> SUFFICES ASSUME StreamsInv, SamplesInv, phase = "end", samples # <<>>
             PROVE  LET times == {k \in 0..(2 * MaxPeriod) : k % period[1] = 0 /\ (k = 0 \/ k - (IF version = "v1" THEN period[1] ELSE 0) < period[2])}
                    IN  /\ {samples[i] : i \in DOMAIN samples} = times
                        /\ Len(samples) = Cardinality(times)
    BY DEF SamplesCoverDuration
<1>1. PICK p \in 1..MaxPeriod, d \in 0..MaxPeriod : p = period[1] /\ d = period[2]
    BY DEF SamplesInv
<1>2. p \in Nat \ {0} /\ d \in Nat /\ MaxPeriod \in Nat
    BY <1>1, ObserverAssumption
<1>3. PICK off \in {0, p} : off = (IF version = "v1" THEN p ELSE 0)
    OBVIOUS
<1>4. FirstCounted = p - off
    BY <1>1, <1>2, <1>3 DEF FirstCounted, StreamsInv
<1>5. PICK n \in Nat : n = Len(samples)
    BY DEF SamplesInv
<1>6. n > 0
    BY <1>5, EmptySeq DEF SamplesInv
<1> DEFINE times == {k \in 0..(2 * MaxPeriod) : k % p = 0 /\ (k = 0 \/ k - off < d)}
           taken == {samples[i] : i \in DOMAIN samples}
<1>7. DOMAIN samples = 1..n /\ \A i \in 1..n : samples[i] = p * (i - 1)
    BY <1>1, <1>5 DEF SamplesInv
<1>8. PICK a \in Nat : a = p * (n - 1)
    BY <1>2, <1>6, Products
<1>9. a + (p - off) >= d
    BY <1>1, <1>4, <1>5, <1>6, <1>8 DEF SamplesInv
<1>10. n > 1 => a - off < d
  <2> SUFFICES ASSUME n > 1 PROVE a - off < d
      OBVIOUS
  <2>1. p * (n - 2) + (p - off) < d
      BY <1>1, <1>4, <1>5 DEF SamplesInv
  <2>2. PICK m \in Nat : n = m + 2
    <3>1. n - 2 \in Nat /\ n = (n - 2) + 2
        OBVIOUS
    <3> QED BY <3>1
  <2>3. n - 2 = m /\ n - 1 = m + 1 /\ p * (m + 1) = p * m + p
      BY <1>2, <2>2
  <2>4. PICK c \in Nat : c = p * m
      BY <1>2, Products
  <2>5. a = c + p /\ c + (p - off) < d
      BY <1>8, <2>1, <2>3, <2>4
  <2> QED BY <1>2, <1>3, <2>5
<1>11. ASSUME NEW x \in taken PROVE x \in times
  <2>1. PICK i \in 1..n : x = p * (i - 1)
      BY <1>7
  <2>2. PICK j \in Nat : j = i - 1 /\ j <= n - 1 /\ x = p * j
    <3>1. i - 1 \in Nat /\ i - 1 <= n - 1
        OBVIOUS
    <3> QED BY <2>1, <3>1
  <2>3. x \in Nat
      BY <1>2, <2>2, Products
  <2>4. x = p * j + 0 /\ 0 \in 0..(p - 1)
      BY <1>2, <2>2, <2>3
  <2>5. x % p = 0
      BY <1>2, <2>3, <2>4, ModUnique
  <2>6. x <= a
    <3>1. j < n - 1 => p * j + p <= p * (n - 1)
        BY <1>2, <1>6, Multiples
    <3> QED BY <1>2, <1>8, <2>2, <2>3, <3>1
  <2>7. x = 0 \/ (x - off < d /\ x <= 2 * MaxPeriod)
    <3>1. CASE n = 1
      <4>1. j = 0 /\ p * 0 = 0
          BY <1>2, <2>2, <3>1
      <4> QED BY <2>2, <4>1
    <3>2. CASE n > 1
        BY <1>1, <1>2, <1>3, <1>10, <2>3, <2>6, <3>2
    <3> QED BY <1>6, <3>1, <3>2
  <2>8. x \in 0..(2 * MaxPeriod)
      BY <1>2, <2>3, <2>7
  <2> QED BY <2>5, <2>7, <2>8
<1>12. ASSUME NEW x \in times PROVE x \in taken
  <2>1. x \in Nat /\ x % p = 0 /\ (x = 0 \/ x - off < d)
      BY <1>2
  <2>2. PICK q \in Nat, r \in 0..(p - 1) : q = x \div p /\ r = x % p /\ x = p * q + r
      BY <1>2, <2>1, DivMod
  <2>3. x = p * q
      BY <1>2, <2>1, <2>2, Products
  <2>4. q <= n - 1
    <3>1. n - 1 < q => p * (n - 1) + p <= p * q
        BY <1>2, <1>6, Multiples
    <3>2. n - 1 < q => a + p <= x /\ x # 0
        BY <1>2, <1>8, <2>3, <3>1
    <3>3. a + p <= x /\ x # 0 => FALSE
      <4> SUFFICES ASSUME a + p <= x, x # 0 PROVE FALSE
          OBVIOUS
      <4>1. x - off < d
          BY <2>1
      <4>2. off \in Int /\ a \in Int /\ x \in Int /\ p \in Int /\ d \in Int
          BY <1>2, <1>3, <2>1
      <4> QED BY ONLY a + p <= x, <4>1, <4>2, <1>9
    <3> QED BY <1>6, <3>2, <3>3
  <2>5. q + 1 \in 1..n /\ (q + 1) - 1 = q
      BY <1>6, <2>4
  <2>6. samples[q + 1] = x
      BY <1>7, <2>3, <2>5
  <2> QED BY <1>7, <2>5, <2>6
<1>13. taken = times
    BY <1>11, <1>12
<1>14. Cardinality(taken) = n
  <2>1. ASSUME NEW i \in 1..n, NEW j \in 1..n, samples[i] = samples[j] PROVE i = j
    <3>1. PICK u \in Nat, v \in Nat : u = i - 1 /\ v = j - 1
        OBVIOUS
    <3>2. p * u = p * v
        BY <1>7, <2>1, <3>1
    <3>3. (u < v => p * u + p <= p * v) /\ (v < u => p * v + p <= p * u)
        BY <1>2, Multiples
    <3>4. PICK c \in Nat, e \in Nat : c = p * u /\ e = p * v
        BY <1>2, Products
    <3>5. u = v
        BY <1>2, <3>2, <3>3, <3>4
    <3> QED BY <3>1, <3>5
  <2>2. samples \in Seq(Nat)
      BY DEF SamplesInv
  <2>3. \A i \in 1..Len(samples), j \in 1..Len(samples) : samples[i] = samples[j] => i = j
      BY <1>5, <2>1
  <2> HIDE DEF taken
  <2> QED BY <1>5, <2>2, <2>3, CountOfValues DEF taken
<1>15. times = {k \in 0..(2 * MaxPeriod) : k % period[1] = 0 /\ (k = 0 \/ k - (IF version = "v1" THEN period[1] ELSE 0) < period[2])}
    BY <1>1, <1>3
<1> HIDE DEF times
<1> QED BY <1>5, <1>13, <1>14, <1>15

\* What is proved of the observer.
LEMMA ObserverImplies == ObserverInv => ObserverTypeOK /\ ReportsRight
<1> SUFFICES ASSUME ObserverInv PROVE ObserverTypeOK /\ ReportsRight
    OBVIOUS
<1>1. ObserverTypeOK
    BY DEF ObserverInv, StreamsInv, TimeInv, ObserverTypeOK
<1>2. StreamsClosedAtEnd
  <2>1. Cardinality({}) = 0 /\ Cardinality({"rtc"}) = 1 /\ Cardinality({"uptime"}) = 1
      BY FS_EmptySet, FS_Singleton, Zenon
  <2>2. phase = "end" => streams = {} \/ streams = {"rtc"} \/ streams = {"uptime"}
      BY DEF ObserverInv, StreamsInv
  <2>3. phase = "end" => Cardinality(streams) <= 1
      BY <2>1, <2>2
  <2> QED BY <2>2, <2>3 DEF StreamsClosedAtEnd
<1>3. BreakdownExact
  <2>1. shownTime.up \in Nat \cup {0 - 1} /\ shownTime.idle \in Nat \cup {0 - 1}
      BY ObserverAssumption DEF ObserverInv, TimeInv
  <2>2. \A t \in {shownTime.up, shownTime.idle} \ {0 - 1} : t \in Nat
      BY <2>1
  <2> QED BY <2>2, BreakdownRight DEF BreakdownExact
<1>4. SamplesCoverDuration
    BY SamplesCover DEF ObserverInv
<1> QED BY <1>1, <1>2, <1>3, <1>4 DEF ReportsRight

-----------------------------------------------------------------------------
(* The shell with a table of children: BgShell *)

\* The least number of a set of slots.
LEMMA FirstIsLeast ==
    ASSUME NEW S \in SUBSET Slots, S # {}
    PROVE  FirstOf(S) \in S
<1>1. S \subseteq Nat
    BY BgShellAssumption
<1>2. PICK x \in S : \A y \in S : ~(<<y, x>> \in OpToRel(<, Nat))
    BY <1>1, NatLessThanWellFounded, WFMin
<1>20. \A y \in S : ~(y < x)
    BY <1>1, <1>2 DEF OpToRel
<1>3. \A y \in S : x <= y
    BY <1>1, <1>20
<1> QED BY <1>3 DEF FirstOf

ChildType == [st : {"none", "run", "zombie"}, cmd : Commands \cup {"fg", NULL}]

\* The table and the children: who is in the foreground is in no table; everybody
\* else who was not waited for is either in the table once, under its own
\* command, or was forgotten for want of room.
TableInv ==
    /\ kpc \in {"prompt", "wait", "reap", "exit", "crash"}
    /\ kids \in [Pids -> ChildType] /\ unlisted \subseteq Pids
    /\ bgPids \in [Slots -> Pids \cup {"0"}] /\ bgCmds \in [Slots -> Commands \cup {NULL}]
    /\ kpc # "wait" => fg = "0"
    /\ kpc = "wait" => fg \in Pids /\ kids[fg].st # "none"
    /\ \A p \in Pids : kids[p].st = "none" \/ p = fg => Entries(p) = {} /\ p \notin unlisted
    /\ \A p \in Pids : kids[p].st # "none" /\ p # fg =>
          \/ p \in unlisted /\ Entries(p) = {}
          \/ p \notin unlisted /\ \E i \in Slots : Entries(p) = {i} /\ bgCmds[i] = kids[p].cmd
    /\ said.named = said.own

\* Nobody is in the table at first.
LEMMA TableInit == BgInit => TableInv
<1> SUFFICES ASSUME BgInit PROVE TableInv
    OBVIOUS
<1>1. \A p \in Pids : Entries(p) = {}
    BY BgShellAssumption DEF BgInit, Entries
<1>2. kids \in [Pids -> ChildType]
    BY DEF BgInit, ChildType
<1>3. bgPids \in [Slots -> Pids \cup {"0"}] /\ bgCmds \in [Slots -> Commands \cup {NULL}]
    BY DEF BgInit
<1> QED BY <1>1, <1>2, <1>3 DEF BgInit, TableInv, NobodySaid

\* The table and the children are all that TableInv is about.
tableVars == <<kpc, kids, fg, bgPids, bgCmds, unlisted, said>>

\* A child is made.
LEMMA ForkedKids ==
    ASSUME TableInv, NEW p \in Pids, NEW c \in Commands \cup {"fg"}, Fork(p, c)
    PROVE  /\ kids' \in [Pids -> ChildType] /\ kids'[p].st = "run" /\ kids'[p].cmd = c /\ kids[p].st = "none"
           /\ \A q \in Pids \ {p} : kids'[q] = kids[q]
<1>1. [st |-> "run", cmd |-> c] \in ChildType
    BY DEF ChildType
<1>2. PICK new : new = [st |-> "run", cmd |-> c]
    OBVIOUS
<1>3. kids' = [kids EXCEPT ![p] = new] /\ new \in ChildType /\ new.st = "run" /\ new.cmd = c
    BY <1>1, <1>2 DEF Fork
<1> QED BY <1>3 DEF TableInv, Fork

\* A child has been waited for.
LEMMA ReapedKids ==
    ASSUME TableInv, NEW p \in Pids, kids' = [kids EXCEPT ![p] = [st |-> "none", cmd |-> NULL]]
    PROVE  /\ kids' \in [Pids -> ChildType] /\ kids'[p].st = "none"
           /\ \A q \in Pids \ {p} : kids'[q] = kids[q]
<1>1. [st |-> "none", cmd |-> NULL] \in ChildType
    BY DEF ChildType
<1>2. PICK new : new = [st |-> "none", cmd |-> NULL]
    OBVIOUS
<1>3. kids' = [kids EXCEPT ![p] = new] /\ new \in ChildType /\ new.st = "none"
    BY <1>1, <1>2
<1> QED BY <1>3 DEF TableInv

\* Every step keeps the table right.
LEMMA TableStep == TableInv /\ [BgNext]_bgVars => TableInv'
<1> SUFFICES ASSUME TableInv, [BgNext]_bgVars PROVE TableInv'
    OBVIOUS
<1>0. UNCHANGED bgPids => \A p : Entries(p)' = Entries(p)
    BY DEF Entries
<1>1. CASE /\ UNCHANGED <<kids, fg, bgPids, bgCmds, unlisted, said>> /\ kpc # "wait" /\ kpc' \in {"prompt", "reap", "exit", "crash"}
    BY <1>0, <1>1 DEF TableInv
<1>2. CASE makeargv_empty \/ printenv \/ leave \/ prompt \/ cd("other")
  <2>1. UNCHANGED <<kids, fg, bgPids, bgCmds, unlisted, said>>
      BY <1>2 DEF makeargv_empty, printenv, leave, prompt, cd
  <2>2. kpc \in {"prompt", "reap"} /\ kpc' \in {kpc, "prompt", "exit", "crash"}
    <3>1. CASE makeargv_empty \/ prompt
        BY <3>1 DEF makeargv_empty, prompt
    <3>2. CASE printenv
        BY <3>2 DEF printenv, Line
    <3>3. CASE leave
        BY <3>3 DEF leave, Line
    <3>4. CASE cd("other")
        BY <3>4 DEF cd, Line
    <3> QED BY <1>2, <3>1, <3>2, <3>3, <3>4
  <2> QED BY <1>1, <2>1, <2>2
<1>3. ASSUME NEW n \in VarNames, setenv(n, "new") \/ unset(n) PROVE TableInv'
  <2>1. UNCHANGED <<kids, fg, bgPids, bgCmds, unlisted, said, kpc>> /\ kpc = "prompt"
      BY <1>3 DEF setenv, unset, Line
  <2> QED BY <1>1, <2>1
<1>4. CASE waitpid_fg
  <2>1. /\ kpc = "wait" /\ kpc' = "reap" /\ fg' = "0" /\ kids' = [kids EXCEPT ![fg] = [st |-> "none", cmd |-> NULL]]
        /\ UNCHANGED <<bgPids, bgCmds, unlisted, said>>
      BY <1>4 DEF waitpid_fg
  <2>2. fg \in Pids
      BY <2>1 DEF TableInv
  <2>3. /\ kids' \in [Pids -> ChildType] /\ kids'[fg].st = "none"
        /\ \A q \in Pids \ {fg} : kids'[q] = kids[q]
      BY <2>1, <2>2, ReapedKids
  <2>4. "0" \notin Pids
      BY BgShellAssumption
  <2> QED BY <2>1, <2>2, <2>3, <2>4, <1>0 DEF TableInv
<1>5. ASSUME NEW p \in Pids, foreground(p) PROVE TableInv'
  <2>1. /\ kpc = "prompt" /\ Fork(p, "fg") /\ fg' = p /\ kpc' = "wait" /\ fg = "0" /\ UNCHANGED <<bgPids, bgCmds, unlisted, said>>
      BY <1>5 DEF foreground, Line, TableInv
  <2>2. /\ kids' \in [Pids -> ChildType] /\ kids'[p].st = "run" /\ kids[p].st = "none"
        /\ \A q \in Pids \ {p} : kids'[q] = kids[q]
      BY <2>1, ForkedKids
  <2>3. "0" \notin Pids
      BY BgShellAssumption
  <2> QED BY <2>1, <2>2, <2>3, <1>0 DEF TableInv
<1>6. ASSUME NEW p \in Pids, NEW c \in Commands, background(p, c) PROVE TableInv'
  <2>1. /\ kpc = "prompt" /\ Fork(p, c) /\ kpc' = "reap" /\ fg = "0" /\ UNCHANGED <<fg, said>> /\ addbgPid(p, c)
      BY <1>6 DEF background, Line, TableInv
  <2>2. /\ kids' \in [Pids -> ChildType] /\ kids'[p].st = "run" /\ kids'[p].cmd = c /\ kids[p].st = "none"
        /\ \A q \in Pids \ {p} : kids'[q] = kids[q]
      BY <2>1, ForkedKids
  <2>3. "0" \notin Pids
      BY BgShellAssumption
  <2>4. Entries(p) = {} /\ p \notin unlisted
      BY <2>2 DEF TableInv
  <2>5. CASE FreeSlots = {}
    <3>1. unlisted' = unlisted \cup {p} /\ UNCHANGED <<bgPids, bgCmds>>
        BY <2>1, <2>5 DEF addbgPid
    <3> QED BY <2>1, <2>2, <2>3, <2>4, <3>1, <1>0 DEF TableInv
  <2>6. CASE FreeSlots # {}
    <3>1. PICK f : f = FirstOf(FreeSlots)
        OBVIOUS
    <3>2. f \in Slots /\ bgPids[f] = "0"
        BY <2>6, <3>1, FirstIsLeast DEF FreeSlots
    <3>3. bgPids' = [bgPids EXCEPT ![f] = p] /\ bgCmds' = [bgCmds EXCEPT ![f] = c] /\ UNCHANGED unlisted
        BY <2>1, <2>6, <3>1 DEF addbgPid
    <3>4. /\ bgPids' \in [Slots -> Pids \cup {"0"}] /\ bgCmds' \in [Slots -> Commands \cup {NULL}]
          /\ bgPids'[f] = p /\ bgCmds'[f] = c
          /\ \A i \in Slots \ {f} : bgPids'[i] = bgPids[i] /\ bgCmds'[i] = bgCmds[i]
        BY <3>2, <3>3 DEF TableInv
    <3>5. Entries(p)' = {f}
        BY <2>4, <3>2, <3>4 DEF Entries
    <3>6. \A q \in Pids \ {p} : Entries(q)' = Entries(q) /\ f \notin Entries(q)
        BY <2>3, <3>2, <3>4 DEF Entries
    <3>7. ASSUME NEW q \in Pids \ {p}, kids'[q].st = "none" \/ q = fg' PROVE Entries(q)' = {} /\ q \notin unlisted'
        BY <2>1, <2>2, <3>3, <3>6, <3>7 DEF TableInv
    <3>8. ASSUME NEW q \in Pids \ {p}, kids'[q].st # "none", q # fg'
          PROVE  \/ q \in unlisted' /\ Entries(q)' = {}
                 \/ q \notin unlisted' /\ \E i \in Slots : Entries(q)' = {i} /\ bgCmds'[i] = kids'[q].cmd
      <4>1. \/ q \in unlisted /\ Entries(q) = {}
            \/ q \notin unlisted /\ \E i \in Slots : Entries(q) = {i} /\ bgCmds[i] = kids[q].cmd
          BY <2>1, <2>2, <3>8 DEF TableInv
      <4>2. \A i \in Slots : Entries(q) = {i} => bgCmds'[i] = bgCmds[i]
          BY <3>4, <3>6
      <4> QED BY <4>1, <4>2, <3>3, <3>6, <2>2
    <3> QED BY <2>1, <2>2, <2>3, <2>4, <3>2, <3>3, <3>4, <3>5, <3>7, <3>8 DEF TableInv
  <2> QED BY <2>5, <2>6
<1>7. ASSUME NEW p \in Pids, ChildEnds(p) PROVE TableInv'
  <2>1. kids[p].st = "run" /\ kids' = [kids EXCEPT ![p].st = "zombie"] /\ UNCHANGED <<kpc, fg, bgPids, bgCmds, unlisted, said>>
      BY <1>7 DEF ChildEnds
  <2>2. PICK k \in ChildType : k = kids[p]
      BY DEF TableInv
  <2>3. k = [st |-> k.st, cmd |-> k.cmd] /\ k.cmd \in Commands \cup {"fg", NULL}
      BY DEF ChildType
  <2>4. PICK z : z = [st |-> "zombie", cmd |-> k.cmd]
      OBVIOUS
  <2>5. z \in ChildType /\ z.st = "zombie" /\ z.cmd = k.cmd
      BY <2>3, <2>4 DEF ChildType
  <2>50. [k EXCEPT !.st = "zombie"] = z
      BY <2>3, <2>4
  <2>51. kids' = [kids EXCEPT ![p] = [kids[p] EXCEPT !.st = "zombie"]]
      BY <2>1
  <2>6. kids' = [kids EXCEPT ![p] = z]
      BY <2>2, <2>50, <2>51
  <2>7. kids' \in [Pids -> ChildType] /\ kids'[p] = z /\ \A q \in Pids \ {p} : kids'[q] = kids[q]
      BY <2>5, <2>6 DEF TableInv
  <2>8. \A q \in Pids : (kids'[q].st = "none" <=> kids[q].st = "none") /\ kids'[q].cmd = kids[q].cmd
      BY <2>1, <2>2, <2>5, <2>7
  <2> QED BY <2>1, <2>7, <2>8, <1>0 DEF TableInv
<1>8. ASSUME NEW p \in Pids, waitpid_any(p) PROVE TableInv'
  <2>1. /\ kpc = "reap" /\ kids[p].st = "zombie" /\ fg = "0" /\ UNCHANGED <<kpc, fg, bgCmds>>
        /\ said' = [pid |-> p, named |-> getbgCmd(p), own |-> IF p \in unlisted THEN NULL ELSE kids[p].cmd]
        /\ kids' = [kids EXCEPT ![p] = [st |-> "none", cmd |-> NULL]]
        /\ bgPids' = deletebgPid(p) /\ unlisted' = unlisted \ {p}
      BY <1>8 DEF waitpid_any, TableInv
  <2>2. /\ kids' \in [Pids -> ChildType] /\ kids'[p].st = "none"
        /\ \A q \in Pids \ {p} : kids'[q] = kids[q]
      BY <2>1, ReapedKids
  <2>3. "0" \notin Pids
      BY BgShellAssumption
  <2>4. CASE p \in unlisted /\ Entries(p) = {}
    <3>1. UNCHANGED bgPids /\ said'.named = NULL /\ said'.own = NULL
        BY <2>1, <2>4 DEF deletebgPid, getbgCmd
    <3> QED BY <2>1, <2>2, <2>3, <2>4, <3>1, <1>0 DEF TableInv
  <2>5. ASSUME NEW f \in Slots, p \notin unlisted, Entries(p) = {f}, bgCmds[f] = kids[p].cmd PROVE TableInv'
    <3>1. FirstOf(Entries(p)) = f
        BY <2>5, FirstIsLeast
    <3>2. bgPids' = [bgPids EXCEPT ![f] = "0"] /\ said'.named = bgCmds[f] /\ said'.own = kids[p].cmd
        BY <2>1, <2>5, <3>1 DEF deletebgPid, getbgCmd
    <3>3. bgPids' \in [Slots -> Pids \cup {"0"}] /\ bgPids'[f] = "0" /\ \A i \in Slots \ {f} : bgPids'[i] = bgPids[i]
        BY <3>2 DEF TableInv
    <3>4. Entries(p)' = {}
        BY <2>3, <2>5, <3>3 DEF Entries
    <3>5. \A q \in Pids \ {p} : Entries(q)' = Entries(q)
        BY <2>3, <2>5, <3>3 DEF Entries
    <3>6. said'.named = said'.own /\ unlisted' = unlisted
        BY <2>1, <2>5, <3>2
    <3> QED BY <2>1, <2>2, <2>3, <3>3, <3>4, <3>5, <3>6 DEF TableInv
  <2> QED BY <2>1, <2>3, <2>4, <2>5 DEF TableInv
<1>9. CASE UNCHANGED bgVars
    BY <1>0, <1>9 DEF bgVars, TableInv
<1> QED BY <1>2, <1>3, <1>4, <1>5, <1>6, <1>7, <1>8, <1>9 DEF BgNext

(* The environment. *)

EnvEntries == {TempPointer, Var("A", "old"), Var("B", "old")}

\* The name and the value that entry i stands for.
NameAt(env, t, i) == Entry(env[i], t).name
ValueAt(env, t, i) == Entry(env[i], t).value

\* Entry i is the first of that name; there is none of that name.
FirstAt(env, t, n, i) == i \in 1..Len(env) /\ NameAt(env, t, i) = n /\ \A j \in 1..(i - 1) : NameAt(env, t, j) # n
Absent(env, t, n) == \A i \in 1..Len(env) : NameAt(env, t, i) # n

\* A name is absent or has a first entry, and getenv gives the value of that.
LEMMA GetenvFinds ==
    ASSUME NEW env \in Seq(EnvEntries), NEW t, NEW n
    PROVE  /\ Absent(env, t, n) \/ \E i \in 1..Len(env) : FirstAt(env, t, n, i)
           /\ Absent(env, t, n) => getenv(env, t, n) = NULL
           /\ \A i \in 1..Len(env) : FirstAt(env, t, n, i) => getenv(env, t, n) = ValueAt(env, t, i)
<1> DEFINE found == {i \in DOMAIN env : Entry(env[i], t).name = n}
<1>1. DOMAIN env = 1..Len(env) /\ Len(env) \in Nat
    OBVIOUS
<1>2. Absent(env, t, n) <=> found = {}
    BY <1>1 DEF Absent, NameAt
<1>3. \A i \in 1..Len(env) : FirstAt(env, t, n, i) <=> i \in found /\ \A j \in found : i <= j
    BY <1>1 DEF FirstAt, NameAt
<1>4. found # {} => \E i \in found : \A j \in found : i <= j
  <2> SUFFICES ASSUME found # {} PROVE \E i \in found : \A j \in found : i <= j
      OBVIOUS
  <2>1. found \subseteq Nat
      BY <1>1
  <2> HIDE DEF found
  <2>2. PICK i \in found : \A j \in found : ~(<<j, i>> \in OpToRel(<, Nat))
      BY <2>1, NatLessThanWellFounded, WFMin
  <2>3. \A j \in found : ~(j < i)
      BY <2>1, <2>2 DEF OpToRel
  <2>4. \A j \in found : i <= j
      BY <2>1, <2>3
  <2> QED BY <2>4
<1>5. Absent(env, t, n) => getenv(env, t, n) = NULL
    BY <1>2 DEF getenv
<1>6. ASSUME NEW i \in 1..Len(env), FirstAt(env, t, n, i) PROVE getenv(env, t, n) = ValueAt(env, t, i)
  <2>1. i \in found /\ \A j \in found : i <= j
      BY <1>3, <1>6
  <2>2. \A k \in found : (\A j \in found : k <= j) => k = i
      BY <1>1, <2>1
  <2>3. (CHOOSE k \in found : \A j \in found : k <= j) = i
      BY <2>1, <2>2
  <2>4. getenv(env, t, n) = Entry(env[CHOOSE k \in found : \A j \in found : k <= j], t).value
      BY <2>1 DEF getenv
  <2> QED BY <2>3, <2>4 DEF ValueAt
<1>7. Absent(env, t, n) \/ \E i \in 1..Len(env) : FirstAt(env, t, n, i)
  <2> HIDE DEF found
  <2>1. found # {} => \E i \in 1..Len(env) : FirstAt(env, t, n, i)
      BY <1>3, <1>4, <1>1 DEF found
  <2> QED BY <1>2, <2>1
<1> QED BY <1>5, <1>6, <1>7

\* Two environments give a name the same value when their first entries of that
\* name do.
LEMMA GetenvSame ==
    ASSUME NEW env \in Seq(EnvEntries), NEW new \in Seq(EnvEntries), NEW t, NEW u, NEW n,
           Absent(env, t, n) => Absent(new, u, n),
           \A i \in 1..Len(env) : FirstAt(env, t, n, i) =>
               \E k \in 1..Len(new) : FirstAt(new, u, n, k) /\ ValueAt(new, u, k) = ValueAt(env, t, i)
    PROVE  getenv(new, u, n) = getenv(env, t, n)
<1>1. CASE Absent(env, t, n)
    BY <1>1, GetenvFinds
<1>2. ASSUME NEW i \in 1..Len(env), FirstAt(env, t, n, i) PROVE getenv(new, u, n) = getenv(env, t, n)
  <2>1. PICK k \in 1..Len(new) : FirstAt(new, u, n, k) /\ ValueAt(new, u, k) = ValueAt(env, t, i)
      BY <1>2
  <2> QED BY <1>2, <2>1, GetenvFinds
<1> QED BY <1>1, <1>2, GetenvFinds

\* What putenv does: the first entry of the name, or a new last one, becomes the
\* pointer, so the name has the value of the buffer and the others what they had.
LEMMA PutenvSets ==
    ASSUME NEW env \in Seq(EnvEntries), NEW t, t # TempPointer
    PROVE  /\ putenv(env, t) \in Seq(EnvEntries)
           /\ getenv(putenv(env, t), t, t.name) = t.value
           /\ \A n : n # t.name => getenv(putenv(env, t), t, n) = getenv(env, t, n)
<1> DEFINE found == {i \in DOMAIN env : Entry(env[i], t).name = t.name}
<1>0. PICK new : new = putenv(env, t)
    OBVIOUS
<1>1. DOMAIN env = 1..Len(env) /\ Len(env) \in Nat /\ TempPointer \in EnvEntries /\ Entry(TempPointer, t) = t
    BY DEF EnvEntries, Entry
<1>2. CASE Absent(env, t, t.name)
  <2>1. new = Append(env, TempPointer)
    <3>1. found = {}
        BY <1>1, <1>2 DEF Absent, NameAt
    <3> QED BY <1>0, <3>1 DEF putenv
  <2>2. /\ new \in Seq(EnvEntries) /\ Len(new) = Len(env) + 1 /\ new[Len(env) + 1] = TempPointer
        /\ \A i \in 1..Len(env) : new[i] = env[i]
      BY <1>1, <2>1
  <2>3. /\ NameAt(new, t, Len(env) + 1) = t.name /\ ValueAt(new, t, Len(env) + 1) = t.value
        /\ \A i \in 1..Len(env) : NameAt(new, t, i) = NameAt(env, t, i) /\ ValueAt(new, t, i) = ValueAt(env, t, i)
      BY <1>1, <2>2 DEF NameAt, ValueAt
  <2>4. FirstAt(new, t, t.name, Len(env) + 1)
      BY <1>1, <1>2, <2>2, <2>3 DEF FirstAt, Absent
  <2>5. getenv(new, t, t.name) = t.value
      BY <1>1, <2>2, <2>3, <2>4, GetenvFinds
  <2>6. ASSUME NEW n, n # t.name PROVE getenv(new, t, n) = getenv(env, t, n)
    <3>1. Absent(env, t, n) => Absent(new, t, n)
        BY <1>1, <2>2, <2>3, <2>6 DEF Absent
    <3>2. \A i \in 1..Len(env) : FirstAt(env, t, n, i) => FirstAt(new, t, n, i) /\ i \in 1..Len(new) /\ ValueAt(new, t, i) = ValueAt(env, t, i)
        BY <1>1, <2>2, <2>3 DEF FirstAt
    <3> QED BY <2>2, <3>1, <3>2, GetenvSame
  <2> QED BY <1>0, <2>2, <2>5, <2>6
<1>3. ASSUME NEW f \in 1..Len(env), FirstAt(env, t, t.name, f)
      PROVE  /\ new \in Seq(EnvEntries)
             /\ getenv(new, t, t.name) = t.value
             /\ \A n : n # t.name => getenv(new, t, n) = getenv(env, t, n)
  <2>1. new = [env EXCEPT ![f] = TempPointer]
    <3>1. f \in found /\ \A j \in found : f <= j
        BY <1>1, <1>3 DEF FirstAt, NameAt
    <3>2. \A k \in found : (\A j \in found : k <= j) => k = f
        BY <1>1, <3>1
    <3>3. (CHOOSE k \in found : \A j \in found : k <= j) = f
        BY <3>1, <3>2
    <3>4. new = [env EXCEPT ![CHOOSE k \in found : \A j \in found : k <= j] = TempPointer]
        BY <1>0, <3>1 DEF putenv
    <3> QED BY <3>3, <3>4
  <2>2. /\ new \in Seq(EnvEntries) /\ Len(new) = Len(env) /\ new[f] = TempPointer
        /\ \A i \in 1..Len(env) : i # f => new[i] = env[i]
      BY <1>1, <2>1
  <2>3. /\ NameAt(new, t, f) = t.name /\ ValueAt(new, t, f) = t.value /\ NameAt(env, t, f) = t.name
        /\ \A i \in 1..Len(env) : i # f => NameAt(new, t, i) = NameAt(env, t, i) /\ ValueAt(new, t, i) = ValueAt(env, t, i)
      BY <1>1, <1>3, <2>2 DEF NameAt, ValueAt, FirstAt
  <2>4. FirstAt(new, t, t.name, f)
      BY <1>1, <1>3, <2>2, <2>3 DEF FirstAt
  <2>5. getenv(new, t, t.name) = t.value
      BY <1>1, <2>2, <2>3, <2>4, GetenvFinds
  <2>6. ASSUME NEW n, n # t.name PROVE getenv(new, t, n) = getenv(env, t, n)
    <3>1. Absent(env, t, n) => Absent(new, t, n)
        BY <1>1, <2>2, <2>3, <2>6 DEF Absent
    <3>2. ASSUME NEW i \in 1..Len(env), FirstAt(env, t, n, i)
          PROVE  FirstAt(new, t, n, i) /\ i \in 1..Len(new) /\ ValueAt(new, t, i) = ValueAt(env, t, i)
      <4>1. i # f
          BY <2>3, <2>6, <3>2 DEF FirstAt
      <4> QED BY <1>1, <2>2, <2>3, <2>6, <3>2, <4>1 DEF FirstAt
    <3> QED BY <2>2, <3>1, <3>2, GetenvSame
  <2> QED BY <2>2, <2>5, <2>6
<1>4. Absent(env, t, t.name) \/ \E f \in 1..Len(env) : FirstAt(env, t, t.name, f)
    BY GetenvFinds
<1> QED BY <1>0, <1>2, <1>3, <1>4

\* What unsetenv has kept when it has looked at the first i entries.
KeepEntry(f, env, t, n, i) == IF i = 0 THEN <<>>
                              ELSE IF Entry(env[i], t).name = n THEN f[i - 1] ELSE Append(f[i - 1], env[i])

\* The function that unsetenv defines by recursion exists.
LEMMA KeptEntriesExist ==
    ASSUME NEW env \in Seq(EnvEntries), NEW t, NEW n
    PROVE  \E f : f = [i \in 0..Len(env) |-> KeepEntry(f, env, t, n, i)]
<1> DEFINE Upto(m) == \E f : f = [i \in 0..m |-> KeepEntry(f, env, t, n, i)]
           T == {m \in Nat : Upto(m)}
<1>1. 0 \in T
  <2> DEFINE f == [i \in 0..0 |-> <<>>]
  <2>1. f = [i \in 0..0 |-> KeepEntry(f, env, t, n, i)]
      BY DEF KeepEntry
  <2> HIDE DEF f
  <2> QED BY <2>1
<1>2. \A m \in Nat : m \in T => m + 1 \in T
  <2> SUFFICES ASSUME NEW m \in Nat, m \in T PROVE m + 1 \in T
      OBVIOUS
  <2>1. PICK f : f = [i \in 0..m |-> KeepEntry(f, env, t, n, i)]
      OBVIOUS
  <2> DEFINE g == [i \in 0..m + 1 |-> IF i = m + 1 THEN KeepEntry(f, env, t, n, i) ELSE f[i]]
  <2>2. \A i \in 0..m + 1 : KeepEntry(g, env, t, n, i) = KeepEntry(f, env, t, n, i)
    <3> SUFFICES ASSUME NEW i \in 0..m + 1 PROVE KeepEntry(g, env, t, n, i) = KeepEntry(f, env, t, n, i)
        OBVIOUS
    <3>1. i # 0 => g[i - 1] = f[i - 1]
        OBVIOUS
    <3> HIDE DEF g
    <3> QED BY <3>1 DEF KeepEntry
  <2>3. \A i \in 0..m : f[i] = KeepEntry(f, env, t, n, i)
      BY <2>1
  <2>4. g = [i \in 0..m + 1 |-> KeepEntry(g, env, t, n, i)]
    <3>1. \A i \in 0..m + 1 : g[i] = KeepEntry(g, env, t, n, i)
        BY <2>2, <2>3
    <3>2. g = [i \in 0..m + 1 |-> g[i]]
        OBVIOUS
    <3> HIDE DEF g
    <3> QED BY <3>1, <3>2
  <2> HIDE DEF g
  <2>5. Upto(m + 1)
      BY <2>4
  <2> QED BY <2>5
<1>3. Nat \subseteq T
  <2> HIDE DEF T
  <2> QED BY <1>1, <1>2, NatInductionForSet
<1>4. Len(env) \in T
    BY <1>3
<1> QED BY <1>4

\* So unsetenv has the value that its recursion says.
LEMMA UnsetenvValue ==
    ASSUME NEW env \in Seq(EnvEntries), NEW t, NEW n
    PROVE  \E f : /\ \A i \in 0..Len(env) : f[i] = KeepEntry(f, env, t, n, i)
                  /\ unsetenv(env, t, n) = f[Len(env)]
<1> DEFINE h == CHOOSE f : f = [i \in 0..Len(env) |-> KeepEntry(f, env, t, n, i)]
<1>1. h = [i \in 0..Len(env) |-> KeepEntry(h, env, t, n, i)]
    BY SMTT(60), KeptEntriesExist
<1>2. unsetenv(env, t, n) = h[Len(env)]
    BY DEF unsetenv, KeepEntry
<1> HIDE DEF h
<1> QED BY <1>1, <1>2

\* unsetenv removes every entry of the name and keeps the order of the others, so
\* the other names keep their values.
LEMMA UnsetenvRemoves ==
    ASSUME NEW env \in Seq(EnvEntries), NEW t, NEW n
    PROVE  /\ unsetenv(env, t, n) \in Seq(EnvEntries)
           /\ getenv(unsetenv(env, t, n), t, n) = NULL
           /\ \A x : x # n => getenv(unsetenv(env, t, n), t, x) = getenv(env, t, x)
           /\ \A i \in 1..Len(unsetenv(env, t, n)) : \E j \in 1..Len(env) : unsetenv(env, t, n)[i] = env[j]
<1>1. PICK f : /\ \A i \in 0..Len(env) : f[i] = KeepEntry(f, env, t, n, i)
               /\ unsetenv(env, t, n) = f[Len(env)]
    BY UnsetenvValue
<1>2. Len(env) \in Nat
    OBVIOUS
<1> DEFINE Right(k) ==
        /\ f[k] \in Seq(EnvEntries)
        /\ \A i \in 1..Len(f[k]) : NameAt(f[k], t, i) # n
        /\ \A i \in 1..Len(f[k]) : \E j \in 1..k : f[k][i] = env[j]
        /\ \A x : \A j \in 1..k : x # n /\ FirstAt(env, t, x, j)
                                 => \E i \in 1..Len(f[k]) : FirstAt(f[k], t, x, i) /\ f[k][i] = env[j]
           T == {k \in Nat : k <= Len(env) => Right(k)}
<1>3. 0 \in T
  <2>1. f[0] = <<>>
      BY <1>1, <1>2 DEF KeepEntry
  <2>2. <<>> \in Seq(EnvEntries) /\ Len(<<>>) = 0
      OBVIOUS
  <2>3. Right(0)
      BY <2>1, <2>2
  <2> HIDE DEF Right
  <2> QED BY <2>3
<1>40. ASSUME NEW k \in Nat, k + 1 <= Len(env), Right(k) PROVE Right(k + 1)
  <2> USE <1>40
  <2>0. k + 1 \in 1..Len(env) /\ env[k + 1] \in EnvEntries /\ (k + 1) - 1 = k
      BY <1>2
  <2>1. f[k + 1] = IF NameAt(env, t, k + 1) = n THEN f[k] ELSE Append(f[k], env[k + 1])
      BY <1>1, <1>2, <2>0 DEF KeepEntry, NameAt
  <2>2. CASE NameAt(env, t, k + 1) = n
    <3>1. f[k + 1] = f[k]
        BY <2>1, <2>2
    <3>2. \A x : x # n => ~FirstAt(env, t, x, k + 1)
        BY <2>2 DEF FirstAt
    <3>3. \A j \in 1..(k + 1) : j \in 1..k \/ j = k + 1
        OBVIOUS
    <3> QED BY <3>1, <3>2, <3>3
  <2>3. CASE NameAt(env, t, k + 1) # n
    <3>1. PICK m \in Nat : m = Len(f[k])
        OBVIOUS
    <3>2. f[k + 1] = Append(f[k], env[k + 1])
        BY <2>1, <2>3
    <3>3. /\ f[k + 1] \in Seq(EnvEntries) /\ Len(f[k + 1]) = m + 1 /\ f[k + 1][m + 1] = env[k + 1]
          /\ \A i \in 1..m : f[k + 1][i] = f[k][i]
        BY <2>0, <3>1, <3>2
    <3>4. /\ NameAt(f[k + 1], t, m + 1) = NameAt(env, t, k + 1)
          /\ \A i \in 1..m : NameAt(f[k + 1], t, i) = NameAt(f[k], t, i)
        BY <3>3 DEF NameAt
    <3>5. \A i \in 1..(m + 1) : NameAt(f[k + 1], t, i) # n
        BY <2>3, <3>1, <3>4
    <3>6. \A i \in 1..(m + 1) : \E j \in 1..(k + 1) : f[k + 1][i] = env[j]
      <4> SUFFICES ASSUME NEW i \in 1..(m + 1) PROVE \E j \in 1..(k + 1) : f[k + 1][i] = env[j]
          OBVIOUS
      <4>1. CASE i = m + 1
          BY <4>1, <3>3
      <4>2. CASE i \in 1..m
          BY <4>2, <3>1, <3>3
      <4> QED BY <4>1, <4>2
    <3>7. ASSUME NEW x, NEW j \in 1..(k + 1), x # n, FirstAt(env, t, x, j)
          PROVE  \E i \in 1..(m + 1) : FirstAt(f[k + 1], t, x, i) /\ f[k + 1][i] = env[j]
      <4>1. CASE j \in 1..k
        <5>1. PICK i \in 1..m : FirstAt(f[k], t, x, i) /\ f[k][i] = env[j]
            BY <3>1, <3>7, <4>1
        <5>2. FirstAt(f[k + 1], t, x, i)
            BY <3>1, <3>3, <3>4, <5>1 DEF FirstAt
        <5> QED BY <3>3, <5>1, <5>2
      <4>2. CASE j = k + 1
        <5>1. \A i \in 1..m : NameAt(f[k], t, i) # x
          <6> SUFFICES ASSUME NEW i \in 1..m PROVE NameAt(f[k], t, i) # x
              OBVIOUS
          <6>1. PICK l \in 1..k : f[k][i] = env[l]
              BY <3>1
          <6>2. NameAt(f[k], t, i) = NameAt(env, t, l)
              BY <6>1 DEF NameAt
          <6>3. NameAt(env, t, l) # x
              BY <3>7, <4>2 DEF FirstAt
          <6> QED BY <6>2, <6>3
        <5>2. NameAt(env, t, k + 1) = x
            BY <3>7, <4>2 DEF FirstAt
        <5>3. FirstAt(f[k + 1], t, x, m + 1)
            BY <3>3, <3>4, <5>1, <5>2 DEF FirstAt
        <5> QED BY <3>3, <4>2, <5>3
      <4> QED BY <4>1, <4>2
    <3> QED BY <3>3, <3>5, <3>6, <3>7
  <2> QED BY <2>2, <2>3
<1>4. \A k \in Nat : k \in T => k + 1 \in T
  <2> HIDE DEF Right
  <2>1. \A k \in Nat : k + 1 <= Len(env) /\ Right(k) => Right(k + 1)
      BY <1>40
  <2> PICK m \in Nat : m = Len(env)
      BY <1>2
  <2>2. \A k \in Nat : k + 1 <= m => k <= m
      OBVIOUS
  <2> QED BY <2>1, <2>2
<1>5. Nat \subseteq T
  <2> HIDE DEF T
  <2> QED BY <1>3, <1>4, NatInductionForSet
<1>6. Right(Len(env))
  <2> HIDE DEF Right
  <2> QED BY <1>2, <1>5
<1>7. PICK new \in Seq(EnvEntries) : new = unsetenv(env, t, n) /\ new = f[Len(env)]
    BY <1>1, <1>6
<1>8. Absent(new, t, n)
    BY <1>6, <1>7 DEF Absent
<1>9. \A i \in 1..Len(new) : \E j \in 1..Len(env) : new[i] = env[j]
    BY <1>6, <1>7
<1>10. ASSUME NEW x, x # n PROVE getenv(new, t, x) = getenv(env, t, x)
  <2>1. Absent(env, t, x) => Absent(new, t, x)
    <3> SUFFICES ASSUME Absent(env, t, x), NEW i \in 1..Len(new) PROVE NameAt(new, t, i) # x
        BY DEF Absent
    <3>1. PICK j \in 1..Len(env) : new[i] = env[j]
        BY <1>9
    <3> QED BY <3>1 DEF Absent, NameAt
  <2>2. ASSUME NEW j \in 1..Len(env), FirstAt(env, t, x, j)
        PROVE  \E i \in 1..Len(new) : FirstAt(new, t, x, i) /\ ValueAt(new, t, i) = ValueAt(env, t, j)
    <3>1. PICK i \in 1..Len(new) : FirstAt(new, t, x, i) /\ new[i] = env[j]
        BY <1>6, <1>7, <1>10, <2>2
    <3> QED BY <3>1 DEF ValueAt
  <2> QED BY <2>1, <2>2, GetenvSame
<1> QED BY <1>7, <1>8, <1>9, <1>10, GetenvFinds

EnvValues == {NULL, "old", "new"}

\* Every variable has the value it was given last.
EnvRight(env, t, now) == \A n \in VarNames : getenv(env, t, n) = now[n]

\* No entry points to the buffer before setenv has been used.
NoPointer(env) == \A i \in 1..Len(env) : env[i] # TempPointer

\* As long as one name at most has been set, the buffer holds that variable, and
\* every variable has the value it was given last.
EnvInv ==
    /\ nlines \in 0..MaxLines
    /\ environ \in Seq(EnvEntries) /\ setNames \subseteq VarNames /\ IsFiniteSet(setNames)
    /\ given \in [VarNames -> EnvValues]
    /\ setNames = {} => NoPointer(environ) /\ EnvRight(environ, temp, given)
    /\ \A m : setNames = {m} => temp = Var(m, "new") /\ EnvRight(environ, temp, given)

\* Without a pointer the buffer does not matter.
LEMMA BufferUnused ==
    ASSUME NEW env \in Seq(EnvEntries), NoPointer(env), NEW t, NEW u, NEW n
    PROVE  getenv(env, u, n) = getenv(env, t, n)
<1>1. \A i \in 1..Len(env) : NameAt(env, u, i) = NameAt(env, t, i) /\ ValueAt(env, u, i) = ValueAt(env, t, i)
    BY DEF NoPointer, NameAt, ValueAt, Entry
<1>2. Absent(env, t, n) => Absent(env, u, n)
    BY <1>1 DEF Absent
<1>3. ASSUME NEW i \in 1..Len(env), FirstAt(env, t, n, i) PROVE FirstAt(env, u, n, i)
    BY <1>1, <1>3 DEF FirstAt
<1> QED BY <1>1, <1>2, <1>3, GetenvSame

\* A message keeps the environment right: where it drops MYSH_DEBUG that is noted.
LEMMA LogKeeps ==
    ASSUME NEW env \in Seq(EnvEntries), NEW t, NEW now \in [VarNames -> EnvValues], Log(env, t, now)
    PROVE  /\ environ' \in Seq(EnvEntries) /\ given' \in [VarNames -> EnvValues]
           /\ NoPointer(env) => NoPointer(environ')
           /\ EnvRight(env, t, now) => EnvRight(environ', t, given')
<1>1. PICK e \in {env, unsetenv(env, t, "MYSH_DEBUG")} :
          environ' = e /\ given' = IF e = env THEN now ELSE [now EXCEPT !["MYSH_DEBUG"] = NULL]
    BY DEF Log, logger
<1>2. CASE e = env
    BY <1>1, <1>2
<1>3. CASE e # env
  <2>1. environ' = unsetenv(env, t, "MYSH_DEBUG") /\ given' = [now EXCEPT !["MYSH_DEBUG"] = NULL]
      BY <1>1, <1>3
  <2>2. given' \in [VarNames -> EnvValues] /\ given'["MYSH_DEBUG"] = NULL
        /\ \A n \in VarNames : n # "MYSH_DEBUG" => given'[n] = now[n]
      BY <2>1, BgShellAssumption DEF EnvValues
  <2>3. PICK new \in Seq(EnvEntries) : new = environ'
      BY <2>1, UnsetenvRemoves
  <2>4. /\ getenv(new, t, "MYSH_DEBUG") = NULL
        /\ \A n : n # "MYSH_DEBUG" => getenv(new, t, n) = getenv(env, t, n)
        /\ \A i \in 1..Len(new) : \E j \in 1..Len(env) : new[i] = env[j]
      BY <2>1, <2>3, UnsetenvRemoves
  <2>5. NoPointer(env) => NoPointer(new)
      BY <2>4 DEF NoPointer
  <2>6. EnvRight(env, t, now) => EnvRight(new, t, given')
      BY <2>2, <2>4 DEF EnvRight
  <2> QED BY <2>2, <2>3, <2>5, <2>6
<1> QED BY <1>2, <1>3

\* The environment is right at first.
LEMMA EnvInit == BgInit => EnvInv
<1> SUFFICES ASSUME BgInit PROVE EnvInv
    OBVIOUS
<1>1. environ \in Seq(EnvEntries) /\ NoPointer(environ)
  <2>1. CASE environ = <<>>
      BY <2>1 DEF NoPointer
  <2>2. CASE environ = <<Var("A", "old"), Var("B", "old")>>
    <3>1. Var("A", "old") \in EnvEntries \ {TempPointer} /\ Var("B", "old") \in EnvEntries \ {TempPointer}
        BY DEF EnvEntries, TempPointer, Var
    <3>2. PICK a, b \in EnvEntries \ {TempPointer} : environ = <<a, b>>
        BY <2>2, <3>1
    <3> QED BY <3>2 DEF NoPointer
  <2> QED BY <2>1, <2>2 DEF BgInit
<1>2. \A n : getenv(environ, temp, n) \in EnvValues
  <2>1. \A i \in 1..Len(environ) : ValueAt(environ, temp, i) \in EnvValues
      BY <1>1 DEF NoPointer, ValueAt, Entry, EnvEntries, Var, EnvValues
  <2> QED BY <1>1, <2>1, GetenvFinds DEF EnvValues
<1>3. given \in [VarNames -> EnvValues] /\ EnvRight(environ, temp, given)
    BY <1>2 DEF BgInit, EnvRight
<1>40. IsFiniteSet({})
    BY FS_EmptySet
<1>4. setNames = {} /\ nlines \in 0..MaxLines /\ IsFiniteSet(setNames)
  <2>1. setNames = {} /\ nlines = 0
      BY DEF BgInit
  <2> QED BY <1>40, <2>1, BgShellAssumption
<1> QED BY <1>1, <1>3, <1>4 DEF EnvInv

\* Every step keeps the environment right.
LEMMA EnvStep == EnvInv /\ [BgNext]_bgVars => EnvInv'
<1> SUFFICES ASSUME EnvInv, [BgNext]_bgVars PROVE EnvInv'
    OBVIOUS
<1>1. CASE Line /\ Log(environ, temp, given) /\ UNCHANGED <<temp, setNames>>
  <2>1. nlines' \in 0..MaxLines
      BY <1>1, BgShellAssumption DEF Line, EnvInv
  <2> QED BY <1>1, <2>1, LogKeeps DEF EnvInv
<1>2. CASE printenv \/ leave \/ cd("other") \/ (\E p \in Pids : foreground(p) \/ \E c \in Commands : background(p, c))
  <2>1. CASE printenv
      BY <2>1, <1>1 DEF printenv
  <2>2. CASE leave
      BY <2>2, <1>1 DEF leave
  <2>3. CASE cd("other")
      BY <2>3, <1>1 DEF cd
  <2>4. ASSUME NEW p \in Pids, foreground(p) PROVE EnvInv'
      BY <2>4, <1>1 DEF foreground
  <2>5. ASSUME NEW p \in Pids, NEW c \in Commands, background(p, c) PROVE EnvInv'
      BY <2>5, <1>1 DEF background
  <2> QED BY <1>2, <2>1, <2>2, <2>3, <2>4, <2>5
<1>3. CASE UNCHANGED <<nlines, environ, temp, given, setNames>>
    BY <1>3 DEF EnvInv
<1>4. CASE makeargv_empty \/ waitpid_fg \/ prompt \/ (\E p \in Pids : ChildEnds(p)) \/ UNCHANGED bgVars
    BY <1>3, <1>4 DEF makeargv_empty, waitpid_fg, prompt, ChildEnds, bgVars
<1>5. ASSUME NEW p \in Pids, waitpid_any(p) PROVE EnvInv'
  <2>1. Log(environ, temp, given) /\ UNCHANGED <<nlines, temp, setNames>>
      BY <1>5 DEF waitpid_any
  <2> QED BY <2>1, LogKeeps DEF EnvInv
<1>6. ASSUME NEW n \in VarNames, unset(n) PROVE EnvInv'
  <2>1. Line /\ Log(unsetenv(environ, temp, n), temp, [given EXCEPT ![n] = NULL]) /\ UNCHANGED <<temp, setNames>>
      BY <1>6 DEF unset
  <2>2. PICK new \in Seq(EnvEntries), now \in [VarNames -> EnvValues] :
            new = unsetenv(environ, temp, n) /\ now = [given EXCEPT ![n] = NULL]
      BY UnsetenvRemoves DEF EnvInv, EnvValues
  <2>3. /\ getenv(new, temp, n) = NULL
        /\ \A x : x # n => getenv(new, temp, x) = getenv(environ, temp, x)
        /\ \A i \in 1..Len(new) : \E j \in 1..Len(environ) : new[i] = environ[j]
      BY <2>2, UnsetenvRemoves DEF EnvInv
  <2>4. NoPointer(environ) => NoPointer(new)
      BY <2>3 DEF NoPointer
  <2>5. now[n] = NULL /\ \A x \in VarNames : x # n => now[x] = given[x]
      BY <2>2 DEF EnvInv
  <2>6. EnvRight(environ, temp, given) => EnvRight(new, temp, now)
      BY <2>3, <2>5 DEF EnvRight
  <2>7. /\ environ' \in Seq(EnvEntries) /\ given' \in [VarNames -> EnvValues]
        /\ NoPointer(new) => NoPointer(environ')
        /\ EnvRight(new, temp, now) => EnvRight(environ', temp, given')
    <3>1. Log(new, temp, now)
        BY <2>1, <2>2
    <3> QED BY <3>1, LogKeeps
  <2>8. nlines' \in 0..MaxLines
      BY <2>1, BgShellAssumption DEF Line, EnvInv
  <2> QED BY <2>1, <2>4, <2>6, <2>7, <2>8 DEF EnvInv
<1>7. ASSUME NEW n \in VarNames, setenv(n, "new") PROVE EnvInv'
  <2> DEFINE t == Var(n, "new")
  <2>1. /\ Line /\ temp' = t /\ setNames' = setNames \cup {n}
        /\ \/ Log(putenv(environ, t), t, [given EXCEPT ![n] = "new"])
           \/ Log(environ, t, given)
      BY <1>7 DEF setenv
  <2>2. t # TempPointer /\ t.name = n /\ t.value = "new"
      BY DEF Var, TempPointer, NULL
  <2> HIDE DEF t
  <2>3. nlines' \in 0..MaxLines
      BY <2>1, BgShellAssumption DEF Line, EnvInv
  <2>4. setNames' \subseteq VarNames /\ IsFiniteSet(setNames')
      BY <2>1, FS_AddElement DEF EnvInv
  <2>5. ASSUME NEW m, setNames' = {m} PROVE m = n /\ EnvRight(environ, t, given)
    <3>1. m = n /\ (setNames = {} \/ setNames = {n})
        BY <2>1, <2>5
    <3>2. CASE setNames = {n}
      <4>1. temp = t
          BY <3>2 DEF EnvInv, t
      <4> QED BY <3>1, <3>2, <4>1 DEF EnvInv
    <3>3. CASE setNames = {}
      <4>1. NoPointer(environ) /\ EnvRight(environ, temp, given) /\ environ \in Seq(EnvEntries)
          BY <3>3 DEF EnvInv
      <4>2. \A x : getenv(environ, t, x) = getenv(environ, temp, x)
          BY <4>1, BufferUnused
      <4> QED BY <3>1, <4>1, <4>2 DEF EnvRight
    <3> QED BY <3>1, <3>2, <3>3
  <2>6. CASE Log(environ, t, given)
    <3>1. /\ environ' \in Seq(EnvEntries) /\ given' \in [VarNames -> EnvValues]
          /\ EnvRight(environ, t, given) => EnvRight(environ', t, given')
        BY <2>6, LogKeeps DEF EnvInv
    <3> QED BY <2>1, <2>3, <2>4, <2>5, <3>1 DEF EnvInv, t
  <2>7. CASE Log(putenv(environ, t), t, [given EXCEPT ![n] = "new"])
    <3>1. PICK new \in Seq(EnvEntries), now \in [VarNames -> EnvValues] :
            new = putenv(environ, t) /\ now = [given EXCEPT ![n] = "new"]
        BY <2>2, PutenvSets DEF EnvInv, EnvValues
    <3>2. getenv(new, t, n) = "new" /\ \A x : x # n => getenv(new, t, x) = getenv(environ, t, x)
        BY <2>2, <3>1, PutenvSets DEF EnvInv
    <3>3. now[n] = "new" /\ \A x \in VarNames : x # n => now[x] = given[x]
        BY <3>1 DEF EnvInv
    <3>4. EnvRight(environ, t, given) => EnvRight(new, t, now)
        BY <3>2, <3>3 DEF EnvRight
    <3>5. /\ environ' \in Seq(EnvEntries) /\ given' \in [VarNames -> EnvValues]
          /\ EnvRight(new, t, now) => EnvRight(environ', t, given')
      <4>1. Log(new, t, now)
          BY <2>7, <3>1
      <4> QED BY <4>1, LogKeeps
    <3> QED BY <2>1, <2>3, <2>4, <2>5, <3>4, <3>5 DEF EnvInv, t
  <2> QED BY <2>1, <2>6, <2>7
<1> QED BY <1>2, <1>4, <1>5, <1>6, <1>7 DEF BgNext

BgInv == TableInv /\ EnvInv

\* Both hold at the start,
LEMMA BgInitOK == BgInit => BgInv
BY TableInit, EnvInit DEF BgInv

\* and every step keeps them.
LEMMA BgStep == BgInv /\ [BgNext]_bgVars => BgInv'
BY TableStep, EnvStep DEF BgInv

\* What is proved of this shell.
LEMMA BgImplies == BgInv => BgTypeOK /\ TableHoldsUnreaped /\ AnnouncedAsStarted /\ EnvironmentRightForOneName
<1> SUFFICES ASSUME BgInv PROVE BgTypeOK /\ TableHoldsUnreaped /\ AnnouncedAsStarted /\ EnvironmentRightForOneName
    OBVIOUS
<1> USE DEF BgInv
<1>1. BgTypeOK
  <2>1. \A e \in EnvEntries : e = TempPointer \/ e.name \in VarNames
      BY BgShellAssumption DEF EnvEntries, Var
  <2>2. \A i \in DOMAIN environ : environ[i] \in EnvEntries
      BY DEF EnvInv
  <2> QED BY <2>1, <2>2 DEF TableInv, EnvInv, BgTypeOK
<1>2. TableHoldsUnreaped
  <2>1. ASSUME NEW i \in Slots, bgPids[i] # "0"
        PROVE  kids[bgPids[i]].st # "none" /\ bgPids[i] # fg /\ Entries(bgPids[i]) = {i}
    <3>1. PICK p \in Pids : p = bgPids[i]
        BY <2>1 DEF TableInv
    <3>2. i \in Entries(p)
        BY <3>1 DEF Entries
    <3>3. kids[p].st # "none" /\ p # fg
        BY <3>2 DEF TableInv
    <3>4. PICK k \in Slots : Entries(p) = {k}
        BY <3>2, <3>3 DEF TableInv
    <3> QED BY <3>1, <3>2, <3>3, <3>4
  <2>2. ASSUME NEW p \in Pids \ unlisted, kids[p].st # "none", p # fg
        PROVE  \E i \in Entries(p) : bgCmds[i] = kids[p].cmd
    <3>1. PICK i \in Slots : Entries(p) = {i} /\ bgCmds[i] = kids[p].cmd
        BY <2>2 DEF TableInv
    <3> QED BY <3>1
  <2> QED BY <2>1, <2>2 DEF TableHoldsUnreaped
<1>3. AnnouncedAsStarted
    BY DEF TableInv, AnnouncedAsStarted
<1>4. EnvironmentRightForOneName
  <2> SUFFICES ASSUME Cardinality(setNames) <= 1, NEW n \in VarNames PROVE getenv(environ, temp, n) = given[n]
      BY DEF EnvironmentRightForOneName
  <2>1. Cardinality(setNames) \in Nat
      BY FS_CardinalityType DEF EnvInv
  <2>2. setNames = {} \/ \E m : setNames = {m}
    <3>1. IsFiniteSet(setNames) /\ Cardinality(setNames) \in {0, 1}
        BY <2>1 DEF EnvInv
    <3>2. Cardinality(setNames) = 0 => setNames = {}
        BY <3>1, FS_EmptySet, Zenon
    <3>3. Cardinality(setNames) = 1 => \E m : setNames = {m}
        BY <3>1, FS_Singleton, Zenon
    <3> QED BY <3>1, <3>2, <3>3
  <2> QED BY <2>2 DEF EnvInv, EnvRight
<1> QED BY <1>1, <1>2, <1>3, <1>4

-----------------------------------------------------------------------------
(* The scanners: Lexer *)

-----------------------------------------------------------------------------
(* The tokens of a line *)

\* The characters of a line, its end included.
LineChars == Chars \cup {"n"}

\* TakeChar and Scan, with the shell as a parameter.
TakeOf(sh, s, ch) ==
    LET quoted == s.quoted /\ ch \notin {"q", "n"}
        closed == IF s.cur = <<>> THEN s.toks ELSE Append(s.toks, s.cur)
    IN IF quoted \/ (ch = "w" /\ ~s.quoted) THEN [s EXCEPT !.cur = Append(@, ch)]
       ELSE [toks |-> IF ch = ";" THEN Append(closed, <<ch>>) ELSE closed, cur |-> <<>>,
             quoted |-> ch = "q" /\ sh = "msh" /\ ~s.quoted]

ScanStart == [toks |-> <<>>, cur |-> <<>>, quoted |-> FALSE]

ScanOf(sh, l) == LET f[i \in 0..Len(l)] == IF i = 0 THEN ScanStart ELSE TakeOf(sh, f[i - 1], l[i])
                 IN f

\* Where the scan stands: what it has taken together, the token at hand and the quote.
ScanStates == [toks : Seq(Seq(LineChars)), cur : Seq(LineChars), quoted : BOOLEAN]

\* The tokens so far and the one at hand.
Closed(s) == IF s.cur = <<>> THEN s.toks ELSE Append(s.toks, s.cur)

\* The start condition is the one that goes with a state of the scan.
Agrees(s, cond) == s.quoted <=> cond = "QUOTE"

\* The start condition after a character that is not of a run.
CondAfter(sh, ch, cond) == IF ch = "q" /\ sh = "msh" /\ cond = "INITIAL" THEN "QUOTE" ELSE "INITIAL"

\* The scan with the shell of the state is the one with the shell given.
LEMMA ScanIsScanOf == \A l : Scan(l) = ScanOf(shell, l)
BY DEF Scan, ScanOf, ScanStart, TakeChar, TakeOf

\* What a character of a run, and one that is not of a run, do.
LEMMA TakeRun ==
    ASSUME NEW sh, NEW s \in ScanStates, NEW ch \in LineChars, NEW cond \in {"INITIAL", "QUOTE"},
           Agrees(s, cond), InRun(cond, ch)
    PROVE  /\ TakeOf(sh, s, ch) \in ScanStates /\ Agrees(TakeOf(sh, s, ch), cond)
           /\ TakeOf(sh, s, ch).toks = s.toks /\ TakeOf(sh, s, ch).cur = Append(s.cur, ch)
<1>0. s.quoted <=> cond = "QUOTE"
    BY DEF Agrees
<1>1. (s.quoted /\ ch \notin {"q", "n"}) \/ (ch = "w" /\ ~s.quoted)
    BY <1>0 DEF InRun
<1>2. TakeOf(sh, s, ch) = [s EXCEPT !.cur = Append(@, ch)]
    BY <1>1, Zenon DEF TakeOf
<1>3. PICK t, c, q : s = [toks |-> t, cur |-> c, quoted |-> q] /\ t \in Seq(Seq(LineChars)) /\ c \in Seq(LineChars) /\ q \in BOOLEAN
    BY DEF ScanStates
<1>4. PICK c2 : c2 = Append(c, ch) /\ c2 \in Seq(LineChars)
    BY <1>3, AppendProperties
<1>5. TakeOf(sh, s, ch) = [toks |-> t, cur |-> c2, quoted |-> q]
    BY <1>2, <1>3, <1>4
<1>6. s.cur = c /\ s.toks = t
    BY <1>3
<1>12. s.quoted = q
    BY <1>3
<1>7. q <=> cond = "QUOTE"
    BY <1>0, <1>12, Zenon
<1>8. [toks |-> t, cur |-> c2, quoted |-> q] \in ScanStates
    BY <1>3, <1>4, Zenon DEF ScanStates
<1>11. TakeOf(sh, s, ch).quoted = q
    BY <1>5
<1>9. Agrees(TakeOf(sh, s, ch), cond)
    BY <1>11, <1>7, Zenon DEF Agrees
<1>10. TakeOf(sh, s, ch).toks = t /\ TakeOf(sh, s, ch).cur = c2
    BY <1>5
<1> QED BY <1>4, <1>5, <1>6, <1>8, <1>9, <1>10

(* A character outside the run: what is taken closes the current token, and a semicolon is a token of its own. *)
LEMMA TakeOther ==
    ASSUME NEW sh, NEW s \in ScanStates, NEW ch \in LineChars, NEW cond \in {"INITIAL", "QUOTE"},
           Agrees(s, cond), ~InRun(cond, ch)
    PROVE  /\ TakeOf(sh, s, ch) \in ScanStates
           /\ TakeOf(sh, s, ch).toks = IF ch = ";" THEN Append(Closed(s), <<ch>>) ELSE Closed(s)
           /\ TakeOf(sh, s, ch).cur = <<>>
           /\ Agrees(TakeOf(sh, s, ch), CondAfter(sh, ch, cond))
<1>0. s.quoted <=> cond = "QUOTE"
    BY DEF Agrees
<1>1. ~((s.quoted /\ ch \notin {"q", "n"}) \/ (ch = "w" /\ ~s.quoted))
    BY <1>0 DEF InRun
<1> DEFINE out == IF ch = ";" THEN Append(Closed(s), <<ch>>) ELSE Closed(s)
           q == ch = "q" /\ sh = "msh" /\ ~s.quoted
<1>2. TakeOf(sh, s, ch) = [toks |-> out, cur |-> <<>>, quoted |-> q]
    BY <1>1, Zenon DEF TakeOf, Closed
<1>3. s.toks \in Seq(Seq(LineChars)) /\ s.cur \in Seq(LineChars)
    BY DEF ScanStates
<1>4. Closed(s) \in Seq(Seq(LineChars))
    BY <1>3, AppendProperties DEF Closed
<1>5. <<ch>> \in Seq(LineChars)
    OBVIOUS
<1>6. out \in Seq(Seq(LineChars))
    BY <1>4, <1>5, AppendProperties
<1>7. <<>> \in Seq(LineChars)
    OBVIOUS
<1>8. q \in BOOLEAN
    OBVIOUS
<1>12. ~s.quoted <=> cond = "INITIAL"
    BY <1>0
<1>13. q <=> ch = "q" /\ sh = "msh" /\ cond = "INITIAL"
    BY <1>12
<1> HIDE DEF out, q
<1>16. [toks |-> out, cur |-> <<>>, quoted |-> q] \in ScanStates
    BY <1>6, <1>7, <1>8, Zenon DEF ScanStates
<1>9. TakeOf(sh, s, ch) \in ScanStates
    BY <1>2, <1>16, Zenon
<1>14. TakeOf(sh, s, ch).quoted = q
    BY <1>2
<1>18. q <=> CondAfter(sh, ch, cond) = "QUOTE"
    BY <1>13 DEF CondAfter
<1>10. Agrees(TakeOf(sh, s, ch), CondAfter(sh, ch, cond))
    BY <1>14, <1>18, Zenon DEF Agrees
<1>17. TakeOf(sh, s, ch).toks = out
    BY <1>2
<1>11. TakeOf(sh, s, ch).toks = IF ch = ";" THEN Append(Closed(s), <<ch>>) ELSE Closed(s)
    BY <1>17 DEF out
<1>15. TakeOf(sh, s, ch).cur = <<>>
    BY <1>2
<1> QED BY <1>9, <1>10, <1>11, <1>15

\* The condition that goes with a scan.
LEMMA TakeKeepsState ==
    ASSUME NEW sh, NEW s \in ScanStates, NEW ch \in LineChars
    PROVE  TakeOf(sh, s, ch) \in ScanStates
<1> PICK cond \in {"INITIAL", "QUOTE"} : cond = (IF s.quoted THEN "QUOTE" ELSE "INITIAL")
    OBVIOUS
<1>1. Agrees(s, cond)
    BY DEF Agrees
<1> QED BY <1>1, TakeRun, TakeOther, Zenon

\* The scan exists: it takes the characters of the line one by one.
LEMMA ScanExists ==
    ASSUME NEW sh, NEW l \in Seq(LineChars)
    PROVE  \E f : f = [i \in 0..Len(l) |-> IF i = 0 THEN ScanStart ELSE TakeOf(sh, f[i - 1], l[i])]
<1> PICK n \in Nat : n = Len(l)
    OBVIOUS
<1> DEFINE Upto(m) == \E f : f = [i \in 0..m |-> IF i = 0 THEN ScanStart ELSE TakeOf(sh, f[i - 1], l[i])]
           T == {m \in Nat : Upto(m)}
<1>1. Upto(0)
  <2> PICK f : f = [i \in 0..0 |-> ScanStart]
      OBVIOUS
  <2> f = [i \in 0..0 |-> IF i = 0 THEN ScanStart ELSE TakeOf(sh, f[i - 1], l[i])]
      OBVIOUS
  <2> QED OBVIOUS
<1>2. ASSUME NEW m \in Nat, Upto(m) PROVE Upto(m + 1)
  <2> PICK f : f = [i \in 0..m |-> IF i = 0 THEN ScanStart ELSE TakeOf(sh, f[i - 1], l[i])]
      BY <1>2
  <2> PICK g : g = [i \in 0..(m + 1) |-> IF i = m + 1 THEN TakeOf(sh, f[m], l[m + 1]) ELSE f[i]]
      OBVIOUS
  <2>1. \A i \in 0..m : g[i] = f[i]
      OBVIOUS
  <2>2. \A i \in 0..(m + 1) : g[i] = IF i = 0 THEN ScanStart ELSE TakeOf(sh, g[i - 1], l[i])
    <3> TAKE i \in 0..(m + 1)
    <3>1. CASE i = m + 1
      <4>1. i # 0 /\ i - 1 = m /\ g[i] = TakeOf(sh, f[m], l[i]) /\ g[m] = f[m]
          BY <3>1
      <4> QED BY <4>1
    <3>2. CASE i # m + 1
      <4>1. i \in 0..m /\ g[i] = f[i] /\ (i # 0 => g[i - 1] = f[i - 1])
          BY <3>2, <2>1
      <4>2. f[i] = IF i = 0 THEN ScanStart ELSE TakeOf(sh, f[i - 1], l[i])
          BY <4>1
      <4> QED BY <4>1, <4>2
    <3> QED BY <3>1, <3>2
  <2>3. g = [i \in 0..(m + 1) |-> IF i = 0 THEN ScanStart ELSE TakeOf(sh, g[i - 1], l[i])]
      BY <2>2
  <2> QED BY <2>3
<1> HIDE DEF Upto
<1>3. 0 \in T /\ \A m \in Nat : m \in T => m + 1 \in T
    BY <1>1, <1>2
<1> HIDE DEF T
<1>4. n \in T
    BY <1>3, NatInductionForSet
<1>5. Upto(n)
    BY <1>4 DEF T
<1> QED BY <1>5 DEF Upto

\* What it takes, character by character.
LEMMA ScanValue ==
    ASSUME NEW sh, NEW l \in Seq(LineChars)
    PROVE  /\ ScanOf(sh, l)[0] = ScanStart
           /\ \A i \in 1..Len(l) : ScanOf(sh, l)[i] = TakeOf(sh, ScanOf(sh, l)[i - 1], l[i])
<1> PICK n \in Nat : n = Len(l)
    OBVIOUS
<1> DEFINE f == ScanOf(sh, l)
<1>1. f = CHOOSE g : g = [i \in 0..Len(l) |-> IF i = 0 THEN ScanStart ELSE TakeOf(sh, g[i - 1], l[i])]
    BY DEF ScanOf
<1>2. f = [i \in 0..Len(l) |-> IF i = 0 THEN ScanStart ELSE TakeOf(sh, f[i - 1], l[i])]
    BY <1>1, ScanExists, SMTT(60)
<1> HIDE DEF f
<1>3. f = [i \in 0..n |-> IF i = 0 THEN ScanStart ELSE TakeOf(sh, f[i - 1], l[i])]
    BY <1>2
<1>4. f[0] = ScanStart
    BY <1>3
<1>5. \A i \in 1..n : f[i] = TakeOf(sh, f[i - 1], l[i])
    BY <1>3
<1> QED BY <1>4, <1>5 DEF f

\* Wherever it stands, it is a state of the scan.
LEMMA ScanTypes ==
    ASSUME NEW sh, NEW l \in Seq(LineChars)
    PROVE  \A i \in 0..Len(l) : ScanOf(sh, l)[i] \in ScanStates
<1> PICK n \in Nat : n = Len(l)
    OBVIOUS
<1> PICK f : f = ScanOf(sh, l)
    OBVIOUS
<1>0. \A i \in 1..n : l[i] \in LineChars
    OBVIOUS
<1>1. f[0] = ScanStart /\ \A i \in 1..n : f[i] = TakeOf(sh, f[i - 1], l[i])
    BY ScanValue
<1> DEFINE T == {m \in Nat : m <= n => f[m] \in ScanStates}
<1>2. 0 \in T
  <2>1. <<>> \in Seq(Seq(LineChars)) /\ <<>> \in Seq(LineChars) /\ FALSE \in BOOLEAN
      OBVIOUS
  <2>2. ScanStart \in ScanStates
      BY <2>1, Zenon DEF ScanStart, ScanStates
  <2> QED BY <1>1, <2>2
<1>3. ASSUME NEW m \in Nat, m \in T PROVE m + 1 \in T
  <2> SUFFICES ASSUME m + 1 <= n PROVE f[m + 1] \in ScanStates
      OBVIOUS
  <2>1. f[m] \in ScanStates /\ m + 1 \in 1..n /\ (m + 1) - 1 = m
      BY <1>3
  <2>2. f[m + 1] = TakeOf(sh, f[m], l[m + 1])
      BY <1>1, <2>1
  <2> QED BY <1>0, <2>1, <2>2, TakeKeepsState
<1> HIDE DEF T
<1>4. Nat \subseteq T
    BY <1>2, <1>3, NatInductionForSet
<1> QED BY <1>4 DEF T

\* k characters of a run, from p on, where no token is at hand; and the token they make.
RunFrom(sh, cond, l, p, k) ==
    /\ p + k <= Len(l) /\ \A i \in 1..k : InRun(cond, l[p + i])
    /\ ScanOf(sh, l)[p].cur = <<>> /\ Agrees(ScanOf(sh, l)[p], cond)

RunInHand(sh, cond, l, p, k) ==
    /\ ScanOf(sh, l)[p + k].toks = ScanOf(sh, l)[p].toks
    /\ ScanOf(sh, l)[p + k].cur = SubSeq(l, p + 1, p + k)
    /\ Agrees(ScanOf(sh, l)[p + k], cond)

\* A run of characters from a place where no token is at hand becomes the token at hand.
LEMMA RunTaken ==
    ASSUME NEW sh, NEW l \in Seq(LineChars), NEW p \in Nat, NEW k \in Nat,
           NEW cond \in {"INITIAL", "QUOTE"}, RunFrom(sh, cond, l, p, k)
    PROVE  RunInHand(sh, cond, l, p, k)
<1>7. p + k <= Len(l) /\ \A i \in 1..k : InRun(cond, l[p + i])
    BY DEF RunFrom
<1>8. ScanOf(sh, l)[p].cur = <<>> /\ Agrees(ScanOf(sh, l)[p], cond)
    BY DEF RunFrom
<1> PICK n \in Nat : n = Len(l)
    OBVIOUS
<1> PICK f : f = ScanOf(sh, l)
    OBVIOUS
<1>0. \A i \in 1..n : l[i] \in LineChars
    OBVIOUS
<1>1. \A i \in 1..n : f[i] = TakeOf(sh, f[i - 1], l[i])
    BY ScanValue
<1>2. \A i \in 0..n : f[i] \in ScanStates
    BY ScanTypes
<1> DEFINE Good(m) == f[p + m].toks = f[p].toks /\ f[p + m].cur = SubSeq(l, p + 1, p + m) /\ Agrees(f[p + m], cond)
           T == {m \in Nat : m <= k => Good(m)}
<1>3. 0 \in T
  <2>1. SubSeq(l, p + 1, p) = <<>>
      BY SubSeqProperties
  <2>2. p + 0 = p
      OBVIOUS
  <2>3. Good(0)
      BY <1>8, <2>1, <2>2
  <2> HIDE DEF Good
  <2> QED BY <2>3
<1> HIDE DEF Good
<1>4. ASSUME NEW m \in Nat, m \in T PROVE m + 1 \in T
  <2> SUFFICES ASSUME m + 1 <= k PROVE Good(m + 1)
      OBVIOUS
  <2>1. Good(m)
      BY <1>4
  <2> PICK q \in Nat : q = p + m
      OBVIOUS
  <2>2. q + 1 \in 1..n /\ (q + 1) - 1 = q /\ p + (m + 1) = q + 1 /\ q \in 0..n /\ m + 1 \in 1..k /\ p + 1 <= q + 1
      BY <1>7
  <2>3. f[q + 1] = TakeOf(sh, f[q], l[q + 1])
      BY <1>1, <2>2
  <2>4. f[q] \in ScanStates /\ l[q + 1] \in LineChars
      BY <1>0, <1>2, <2>2
  <2>5. InRun(cond, l[q + 1])
      BY <1>7, <2>2
  <2>6. f[q].toks = f[p].toks /\ f[q].cur = SubSeq(l, p + 1, q) /\ Agrees(f[q], cond)
      BY <2>1 DEF Good
  <2>9. Agrees(f[q], cond)
      BY <2>6
  <2>11. cond \in {"INITIAL", "QUOTE"}
      OBVIOUS
  <2>10. /\ Agrees(TakeOf(sh, f[q], l[q + 1]), cond)
         /\ TakeOf(sh, f[q], l[q + 1]).toks = f[q].toks /\ TakeOf(sh, f[q], l[q + 1]).cur = Append(f[q].cur, l[q + 1])
      BY ONLY <2>4, <2>5, <2>9, <2>11, TakeRun, Zenon
  <2>7. /\ f[q + 1].toks = f[q].toks /\ f[q + 1].cur = Append(f[q].cur, l[q + 1])
        /\ Agrees(f[q + 1], cond)
      BY <2>3, <2>10, Zenon
  <2>8. SubSeq(l, p + 1, q + 1) = Append(SubSeq(l, p + 1, q), l[q + 1])
    <3>1. p + 1 \in 1..n /\ q + 1 \in (p + 1)..n
        BY <2>2
    <3>2. SubSeq(l, p + 1, q + 1) = SubSeq(l, p + 1, q) \o << l[q + 1] >>
        BY <2>2, <3>1, SubSeqRecursiveSecond
    <3>4. \A i \in (p + 1)..q : l[i] \in LineChars
      <4> TAKE i \in (p + 1)..q
      <4>1. i \in 1..n
          BY <2>2
      <4> QED BY <1>0, <4>1
    <3>3. SubSeq(l, p + 1, q) \in Seq(LineChars)
        BY <3>4, SubSeqProperties
    <3> QED BY <2>4, <3>2, <3>3, AppendIsConcat
  <2> QED BY <2>2, <2>6, <2>7, <2>8 DEF Good
<1> HIDE DEF T
<1>5. k \in T
    BY <1>3, <1>4, NatInductionForSet
<1>6. Good(k)
    BY <1>5 DEF T
<1> QED BY <1>6 DEF Good, RunInHand

-----------------------------------------------------------------------------
(* The token at hand *)

\* A set of numbers up to n has a greatest one.
LEMMA GreatestExists ==
    ASSUME NEW n \in Nat, NEW S \in SUBSET (1..n), S # {}
    PROVE  \E k \in S : \A j \in S : j <= k
<1> DEFINE U == {n - k : k \in S}
<1>0. \A k \in S : k \in 1..n
    OBVIOUS
<1>10. \A k \in S : n - k \in Nat
  <2> TAKE k \in S
  <2> QED BY <1>0
<1>1. U \subseteq Nat /\ U # {}
    BY <1>10
<1>2. PICK x \in U : \A y \in U : ~(<<y, x>> \in OpToRel(<, Nat))
    BY <1>1, NatLessThanWellFounded, WFMin
<1>3. \A y \in U : ~(y < x)
    BY <1>1, <1>2 DEF OpToRel
<1>4. PICK k \in S : x = n - k
    BY <1>2
<1>5. \A j \in S : j <= k
  <2> TAKE j \in S
  <2>1. n - j \in U /\ j \in Nat /\ k \in Nat
      OBVIOUS
  <2>2. ~(n - j < n - k)
      BY <1>3, <1>4, <2>1
  <2> QED BY <2>1, <2>2
<1> QED BY <1>5

\* What is left in the buffer.
LEMMA RestOfBuffer ==
    ASSUME ch_buf \in Seq(LineChars), text \in 0..Len(ch_buf)
    PROVE  LET rest == SubSeq(ch_buf, text + 1, Len(ch_buf))
           IN /\ rest \in Seq(LineChars) /\ Len(rest) = Len(ch_buf) - text
              /\ \A i \in 1..(Len(ch_buf) - text) : rest[i] = ch_buf[text + i]
<1> PICK n \in Nat : n = Len(ch_buf)
    OBVIOUS
<1>1. \A i \in (text + 1)..n : ch_buf[i] \in LineChars
    OBVIOUS
<1>2. text + 1 \in Int /\ n \in Int
    OBVIOUS
<1> DEFINE rest == SubSeq(ch_buf, text + 1, n)
<1>3. /\ rest \in Seq(LineChars) /\ Len(rest) = (IF text + 1 <= n THEN n - (text + 1) + 1 ELSE 0)
      /\ \A i \in 1..(n - (text + 1) + 1) : rest[i] = ch_buf[(text + 1) + i - 1]
    BY <1>1, <1>2, SubSeqProperties
<1> HIDE DEF rest
<1>4. Len(rest) = n - text
    BY <1>3
<1>5. \A i \in 1..(n - text) : rest[i] = ch_buf[text + i]
  <2> TAKE i \in 1..(n - text)
  <2>1. i \in 1..(n - (text + 1) + 1) /\ (text + 1) + i - 1 = text + i
      OBVIOUS
  <2> QED BY <1>3, <2>1
<1> QED BY <1>3, <1>4, <1>5 DEF rest

\* The token at hand: a run as long as it goes, or one character.
LEMMA LongestToken ==
    ASSUME ch_buf \in Seq(LineChars), text \in 0..Len(ch_buf), text # Len(ch_buf)
    PROVE  \/ /\ InRun(startCond, ch_buf[text + 1]) /\ Longest \in 1..(Len(ch_buf) - text)
              /\ \A i \in 1..Longest : InRun(startCond, ch_buf[text + i])
              /\ Longest # Len(ch_buf) - text => ~InRun(startCond, ch_buf[text + Longest + 1])
           \/ ~InRun(startCond, ch_buf[text + 1]) /\ Longest = 1
<1>20. Len(ch_buf) - text > 0 /\ Len(ch_buf) - text \in Nat
  <2> PICK m \in Nat : m = Len(ch_buf)
      OBVIOUS
  <2>1. text \in 0..m /\ text # m
      OBVIOUS
  <2>2. m - text > 0 /\ m - text \in Nat
      BY ONLY <2>1, m \in Nat
  <2> QED BY <2>2
<1> PICK n \in Nat : n = Len(ch_buf) - text
    BY <1>20
<1> DEFINE rest == SubSeq(ch_buf, text + 1, Len(ch_buf))
           run == {k \in 1..Len(rest) : \A i \in 1..k : InRun(startCond, rest[i])}
<1>1. rest \in Seq(LineChars) /\ Len(rest) = n /\ \A i \in 1..n : rest[i] = ch_buf[text + i]
    BY RestOfBuffer
<1>30. Longest = IF rest = <<>> THEN 0 ELSE IF run = {} THEN 1 ELSE CHOOSE k \in run : \A j \in run : j <= k
    BY DEF Longest
<1> HIDE DEF rest
<1>2. n > 0 /\ rest # <<>>
  <2>1. n > 0
      BY <1>20
  <2>2. Len(<<>>) = 0
      OBVIOUS
  <2> QED BY <1>1, <2>1, <2>2
<1>3. Longest = IF run = {} THEN 1 ELSE CHOOSE k \in run : \A j \in run : j <= k
    BY <1>2, <1>30
<1>4. CASE ~InRun(startCond, ch_buf[text + 1])
  <2>1. ~InRun(startCond, rest[1])
      BY <1>1, <1>2, <1>4
  <2>2. run = {}
      BY <1>1, <2>1
  <2> HIDE DEF run
  <2> QED BY <1>3, <1>4, <2>2
<1>5. CASE InRun(startCond, ch_buf[text + 1])
  <2>1. InRun(startCond, rest[1])
      BY <1>1, <1>2, <1>5
  <2>2. 1 \in run
      BY <1>1, <1>2, <2>1
  <2>3. run \in SUBSET (1..n) /\ run # {}
      BY <1>1, <2>2
  <2> DEFINE Greatest(k) == \A j \in run : j <= k
  <2>4. \E k \in run : Greatest(k)
      BY <2>3, GreatestExists
  <2>5. Longest = CHOOSE k \in run : Greatest(k)
      BY <1>3, <2>3
  <2>50. ASSUME NEW k, k \in run PROVE k \in 1..n /\ \A i \in 1..k : InRun(startCond, rest[i])
      BY <1>1, <2>50
  <2>51. ASSUME NEW k \in 1..n, \A i \in 1..k : InRun(startCond, rest[i]) PROVE k \in run
      BY <1>1, <2>51
  <2> HIDE DEF run, Greatest
  <2>6. Longest \in run /\ Greatest(Longest)
      BY <2>4, <2>5
  <2> PICK k : k = Longest
      OBVIOUS
  <2>7. k \in 1..n /\ \A i \in 1..k : InRun(startCond, rest[i])
      BY <2>6, <2>50
  <2>80. \A i \in 1..k : i \in 1..n
      BY <2>7
  <2>8. \A i \in 1..k : InRun(startCond, ch_buf[text + i])
      BY <1>1, <2>7, <2>80
  <2>9. ASSUME k # n, InRun(startCond, ch_buf[text + k + 1]) PROVE FALSE
    <3>1. k + 1 \in 1..n /\ text + k + 1 = text + (k + 1)
        BY <2>7, <2>9
    <3>2. InRun(startCond, rest[k + 1])
        BY <1>1, <2>9, <3>1
    <3>3. \A i \in 1..(k + 1) : InRun(startCond, rest[i])
      <4> TAKE i \in 1..(k + 1)
      <4>1. i \in 1..k \/ i = k + 1
          BY <2>7
      <4> QED BY <2>7, <3>2, <4>1
    <3>4. k + 1 \in run
        BY <2>51, <3>1, <3>3
    <3>5. k + 1 <= k
        BY <2>6, <3>4 DEF Greatest
    <3> QED BY <2>7, <3>5
  <2> QED BY <1>5, <2>7, <2>8, <2>9
<1> QED BY <1>4, <1>5

\* When the token has not reached the end of the buffer.
LEMMA TokenWithin ==
    ASSUME ch_buf \in Seq(LineChars), text \in 0..Len(ch_buf), status # "last_match", ~EndOfBuffer
    PROVE  /\ text < Len(ch_buf)
           /\ \/ /\ InRun(startCond, ch_buf[text + 1]) /\ Longest \in 1..(Len(ch_buf) - text - 1)
                 /\ \A i \in 1..Longest : InRun(startCond, ch_buf[text + i])
                 /\ ~InRun(startCond, ch_buf[text + Longest + 1])
              \/ ~InRun(startCond, ch_buf[text + 1]) /\ Longest = 1
<1> PICK n \in Nat : n = Len(ch_buf) - text
    OBVIOUS
<1> PICK rest : rest = SubSeq(ch_buf, text + 1, Len(ch_buf))
    OBVIOUS
<1>1. rest \in Seq(LineChars) /\ Len(rest) = n /\ \A i \in 1..n : rest[i] = ch_buf[text + i]
    BY RestOfBuffer
<1>2. rest # <<>> /\ (Longest # Len(rest) \/ ~InRun(startCond, rest[1]))
    BY DEF EndOfBuffer
<1>3. n > 0
    BY <1>1, <1>2
<1>4. text < Len(ch_buf)
    BY <1>3
<1>5. rest[1] = ch_buf[text + 1]
    BY <1>1, <1>3
<1> QED BY <1>1, <1>2, <1>4, <1>5, LongestToken

\* When it has: there is none, or it is a run that may go on.
LEMMA TokenAtEnd ==
    ASSUME ch_buf \in Seq(LineChars), text \in 0..Len(ch_buf), EndOfBuffer
    PROVE  \A i \in 1..(Len(ch_buf) - text) : InRun(startCond, ch_buf[text + i])
<1> PICK n \in Nat : n = Len(ch_buf) - text
    OBVIOUS
<1> PICK rest : rest = SubSeq(ch_buf, text + 1, Len(ch_buf))
    OBVIOUS
<1>1. rest \in Seq(LineChars) /\ Len(rest) = n /\ \A i \in 1..n : rest[i] = ch_buf[text + i]
    BY RestOfBuffer
<1>2. rest = <<>> \/ (Longest = Len(rest) /\ InRun(startCond, rest[1]))
    BY DEF EndOfBuffer
<1>3. CASE n = 0
    BY <1>3
<1>4. CASE n # 0
  <2>1. rest # <<>>
      BY <1>1, <1>4
  <2>2. Longest = n /\ InRun(startCond, ch_buf[text + 1]) /\ text # Len(ch_buf)
      BY <1>1, <1>2, <1>4, <2>1
  <2> QED BY <2>2, LongestToken
<1> QED BY <1>3, <1>4
-----------------------------------------------------------------------------
(* The scan of a line and the buffer *)

\* A line as the shells hand it to the scanner.
LineOK(l) == l \in Seq(LineChars) /\ Len(l) > 0 /\ l[Len(l)] = "n" /\ \A i \in 1..(Len(l) - 1) : l[i] # "n"

LexTypes ==
    /\ shell \in {"mysh", "msh"} /\ lxpc \in {"idle", "scan", "fatal"} /\ startCond \in {"INITIAL", "QUOTE"}
    /\ shell = "mysh" => startCond = "INITIAL"
    /\ scanned \in Nat /\ wholeLine \in Seq(LineChars) /\ unread \in Seq(LineChars) /\ ch_buf \in Seq(LineChars)
    /\ buf_size \in Nat /\ text \in 0..Len(ch_buf) /\ status \in {"new", "normal"} /\ Len(ch_buf) < buf_size

\* Characters still to come: the rest of the buffer is the line from P on, and
\* what msh has not read is the end of the line.
Aligned(P) ==
    /\ \A i \in 1..(Len(ch_buf) - text) : ch_buf[text + i] = wholeLine[P + i]
    /\ shell = "msh" => /\ Len(ch_buf) - text + Len(unread) = Len(wholeLine) - P
                        /\ \A i \in 1..Len(unread) : unread[i] = wholeLine[Len(wholeLine) - Len(unread) + i]
    /\ shell = "mysh" => (text = Len(ch_buf) /\ P = 0) \/ Len(ch_buf) - text = Len(wholeLine) - P

\* The scanner stands before character P + 1 of the line, where the plain scan
\* has just those tokens and that quote.
ScanHere(P) ==
    /\ P \in 0..(Len(wholeLine) - 1) /\ Aligned(P)
    /\ args = Closed(ScanOf(shell, wholeLine)[P]) /\ Agrees(ScanOf(shell, wholeLine)[P], startCond)
    /\ ScanOf(shell, wholeLine)[P].cur # <<>> => ~InRun(startCond, wholeLine[P + 1])

\* The command has been run.
ScanDone ==
    /\ text = Len(ch_buf) /\ args = <<>> /\ startCond = "INITIAL" /\ (shell = "msh" => unread = <<>>)
    /\ scanned > 0 => ran = ScanOf(shell, wholeLine)[Len(wholeLine)].toks

LexInv ==
    /\ LexTypes
    /\ lxpc = "scan" => LineOK(wholeLine) /\ ((shell = "msh" /\ ScanDone) \/ \E P \in Nat : ScanHere(P))
    /\ lxpc = "idle" => ScanDone /\ c_buf_p = text

\* Nothing has been scanned at first.
LEMMA LexInitOK == LexerInit => LexInv
<1> SUFFICES ASSUME LexerInit PROVE LexInv
    OBVIOUS
<1>1. <<>> \in Seq(LineChars) /\ Len(<<>>) = 0
    OBVIOUS
<1>2. BufSize \in Nat /\ 0 < BufSize
    BY LexerAssumption
<1>3. LexTypes
    BY <1>1, <1>2 DEF LexerInit, LexTypes
<1>4. ScanDone /\ c_buf_p = text /\ lxpc = "idle"
    BY <1>1 DEF LexerInit, ScanDone
<1> QED BY <1>3, <1>4 DEF LexInv

\* The line the shell has read.
LEMMA LineRead ==
    ASSUME NEW l \in Lines
    PROVE  LineOK(Append(l, "n"))
<1>1. PICK n \in 0..MaxLength : l \in [1..n -> Chars]
    BY DEF Lines
<1>2. n \in Nat
    BY <1>1, LexerAssumption
<1>3. l \in Seq(LineChars) /\ Len(l) = n /\ \A i \in 1..n : l[i] \in Chars
    BY <1>1, <1>2 DEF LineChars
<1>4. "n" \in LineChars /\ "n" \notin Chars
    BY DEF LineChars, Chars
<1>5. /\ Append(l, "n") \in Seq(LineChars) /\ Len(Append(l, "n")) = n + 1
      /\ \A i \in 1..n : Append(l, "n")[i] = l[i]
      /\ Append(l, "n")[n + 1] = "n"
    BY <1>2, <1>3, <1>4, AppendProperties
<1>6. \A i \in 1..n : Append(l, "n")[i] # "n"
    BY <1>3, <1>4, <1>5
<1> QED BY <1>2, <1>5, <1>6 DEF LineOK

\* The scan of a line begins.
LEMMA LexCalled ==
    ASSUME LexInv, NEW l \in Lines, yylex(l)
    PROVE  LexInv'
<1>1. /\ lxpc = "idle" /\ scanned' = scanned + 1 /\ wholeLine' = Append(l, "n") /\ unread' = Append(l, "n")
      /\ lxpc' = "scan" /\ text' = c_buf_p
      /\ UNCHANGED <<shell, ch_buf, buf_size, c_buf_p, status, startCond, args>>
    BY DEF yylex
<1>2. LexTypes /\ ScanDone /\ c_buf_p = text
    BY <1>1 DEF LexInv
<1> PICK w : w = Append(l, "n")
    OBVIOUS
<1>3. LineOK(w)
    BY LineRead
<1>4. w \in Seq(LineChars) /\ Len(w) > 0
    BY <1>3 DEF LineOK
<1>5. LexTypes'
    BY <1>1, <1>2, <1>4 DEF LexTypes
<1> PICK n \in Nat : n = Len(w)
    BY <1>4
<1>6. ScanOf(shell, w)[0] = ScanStart
    BY <1>4, ScanValue
<1>7. Closed(ScanStart) = <<>> /\ ScanStart.cur = <<>>
    BY DEF Closed, ScanStart
<1>8. Agrees(ScanStart, "INITIAL")
    BY DEF Agrees, ScanStart
<1>9. text = Len(ch_buf) /\ args = <<>> /\ startCond = "INITIAL"
    BY <1>2 DEF ScanDone
<1>10. Aligned(0)'
  <2>1. text' = Len(ch_buf') /\ unread' = w /\ wholeLine' = w /\ Len(ch_buf) \in Nat
      BY <1>1, <1>2, <1>9 DEF LexTypes
  <2> QED BY <2>1, <1>4 DEF Aligned
<1>11. ScanHere(0)'
  <2>1. 0 \in 0..(Len(wholeLine') - 1)
      BY <1>1, <1>4
  <2>2. shell' = shell /\ wholeLine' = w /\ args' = <<>> /\ startCond' = "INITIAL"
      BY <1>1, <1>9
  <2> QED BY <1>6, <1>7, <1>8, <1>10, <2>1, <2>2 DEF ScanHere
<1> QED BY <1>1, <1>3, <1>5, <1>11 DEF LexInv

\* The token the scanner adds is the one the plain scan closes.
LEMMA RunAdded ==
    ASSUME LexTypes, LineOK(wholeLine), NEW P \in Nat, ScanHere(P), NEW k \in Nat, k > 0,
           k < Len(ch_buf) - text, \A i \in 1..k : InRun(startCond, ch_buf[text + i]),
           ~InRun(startCond, ch_buf[text + k + 1])
    PROVE  /\ P + k \in 0..(Len(wholeLine) - 1) /\ ~InRun(startCond, wholeLine[P + k + 1])
           /\ Agrees(ScanOf(shell, wholeLine)[P + k], startCond)
           /\ Closed(ScanOf(shell, wholeLine)[P + k]) = Append(args, SubSeq(ch_buf, text + 1, text + k))
<1> PICK n \in Nat : n = Len(wholeLine)
    BY DEF LexTypes
<1> PICK b \in Nat : b = Len(ch_buf)
    BY DEF LexTypes
<1> PICK u \in Nat : u = Len(unread)
    BY DEF LexTypes
<1> PICK f : f = ScanOf(shell, wholeLine)
    OBVIOUS
<1>1. wholeLine \in Seq(LineChars) /\ ch_buf \in Seq(LineChars) /\ text \in 0..b /\ startCond \in {"INITIAL", "QUOTE"}
    BY DEF LexTypes
<1>2. /\ P <= n - 1 /\ Aligned(P) /\ args = Closed(f[P]) /\ Agrees(f[P], startCond)
      /\ f[P].cur # <<>> => ~InRun(startCond, wholeLine[P + 1])
    BY DEF ScanHere
<1>3. \A i \in 1..(b - text) : ch_buf[text + i] = wholeLine[P + i]
    BY <1>2 DEF Aligned
<1>4. b - text <= n - P
  <2>1. shell = "msh" \/ shell = "mysh"
      BY DEF LexTypes
  <2>2. b - text + u = n - P \/ text = b \/ b - text = n - P
      BY <1>2, <2>1 DEF Aligned
  <2> QED BY <1>1, <1>2, <2>2
<1>5. k < b - text
    OBVIOUS
<1>6. P + k + 1 <= n
    BY <1>1, <1>4, <1>5
<1>7. \A i \in 1..k : InRun(startCond, wholeLine[P + i])
  <2> TAKE i \in 1..k
  <2>1. i \in 1..(b - text)
      BY <1>1, <1>5
  <2> QED BY <1>3, <2>1
<1>8. ~InRun(startCond, wholeLine[P + k + 1])
  <2>1. k + 1 \in 1..(b - text) /\ text + k + 1 = text + (k + 1) /\ P + k + 1 = P + (k + 1)
      BY <1>1, <1>5
  <2>2. ch_buf[text + (k + 1)] = wholeLine[P + (k + 1)]
      BY <1>3, <2>1
  <2> QED BY <2>1, <2>2
<1>9. f[P].cur = <<>>
  <2>1. 1 \in 1..k
      OBVIOUS
  <2> QED BY <1>2, <1>7, <2>1
<1>10. /\ f[P + k].toks = f[P].toks /\ f[P + k].cur = SubSeq(wholeLine, P + 1, P + k) /\ Agrees(f[P + k], startCond)
  <2>1. P + k <= Len(wholeLine)
      BY <1>6
  <2>2. ScanOf(shell, wholeLine)[P].cur = <<>> /\ Agrees(ScanOf(shell, wholeLine)[P], startCond)
      BY <1>2, <1>9
  <2>3. P \in Nat /\ k \in Nat /\ wholeLine \in Seq(LineChars) /\ startCond \in {"INITIAL", "QUOTE"}
      BY <1>1
  <2>4. RunFrom(shell, startCond, wholeLine, P, k)
      BY <1>7, <2>1, <2>2 DEF RunFrom
  <2>5. RunInHand(shell, startCond, wholeLine, P, k)
      BY ONLY <2>3, <2>4, RunTaken, Zenon
  <2> QED BY <2>5 DEF RunInHand
<1>11. SubSeq(ch_buf, text + 1, text + k) = SubSeq(wholeLine, P + 1, P + k)
  <2>1. \A i \in (text + 1)..(text + k) : ch_buf[i] \in LineChars
    <3> TAKE i \in (text + 1)..(text + k)
    <3>1. i \in 1..b
        BY <1>1, <1>5
    <3> QED BY <1>1, <3>1
  <2>2. \A i \in (P + 1)..(P + k) : wholeLine[i] \in LineChars
    <3> TAKE i \in (P + 1)..(P + k)
    <3>1. i \in 1..n
        BY <1>6
    <3> QED BY <1>1, <3>1
  <2> PICK s : s = SubSeq(ch_buf, text + 1, text + k)
      OBVIOUS
  <2> PICK t : t = SubSeq(wholeLine, P + 1, P + k)
      OBVIOUS
  <2>3. text + 1 \in Int /\ text + k \in Int /\ P + 1 \in Int /\ P + k \in Int
      BY <1>1
  <2>4. /\ s \in Seq(LineChars) /\ Len(s) = (IF text + 1 <= text + k THEN (text + k) - (text + 1) + 1 ELSE 0)
        /\ \A i \in 1..((text + k) - (text + 1) + 1) : s[i] = ch_buf[(text + 1) + i - 1]
      BY <2>1, <2>3, SubSeqProperties
  <2>5. /\ t \in Seq(LineChars) /\ Len(t) = (IF P + 1 <= P + k THEN (P + k) - (P + 1) + 1 ELSE 0)
        /\ \A i \in 1..((P + k) - (P + 1) + 1) : t[i] = wholeLine[(P + 1) + i - 1]
      BY <2>2, <2>3, SubSeqProperties
  <2>60. text \in Nat
      BY <1>1
  <2>61. /\ text + 1 <= text + k /\ (text + k) - (text + 1) + 1 = k
         /\ P + 1 <= P + k /\ (P + k) - (P + 1) + 1 = k
      BY <2>60
  <2>6. Len(s) = k /\ Len(t) = k
      BY ONLY <2>4, <2>5, <2>61
  <2>7. \A i \in 1..k : s[i] = t[i]
    <3> TAKE i \in 1..k
    <3>1. /\ i \in 1..((text + k) - (text + 1) + 1) /\ i \in 1..((P + k) - (P + 1) + 1) /\ i \in 1..(b - text)
          /\ (text + 1) + i - 1 = text + i /\ (P + 1) + i - 1 = P + i
        BY <1>1, <1>5
    <3>2. s[i] = ch_buf[text + i] /\ t[i] = wholeLine[P + i]
        BY <2>4, <2>5, <3>1
    <3> QED BY <1>3, <3>1, <3>2
  <2> QED BY <2>4, <2>5, <2>6, <2>7, SeqEqual
<1>12. SubSeq(wholeLine, P + 1, P + k) # <<>>
  <2>1. \A i \in (P + 1)..(P + k) : wholeLine[i] \in LineChars
    <3> TAKE i \in (P + 1)..(P + k)
    <3>1. i \in 1..n
        BY <1>6
    <3> QED BY <1>1, <3>1
  <2>2. Len(SubSeq(wholeLine, P + 1, P + k)) = IF P + 1 <= P + k THEN (P + k) - (P + 1) + 1 ELSE 0
      BY <2>1, SubSeqProperties
  <2>3. Len(SubSeq(wholeLine, P + 1, P + k)) # 0
      BY <2>2
  <2>4. Len(<<>>) = 0
      OBVIOUS
  <2> QED BY <2>3, <2>4
<1>13. Closed(f[P]) = f[P].toks
    BY <1>9 DEF Closed
<1>14. Closed(f[P + k]) = Append(f[P].toks, SubSeq(wholeLine, P + 1, P + k))
    BY <1>10, <1>12 DEF Closed
<1>15. Closed(f[P + k]) = Append(args, SubSeq(ch_buf, text + 1, text + k))
    BY <1>2, <1>11, <1>13, <1>14
<1>16. P + k \in 0..(n - 1)
    BY <1>6
<1> QED BY <1>8, <1>10, <1>15, <1>16

\* A character that is not of a run.
LEMMA OtherAdded ==
    ASSUME LexTypes, NEW P \in Nat, ScanHere(P), text < Len(ch_buf), ~InRun(startCond, ch_buf[text + 1]),
           NEW ch, ch = ch_buf[text + 1]
    PROVE  /\ wholeLine[P + 1] = ch /\ ch \in LineChars /\ P + 1 \in 1..Len(wholeLine)
           /\ Closed(ScanOf(shell, wholeLine)[P + 1]) = IF ch = ";" THEN Append(args, <<ch>>) ELSE args
           /\ ScanOf(shell, wholeLine)[P + 1].cur = <<>>
           /\ Agrees(ScanOf(shell, wholeLine)[P + 1], CondAfter(shell, ch, startCond))
<1> PICK n \in Nat : n = Len(wholeLine)
    BY DEF LexTypes
<1> PICK b \in Nat : b = Len(ch_buf)
    BY DEF LexTypes
<1> PICK f : f = ScanOf(shell, wholeLine)
    OBVIOUS
<1>1. wholeLine \in Seq(LineChars) /\ ch_buf \in Seq(LineChars) /\ text \in 0..b /\ startCond \in {"INITIAL", "QUOTE"}
    BY DEF LexTypes
<1>2. P <= n - 1 /\ Aligned(P) /\ args = Closed(f[P]) /\ Agrees(f[P], startCond)
    BY DEF ScanHere
<1>3. 1 \in 1..(b - text) /\ P + 1 \in 1..n /\ (P + 1) - 1 = P /\ P \in 0..n
    BY <1>1, <1>2
<1>4. wholeLine[P + 1] = ch
    BY <1>2, <1>3 DEF Aligned
<1>5. ch \in LineChars
    BY <1>1, <1>3, <1>4
<1>6. f[P + 1] = TakeOf(shell, f[P], ch)
    BY <1>1, <1>3, <1>4, ScanValue
<1>7. f[P] \in ScanStates
    BY <1>1, <1>3, ScanTypes
<1>8. ~InRun(startCond, ch)
    OBVIOUS
<1>9. /\ TakeOf(shell, f[P], ch).toks = IF ch = ";" THEN Append(Closed(f[P]), <<ch>>) ELSE Closed(f[P])
      /\ TakeOf(shell, f[P], ch).cur = <<>>
      /\ Agrees(TakeOf(shell, f[P], ch), CondAfter(shell, ch, startCond))
    BY ONLY <1>1, <1>2, <1>5, <1>7, <1>8, TakeOther, Zenon
<1>10. Closed(f[P + 1]) = f[P + 1].toks
    BY <1>6, <1>9 DEF Closed
<1>11. Closed(f[P + 1]) = IF ch = ";" THEN Append(args, <<ch>>) ELSE args
    BY <1>2, <1>6, <1>9, <1>10
<1> QED BY <1>3, <1>4, <1>5, <1>6, <1>9, <1>11

\* What is still to come after a token is the line after it.
LEMMA AlignedAfter ==
    ASSUME LexTypes, NEW P \in Nat, P <= Len(wholeLine), Aligned(P), NEW k \in Nat, k > 0, k <= Len(ch_buf) - text,
           text' = text + k, UNCHANGED <<shell, ch_buf, wholeLine, unread>>
    PROVE  Aligned(P + k)'
<1> PICK n \in Nat : n = Len(wholeLine)
    BY DEF LexTypes
<1> PICK b \in Nat : b = Len(ch_buf)
    BY DEF LexTypes
<1> PICK u \in Nat : u = Len(unread)
    BY DEF LexTypes
<1> PICK t \in Nat : t = text
    BY DEF LexTypes
<1>1. /\ \A i \in 1..(b - t) : ch_buf[t + i] = wholeLine[P + i]
      /\ shell = "msh" => b - t + u = n - P /\ \A i \in 1..u : unread[i] = wholeLine[n - u + i]
      /\ shell = "mysh" => (t = b /\ P = 0) \/ b - t = n - P
    BY DEF Aligned
<1>2. k <= b - t
    OBVIOUS
<1>3. \A i \in 1..(b - (t + k)) : ch_buf[(t + k) + i] = wholeLine[(P + k) + i]
  <2> TAKE i \in 1..(b - (t + k))
  <2>1. k + i \in 1..(b - t) /\ (t + k) + i = t + (k + i) /\ (P + k) + i = P + (k + i)
      BY <1>2
  <2> QED BY <1>1, <2>1
<1>4. shell = "msh" => b - (t + k) + u = n - (P + k)
    BY <1>1
<1>5. shell = "mysh" => b - (t + k) = n - (P + k)
    BY <1>1, <1>2
<1> QED BY <1>1, <1>3, <1>4, <1>5 DEF Aligned

\* A token is added, or the command is run.
LEMMA LexRule ==
    ASSUME LexInv, rule
    PROVE  LexInv'
<1> PICK k : k = Longest
    OBVIOUS
<1> PICK token : token = SubSeq(ch_buf, text + 1, text + k)
    OBVIOUS
<1> PICK ch : ch = token[1]
    OBVIOUS
<1>1. LexTypes /\ lxpc = "scan" /\ ~EndOfBuffer
    BY DEF rule, LexInv
<1>2. /\ text' = text + k /\ c_buf_p' = text + k
      /\ startCond' = IF ch = "n" THEN "INITIAL"
                      ELSE IF shell = "msh" /\ ch = "q" THEN (IF startCond = "QUOTE" THEN "INITIAL" ELSE "QUOTE") ELSE startCond
      /\ IF ch = "n" THEN ran' = args /\ args' = <<>>
         ELSE args' = (IF InRun(startCond, ch) \/ ch = ";" THEN Append(args, token) ELSE args) /\ UNCHANGED ran
      /\ lxpc' = IF ch = "n" /\ shell = "mysh" THEN "idle" ELSE "scan"
      /\ UNCHANGED <<shell, scanned, wholeLine, unread, ch_buf, buf_size>>
    BY DEF rule
<1>3. status' \in {"new", "normal"} /\ status # "last_match"
    BY <1>1 DEF rule, LexTypes
<1>4. ch_buf \in Seq(LineChars) /\ text \in 0..Len(ch_buf)
    BY <1>1 DEF LexTypes
<1>5. /\ text < Len(ch_buf)
      /\ \/ /\ InRun(startCond, ch_buf[text + 1]) /\ k \in 1..(Len(ch_buf) - text - 1)
            /\ \A i \in 1..k : InRun(startCond, ch_buf[text + i])
            /\ ~InRun(startCond, ch_buf[text + k + 1])
         \/ ~InRun(startCond, ch_buf[text + 1]) /\ k = 1
    BY <1>1, <1>3, <1>4, TokenWithin
<1> PICK b \in Nat : b = Len(ch_buf)
    BY <1>4
<1> PICK n \in Nat : n = Len(wholeLine)
    BY <1>1 DEF LexTypes
<1> PICK t \in Nat : t = text
    BY <1>4
<1>6. t < b /\ k \in Nat /\ k > 0 /\ k <= b - t
    BY <1>5
<1>7. /\ \A i \in (t + 1)..(t + k) : ch_buf[i] \in LineChars
      /\ token[1] = ch_buf[t + 1]
  <2>1. \A i \in (t + 1)..(t + k) : ch_buf[i] \in LineChars
    <3> TAKE i \in (t + 1)..(t + k)
    <3>1. i \in 1..b
        BY <1>6
    <3> QED BY <1>4, <3>1
  <2>2. \A i \in 1..((t + k) - (t + 1) + 1) : token[i] = ch_buf[(t + 1) + i - 1]
      BY <1>6, <2>1, SubSeqProperties
  <2>3. 1 \in 1..((t + k) - (t + 1) + 1) /\ (t + 1) + 1 - 1 = t + 1
      BY <1>6
  <2> QED BY <2>1, <2>2, <2>3
<1>8. ch = ch_buf[text + 1]
    BY <1>7
<1>9. LineOK(wholeLine)
    BY <1>1 DEF LexInv
<1>10. PICK P \in Nat : ScanHere(P)
    BY <1>1, <1>5 DEF LexInv, ScanDone
<1>11. Aligned(P) /\ P <= n - 1
    BY <1>10 DEF ScanHere
<1>12. Aligned(P + k)'
  <2>1. k \in Nat /\ k > 0 /\ k <= Len(ch_buf) - text /\ P \in Nat /\ P <= Len(wholeLine)
      BY <1>6, <1>11
  <2>2. text' = text + k /\ UNCHANGED <<shell, ch_buf, wholeLine, unread>>
      BY <1>2
  <2> QED BY ONLY <1>1, <1>11, <2>1, <2>2, AlignedAfter, Zenon
<1>13. startCond \in {"INITIAL", "QUOTE"} /\ (shell = "mysh" => startCond = "INITIAL") /\ (shell = "msh" \/ shell = "mysh")
    BY <1>1 DEF LexTypes
<1>14. startCond' \in {"INITIAL", "QUOTE"} /\ (shell' = "mysh" => startCond' = "INITIAL")
    BY <1>2, <1>13
<1>15. LexTypes'
  <2>3. t + k \in 0..b
      BY <1>6
  <2>1. text' \in 0..Len(ch_buf')
      BY <1>2, <2>3
  <2>2. lxpc' \in {"idle", "scan", "fatal"}
      BY <1>2
  <2> QED BY <1>1, <1>2, <1>3, <1>14, <2>1, <2>2 DEF LexTypes
<1>16. CASE InRun(startCond, ch)
  <2>1. ch # "n" /\ ch # "q"
      BY <1>13, <1>16 DEF InRun
  <2>2. startCond' = startCond /\ args' = Append(args, token) /\ lxpc' = "scan" /\ wholeLine' = wholeLine /\ shell' = shell
      BY <1>2, <1>16, <2>1
  <2>3. /\ k < Len(ch_buf) - text /\ \A i \in 1..k : InRun(startCond, ch_buf[text + i])
        /\ ~InRun(startCond, ch_buf[text + k + 1])
      BY <1>5, <1>6, <1>8, <1>16
  <2>4. /\ P + k \in 0..(Len(wholeLine) - 1) /\ ~InRun(startCond, wholeLine[P + k + 1])
        /\ Agrees(ScanOf(shell, wholeLine)[P + k], startCond)
        /\ Closed(ScanOf(shell, wholeLine)[P + k]) = Append(args, SubSeq(ch_buf, text + 1, text + k))
      BY <1>1, <1>6, <1>9, <1>10, <2>3, RunAdded
  <2>5. ScanHere(P + k)'
      BY <1>12, <2>2, <2>4 DEF ScanHere
  <2>6. P + k \in Nat
      BY <1>6
  <2> QED BY <1>9, <1>15, <2>2, <2>5, <2>6 DEF LexInv
<1>17. CASE ~InRun(startCond, ch)
  <2>1. /\ wholeLine[P + 1] = ch /\ ch \in LineChars /\ P + 1 \in 1..Len(wholeLine)
        /\ Closed(ScanOf(shell, wholeLine)[P + 1]) = IF ch = ";" THEN Append(args, <<ch>>) ELSE args
        /\ ScanOf(shell, wholeLine)[P + 1].cur = <<>>
        /\ Agrees(ScanOf(shell, wholeLine)[P + 1], CondAfter(shell, ch, startCond))
      BY <1>1, <1>5, <1>8, <1>10, <1>17, OtherAdded
  <2>2. k = 1
      BY <1>5, <1>8, <1>17
  <2>3. CASE ch = "n"
    <3>1. P + 1 = n
        <4>1. \A i \in 1..(n - 1) : wholeLine[i] # "n"
          BY <1>9 DEF LineOK
      <4>2. ~(P + 1 \in 1..(n - 1))
          BY <2>1, <2>3, <4>1
      <4> QED BY <1>11, <4>2
    <3>2. t + 1 = b /\ (shell = "msh" => unread = <<>>)
      <4> PICK u \in Nat : u = Len(unread)
          BY <1>1 DEF LexTypes
      <4>1. shell = "msh" => b - t + u = n - P
          BY <1>11 DEF Aligned
      <4>2. shell = "mysh" => t = b \/ b - t = n - P
          BY <1>11 DEF Aligned
      <4>3. t + 1 = b /\ (shell = "msh" => u = 0)
          BY <1>6, <1>13, <3>1, <4>1, <4>2
      <4>4. u = 0 => unread = <<>>
          BY <1>1, EmptySeq DEF LexTypes
      <4> QED BY <4>3, <4>4
    <3>3. Closed(ScanOf(shell, wholeLine)[n]) = args
        BY <2>1, <2>3, <3>1
    <3>4. ScanOf(shell, wholeLine)[n].toks = args
        BY <2>1, <3>1, <3>3 DEF Closed
    <3>5. ScanDone'
        BY <1>2, <2>2, <2>3, <3>2, <3>4 DEF ScanDone
    <3>6. c_buf_p' = text' /\ (lxpc' = "scan" => shell' = "msh") /\ wholeLine' = wholeLine
        BY <1>2, <1>13, <2>3
    <3> QED BY <1>9, <1>15, <3>5, <3>6 DEF LexInv
  <2>4. CASE ch # "n"
    <3>1. P + 1 # n
        BY <1>9, <2>1, <2>4 DEF LineOK
    <3>2. P + 1 \in 0..(n - 1)
        BY <1>11, <3>1
    <3>3. token = <<ch>>
      <4>1. /\ SubSeq(ch_buf, t + 1, t + k) \in Seq(LineChars)
            /\ Len(SubSeq(ch_buf, t + 1, t + k)) = IF t + 1 <= t + k THEN (t + k) - (t + 1) + 1 ELSE 0
          BY <1>6, <1>7, SubSeqProperties
      <4>2. token \in Seq(LineChars) /\ Len(token) = 1 /\ token[1] = ch
          BY <2>2, <4>1
      <4>5. ch \in LineChars
          BY <2>1
      <4>3. <<ch>> \in Seq(LineChars) /\ Len(<<ch>>) = 1 /\ <<ch>>[1] = ch
          BY ONLY <4>5
      <4>4. \A i \in 1..1 : token[i] = <<ch>>[i]
          BY <4>2, <4>3
      <4> QED BY ONLY <4>2, <4>3, <4>4, SeqEqual
    <3>4. args' = IF ch = ";" THEN Append(args, <<ch>>) ELSE args
        BY <1>2, <1>17, <2>4, <3>3
    <3>5. startCond' = CondAfter(shell, ch, startCond)
      <4>1. startCond = "QUOTE" => ch = "q"
          BY <1>17, <2>4 DEF InRun
      <4> QED BY <1>2, <1>13, <2>4, <4>1 DEF CondAfter
    <3>6. lxpc' = "scan" /\ shell' = shell /\ wholeLine' = wholeLine
        BY <1>2, <2>4
    <3>7. ScanHere(P + 1)'
        BY <1>12, <2>1, <2>2, <3>2, <3>4, <3>5, <3>6 DEF ScanHere
    <3> QED BY <1>9, <1>15, <3>6, <3>7 DEF LexInv
  <2> QED BY <2>3, <2>4
<1> QED BY <1>16, <1>17

\* There is always room after the buffer has grown.
LEMMA GrownHasRoom ==
    ASSUME NEW size \in Nat, NEW m \in Nat, m < size
    PROVE  Grown(size, m) \in Nat /\ size <= Grown(size, m) /\ Grown(size, m) - m - 1 > 0
<1> DEFINE Sizes == {size, 2 * size, 4 * size, 8 * size}
           Fits(s) == s - m - 1 > 0 /\ (s = size \/ (s \div 2) - m - 1 <= 0)
<1>1. Grown(size, m) = CHOOSE s \in Sizes : Fits(s)
    BY DEF Grown
<1>2. \E s \in Sizes : Fits(s)
  <2>1. CASE size - m - 1 > 0
      BY <2>1
  <2>2. CASE ~(size - m - 1 > 0)
    <3>1. (2 * size) \div 2 = size
        OBVIOUS
    <3>2. Fits(2 * size)
        BY <2>2, <3>1
    <3> QED BY <3>2
  <2> QED BY <2>1, <2>2
<1>3. Grown(size, m) \in Sizes /\ Fits(Grown(size, m))
  <2> HIDE DEF Sizes, Fits
  <2> QED BY <1>1, <1>2
<1> QED BY <1>3

\* At the end of the buffer the newline is still to come.
LEMMA MoreToCome ==
    ASSUME LexTypes, LineOK(wholeLine), NEW P \in Nat, ScanHere(P), EndOfBuffer
    PROVE  /\ shell = "msh" => Len(unread) > 0
           /\ shell = "mysh" => text = Len(ch_buf) /\ P = 0
<1> PICK n \in Nat : n = Len(wholeLine)
    BY DEF LexTypes
<1> PICK b \in Nat : b = Len(ch_buf)
    BY DEF LexTypes
<1> PICK u \in Nat : u = Len(unread)
    BY DEF LexTypes
<1> PICK t \in Nat : t = text
    BY DEF LexTypes
<1>1. ch_buf \in Seq(LineChars) /\ text \in 0..Len(ch_buf) /\ t <= b
    BY DEF LexTypes
<1>2. \A i \in 1..(b - t) : InRun(startCond, ch_buf[t + i])
    BY <1>1, TokenAtEnd
<1>3. P <= n - 1 /\ Aligned(P)
    BY DEF ScanHere
<1>4. wholeLine[n] = "n" /\ ~InRun(startCond, "n")
    BY DEF LineOK, InRun
<1>5. b - t # n - P
  <2> SUFFICES ASSUME b - t = n - P PROVE FALSE
      OBVIOUS
  <2>1. n - P \in 1..(b - t) /\ P + (n - P) = n
      BY <1>3
  <2>2. ch_buf[t + (n - P)] = wholeLine[P + (n - P)]
      BY <1>3, <2>1 DEF Aligned
  <2> QED BY <1>2, <1>4, <2>1, <2>2
<1>6. shell = "msh" => b - t + u = n - P
    BY <1>3 DEF Aligned
<1>7. shell = "mysh" => (t = b /\ P = 0) \/ b - t = n - P
    BY <1>3 DEF Aligned
<1>8. shell = "msh" => u > 0
    BY <1>5, <1>6
<1> QED BY <1>5, <1>7, <1>8

\* What was moved to the front and what was read after it.
LEMMA RefilledTypes ==
    ASSUME NEW moved \in Seq(LineChars), NEW g \in Seq(LineChars)
    PROVE  /\ moved \o g \in Seq(LineChars) /\ Len(moved \o g) = Len(moved) + Len(g)
           /\ \A i \in 1..(Len(moved) + Len(g)) : (moved \o g)[i] = IF i <= Len(moved) THEN moved[i] ELSE g[i - Len(moved)]
BY ConcatProperties

\* msh has moved what it had of the token to the front and read t characters of its line.
MshReads(moved, g, m, t) ==
    /\ m \in Nat /\ m = Len(ch_buf) - text /\ t \in Nat /\ t <= Len(unread)
    /\ moved \in Seq(LineChars) /\ Len(moved) = m /\ \A i \in 1..m : moved[i] = ch_buf[text + i]
    /\ g = SubSeq(unread, 1, t) /\ text' = 0 /\ ch_buf' = moved \o g
    /\ unread' = SubSeq(unread, t + 1, Len(unread)) /\ UNCHANGED <<shell, wholeLine>>

\* What is to come is still the rest of the line.
LEMMA AlignedRefill ==
    ASSUME LexTypes, NEW P \in Nat, P <= Len(wholeLine), Aligned(P), shell = "msh",
           NEW moved, NEW g, NEW m, NEW t, MshReads(moved, g, m, t)
    PROVE  /\ ch_buf' \in Seq(LineChars) /\ Len(ch_buf') = m + t /\ unread' \in Seq(LineChars)
           /\ g \in Seq(LineChars) /\ Len(g) = t /\ Aligned(P)'
<1> PICK n \in Nat : n = Len(wholeLine)
    BY DEF LexTypes
<1> PICK b \in Nat : b = Len(ch_buf)
    BY DEF LexTypes
<1> PICK u \in Nat : u = Len(unread)
    BY DEF LexTypes
<1>20. m \in Nat /\ m = Len(ch_buf) - text /\ t \in Nat /\ t <= Len(unread)
    BY DEF MshReads
<1>21. moved \in Seq(LineChars) /\ Len(moved) = m /\ \A i \in 1..m : moved[i] = ch_buf[text + i]
    BY DEF MshReads
<1>22. g = SubSeq(unread, 1, t) /\ text' = 0 /\ ch_buf' = moved \o g
    BY DEF MshReads
<1>23. unread' = SubSeq(unread, t + 1, Len(unread)) /\ UNCHANGED <<shell, wholeLine>>
    BY DEF MshReads
<1> USE <1>20, <1>21, <1>22, <1>23
<1>0. unread \in Seq(LineChars) /\ t <= u /\ \A i \in 1..u : unread[i] \in LineChars
    BY DEF LexTypes
<1>1. /\ \A i \in 1..m : ch_buf[text + i] = wholeLine[P + i]
      /\ m + u = n - P /\ \A i \in 1..u : unread[i] = wholeLine[n - u + i]
    BY DEF Aligned
<1>40. m + u = n - P /\ t <= u
    BY <1>0, <1>1
<1>2. g \in Seq(LineChars) /\ Len(g) = t /\ \A i \in 1..t : g[i] = unread[i]
  <2>1. \A i \in 1..t : unread[i] \in LineChars
    <3> TAKE i \in 1..t
    <3>1. i \in 1..u
        BY <1>0
    <3> QED BY <1>0, <3>1
  <2>2. /\ g \in Seq(LineChars) /\ Len(g) = (IF 1 <= t THEN t - 1 + 1 ELSE 0)
        /\ \A i \in 1..(t - 1 + 1) : g[i] = unread[1 + i - 1]
      BY <2>1, SubSeqProperties
  <2>3. Len(g) = t
      BY <2>2
  <2>4. \A i \in 1..t : g[i] = unread[i]
    <3> TAKE i \in 1..t
    <3>1. i \in 1..(t - 1 + 1) /\ 1 + i - 1 = i
        OBVIOUS
    <3> QED BY <2>2, <3>1
  <2> QED BY <2>2, <2>3, <2>4
<1> PICK r : r = unread'
    OBVIOUS
<1>3. r \in Seq(LineChars) /\ Len(r) = u - t /\ \A i \in 1..(u - t) : r[i] = unread[t + i]
  <2>1. \A i \in (t + 1)..u : unread[i] \in LineChars
    <3> TAKE i \in (t + 1)..u
    <3>1. i \in 1..u
        OBVIOUS
    <3> QED BY <1>0, <3>1
  <2>2. /\ r \in Seq(LineChars) /\ Len(r) = (IF t + 1 <= u THEN u - (t + 1) + 1 ELSE 0)
        /\ \A i \in 1..(u - (t + 1) + 1) : r[i] = unread[(t + 1) + i - 1]
      BY <2>1, SubSeqProperties
  <2>3. Len(r) = u - t
      BY <1>0, <2>2
  <2>4. \A i \in 1..(u - t) : r[i] = unread[t + i]
    <3> TAKE i \in 1..(u - t)
    <3>0. i \in 1..(u - t) /\ u \in Nat /\ t \in Nat
        OBVIOUS
    <3>1. i \in 1..(u - (t + 1) + 1) /\ (t + 1) + i - 1 = t + i
        BY ONLY <3>0
    <3> QED BY <2>2, <3>1
  <2> QED BY <2>2, <2>3, <2>4
<1> PICK c : c = ch_buf'
    OBVIOUS
<1>4. /\ c \in Seq(LineChars) /\ Len(c) = m + t
      /\ \A i \in 1..(m + t) : c[i] = IF i <= m THEN moved[i] ELSE g[i - m]
  <2>1. /\ moved \o g \in Seq(LineChars) /\ Len(moved \o g) = Len(moved) + Len(g)
        /\ \A i \in 1..(Len(moved) + Len(g)) : (moved \o g)[i] = IF i <= Len(moved) THEN moved[i] ELSE g[i - Len(moved)]
      BY <1>2, RefilledTypes
  <2>2. c = moved \o g /\ Len(moved) = m /\ Len(g) = t
      BY <1>2
  <2> QED BY ONLY <2>1, <2>2
<1>5. \A i \in 1..(m + t) : c[i] = wholeLine[P + i]
  <2> TAKE i \in 1..(m + t)
  <2>1. CASE i <= m
    <3>1. i \in 1..m
        BY <2>1
    <3>2. c[i] = moved[i]
        BY <1>4, <2>1
    <3> QED BY <1>1, <3>1, <3>2
  <2>2. CASE ~(i <= m)
    <3>0. i \in 1..(m + t) /\ m \in Nat /\ t \in Nat /\ u \in Nat /\ n \in Nat /\ P \in Nat
        OBVIOUS
    <3>1. i - m \in 1..t /\ i - m \in 1..u /\ n - u + (i - m) = P + i
        BY ONLY <1>40, <2>2, <3>0
    <3>2. c[i] = g[i - m]
        BY <1>4, <2>2
    <3>3. g[i - m] = unread[i - m] /\ unread[i - m] = wholeLine[n - u + (i - m)]
        BY <1>1, <1>2, <3>1
    <3> QED BY <3>1, <3>2, <3>3
  <2> QED BY <2>1, <2>2
<1>6. (m + t) + (u - t) = n - P
  <2>1. m \in Nat /\ t \in Nat /\ u \in Nat /\ n \in Nat /\ P \in Nat
      OBVIOUS
  <2> QED BY ONLY <1>40, <2>1
<1>7. \A i \in 1..(u - t) : r[i] = wholeLine[n - (u - t) + i]
  <2> TAKE i \in 1..(u - t)
  <2>1. t + i \in 1..u /\ n - u + (t + i) = n - (u - t) + i
      OBVIOUS
  <2>2. r[i] = unread[t + i] /\ unread[t + i] = wholeLine[n - u + (t + i)]
      BY <1>1, <1>3, <2>1
  <2> QED BY <2>1, <2>2
<1>8. Aligned(P)'
  <2>1. /\ ch_buf' = c /\ unread' = r /\ wholeLine' = wholeLine /\ text' = 0 /\ shell' = "msh"
        /\ Len(c) = m + t /\ Len(r) = u - t
      BY <1>3, <1>4
  <2>2. \A i \in 1..((m + t) - 0) : c[0 + i] = wholeLine[P + i]
    <3> TAKE i \in 1..((m + t) - 0)
    <3>1. m \in Nat /\ t \in Nat /\ i \in 1..((m + t) - 0)
        OBVIOUS
    <3>2. i \in 1..(m + t) /\ 0 + i = i
        BY ONLY <3>1
    <3> QED BY <1>5, <3>2
  <2>3. \A i \in 1..(Len(ch_buf') - text') : ch_buf'[text' + i] = wholeLine'[P + i]
      BY <2>1, <2>2
  <2>6. Len(ch_buf') = m + t /\ text' = 0 /\ Len(unread') = u - t /\ Len(wholeLine') = n
      BY <2>1
  <2>7. m \in Nat /\ t \in Nat /\ u \in Nat /\ n \in Nat /\ P \in Nat
      OBVIOUS
  <2>4. Len(ch_buf') - text' + Len(unread') = Len(wholeLine') - P
      BY ONLY <1>6, <2>6, <2>7
  <2>5. \A i \in 1..Len(unread') : unread'[i] = wholeLine'[Len(wholeLine') - Len(unread') + i]
      BY <1>7, <2>1
  <2> QED BY <2>1, <2>3, <2>4, <2>5 DEF Aligned
<1> QED BY <1>2, <1>3, <1>4, <1>8

\* What msh's scanner does at the end of the buffer.
LEMMA RefillMsh ==
    ASSUME status \in {"new", "normal"}, yy_get_next_buffer, shell = "msh", NEW moved, NEW size, NEW max, NEW g,
           moved = SubSeq(ch_buf, text + 1, Len(ch_buf)), size = Grown(buf_size, Len(moved)),
           max = IF size - Len(moved) - 1 > ReadSize THEN ReadSize ELSE size - Len(moved) - 1,
           g = SubSeq(unread, 1, IF max < Len(unread) THEN max ELSE Len(unread))
    PROVE  /\ buf_size' = size /\ text' = 0 /\ c_buf_p' = Len(moved)
           /\ unread' = SubSeq(unread, Len(g) + 1, Len(unread))
           /\ g # <<>> => ch_buf' = moved \o g /\ status' = "normal" /\ lxpc' = lxpc
           /\ g = <<>> /\ moved = <<>> => ch_buf' = <<>> /\ status' = "new" /\ lxpc' = "idle"
<1>1. status # "eof_pending"
    OBVIOUS
<1>2. my_yyinput(max) = [got |-> g, ok |-> TRUE]
    BY DEF my_yyinput
<1> PICK input : input = [got |-> g, ok |-> TRUE]
    OBVIOUS
<1>3. input.got = g
    OBVIOUS
<1>4. input.ok = TRUE
    OBVIOUS
<1>5. input.ok
    BY <1>4, Zenon
<1>6. /\ buf_size' = size /\ text' = 0 /\ c_buf_p' = Len(moved)
      /\ unread' = IF shell = "msh" THEN SubSeq(unread, Len(input.got) + 1, Len(unread)) ELSE unread
      /\ CASE ~input.ok -> lxpc' = "fatal" /\ UNCHANGED <<ch_buf, status>>
           [] input.ok /\ input.got # <<>> -> ch_buf' = moved \o input.got /\ status' = "normal" /\ UNCHANGED lxpc
           [] input.ok /\ input.got = <<>> /\ moved = <<>> -> ch_buf' = <<>> /\ status' = "new" /\ lxpc' = "idle"
           [] OTHER -> ch_buf' = moved /\ status' = "last_match" /\ UNCHANGED lxpc
    BY <1>1, <1>2, Zenon DEF yy_get_next_buffer, Kept, Room
<1>7. CASE g # <<>>
    BY <1>3, <1>5, <1>6, <1>7
<1>8. CASE g = <<>>
    BY <1>3, <1>5, <1>6, <1>8
<1> QED BY <1>7, <1>8

\* And mysh's.
LEMMA RefillMysh ==
    ASSUME status \in {"new", "normal"}, yy_get_next_buffer, shell = "mysh", NEW moved, NEW size, NEW max,
           moved = SubSeq(ch_buf, text + 1, Len(ch_buf)), size = Grown(buf_size, Len(moved)),
           max = IF size - Len(moved) - 1 > ReadSize THEN ReadSize ELSE size - Len(moved) - 1,
           wholeLine # <<>>
    PROVE  /\ buf_size' = size /\ text' = 0 /\ unread' = unread
           /\ Len(wholeLine) < max => ch_buf' = moved \o wholeLine /\ status' = "normal" /\ lxpc' = lxpc
           /\ ~(Len(wholeLine) < max) => lxpc' = "fatal" /\ UNCHANGED <<ch_buf, status>>
<1>1. status # "eof_pending"
    OBVIOUS
<1> DEFINE ok == Len(wholeLine) < max
           g == IF ok THEN wholeLine ELSE <<>>
<1>2. my_yyinput(max) = [got |-> g, ok |-> ok]
    BY Zenon DEF my_yyinput
<1>9. ok => g = wholeLine
    OBVIOUS
<1>10. ok <=> Len(wholeLine) < max
    OBVIOUS
<1> HIDE DEF ok, g
<1> PICK input : input = [got |-> g, ok |-> ok]
    OBVIOUS
<1>3. input.got = g
    OBVIOUS
<1>4. input.ok = ok
    OBVIOUS
<1>5. input.ok <=> ok
    BY <1>4, Zenon
<1>6. /\ buf_size' = size /\ text' = 0
      /\ unread' = IF shell = "msh" THEN SubSeq(unread, Len(input.got) + 1, Len(unread)) ELSE unread
      /\ CASE ~input.ok -> lxpc' = "fatal" /\ UNCHANGED <<ch_buf, status>>
           [] input.ok /\ input.got # <<>> -> ch_buf' = moved \o input.got /\ status' = "normal" /\ UNCHANGED lxpc
           [] input.ok /\ input.got = <<>> /\ moved = <<>> -> ch_buf' = <<>> /\ status' = "new" /\ lxpc' = "idle"
           [] OTHER -> ch_buf' = moved /\ status' = "last_match" /\ UNCHANGED lxpc
    BY <1>1, <1>2, Zenon DEF yy_get_next_buffer, Kept, Room
<1>7. CASE ok
  <2>1. input.ok /\ Len(wholeLine) < max /\ input.got = wholeLine
      BY <1>3, <1>5, <1>7, <1>9, <1>10, Zenon
  <2> QED BY <1>6, <2>1
<1>8. CASE ~ok
  <2>1. ~input.ok /\ ~(Len(wholeLine) < max)
      BY <1>5, <1>8, <1>10, Zenon
  <2> QED BY <1>6, <2>1
<1> QED BY <1>7, <1>8

\* The buffer is filled up, or the line is over.
LEMMA LexRefill ==
    ASSUME LexInv, yy_get_next_buffer
    PROVE  LexInv'
<1>20. PICK moved : moved = SubSeq(ch_buf, text + 1, Len(ch_buf))
    OBVIOUS
<1>21. PICK size : size = Grown(buf_size, Len(moved))
    OBVIOUS
<1>22. PICK max : max = IF size - Len(moved) - 1 > ReadSize THEN ReadSize ELSE size - Len(moved) - 1
    OBVIOUS
<1>1. lxpc = "scan" /\ EndOfBuffer /\ UNCHANGED <<shell, scanned, wholeLine, startCond, args, ran>>
    BY DEF yy_get_next_buffer
<1>2. LexTypes /\ LineOK(wholeLine)
    BY <1>1 DEF LexInv
<1>3. /\ shell \in {"mysh", "msh"} /\ startCond \in {"INITIAL", "QUOTE"} /\ (shell = "mysh" => startCond = "INITIAL")
      /\ scanned \in Nat /\ wholeLine \in Seq(LineChars) /\ unread \in Seq(LineChars) /\ ch_buf \in Seq(LineChars)
      /\ buf_size \in Nat /\ text \in 0..Len(ch_buf) /\ status \in {"new", "normal"} /\ Len(ch_buf) < buf_size
    BY <1>2 DEF LexTypes
<1>24. PICK b \in Nat : b = Len(ch_buf)
    BY <1>3
<1>23. PICK m \in Nat : m = Len(ch_buf) - text
  <2>1. text \in 0..b
      BY <1>3, <1>24
  <2>2. b - text \in Nat
      BY ONLY <2>1, <1>24
  <2> QED BY <1>24, <2>2
<1>4. moved \in Seq(LineChars) /\ Len(moved) = m /\ \A i \in 1..m : moved[i] = ch_buf[text + i]
    BY <1>3, <1>20, <1>23, RestOfBuffer
<1>5. m < buf_size
  <2>1. text \in 0..b /\ m = b - text /\ b < buf_size /\ buf_size \in Nat
      BY <1>3, <1>23, <1>24
  <2> QED BY ONLY <2>1, <1>24
<1>6. size \in Nat /\ buf_size <= size /\ size - m - 1 > 0
  <2>1. m \in Nat /\ size = Grown(buf_size, m)
      BY <1>4, <1>21, <1>23
  <2> QED BY <1>3, <1>5, <2>1, GrownHasRoom
<1>7. max \in Nat /\ max > 0 /\ m + max < size
  <2>1. max = (IF size - m - 1 > ReadSize THEN ReadSize ELSE size - m - 1) /\ m \in Nat /\ ReadSize \in Nat /\ ReadSize > 0
      BY <1>4, <1>22, <1>23, LexerAssumption
  <2> QED BY ONLY <2>1, <1>6
<1>8. wholeLine # <<>>
  <2>1. Len(wholeLine) # 0
      BY <1>2 DEF LineOK
  <2> QED BY <2>1, EmptySeq
<1>9. Len(<<>>) = 0 /\ <<>> \in Seq(LineChars)
    OBVIOUS
<1>10. CASE shell = "msh"
  <2>20. PICK u \in Nat : u = Len(unread)
      BY <1>3
  <2>21. PICK t \in Nat : t = IF max < u THEN max ELSE u
      BY <1>7
  <2>22. PICK g : g = SubSeq(unread, 1, t)
      OBVIOUS
  <2>1. /\ buf_size' = size /\ text' = 0 /\ c_buf_p' = Len(moved)
        /\ unread' = SubSeq(unread, Len(g) + 1, Len(unread))
        /\ g # <<>> => ch_buf' = moved \o g /\ status' = "normal" /\ lxpc' = lxpc
        /\ g = <<>> /\ moved = <<>> => ch_buf' = <<>> /\ status' = "new" /\ lxpc' = "idle"
      BY <1>3, <1>10, <1>20, <1>21, <1>22, <2>20, <2>21, <2>22, RefillMsh
  <2>2. CASE ScanDone
    <3>1. text = Len(ch_buf) /\ unread = <<>> /\ args = <<>> /\ startCond = "INITIAL"
        BY <1>10, <2>2 DEF ScanDone
    <3>2. m = 0 /\ u = 0 /\ t = 0
      <4>1. b - text = 0 /\ u = 0
          BY <1>9, <1>24, <2>20, <3>1
      <4> QED BY <1>7, <1>23, <1>24, <2>21, <4>1
    <3>3. moved = <<>> /\ g = <<>>
      <4>1. moved = <<>>
          BY <1>4, <3>2, EmptySeq
      <4>2. SubSeq(unread, 1, 0) = <<>>
          BY SubSeqEmpty
      <4> QED BY <2>22, <3>2, <4>1, <4>2
    <3>4. unread' = <<>>
      <4>1. SubSeq(unread, 1, 0) = <<>>
          BY SubSeqEmpty
      <4>2. Len(g) = 0 /\ Len(unread) = 0
          BY <1>9, <3>1, <3>3
      <4> QED BY <2>1, <4>1, <4>2
    <3>5. ch_buf' = <<>> /\ status' = "new" /\ lxpc' = "idle" /\ text' = 0 /\ c_buf_p' = 0 /\ buf_size' = size
        BY <1>4, <2>1, <3>2, <3>3
    <3>6. 0 < size
        BY <1>6
    <3>7. LexTypes'
        BY <1>1, <1>3, <1>6, <1>9, <3>4, <3>5, <3>6 DEF LexTypes
    <3>8. ScanDone'
        BY <1>1, <1>9, <2>2, <3>1, <3>4, <3>5 DEF ScanDone
    <3> QED BY <3>5, <3>7, <3>8 DEF LexInv
  <2>3. CASE \E P \in Nat : ScanHere(P)
    <3> PICK P \in Nat : ScanHere(P)
        BY <2>3
    <3>1. u > 0
        BY <1>1, <1>2, <1>10, <2>20, MoreToCome
    <3>2. t > 0 /\ t <= max /\ t <= u /\ t \in Nat /\ u \in Nat
        BY <1>7, <2>20, <2>21, <3>1
    <3>3. P <= Len(wholeLine) /\ Aligned(P)
        BY <1>3 DEF ScanHere
    <3>4. Len(g) = t
      <4>1. \A i \in 1..t : unread[i] \in LineChars
        <5> TAKE i \in 1..t
        <5>1. i \in 1..u
            BY <3>2
        <5> QED BY <1>3, <2>20, <5>1
      <4>2. Len(g) = IF 1 <= t THEN t - 1 + 1 ELSE 0
          BY <2>22, <3>2, <4>1, SubSeqProperties
      <4> QED BY <3>2, <4>2
    <3>5. g # <<>>
      <4>1. Len(g) # 0
          BY <3>2, <3>4
      <4> QED BY <1>9, <4>1
    <3>6. /\ text' = 0 /\ ch_buf' = moved \o g /\ unread' = SubSeq(unread, t + 1, Len(unread)) /\ UNCHANGED <<shell, wholeLine>>
          /\ status' = "normal" /\ lxpc' = "scan" /\ buf_size' = size
        BY <1>1, <2>1, <3>4, <3>5
    <3>7. m \in Nat /\ m = Len(ch_buf) - text /\ t \in Nat /\ t <= Len(unread) /\ g = SubSeq(unread, 1, t) /\ P \in Nat
        BY <1>23, <2>20, <2>22, <3>2
    <3>8. /\ ch_buf' \in Seq(LineChars) /\ Len(ch_buf') = m + t /\ unread' \in Seq(LineChars) /\ Aligned(P)'
      <4>1. MshReads(moved, g, m, t)
          BY <1>4, <3>6, <3>7 DEF MshReads
      <4> QED BY ONLY <1>2, <1>10, <3>3, <3>7, <4>1, AlignedRefill, Zenon
    <3>9. m + t < size
        BY <1>6, <1>7, <1>23, <3>2
    <3>10. LexTypes'
        BY <1>1, <1>3, <1>6, <3>6, <3>8, <3>9 DEF LexTypes
    <3>11. ScanHere(P)'
        BY <1>1, <3>8 DEF ScanHere
    <3> QED BY <1>1, <1>2, <3>6, <3>10, <3>11 DEF LexInv
  <2> QED BY <1>1, <2>2, <2>3 DEF LexInv
<1>11. CASE shell = "mysh"
  <2> PICK P \in Nat : ScanHere(P)
      BY <1>1, <1>11 DEF LexInv
  <2>1. /\ buf_size' = size /\ text' = 0 /\ unread' = unread
        /\ Len(wholeLine) < max => ch_buf' = moved \o wholeLine /\ status' = "normal" /\ lxpc' = lxpc
        /\ ~(Len(wholeLine) < max) => lxpc' = "fatal" /\ UNCHANGED <<ch_buf, status>>
      BY <1>3, <1>8, <1>11, <1>20, <1>21, <1>22, RefillMysh
  <2>2. text = Len(ch_buf) /\ P = 0
      BY <1>1, <1>2, <1>11, MoreToCome
  <2>3. m = 0
      BY <1>23, <1>24, <2>2
  <2>4. CASE ~(Len(wholeLine) < max)
    <3>1. lxpc' = "fatal" /\ ch_buf' = ch_buf /\ status' = status /\ text' = 0 /\ unread' = unread /\ buf_size' = size
        BY <2>1, <2>4
    <3>2. 0 \in 0..Len(ch_buf) /\ Len(ch_buf) < size
      <4>1. b < buf_size /\ buf_size \in Nat
          BY <1>3, <1>24
      <4> QED BY <1>6, <1>24, <4>1
    <3>3. LexTypes'
        BY <1>1, <1>3, <1>6, <3>1, <3>2 DEF LexTypes
    <3> QED BY <3>1, <3>3 DEF LexInv
  <2>5. CASE Len(wholeLine) < max
    <3>10. PICK n \in Nat : n = Len(wholeLine)
        BY <1>3
    <3>1. moved = <<>>
        BY <1>4, <2>3, EmptySeq
    <3>2. ch_buf' = wholeLine
      <4>1. ch_buf' = <<>> \o wholeLine
          BY <2>1, <2>5, <3>1
      <4> QED BY <1>3, <4>1
    <3>3. status' = "normal" /\ lxpc' = "scan" /\ text' = 0 /\ unread' = unread /\ buf_size' = size
        BY <1>1, <2>1, <2>5
    <3>4. n < size /\ 0 \in 0..n
        BY <1>6, <1>7, <1>23, <2>5, <3>10
    <3>5. LexTypes'
        BY <1>1, <1>3, <1>6, <3>10, <3>2, <3>3, <3>4 DEF LexTypes
    <3>6. Aligned(0)'
      <4>1. \A i \in 1..(n - 0) : wholeLine[0 + i] = wholeLine[0 + i]
          OBVIOUS
      <4> QED BY <1>1, <1>11, <3>2, <3>3, <3>10, <4>1 DEF Aligned
    <3>7. ScanHere(0)'
        BY <1>1, <2>2, <3>6 DEF ScanHere
    <3> QED BY <1>1, <1>2, <3>3, <3>5, <3>7 DEF LexInv
  <2> QED BY <2>4, <2>5
<1> QED BY <1>3, <1>10, <1>11

\* Every step of the scanner.
LEMMA LexStep == LexInv /\ [LexerNext]_lexVars => LexInv'
<1> SUFFICES ASSUME LexInv, [LexerNext]_lexVars PROVE LexInv'
    OBVIOUS
<1>1. CASE rule
    BY <1>1, LexRule
<1>2. CASE yy_get_next_buffer
    BY <1>2, LexRefill
<1>3. ASSUME NEW l \in Lines, yylex(l) PROVE LexInv'
    BY <1>3, LexCalled
<1>4. CASE UNCHANGED lexVars
    BY <1>4 DEF lexVars, LexInv, LexTypes, LineOK, ScanDone, ScanHere, Aligned
<1> QED BY <1>1, <1>2, <1>3, <1>4 DEF LexerNext

(* The scanners' inductive invariant gives their types and the exactness of the scan. *)
LEMMA LexImplies == LexInv => LexerTypeOK /\ ScannerExact
<1> SUFFICES ASSUME LexInv PROVE LexerTypeOK /\ ScannerExact
    OBVIOUS
<1>1. LexerTypeOK
    BY DEF LexInv, LexTypes, LexerTypeOK
<1>2. BufferNotOverrun
    BY DEF LexInv, LexTypes, BufferNotOverrun
<1>3. TokensSurviveRefills
  <2>1. TokensOf(wholeLine) = ScanOf(shell, wholeLine)[Len(wholeLine)].toks
      BY ScanIsScanOf DEF TokensOf
  <2> QED BY <2>1 DEF LexInv, ScanDone, TokensSurviveRefills
<1> QED BY <1>1, <1>2, <1>3 DEF ScannerExact

-----------------------------------------------------------------------------
(* The types of the other programs *)

\* A handler is on the stack once at most, nested or not.
Stacked(list) == list \in Seq(Frames) /\ \A i, j \in 1..Len(list) : list[i].sig = list[j].sig => i = j

MonKeeps ==
    /\ intrs \in 0..MaxIntr /\ procFile \in {"open", "closed"}
    /\ ended \in {"no", "killed", "exit", "undefined"} /\ Stacked(frames)

(* A monitor started by the shell has no handler on its stack. *)
LEMMA MonKeepsInit == MonInit => MonKeeps
<1> SUFFICES ASSUME MonInit PROVE MonKeeps
    OBVIOUS
<1>1. <<>> \in Seq(Frames) /\ Len(<<>>) = 0
    OBVIOUS
<1>2. Stacked(<<>>)
    BY <1>1 DEF Stacked
<1> QED BY <1>2, MonAssumption DEF MonInit, MonKeeps

\* The running handler goes on.
LEMMA StackedTop ==
    ASSUME NEW list, Stacked(list), list # <<>>, NEW f \in Frames, f.sig = list[Len(list)].sig
    PROVE  Stacked([list EXCEPT ![Len(list)] = f])
<1> PICK n \in Nat : n = Len(list)
    BY DEF Stacked
<1> PICK l2 : l2 = [list EXCEPT ![n] = f]
    OBVIOUS
<1>1. n \in 1..Len(list) /\ list \in Seq(Frames)
    BY EmptySeq DEF Stacked
<1>2. l2 \in Seq(Frames) /\ Len(l2) = n /\ \A i \in 1..n : l2[i] = IF i = n THEN f ELSE list[i]
    BY <1>1
<1>3. \A i \in 1..n : l2[i].sig = list[i].sig
    BY <1>2
<1>4. \A i, j \in 1..n : l2[i].sig = l2[j].sig => i = j
    BY <1>3 DEF Stacked
<1> QED BY <1>2, <1>4 DEF Stacked

\* A step of it.
LEMMA StackedGoto ==
    ASSUME Stacked(frames), frames # <<>>, NEW a \in {"open", "read", "assign", "print", "save"}, Goto(a)
    PROVE  Stacked(frames')
<1> PICK n \in Nat : n = Len(frames)
    BY DEF Stacked
<1> PICK f : f = frames[n]
    OBVIOUS
<1>1. f \in Frames
    BY EmptySeq DEF Stacked
<1>2. PICK s, t, v : f = [sig |-> s, at |-> t, value |-> v] /\ s \in Alarms /\ v \in Int
    BY <1>1 DEF Frames
<1> PICK z : z = [sig |-> s, at |-> a, value |-> v]
    OBVIOUS
<1>3. [f EXCEPT !.at = a] = z
    BY <1>2
<1>4. z \in Frames /\ z.sig = f.sig
    BY <1>2 DEF Frames
<1>5. frames' = [frames EXCEPT ![n] = z]
    BY <1>3 DEF Goto
<1> QED BY <1>4, <1>5, StackedTop

(* Every step of the monitor keeps its types, and at most one frame per signal on the stack. *)
LEMMA MonKeepsStep == MonKeeps /\ [MonNext]_monVars => MonKeeps'
<1> SUFFICES ASSUME MonKeeps, [MonNext]_monVars PROVE MonKeeps'
    OBVIOUS
<1>0. /\ intrs \in 0..MaxIntr /\ procFile \in {"open", "closed"}
      /\ ended \in {"no", "killed", "exit", "undefined"} /\ Stacked(frames)
    BY DEF MonKeeps
<1>1. CASE main_step \/ Interrupt \/ clean \/ sigh_fail \/ UNCHANGED monVars
  <2>1. UNCHANGED <<frames, procFile>> /\ ended' \in {ended, "exit"}
      BY <1>1 DEF main_step, Interrupt, clean, sigh_fail, monVars
  <2>2. intrs' \in 0..MaxIntr
      BY <1>0, <1>1, MonAssumption DEF main_step, Interrupt, clean, sigh_fail, monVars
  <2> QED BY <1>0, <2>1, <2>2 DEF MonKeeps
<1>2. ASSUME NEW k \in Alarms, Expire(k) PROVE MonKeeps'
  <2>1. UNCHANGED <<intrs, frames, procFile, ended>>
      BY <1>2 DEF Expire
  <2> QED BY <1>0, <2>1 DEF MonKeeps
<1>3. ASSUME NEW k \in Alarms, Deliver(k) PROVE MonKeeps'
  <2>1. UNCHANGED <<intrs, procFile>> /\ ended' \in {ended, "killed"}
      BY <1>3 DEF Deliver
  <2>2. CASE ~Installed(k)
    <3>1. frames' = frames
        BY <1>3, <2>2 DEF Deliver
    <3> QED BY <1>0, <2>1, <3>1 DEF MonKeeps
  <2>3. CASE Installed(k)
    <3> PICK n \in Nat : n = Len(frames)
        BY <1>0 DEF Stacked
    <3> PICK f : f = [sig |-> k, at |-> "open", value |-> 0]
        OBVIOUS
    <3>1. f \in Frames /\ f.sig = k
        BY DEF Frames
    <3>2. frames' = Append(frames, f)
        BY <1>3, <2>3 DEF Deliver
    <3>3. \A i \in 1..n : frames[i].sig # k
        BY <1>0, <1>3 DEF Deliver, Stacked
    <3>4. frames \in Seq(Frames)
        BY <1>0 DEF Stacked
    <3>5. /\ frames' \in Seq(Frames) /\ Len(frames') = n + 1 /\ \A i \in 1..n : frames'[i] = frames[i]
          /\ frames'[n + 1] = f
        BY <3>1, <3>2, <3>4, AppendProperties
    <3>6. \A i, j \in 1..(n + 1) : frames'[i].sig = frames'[j].sig => i = j
      <4> TAKE i, j \in 1..(n + 1)
      <4>1. \A x \in 1..(n + 1) : x \in 1..n \/ x = n + 1
          OBVIOUS
      <4> QED BY <1>0, <3>1, <3>3, <3>5, <4>1 DEF Stacked
    <3>7. Stacked(frames')
        BY <3>5, <3>6 DEF Stacked
    <3> QED BY <1>0, <2>1, <3>7 DEF MonKeeps
  <2> QED BY <2>2, <2>3
<1>4. CASE read_intr_open
  <2>1. UNCHANGED intrs /\ frames # <<>>
      BY <1>4 DEF read_intr_open, At
  <2>2. CASE procFile' = "open" /\ Goto("read") /\ UNCHANGED ended
      BY <1>0, <2>1, <2>2, StackedGoto DEF MonKeeps
  <2>3. CASE ended' = "exit" /\ UNCHANGED <<procFile, frames>>
      BY <1>0, <2>1, <2>3 DEF MonKeeps
  <2> QED BY <1>4, <2>2, <2>3 DEF read_intr_open
<1>5. CASE read_intr
  <2>1. UNCHANGED intrs /\ frames # <<>>
      BY <1>5 DEF read_intr, At
  <2>2. CASE procFile = "open"
    <3> PICK n \in Nat : n = Len(frames)
        BY <1>0 DEF Stacked
    <3> PICK f : f = frames[n]
        OBVIOUS
    <3>1. f \in Frames
        BY <1>0, <2>1, EmptySeq DEF Stacked
    <3>2. PICK s, t, v : f = [sig |-> s, at |-> t, value |-> v] /\ s \in Alarms
        BY <3>1 DEF Frames
    <3>r. PICK r \in {intrs, NotFound} :
             /\ frames' = [frames EXCEPT ![n] = [f EXCEPT !.at = "assign", !.value = r]]
             /\ procFile' \in {procFile, "closed"} /\ UNCHANGED ended
        BY <1>5, <2>2 DEF read_intr
    <3> PICK z : z = [sig |-> s, at |-> "assign", value |-> r]
        OBVIOUS
    <3>3. [f EXCEPT !.at = "assign", !.value = r] = z
      <4>1. PICK e : e = [f EXCEPT !.at = "assign"]
          OBVIOUS
      <4>2. e = [sig |-> s, at |-> "assign", value |-> v]
          BY <3>2, <4>1
      <4>3. [e EXCEPT !.value = r] = z
          BY <4>2
      <4> QED BY <4>1, <4>3
    <3>4. z \in Frames /\ z.sig = f.sig
        BY <1>0, <3>2, MonAssumption DEF Frames, NotFound
    <3>5. frames' = [frames EXCEPT ![n] = z] /\ procFile' \in {procFile, "closed"} /\ UNCHANGED ended
        BY <3>r, <3>3
    <3>6. Stacked(frames')
        BY <1>0, <2>1, <3>4, <3>5, StackedTop
    <3> QED BY <1>0, <2>1, <3>5, <3>6 DEF MonKeeps
  <2>3. CASE procFile # "open"
    <3>1. ended' = "undefined" /\ UNCHANGED <<frames, procFile>>
        BY <1>5, <2>3 DEF read_intr
    <3> QED BY <1>0, <2>1, <3>1 DEF MonKeeps
  <2> QED BY <2>2, <2>3
<1>6. CASE sigh_assign \/ sigh_print
  <2>1. UNCHANGED <<intrs, procFile, ended>> /\ frames # <<>> /\ (Goto("print") \/ Goto("save"))
      BY <1>6 DEF sigh_assign, sigh_print, At
  <2>2. Stacked(frames')
      BY <1>0, <2>1, StackedGoto
  <2> QED BY <1>0, <2>1, <2>2 DEF MonKeeps
<1>7. CASE sigh_save
  <2>1. UNCHANGED <<intrs, procFile, ended>> /\ frames # <<>> /\ frames' = SubSeq(frames, 1, Len(frames) - 1)
      BY <1>7 DEF sigh_save, At, Front
  <2> PICK n \in Nat : n = Len(frames)
      BY <1>0 DEF Stacked
  <2>2. n > 0 /\ frames \in Seq(Frames)
      BY <1>0, <2>1, EmptySeq DEF Stacked
  <2>3. \A i \in 1..(n - 1) : frames[i] \in Frames
      BY <2>2
  <2>4. /\ frames' \in Seq(Frames) /\ Len(frames') = (IF 1 <= n - 1 THEN n - 1 - 1 + 1 ELSE 0)
        /\ \A i \in 1..(n - 1 - 1 + 1) : frames'[i] = frames[1 + i - 1]
      BY <2>1, <2>2, <2>3, SubSeqProperties
  <2>5. Len(frames') = n - 1 /\ \A i \in 1..(n - 1) : frames'[i] = frames[i]
      BY <2>2, <2>4
  <2>6. Stacked(frames')
      BY <1>0, <2>2, <2>4, <2>5 DEF Stacked
  <2> QED BY <1>0, <2>1, <2>6 DEF MonKeeps
<1> QED BY <1>1, <1>2, <1>3, <1>4, <1>5, <1>6, <1>7 DEF MonNext

\* With three signals the stack holds three handlers at most.
LEMMA MonTyped == main \in 1..7 /\ pendingSig \subseteq Alarms /\ MonKeeps => MonTypeOK
<1> SUFFICES ASSUME main \in 1..7, pendingSig \subseteq Alarms, MonKeeps PROVE MonTypeOK
    OBVIOUS
<1>1. frames \in Seq(Frames) /\ \A i, j \in 1..Len(frames) : frames[i].sig = frames[j].sig => i = j
    BY DEF MonKeeps, Stacked
<1>4. \A f \in Frames : f.sig \in Alarms
    BY DEF Frames
<1>2. \A i \in 1..Len(frames) : frames[i].sig \in Alarms
  <2> PICK n \in Nat : n = Len(frames)
      BY <1>1
  <2>1. \A i \in 1..n : frames[i] \in Frames
      BY <1>1
  <2> QED BY <1>4, <2>1
<1>3. Len(frames) <= 3
  <2> PICK n \in Nat : n = Len(frames)
      BY <1>1
  <2> SUFFICES ASSUME n > 3 PROVE FALSE
      OBVIOUS
  <2>1. 1 \in 1..n /\ 2 \in 1..n /\ 3 \in 1..n /\ 4 \in 1..n
      OBVIOUS
  <2>2. /\ frames[1].sig # frames[2].sig /\ frames[1].sig # frames[3].sig /\ frames[1].sig # frames[4].sig
        /\ frames[2].sig # frames[3].sig /\ frames[2].sig # frames[4].sig /\ frames[3].sig # frames[4].sig
      BY <1>1, <2>1
  <2>3. frames[1].sig \in Alarms /\ frames[2].sig \in Alarms /\ frames[3].sig \in Alarms /\ frames[4].sig \in Alarms
      BY <1>2, <2>1
  <2> QED BY <2>2, <2>3 DEF Alarms
<1> QED BY <1>3 DEF MonKeeps, MonTypeOK

\* The objects of a list have the types of objects.
LEMMA ObjectsTyped ==
    ASSUME NEW list \in Seq(ArrayType)
    PROVE  Objects(list) \subseteq {"item", "array", "quantum"} \X Nat \X (0..(QSet - 1))
<1>1. 0 \in 0..(QSet - 1)
    BY ScullAssumption
<1>2. \A i \in DOMAIN list : i \in Nat
    OBVIOUS
<1>3. ASSUME NEW i \in DOMAIN list PROVE <<"item", i, 0>> \in {"item", "array", "quantum"} \X Nat \X (0..(QSet - 1))
    BY <1>1, <1>2
<1>4. ASSUME NEW i \in DOMAIN list PROVE <<"array", i, 0>> \in {"item", "array", "quantum"} \X Nat \X (0..(QSet - 1))
    BY <1>1, <1>2
<1>5. {"quantum"} \X (DOMAIN list) \X (0..(QSet - 1)) \subseteq {"item", "array", "quantum"} \X Nat \X (0..(QSet - 1))
    BY <1>2
<1> QED BY <1>3, <1>4, <1>5 DEF Objects

(* The bare device's inductive invariant gives its types. *)
LEMMA ScullTyped == ScullInv => ScullTypeOK
<1> SUFFICES ASSUME ScullInv PROVE ScullTypeOK
    OBVIOUS
<1>1. items \in Seq(ArrayType) /\ heap = Objects(items) /\ dsize \in Nat /\ fpos \in Nat /\ wild \in BOOLEAN
      /\ undef \in {"no", "followed", "cleared"}
    BY ScullAssumption DEF ScullInv
<1>2. \A i \in DOMAIN items : items[i] = NoArray \/ items[i] \subseteq 0..(QSet - 1)
    BY <1>1 DEF ArrayType
<1>3. heap \subseteq {"item", "array", "quantum"} \X Nat \X (0..(QSet - 1))
    BY <1>1, ObjectsTyped
<1> QED BY <1>1, <1>2, <1>3 DEF ScullTypeOK

-----------------------------------------------------------------------------
(* The theorems of the composition *)

\* The shells, the observers, the scanners and the monitor take their own steps
\* in the composition.
LEMMA UserProgramsMove ==
    /\ MCInit => SigInit /\ ObserverInit /\ BgInit /\ LexerInit /\ MonInit
    /\ [MCNext]_vars => [SigNext]_sigVars /\ [ObserverNext]_obsVars /\ [BgNext]_bgVars /\ [LexerNext]_lexVars /\ [MonNext]_monVars
BY DEF MCInit, MCNext, Rest, vars

\* Whichever files cannot be opened or are empty, a report leaves at most one
\* stream open, the real-time clock's or that of an empty /proc/uptime; the
\* uptime and the idle time are cut into days, hours, minutes and seconds that
\* add up to them; and part d samples exactly when it is due, for every interval
\* and duration.
THEOREM ReportsAreRight == MCSpec => []ReportsRight
<1>1. ObserverInv => ReportsRight
    BY ObserverImplies
<1> QED
    BY <1>1, UserProgramsMove, ObserverInitOK, ObserverStep, PTL DEF MCSpec

\* However children end, numbers are used again and the table fills up: the table
\* of one shell holds exactly its unreaped background children that found room,
\* once each and under their own commands, and announces them so; its variables
\* read as they were given last as long as setenv was used for one name only.
\* The other leaves a zombie only where signals merged, and comes back to its
\* prompt before its foreground command has ended only if its wait was cut short.
THEOREM ShellsTrack == MCSpec => []ShellsKeepTrack
<1>1. BgInv /\ SigInv => ShellsKeepTrack
    BY BgImplies, SigImplies DEF ShellsKeepTrack
<1> QED
    BY <1>1, UserProgramsMove, BgInitOK, BgStep, SigInitOK, SigStep, PTL DEF MCSpec

\* Wherever the pieces of a line end and however often the buffer is moved and
\* grown, the scanners return the tokens of the line, within the buffer.
THEOREM ScannerIsExact == MCSpec => []ScannerExact
<1>1. LexInv => ScannerExact
    BY LexImplies
<1> QED
    BY <1>1, UserProgramsMove, LexInitOK, LexStep, PTL DEF MCSpec

\* The invariants of all thirteen programs.
AllInv ==
    /\ ScullInv /\ CharInv /\ ProcInv /\ HookInv /\ TimersInv /\ FibInv /\ MonInv /\ MonKeeps /\ ClockInv
    /\ ObserverInv /\ ChkeyInv /\ BgInv /\ LexInv /\ SigInv

\* They give every variable its type.
LEMMA AllTyped == AllInv => ProgramsTypeOK
<1> SUFFICES ASSUME AllInv PROVE ProgramsTypeOK
    OBVIOUS
<1>1. ScullTypeOK /\ MonTypeOK
    BY ScullTyped, MonTyped DEF AllInv, MonInv
<1>2. CharTypeOK /\ HookTypeOK /\ ClockTypeOK
    BY DEF AllInv, CharInv, HookInv, HookTypes, ClockInv
<1>3. ProcTypeOK
    BY DEF AllInv, ProcInv, ProcTypes, ProcTypeOK
<1>4. ChkeyTypeOK
    BY DEF AllInv, ChkeyInv, ChkeyTypes, ChkeyTypeOK
<1>5. TimersTypeOK /\ FibTypeOK
    BY TimersImplies, FibImplies DEF AllInv
<1>6. ObserverTypeOK /\ BgTypeOK /\ LexerTypeOK /\ SigTypeOK
    BY ObserverImplies, BgImplies, LexImplies, SigImplies DEF AllInv
<1> QED BY <1>1, <1>2, <1>3, <1>4, <1>5, <1>6 DEF ProgramsTypeOK

\* They hold at the start,
LEMMA AllStart == MCInit => AllInv
BY ProgramStarts, TimerProgramsMove, UserProgramsMove, ScullInitOK, CharInitOK, ProcInitOK, HookInitOK, TimersInitOK,
   FibInitOK, MonInitOK, MonKeepsInit, ClockInitOK, ObserverInitOK, ChkeyInitOK, BgInitOK, LexInitOK, SigInitOK
   DEF AllInv

\* and every step of the composition keeps them.
LEMMA AllStep == AllInv /\ [MCNext]_vars => AllInv'
BY ProgramSteps, TimerProgramsMove, UserProgramsMove, ScullStep, CharStep, ProcStep, HookStep, TimersStep,
   FibStep, MonStep, MonKeepsStep, ClockStep, ObserverStep, ChkeyStep, BgStep, LexStep, SigStep
   DEF AllInv

\* Whatever the programs do, each of their variables keeps its type.
THEOREM ProgramTypesKept == MCSpec => []ProgramsTypeOK
BY AllTyped, AllStart, AllStep, PTL DEF MCSpec
=============================================================================
