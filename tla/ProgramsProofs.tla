--------------------------- MODULE ProgramsProofs ---------------------------
(***************************************************************************)
(* Proofs about the kernel modules and user programs that MCPrograms puts  *)
(* side by side, for every value of their constants.                       *)
(***************************************************************************)
EXTENDS MCPrograms, SequenceTheorems, FiniteSetTheorems, TLAPS

-----------------------------------------------------------------------------
(* chkey.c *)

\* What a program was asked to write fits the value, and so do all readings.
ChkeyTypes ==
    /\ kernel \in [Keys -> KeyValues] /\ intended \in [Keys -> KeyValues] /\ overlap \subseteq Keys
    /\ cpc \in [Runs -> {"idle", "sysrq", "cad", "parse", "write", "exit", "crash"}]
    /\ job \in [Runs -> Jobs] /\ got \in [Runs -> [Keys -> KeyValues]]
    /\ \A r \in Runs : cpc[r] = "write" => job[r].op \in {"set", "reverse"}

\* Until writes of a key have overlapped, the kernel has the intended value,
\* and it is the one every program holds that will write its reverse.
ReadingsFresh ==
    \A k \in Keys \ overlap :
       /\ kernel[k] = intended[k]
       /\ \A r \in Runs : Between(r, k) => got[r][k] = kernel[k]

ChkeyInv == ChkeyTypes /\ ReadingsFresh

\* ChkeyInv holds at the start.
LEMMA ChkeyInitOK == ChkeyInit => ChkeyInv
BY ChkeyAssumption DEF ChkeyInit, ChkeyInv, ChkeyTypes, ReadingsFresh, Between, Keys, KeyValues, Jobs

\* What a write puts into the kernel is a value of the kernel's type.
LEMMA NewValueType ==
    ASSUME ChkeyTypes, NEW r \in Runs, job[r].key \in Keys, job[r].op \in {"set", "reverse"}
    PROVE  NewValue(r) \in KeyValues
<1>1. job[r] \in Jobs
    BY DEF ChkeyTypes
<1>2. job[r].op = "set" => job[r].value \in KeyValues
    BY <1>1 DEF Jobs
<1>3. got[r][job[r].key] \in 0..Mask
    BY DEF ChkeyTypes, KeyValues
<1>4. Mask - got[r][job[r].key] \in 0..Mask
    BY <1>3, ChkeyAssumption
<1> QED
    BY <1>2, <1>4 DEF NewValue, Reversed, KeyValues

\* Every step of a program keeps ChkeyInv.
LEMMA ChkeyStep == ChkeyInv /\ [ChkeyNext]_chkeyVars => ChkeyInv'
<1> SUFFICES ASSUME ChkeyInv, [ChkeyNext]_chkeyVars PROVE ChkeyInv'
    OBVIOUS
<1> USE DEF ChkeyInv
<1>1. CASE UNCHANGED chkeyVars
    BY <1>1 DEF chkeyVars, ChkeyTypes, ReadingsFresh, Between
<1>2. ASSUME NEW r \in Runs, chkey_start(r) PROVE ChkeyInv'
    <2>1. ChkeyTypes'
        BY <1>2 DEF chkey_start, ChkeyTypes
    <2>2. ReadingsFresh'
        BY <1>2 DEF chkey_start, ReadingsFresh, Between, ChkeyTypes
    <2> QED BY <2>1, <2>2
<1>3. ASSUME NEW r \in Runs, NEW k \in Keys, readKey(r, k) PROVE ChkeyInv'
    <2>1. ChkeyTypes'
        <3>1. got' \in [Runs -> [Keys -> KeyValues]]
            <4>1. [got[r] EXCEPT ![k] = kernel[k]] \in [Keys -> KeyValues]
                BY DEF ChkeyTypes
            <4> QED BY <1>3, <4>1 DEF readKey, ChkeyTypes
        <3>2. cpc' \in [Runs -> {"idle", "sysrq", "cad", "parse", "write", "exit", "crash"}]
            BY <1>3 DEF readKey, ChkeyTypes
        <3>3. \A q \in Runs : cpc'[q] = "write" => job'[q].op \in {"set", "reverse"}
            BY <1>3 DEF readKey, ChkeyTypes
        <3> QED BY <1>3, <3>1, <3>2, <3>3 DEF readKey, ChkeyTypes
    <2>2. ReadingsFresh'
        <3> SUFFICES ASSUME NEW j \in Keys \ overlap', NEW q \in Runs, Between(q, j)' PROVE got'[q][j] = kernel'[j]
            BY <1>3 DEF readKey, ReadingsFresh
        <3>1. got[q][j] = kernel[j] \/ ~Between(q, j)
            BY <1>3 DEF readKey, ReadingsFresh
        <3>2. CASE q # r
            BY <1>3, <3>1, <3>2 DEF readKey, Between, ChkeyTypes
        <3>3. CASE q = r /\ j = k
            BY <1>3, <3>1, <3>3 DEF readKey, Between, ChkeyTypes, Keys
        <3>4. CASE q = r /\ j # k
            BY <1>3, <3>1, <3>4 DEF readKey, Between, ChkeyTypes, Keys
        <3> QED BY <3>2, <3>3, <3>4
    <2> QED BY <2>1, <2>2
<1>4. ASSUME NEW r \in Runs, chkey_parse(r) PROVE ChkeyInv'
    <2>1. ChkeyTypes'
        BY <1>4 DEF chkey_parse, ChkeyTypes
    <2>2. ReadingsFresh'
        BY <1>4 DEF chkey_parse, ReadingsFresh, Between, ChkeyTypes
    <2> QED BY <2>1, <2>2
<1>5. ASSUME NEW r \in Runs, NEW k \in Keys, writeKey(r, k) PROVE ChkeyInv'
    <2>0. job[r].op \in {"set", "reverse"}
        BY <1>5 DEF writeKey, ChkeyTypes
    <2>1. NewValue(r) \in KeyValues
        BY <1>5, <2>0, NewValueType DEF writeKey
    <2>2. (job[r].op = "set" => job[r].value \in KeyValues) /\ Mask - intended[k] \in KeyValues
        <3>1. job[r] \in Jobs /\ intended[k] \in 0..Mask
            BY DEF ChkeyTypes, KeyValues
        <3> QED BY <3>1, ChkeyAssumption DEF Jobs, KeyValues
    <2>3. ChkeyTypes'
        <3>1. kernel' \in [Keys -> KeyValues] /\ overlap' \subseteq Keys
            BY <1>5, <2>1 DEF writeKey, ChkeyTypes
        <3>2. intended' \in [Keys -> KeyValues]
            BY <1>5, <2>0, <2>2 DEF writeKey, ChkeyTypes
        <3>3. cpc' \in [Runs -> {"idle", "sysrq", "cad", "parse", "write", "exit", "crash"}]
            BY <1>5 DEF writeKey, ChkeyTypes
        <3>4. \A q \in Runs : cpc'[q] = "write" => job'[q].op \in {"set", "reverse"}
            BY <1>5 DEF writeKey, ChkeyTypes
        <3> QED BY <1>5, <3>1, <3>2, <3>3, <3>4 DEF writeKey, ChkeyTypes
    <2>4. ReadingsFresh'
        <3> SUFFICES ASSUME NEW j \in Keys \ overlap'
                     PROVE  /\ kernel'[j] = intended'[j]
                            /\ \A q \in Runs : Between(q, j)' => got'[q][j] = kernel'[j]
            BY DEF ReadingsFresh
        <3>1. j \notin overlap /\ kernel[j] = intended[j] /\ \A q \in Runs : Between(q, j) => got[q][j] = kernel[j]
            BY <1>5 DEF writeKey, ReadingsFresh
        <3>2. \A q \in Runs : Between(q, j)' => Between(q, j) /\ q # r
            BY <1>5 DEF writeKey, Between, ChkeyTypes
        <3>3. CASE j = k /\ overlap' # overlap
            BY <1>5, <3>1, <3>3 DEF writeKey
        <3>4. CASE j # k
            BY <1>5, <3>1, <3>2, <3>4 DEF writeKey, ChkeyTypes
        <3>5. CASE UNCHANGED <<kernel, intended>>
            BY <1>5, <3>1, <3>2, <3>5 DEF writeKey, ChkeyTypes
        <3>6. CASE j = k /\ ~UNCHANGED <<kernel, intended>>
            <4>1. \A q \in Runs \ {r} : ~Between(q, k)
                BY <1>5, <3>6 DEF writeKey
            <4>0. (job[r].op = "set" \/ job[r].op = "reverse") /\ job[r].key = k
                BY <1>5, <2>0 DEF writeKey
            <4>2. kernel'[k] = NewValue(r) /\ intended'[k] = IF job[r].op = "set" THEN job[r].value ELSE Mask - intended[k]
                BY <1>5, <3>6 DEF writeKey, ChkeyTypes
            <4>3. job[r].op = "reverse" => got[r][k] = intended[k]
                BY <1>5, <3>1, <3>6 DEF writeKey, Between
            <4>4. kernel'[k] = intended'[k]
                BY <4>0, <4>2, <4>3 DEF NewValue, Reversed
            <4> QED BY <3>2, <3>6, <4>1, <4>4
        <3> QED BY <3>3, <3>4, <3>5, <3>6
    <2> QED BY <2>3, <2>4
<1> QED
    BY <1>1, <1>2, <1>3, <1>4, <1>5
    DEF ChkeyNext, readSysrq, readCad, write_sysrq, write_cad, Keys

\* The kernel's values are those that writes in one step would give, until a
\* write of the same key comes between the reading and the writing of a reversal.
THEOREM ReversalsKept == ChkeySpec => []ReversalLostOnlyByOverlap
<1>1. ChkeyInv => ReversalLostOnlyByOverlap
    BY DEF ChkeyInv, ReadingsFresh, ReversalLostOnlyByOverlap
<1> QED BY ChkeyInitOK, ChkeyStep, <1>1, PTL DEF ChkeySpec
-----------------------------------------------------------------------------
(* clock.c and mygettimeofday.c *)

\* The child's count is exact, and the parent's does not run ahead of it.
ClockInv ==
    /\ ClockTypeOK /\ EveryTickCarried /\ ParentNeverAhead
    /\ handled \in Nat /\ ticks \in Nat /\ began \in Nat

\* ClockInv holds at the start, in whatever part of a second that is.
LEMMA ClockInitOK == ClockInit => ClockInv
<1> SUFFICES ASSUME ClockInit PROVE ClockInv
    OBVIOUS
<1>1. began \in 0..(PerSecond - 1)
    BY ClockAssumption DEF ClockInit
<1>2. childSig = FALSE /\ parentSig = FALSE
    BY DEF ClockInit
<1>3. began \in Nat /\ subsec = began /\ subsec < PerSecond /\ 0 * PerSecond = 0
    BY <1>1, ClockAssumption DEF ClockInit
<1>4. EveryTickCarried
    BY <1>2, <1>3, ClockAssumption DEF ClockInit, EveryTickCarried
<1> QED BY <1>2, <1>3, <1>4 DEF ClockInit, ClockInv, ClockTypeOK, ParentNeverAhead

\* No step of the two processes, of time or of a handler breaks ClockInv.
LEMMA ClockStep == ClockInv /\ [ClockNext]_clockVars => ClockInv'
<1> SUFFICES ASSUME ClockInv, [ClockNext]_clockVars PROVE ClockInv'
    OBVIOUS
<1> USE ClockAssumption DEF ClockInv, ClockTypeOK, EveryTickCarried, ParentNeverAhead
<1>1. CASE UNCHANGED clockVars
    BY <1>1 DEF clockVars
<1>2. CASE child_step
    BY <1>2 DEF child_step
<1>3. CASE parent_step
    BY <1>3 DEF parent_step
<1>4. CASE ClockTick
    BY <1>4 DEF ClockTick
<1>5. CASE handle
    <2>1. childSig = TRUE /\ childSig' = FALSE
        BY <1>5 DEF handle
    <2>2. CASE child = "timer"
        BY <1>5, <2>1, <2>2 DEF handle
    <2>3. CASE child = "loop" /\ ~Carry(subsec)
        BY <1>5, <2>1, <2>3 DEF handle, Carry
    <2>4. CASE child = "loop" /\ Carry(subsec)
        <3>1. /\ handled' = handled + 1 /\ subsec' = 0 /\ passed_sec' = passed_sec + 1
              /\ UNCHANGED <<child, ticks, began, main_sec, parentAt>>
            BY <1>5, <2>4 DEF handle
        <3>2. (passed_sec + 1) * PerSecond = passed_sec * PerSecond + PerSecond /\ subsec + 1 = PerSecond
            BY <2>4 DEF Carry
        <3>3. EveryTickCarried'
            BY <2>1, <3>1, <3>2
        <3>4. ParentNeverAhead'
            BY <3>1
        <3> QED BY <2>1, <3>1, <3>3, <3>4
    <2> QED BY <1>5, <2>2, <2>3, <2>4 DEF handle
<1>6. CASE action_1s
    <2>1. parentSig = TRUE /\ parentSig' = FALSE
        BY <1>6 DEF action_1s
    <2>2. EveryTickCarried'
        BY <1>6 DEF action_1s
    <2> QED BY <1>6, <2>1, <2>2 DEF action_1s
<1> QED BY <1>1, <1>2, <1>3, <1>4, <1>5, <1>6 DEF ClockNext
-----------------------------------------------------------------------------
(* Loading and unloading of the drivers *)

\* What exists rests on what was set up before it: data and open files on the
\* published device, that on its initialisation and on the array of devices,
\* and the array on the registered numbers.
Layered ==
    /\ devices \subseteq region /\ cdevs \subseteq ready /\ memory \subseteq cdevs
    /\ \A x \in Drivers \X Devs : opened[x] > 0 => x \in cdevs
    /\ \A x \in cdevs : x[1] \in devices

\* How far each module has got: set-up that has allocated nothing yet, set-up in
\* its loop, and clean-up, which has removed the devices before the one at hand.
Stages ==
    \A d \in Drivers :
       /\ mod[d] = "out" => d \notin region
       /\ mod[d] = "coming" => d \in region /\ (d \in devices <=> step[d] # 0)
       /\ mod[d] = "going" => /\ step[d] # 0
                              /\ \A x \in Of(d) : opened[x] = 0
                              /\ \A x \in cdevs : x[1] = d => x[2] >= step[d]

CharInv == CharTypeOK /\ Layered /\ Stages

\* CharInv holds before anything is loaded.
LEMMA CharInitOK == CharInit => CharInv
BY CharAssumption DEF CharInit, CharInv, CharTypeOK, Layered, Stages

\* Every step of loading, use and unloading keeps CharInv.
LEMMA CharStep == CharInv /\ [CharNext]_charVars => CharInv'
<1> SUFFICES ASSUME CharInv, [CharNext]_charVars PROVE CharInv'
    OBVIOUS
<1> USE CharAssumption DEF CharInv
<1>0. Devs \subseteq Nat /\ NrDevs \in Nat /\ \A i \in Devs : i # 0 /\ i + 1 \in 0..(NrDevs + 1)
    BY DEF Devs
<1>1. CASE UNCHANGED charVars
    BY <1>1 DEF charVars, CharTypeOK, Layered, Stages
<1>2. ASSUME NEW d \in Drivers, register_region(d) PROVE CharInv'
    <2>1. CharTypeOK'
        BY <1>2 DEF register_region, CharTypeOK
    <2>2. Layered'
        BY <1>2 DEF register_region, Layered
    <2>3. Stages'
        BY <1>2 DEF register_region, Stages, Layered, CharTypeOK
    <2> QED BY <2>1, <2>2, <2>3
<1>3. ASSUME NEW d \in Drivers, allocate_devices(d) PROVE CharInv'
    <2>1. CharTypeOK'
        BY <1>3 DEF allocate_devices, UnregisterOnFailure, CharTypeOK
    <2>2. Layered'
        BY <1>3 DEF allocate_devices, UnregisterOnFailure, Layered, Stages, CharTypeOK
    <2>3. Stages'
        BY <1>3 DEF allocate_devices, UnregisterOnFailure, Stages, CharTypeOK
    <2> QED BY <2>1, <2>2, <2>3
<1>4. ASSUME NEW d \in Drivers, init_device(d) PROVE CharInv'
    <2>1. CharTypeOK'
        BY <1>4 DEF init_device, CharTypeOK
    <2>2. Layered'
        BY <1>4 DEF init_device, Layered
    <2>3. Stages'
        BY <1>4 DEF init_device, Stages
    <2> QED BY <2>1, <2>2, <2>3
<1>5. ASSUME NEW d \in Drivers, scull_setup_cdev(d) PROVE CharInv'
    <2>1. CharTypeOK'
        BY <1>0, <1>5 DEF scull_setup_cdev, CharTypeOK
    <2>2. Layered'
        BY <1>0, <1>5 DEF scull_setup_cdev, InitOrder, Layered, Stages, CharTypeOK
    <2>3. Stages'
        <3> SUFFICES ASSUME NEW e \in Drivers
                     PROVE /\ mod'[e] = "out" => e \notin region'
                           /\ mod'[e] = "coming" => e \in region' /\ (e \in devices' <=> step'[e] # 0)
                           /\ mod'[e] = "going" => /\ step'[e] # 0
                                                   /\ \A x \in Of(e) : opened'[x] = 0
                                                   /\ \A x \in cdevs' : x[1] = e => x[2] >= step'[e]
            BY DEF Stages
        <3>1. CASE e = d
            BY <1>0, <1>5, <3>1 DEF scull_setup_cdev, Stages, CharTypeOK
        <3>2. CASE e # d
            BY <1>5, <3>2 DEF scull_setup_cdev, Stages, CharTypeOK
        <3> QED BY <3>1, <3>2
    <2> QED BY <2>1, <2>2, <2>3
<1>6. ASSUME NEW x \in Drivers \X Devs, Open(x) PROVE CharInv'
    <2>0. opened' = [opened EXCEPT ![x] = 1] /\ UNCHANGED <<mod, region, devices, ready, cdevs, step, memory>>
        BY <1>6 DEF Open, CharTypeOK
    <2>1. CharTypeOK'
        BY <2>0 DEF CharTypeOK
    <2>2. Layered'
        BY <1>6, <2>0 DEF Open, Layered, CharTypeOK
    <2>3. Stages'
        BY <1>6, <2>0 DEF Open, Stages, CharTypeOK, Of
    <2> QED BY <2>1, <2>2, <2>3
<1>7. ASSUME NEW x \in Drivers \X Devs, Use(x) PROVE CharInv'
    BY <1>7 DEF Use, CharTypeOK, Layered, Stages
<1>8. ASSUME NEW x \in Drivers \X Devs, Close(x) PROVE CharInv'
    <2>0. opened[x] \in Nat /\ opened[x] > 0 /\ opened[x] - 1 \in Nat
        BY <1>8 DEF Close, CharTypeOK
    <2>1. CharTypeOK'
        BY <1>8, <2>0 DEF Close, CharTypeOK
    <2>2. Layered'
        BY <1>8, <2>0 DEF Close, Layered, CharTypeOK
    <2>3. Stages'
        BY <1>8, <2>0 DEF Close, Stages, CharTypeOK, Of
    <2> QED BY <2>1, <2>2, <2>3
<1>9. ASSUME NEW d \in Drivers, rmmod(d) PROVE CharInv'
    <2>1. CharTypeOK'
        BY <1>9 DEF rmmod, CharTypeOK
    <2>2. Layered'
        BY <1>9 DEF rmmod, Layered
    <2>3. \A x \in cdevs : x[2] >= 1
        BY DEF CharTypeOK, Devs
    <2>4. Stages'
        BY <1>9, <2>3 DEF rmmod, NotInUse, Stages, CharTypeOK
    <2> QED BY <2>1, <2>2, <2>4
<1>10. ASSUME NEW d \in Drivers, cleanup_device(d) PROVE CharInv'
    <2>1. CharTypeOK'
        BY <1>0, <1>10 DEF cleanup_device, CharTypeOK
    <2>2. Layered'
        BY <1>10 DEF cleanup_device, Layered, Stages, Of, CharTypeOK
    <2>3. Stages'
        <3>1. \A x \in cdevs' : x[1] = d => x[2] >= step[d] + 1
            <4> SUFFICES ASSUME NEW x \in cdevs', x[1] = d PROVE x[2] >= step[d] + 1
                OBVIOUS
            <4>1. x \in Drivers \X Devs /\ x \in cdevs /\ x # <<d, step[d]>> /\ x[2] >= step[d]
                BY <1>10 DEF cleanup_device, CharTypeOK, Stages
            <4>2. x[2] # step[d]
                BY <4>1
            <4>3. x[2] \in Nat /\ step[d] \in Nat
                BY <1>0, <1>10, <4>1 DEF cleanup_device
            <4> QED BY <4>1, <4>2, <4>3
        <3>2. step'[d] # 0 /\ step'[d] = step[d] + 1
            BY <1>0, <1>10 DEF cleanup_device, CharTypeOK
        <3> QED BY <1>10, <3>1, <3>2 DEF cleanup_device, Stages, CharTypeOK
    <2> QED BY <2>1, <2>2, <2>3
<1>11. ASSUME NEW d \in Drivers, scull_cleanup_module(d) PROVE CharInv'
    <2>1. CharTypeOK'
        BY <1>11 DEF scull_cleanup_module, CharTypeOK
    <2>2. \A x \in cdevs : x[1] # d
        <3> SUFFICES ASSUME NEW x \in cdevs, x[1] = d PROVE FALSE
            OBVIOUS
        <3>1. d \in devices /\ step[d] > NrDevs /\ x[2] >= step[d]
            BY <1>11 DEF scull_cleanup_module, Layered, Stages
        <3>2. x[2] \in 1..NrDevs /\ step[d] \in 0..(NrDevs + 1)
            BY DEF CharTypeOK, Devs
        <3> QED BY <3>1, <3>2
    <2>3. Layered'
        BY <1>11, <2>2 DEF scull_cleanup_module, Layered, CharTypeOK, Of
    <2>4. Stages'
        BY <1>11 DEF scull_cleanup_module, Stages, CharTypeOK
    <2> QED BY <2>1, <2>3, <2>4
<1> QED
    BY <1>1, <1>2, <1>3, <1>4, <1>5, <1>6, <1>7, <1>8, <1>9, <1>10, <1>11 DEF CharNext

\* Users meet ready devices only, and an unloaded driver leaves nothing behind.
LEMMA CharImplies == CharInv => PublishedMeansReady /\ NothingLeftBehind
<1> SUFFICES ASSUME CharInv PROVE PublishedMeansReady /\ NothingLeftBehind
    OBVIOUS
<1>1. PublishedMeansReady
    BY DEF CharInv, Layered, PublishedMeansReady
<1>2. NothingLeftBehind
    <2> SUFFICES ASSUME NEW d \in Drivers, mod[d] = "out"
                 PROVE  /\ d \notin region /\ d \notin devices
                        /\ \A x \in Of(d) : x \notin cdevs /\ x \notin memory /\ opened[x] = 0
        BY DEF NothingLeftBehind
    <2>1. d \notin region /\ d \notin devices
        BY DEF CharInv, Layered, Stages
    <2>2. \A x \in Of(d) : x \notin cdevs /\ x \notin memory
        BY <2>1 DEF CharInv, Layered, Of
    <2>3. \A x \in Of(d) : x \in Drivers \X Devs /\ opened[x] \in Nat
        BY DEF CharInv, CharTypeOK, Of
    <2> QED BY <2>1, <2>2, <2>3 DEF CharInv, Layered
<1> QED BY <1>1, <1>2
-----------------------------------------------------------------------------
(* main.c of the bare scull device *)

\* An array of quanta, or none.
ArrayType == {NoArray} \cup SUBSET (0..(QSet - 1))

\* A call in progress, with a position the file has had.
IOType == [op : {"none", "read", "write"}, pos : Nat, count : Nat]

\* The objects given out are those of the list as the code has built it, which a
\* write's copy may since have overwritten in memory.  A position that is past
\* what the file can be moved to lies within the data.
ScullInv ==
    /\ items \in Seq(ArrayType) /\ heap = Objects(items)
    /\ dsize \in 0..DataSize /\ fpos \in Nat /\ fpos <= MaxPos + DataSize
    /\ vfs \in [ScullProcs -> IOType]
    /\ \A p \in ScullProcs : vfs[p].pos <= MaxPos + DataSize
    /\ wild \in BOOLEAN /\ undef \in {"no", "followed", "cleared"}

\* The list has grown: nothing that was on it is gone.
Grows(list, more) ==
    /\ more \in Seq(ArrayType) /\ Len(list) <= Len(more)
    /\ \A i \in 1..Len(list) : list[i] # NoArray => more[i] # NoArray /\ Array(list[i]) \subseteq Array(more[i])

\* A list that grows keeps its objects.
LEMMA ObjectsGrow ==
    ASSUME NEW list \in Seq(ArrayType), NEW more, Grows(list, more)
    PROVE  Objects(list) \subseteq Objects(more)
<1>1. DOMAIN list = 1..Len(list) /\ DOMAIN more = 1..Len(more) /\ DOMAIN list \subseteq DOMAIN more
    BY DEF Grows
<1>2. \A i \in DOMAIN list : Array(list[i]) \subseteq Array(more[i])
    BY <1>1 DEF Grows, Array
<1>3. \A i \in DOMAIN list : list[i] # NoArray => more[i] # NoArray
    BY <1>1 DEF Grows
<1> QED BY <1>1, <1>2, <1>3 DEF Objects

\* The index of a quantum is one of its array.
LEMMA SPosRange == ASSUME NEW pos \in Nat PROVE SPos(pos) \in 0..(QSet - 1) /\ Item(pos) \in Nat \ {0}
<1> DEFINE s == Quantum * QSet
           r == pos % s
           d == r \div Quantum
<1>1. Quantum \in Nat /\ Quantum > 0 /\ QSet \in Nat /\ QSet > 0
    BY ScullAssumption
<1>2. s \in Nat /\ s > 0
    BY <1>1
<1>3. r \in Nat /\ r < s /\ pos \div s \in Nat
    BY <1>2
<1>4. d \in Nat /\ Quantum * d <= r
    BY <1>1, <1>3
<1>5. d < QSet
    <2> SUFFICES ASSUME d >= QSet PROVE FALSE
        BY <1>1, <1>4
    <2>1. Quantum * d >= Quantum * QSet
        BY <1>1, <1>4
    <2> QED BY <1>1, <1>3, <1>4, <2>1
<1> QED BY <1>1, <1>3, <1>4, <1>5 DEF SPos, Item

\* What scull_follow makes of the list is the list with more items.
LEMMA FollowGrows ==
    ASSUME items \in Seq(ArrayType), NEW n \in Nat, NEW list \in scull_follow(n)
    PROVE  list \in Seq(ArrayType) /\ Grows(items, list)
<1>1. CASE list = items
    BY <1>1 DEF Grows
<1>2. ASSUME NEW k \in Nat, list = items \o [i \in 1..k |-> NoArray] PROVE list \in Seq(ArrayType) /\ Grows(items, list)
    <2>1. [i \in 1..k |-> NoArray] \in Seq(ArrayType) /\ Len([i \in 1..k |-> NoArray]) = k
        BY DEF ArrayType
    <2>2. list \in Seq(ArrayType) /\ Len(list) = Len(items) + k
        BY <1>2, <2>1
    <2>3. \A i \in 1..Len(items) : list[i] = items[i]
        BY <1>2, <2>1
    <2> QED BY <2>2, <2>3 DEF Grows
<1>3. Len(items) \in Nat
    OBVIOUS
<1>4. list = items \/ \E k \in Nat : list = items \o [i \in 1..k |-> NoArray]
    <2>1. 1..(IF n > Len(items) THEN n - Len(items) ELSE 0) \subseteq Nat
        BY <1>3
    <2> QED BY <2>1 DEF scull_follow
<1> QED BY <1>1, <1>2, <1>3, <1>4

\* The allocations of a write only add to the list.
LEMMA AllocatedGrows ==
    ASSUME items \in Seq(ArrayType), NEW pos \in Nat, NEW list \in Allocated(pos)
    PROVE  list \in Seq(ArrayType) /\ Grows(items, list)
<1> DEFINE n == Item(pos)
<1>1. n \in Nat \ {0} /\ SPos(pos) \in 0..(QSet - 1)
    BY SPosRange
<1>2. PICK base \in scull_follow(n) : \/ list = base
                                      \/ Len(base) >= n /\ list = [base EXCEPT ![n] = Array(@)]
                                      \/ Len(base) >= n /\ list = [base EXCEPT ![n] = Array(@) \cup {SPos(pos)}]
    BY <1>1, FollowGrows DEF Allocated
<1>3. base \in Seq(ArrayType) /\ Grows(items, base)
    BY <1>1, FollowGrows
<1>4. ASSUME NEW q \in SUBSET (0..(QSet - 1)), Len(base) >= n, Array(base[n]) \subseteq q, list = [base EXCEPT ![n] = q]
      PROVE  list \in Seq(ArrayType) /\ Grows(items, list)
    <2>1. list \in Seq(ArrayType) /\ Len(list) = Len(base)
        BY <1>1, <1>3, <1>4 DEF ArrayType
    <2>2. q # NoArray /\ Array(q) = q
        BY DEF NoArray, Array
    <2>3. \A i \in 1..Len(base) : list[i] = IF i = n THEN q ELSE base[i]
        BY <1>3, <1>4
    <2>4. Len(items) <= Len(base) /\ Len(items) \in Nat /\ Len(base) \in Nat
        BY <1>3 DEF Grows
    <2>5. \A i \in 1..Len(items) : /\ i \in 1..Len(base)
                                   /\ items[i] # NoArray => base[i] # NoArray /\ Array(items[i]) \subseteq Array(base[i])
        BY SMTT(60), <1>3, <2>4 DEF Grows
    <2> QED BY <1>4, <2>1, <2>2, <2>3, <2>4, <2>5 DEF Grows
<1>5. Len(base) >= n => Array(base[n]) \in SUBSET (0..(QSet - 1))
    <2>1. Len(base) >= n => base[n] \in ArrayType
        BY <1>1, <1>3
    <2> QED BY <2>1 DEF ArrayType, Array
<1>6. CASE list = base
    BY <1>3, <1>6
<1>7. CASE Len(base) >= n /\ list = [base EXCEPT ![n] = Array(@)]
    BY <1>4, <1>5, <1>7
<1>8. CASE Len(base) >= n /\ list = [base EXCEPT ![n] = Array(@) \cup {SPos(pos)}]
    BY <1>1, <1>4, <1>5, <1>8
<1> QED BY <1>2, <1>6, <1>7, <1>8

\* An empty list has no objects.
LEMMA NoObjects == <<>> \in Seq(ArrayType) /\ Objects(<<>>) = {}
<1>1. <<>> \in Seq(ArrayType) /\ Len(<<>>) = 0
    OBVIOUS
<1>2. DOMAIN <<>> = 1..0
    BY <1>1
<1>3. \A i : i \notin DOMAIN <<>>
    BY <1>2
<1> QED BY <1>1, <1>3 DEF Objects

\* ScullInv holds when the driver is loaded.
LEMMA ScullInitOK == ScullInit => ScullInv
<1> SUFFICES ASSUME ScullInit PROVE ScullInv
    OBVIOUS
<1>1. NoIO \in IOType /\ NoIO.pos = 0
    BY DEF NoIO, IOType
<1>2. vfs \in [ScullProcs -> IOType] /\ \A p \in ScullProcs : vfs[p].pos = 0
    BY <1>1 DEF ScullInit
<1>3. wild \in BOOLEAN /\ undef \in {"no", "followed", "cleared"}
    BY DEF ScullInit
<1> QED BY <1>2, <1>3, NoObjects, ScullAssumption DEF ScullInit, ScullInv

\* A read never moves the position behind the data.
LEMMA ReadStaysWithin ==
    ASSUME NEW pos \in Nat, NEW count \in Nat, dsize \in Nat, pos < dsize
    PROVE  InQuantum(pos, Clip(pos, count)) \in Nat /\ pos + InQuantum(pos, Clip(pos, count)) <= dsize
<1>1. Quantum - QPos(pos) \in Nat
    BY ScullAssumption DEF QPos
<1> QED BY <1>1 DEF InQuantum, Clip

\* A write that copies ends within the data: a count that has wrapped around,
\* because the position lies behind SCULL_DATA_SIZE, does not copy.
LEMMA WriteStaysWithin ==
    ASSUME NEW pos \in Nat, NEW count \in Nat, pos <= MaxPos + DataSize,
           InUserSpace(ToDataSize(pos, InQuantum(pos, count)))
    PROVE  /\ ToDataSize(pos, InQuantum(pos, count)) \in Nat
           /\ pos + ToDataSize(pos, InQuantum(pos, count)) <= DataSize
<1> DEFINE n == InQuantum(pos, count)
<1>1. Quantum - QPos(pos) \in Nat /\ n \in Nat
    BY ScullAssumption DEF QPos, InQuantum
<1>2. CASE pos + n <= DataSize
    BY <1>1, <1>2, ScullAssumption DEF ToDataSize
<1>3. CASE pos + n > DataSize /\ pos <= DataSize
    <2>1. (DataSize - pos) % Word = DataSize - pos
        BY <1>3, ScullAssumption
    <2> QED BY <1>1, <1>3, <2>1, ScullAssumption DEF ToDataSize
<1>4. CASE pos > DataSize
    <2>1. (DataSize - pos) % Word = Word + DataSize - pos
        <3> DEFINE m == Word + DataSize - pos
        <3>1. m \in 0..(Word - 1) /\ DataSize - pos = m - Word
            BY <1>4, ScullAssumption
        <3>2. (m - Word) % Word = m
            BY <3>1, ScullAssumption
        <3> QED BY <3>1, <3>2
    <2>2. ToDataSize(pos, n) = Word + DataSize - pos
        BY <1>1, <1>4, <2>1, ScullAssumption DEF ToDataSize
    <2> QED BY <1>4, <2>2, ScullAssumption DEF InUserSpace
<1> QED BY <1>1, <1>2, <1>3, <1>4, ScullAssumption

\* Every operation keeps ScullInv, whichever allocation fails.
LEMMA ScullStep == ScullInv /\ [ScullNext]_scullVars => ScullInv'
<1> SUFFICES ASSUME ScullInv, [ScullNext]_scullVars PROVE ScullInv'
    OBVIOUS
<1> USE DEF ScullInv
<1>0. DataSize \in Nat /\ MaxPos \in Nat /\ Quantum \in Nat \ {0}
    BY ScullAssumption
<1>1. CASE UNCHANGED scullVars
    BY <1>1 DEF scullVars
<1>2. CASE Undefined
    BY <1>2 DEF Undefined
<1>3. ASSUME NEW w \in BOOLEAN, scull_open(w), ~Undefined, ~UNCHANGED scullVars PROVE ScullInv'
    <2>1. heap' = heap \ Objects(items) /\ items' = <<>> /\ dsize' = 0 /\ UNCHANGED <<fpos, vfs, wild, undef>>
        BY <1>3 DEF scull_open, scull_trim, FreedByTrim
    <2> QED BY <1>0, <2>1, NoObjects
<1>4. ASSUME NEW p \in ScullProcs, NEW op \in {"read", "write"}, NEW n \in 0..(Quantum + 1), Call(p, op, n)
      PROVE  ScullInv'
    <2>1. [op |-> op, pos |-> fpos, count |-> n] \in IOType
        BY <1>0 DEF IOType
    <2>2. vfs' = [vfs EXCEPT ![p] = [op |-> op, pos |-> fpos, count |-> n]] /\ UNCHANGED <<items, dsize, fpos, heap, wild, undef>>
        BY <1>4 DEF Call
    <2> QED BY <2>1, <2>2
<1>5. ASSUME NEW p \in ScullProcs, vfs' = [vfs EXCEPT ![p] = NoIO]
      PROVE  vfs' \in [ScullProcs -> IOType] /\ \A q \in ScullProcs : vfs'[q].pos <= MaxPos + DataSize
    <2>1. NoIO \in IOType /\ NoIO.pos = 0
        BY DEF NoIO, IOType
    <2> QED BY <1>0, <1>5, <2>1
<1>6. ASSUME NEW p \in ScullProcs, Interrupted(p) PROVE ScullInv'
    BY <1>5, <1>6 DEF Interrupted
<1>7. ASSUME NEW list, list \in Seq(ArrayType), Grows(items, list), items' = list,
             heap' = heap \cup (Objects(list) \ Objects(items))
      PROVE  items' \in Seq(ArrayType) /\ heap' = Objects(items')
    BY <1>7, ObjectsGrow
<1>8. ASSUME NEW p \in ScullProcs, scull_read(p), ~Undefined PROVE ScullInv'
    <2>1. vfs[p].pos \in Nat /\ vfs[p].count \in Nat /\ vfs[p].pos <= MaxPos + DataSize
        BY DEF IOType
    <2>2. CASE vfs[p].pos >= dsize
        <3>1. fpos' = vfs[p].pos /\ vfs' = [vfs EXCEPT ![p] = NoIO] /\ UNCHANGED <<items, dsize, heap, wild, undef>>
            BY <1>8, <2>2 DEF scull_read, Return
        <3> QED BY <1>5, <2>1, <3>1
    <2>3. CASE ~(vfs[p].pos >= dsize)
        <3> DEFINE n == InQuantum(vfs[p].pos, Clip(vfs[p].pos, vfs[p].count))
        <3>1. PICK list \in scull_follow(Item(vfs[p].pos)) :
                 /\ items' = list /\ heap' = heap \cup (Objects(list) \ Objects(items))
                 /\ Return(p, vfs[p].pos) \/ Return(p, vfs[p].pos + n)
                 /\ UNCHANGED <<dsize, wild, undef>>
            BY <1>8, <2>3 DEF scull_read
        <3>2. list \in Seq(ArrayType) /\ Grows(items, list)
            BY <2>1, FollowGrows, SPosRange
        <3>3. items' \in Seq(ArrayType) /\ heap' = Objects(items')
            BY <1>7, <3>1, <3>2
        <3>4. n \in Nat /\ vfs[p].pos + n <= dsize
            <4>1. dsize \in Nat /\ vfs[p].pos < dsize
                BY <1>0, <2>1, <2>3
            <4> QED BY <2>1, <4>1, ReadStaysWithin
        <3>5. fpos' \in Nat /\ fpos' <= MaxPos + DataSize /\ vfs' = [vfs EXCEPT ![p] = NoIO]
            BY <1>0, <2>1, <3>1, <3>4 DEF Return
        <3> QED BY <1>5, <3>1, <3>3, <3>5
    <2> QED BY <2>2, <2>3
<1>9. ASSUME NEW p \in ScullProcs, scull_write(p), ~Undefined PROVE ScullInv'
    <2> DEFINE n == ToDataSize(vfs[p].pos, InQuantum(vfs[p].pos, vfs[p].count))
    <2>1. vfs[p].pos \in Nat /\ vfs[p].count \in Nat /\ vfs[p].pos <= MaxPos + DataSize
        BY DEF IOType
    <2>2. PICK list \in Allocated(vfs[p].pos) :
             /\ items' = list /\ heap' = heap \cup (Objects(list) \ Objects(items))
             /\ wild' = wild \/ wild' = (n > 0) \/ wild' = TRUE
             /\ undef' \in {undef, "cleared"}
             /\ \/ Return(p, vfs[p].pos) /\ UNCHANGED dsize
                \/ /\ InUserSpace(n) /\ Return(p, vfs[p].pos + n)
                   /\ dsize' = IF dsize < vfs[p].pos + n THEN vfs[p].pos + n ELSE dsize
                \/ UNCHANGED <<dsize, fpos, vfs>>
        BY <1>9 DEF scull_write
    <2>3. list \in Seq(ArrayType) /\ Grows(items, list)
        BY <2>1, AllocatedGrows
    <2>4. items' \in Seq(ArrayType) /\ heap' = Objects(items')
        BY <1>7, <2>2, <2>3
    <2>5. InUserSpace(n) => n \in Nat /\ vfs[p].pos + n <= DataSize
        BY <2>1, WriteStaysWithin
    <2>6. /\ vfs' = [vfs EXCEPT ![p] = NoIO] \/ vfs' = vfs
          /\ fpos' \in Nat /\ fpos' <= MaxPos + DataSize /\ dsize' \in 0..DataSize
        BY <1>0, <2>1, <2>2, <2>5 DEF Return
    <2>7. wild' \in BOOLEAN /\ undef' \in {"no", "followed", "cleared"}
        <3>1. (n > 0) \in BOOLEAN
            OBVIOUS
        <3> HIDE DEF n
        <3> QED BY <2>2, <3>1
    <2> QED BY <1>5, <2>4, <2>6, <2>7
<1>10. ASSUME NEW off \in -1..MaxPos, NEW whence \in {"SET", "CUR", "END"}, scull_llseek(off, whence) PROVE ScullInv'
    <2>1. fpos + off \in Int /\ dsize + off \in Int /\ off \in Int
        BY <1>0
    <2>2. fpos' \in Int /\ fpos' >= 0 /\ fpos' <= MaxPos /\ UNCHANGED <<items, dsize, vfs, heap, wild, undef>>
        BY <1>10, <2>1 DEF scull_llseek, NotNegative
    <2> QED BY <1>0, <2>2
<1>11. ScullNext => Undefined \/ UNCHANGED scullVars \/ ScullInv'
    BY <1>3, <1>4, <1>6, <1>8, <1>9, <1>10 DEF ScullNext
<1> QED BY <1>1, <1>2, <1>11

\* All that kmalloc gave out is on the list until a write overwrites it, and the size is within its bound.
LEMMA ScullImplies == ScullInv => NothingLeaks /\ SizeWithinData
BY ScullAssumption DEF ScullInv, NothingLeaks, SizeWithinData
-----------------------------------------------------------------------------
(* The system-call hook *)

\* What removing the i-th of a sequence leaves.
LEMMA RemoveAtFacts ==
    ASSUME NEW S, NEW s \in Seq(S), NEW i \in 1..Len(s)
    PROVE  /\ RemoveAt(s, i) \in Seq(S) /\ Len(RemoveAt(s, i)) = Len(s) - 1
           /\ \A j \in 1..(Len(s) - 1) : RemoveAt(s, i)[j] = IF j < i THEN s[j] ELSE s[j + 1]
<1> DEFINE a == SubSeq(s, 1, i - 1)
           b == SubSeq(s, i + 1, Len(s))
<1>1. Len(s) \in Nat /\ i \in Nat /\ i >= 1 /\ i <= Len(s)
    OBVIOUS
<1>2. a \in Seq(S) /\ Len(a) = i - 1 /\ \A j \in 1..(i - 1) : a[j] = s[j]
    BY <1>1
<1>3. b \in Seq(S) /\ Len(b) = Len(s) - i /\ \A j \in 1..(Len(s) - i) : b[j] = s[i + j]
    BY <1>1
<1>4. RemoveAt(s, i) = a \o b
    BY DEF RemoveAt
<1> HIDE DEF a, b
<1>5. a \o b \in Seq(S) /\ Len(a \o b) = Len(s) - 1
    <2>1. a \o b \in Seq(S) /\ Len(a \o b) = Len(a) + Len(b)
        BY <1>2, <1>3, ConcatProperties
    <2> QED BY <1>1, <1>2, <1>3, <2>1
<1>6. ASSUME NEW j \in 1..(Len(s) - 1) PROVE (a \o b)[j] = IF j < i THEN s[j] ELSE s[j + 1]
    <2>1. CASE j < i
        BY <1>1, <1>2, <1>3, <2>1
    <2>2. CASE ~(j < i)
        <3>1. (a \o b)[j] = b[j - (i - 1)] /\ j - (i - 1) \in 1..(Len(s) - i)
            BY <1>1, <1>2, <1>3, <2>2
        <3>2. i + (j - (i - 1)) = j + 1
            BY <1>1
        <3> QED BY <1>3, <2>2, <3>1, <3>2
    <2> QED BY <2>1, <2>2
<1> QED BY <1>4, <1>5, <1>6

\* What the table named before the i-th loaded module was there.
Below(s, i) == IF i = 1 THEN Original ELSE s[i - 1]

HookTypes ==
    /\ HookTypeOK /\ stack \in Seq(HookModules) /\ slot # Nothing
    /\ \A i, j \in 1..Len(stack) : stack[i] = stack[j] => i = j
    /\ \A i \in 1..Len(stack) : saved[stack[i]] # Nothing

\* Each loaded module has saved the one loaded before it, and calls run in
\* loaded modules, as long as unloading has been in order and not during calls.
Nested ==
    /\ slot = Below(stack, Len(stack) + 1)
    /\ \A i \in 1..Len(stack) : saved[stack[i]] = Below(stack, i)
    /\ \A c \in HookCallers : running[c] \in {Nothing, Original} \/ \E i \in 1..Len(stack) : stack[i] = running[c]

HookInv == HookTypes /\ (~rash => Nested)

\* HookInv holds before any module is loaded.
LEMMA HookInitOK == HookInit => HookInv
<1> SUFFICES ASSUME HookInit PROVE HookInv
    OBVIOUS
<1>1. stack \in Seq(HookModules) /\ Len(stack) = 0
    BY DEF HookInit
<1>2. Original # Nothing
    BY DEF Original, Nothing
<1>3. HookTypes
    <2>1. rash \in BOOLEAN
        BY DEF HookInit
    <2> QED BY <1>1, <1>2, <2>1 DEF HookInit, HookTypes, HookTypeOK
<1>4. Nested
    BY <1>1 DEF HookInit, Nested, Below
<1> QED BY <1>3, <1>4 DEF HookInv

\* Loading, unloading and the calls keep HookInv.
LEMMA HookStep == HookInv /\ [HookNext]_hookVars => HookInv'
<1> SUFFICES ASSUME HookInv, [HookNext]_hookVars PROVE HookInv'
    OBVIOUS
<1>0. HookTypes /\ (~rash => Nested) /\ Len(stack) \in Nat /\ HookTypeOK
    BY DEF HookInv, HookTypes
<1>1. CASE UNCHANGED hookVars
    BY <1>0, <1>1 DEF hookVars, HookInv, HookTypes, HookTypeOK, Nested, Below
<1>2. ASSUME NEW m \in HookModules, init_addsyscall(m) PROVE HookInv'
    <2>1. CASE UNCHANGED <<saved, slot, stack>>
        BY <1>0, <1>2, <2>1 DEF init_addsyscall, HookInv, HookTypes, HookTypeOK, Nested, Below
    <2>2. CASE ~UNCHANGED <<saved, slot, stack>>
        <3>1. /\ saved' = [saved EXCEPT ![m] = slot] /\ slot' = m /\ stack' = Append(stack, m)
              /\ UNCHANGED <<running, rash>> /\ \A i \in 1..Len(stack) : stack[i] # m
            BY <1>2, <2>2 DEF init_addsyscall, Contains
        <3>2. stack' \in Seq(HookModules) /\ Len(stack') = Len(stack) + 1 /\ stack'[Len(stack) + 1] = m
              /\ \A i \in 1..Len(stack) : stack'[i] = stack[i] /\ stack[i] \in HookModules
            BY <1>0, <3>1 DEF HookTypes
        <3>3. \A i \in 1..Len(stack') : i \in 1..Len(stack) \/ i = Len(stack) + 1
            BY <1>0, <3>2
        <3>4. HookTypeOK' /\ slot' # Nothing
            BY <1>0, <3>1, HookAssumption DEF HookTypes, HookTypeOK, Nothing
        <3>5. \A i \in 1..Len(stack') : saved'[stack'[i]] = IF i = Len(stack) + 1 THEN slot ELSE saved[stack[i]]
            BY <1>0, <3>1, <3>2, <3>3 DEF HookTypeOK
        <3>6. HookTypes'
            BY SMTT(60), <1>0, <3>1, <3>2, <3>3, <3>4, <3>5 DEF HookTypes
        <3>7. ASSUME ~rash PROVE Nested'
            <4>1. Nested
                BY <1>0, <3>7
            <4>2. \A i \in 1..Len(stack') : Below(stack', i) = Below(stack, i)
                BY <1>0, <3>2, <3>3 DEF Below
            <4>3. Below(stack', Len(stack) + 2) = m
                BY <1>0, <3>2 DEF Below
            <4>4. slot' = Below(stack', Len(stack') + 1)
                BY <1>0, <3>1, <3>2, <4>3
            <4>5. \A i \in 1..Len(stack') : saved'[stack'[i]] = Below(stack', i)
                BY <1>0, <3>3, <3>5, <4>1, <4>2 DEF Nested
            <4>6. \A c \in HookCallers : running'[c] \in {Nothing, Original} \/ \E i \in 1..Len(stack') : stack'[i] = running'[c]
                BY <1>0, <3>1, <3>2, <4>1 DEF Nested
            <4> QED BY <4>4, <4>5, <4>6 DEF Nested
        <3> QED BY <3>1, <3>6, <3>7 DEF HookInv
    <2> QED BY <2>1, <2>2
<1>3. ASSUME NEW m \in HookModules, exit_addsyscall(m) PROVE HookInv'
    <2> DEFINE k == PlaceOf(m)
    <2>1. k \in 1..Len(stack) /\ stack[k] = m
        <3>1. \E i \in DOMAIN stack : stack[i] = m
            BY <1>0, <1>3 DEF exit_addsyscall, Contains, HookTypes
        <3>2. DOMAIN stack = 1..Len(stack)
            BY <1>0 DEF HookTypes
        <3> QED BY <3>1, <3>2 DEF PlaceOf
    <2>2. /\ slot' = saved[m] /\ stack' = RemoveAt(stack, k) /\ saved' = [saved EXCEPT ![m] = Nothing]
          /\ running' = running /\ (~rash' => ~rash /\ Last(stack) = m /\ \A c \in HookCallers : running[c] # m)
        BY <1>3 DEF exit_addsyscall, Restored
    <2> HIDE DEF k
    <2>3. /\ stack' \in Seq(HookModules) /\ Len(stack') = Len(stack) - 1 /\ Len(stack) - 1 \in Nat
          /\ \A j \in 1..(Len(stack) - 1) : stack'[j] = IF j < k THEN stack[j] ELSE stack[j + 1]
        <3>1. stack \in Seq(HookModules)
            BY <1>0 DEF HookTypes
        <3>2. /\ RemoveAt(stack, k) \in Seq(HookModules) /\ Len(RemoveAt(stack, k)) = Len(stack) - 1
              /\ \A j \in 1..(Len(stack) - 1) : RemoveAt(stack, k)[j] = IF j < k THEN stack[j] ELSE stack[j + 1]
            BY <2>1, <3>1, RemoveAtFacts
        <3>3. Len(stack) - 1 \in Nat
            BY <1>0, <2>1
        <3> QED BY <2>2, <3>2, <3>3
    <2>4. HookTypeOK' /\ slot' # Nothing
        <3>1. saved[m] \in HookModules \cup {Original, Nothing} /\ saved[m] # Nothing
            BY <1>0, <2>1 DEF HookTypes, HookTypeOK
        <3>2. rash' \in BOOLEAN
            BY <1>3 DEF exit_addsyscall
        <3>3. saved' \in [HookModules -> HookModules \cup {Original, Nothing}]
            BY <1>0, <2>2 DEF HookTypeOK
        <3> QED BY <1>0, <2>2, <3>1, <3>2, <3>3 DEF HookTypeOK
    <2>5. ASSUME NEW j \in 1..Len(stack') PROVE \E i \in 1..Len(stack) : i # k /\ stack'[j] = stack[i] /\ i = IF j < k THEN j ELSE j + 1
        <3>1. j \in 1..(Len(stack) - 1) /\ j \in 1..Len(stack) /\ j + 1 \in 1..Len(stack)
            BY <1>0, <2>3
        <3>2. CASE j < k
            BY <2>3, <3>1, <3>2
        <3>3. CASE ~(j < k)
            BY <2>1, <2>3, <3>1, <3>3
        <3> QED BY <3>2, <3>3
    <2>6. \A j \in 1..Len(stack') : stack'[j] # m /\ stack'[j] \in HookModules /\ saved'[stack'[j]] = saved[stack'[j]]
        BY <1>0, <2>1, <2>2, <2>3, <2>5 DEF HookTypes, HookTypeOK
    <2>7. \A i, j \in 1..Len(stack') : stack'[i] = stack'[j] => i = j
        <3> SUFFICES ASSUME NEW i \in 1..Len(stack'), NEW j \in 1..Len(stack'), stack'[i] = stack'[j] PROVE i = j
            OBVIOUS
        <3>1. PICK x \in 1..Len(stack) : x # k /\ stack'[i] = stack[x] /\ x = IF i < k THEN i ELSE i + 1
            BY <2>5
        <3>2. PICK y \in 1..Len(stack) : y # k /\ stack'[j] = stack[y] /\ y = IF j < k THEN j ELSE j + 1
            BY <2>5
        <3>3. x = y
            BY <1>0, <3>1, <3>2 DEF HookTypes
        <3> QED BY <2>1, <3>1, <3>2, <3>3
    <2>8. \A j \in 1..Len(stack') : saved'[stack'[j]] # Nothing
        BY <1>0, <2>5, <2>6 DEF HookTypes
    <2>9. HookTypes'
        BY <2>3, <2>4, <2>7, <2>8 DEF HookTypes
    <2>10. ASSUME ~rash' PROVE Nested'
        <3>1. Nested /\ Last(stack) = m /\ \A c \in HookCallers : running[c] # m
            BY <1>0, <2>2, <2>10
        <3>2. k = Len(stack)
            <4>1. stack[Len(stack)] = stack[k] /\ Len(stack) \in 1..Len(stack)
                BY <1>0, <2>1, <3>1 DEF Last
            <4> QED BY <1>0, <2>1, <4>1 DEF HookTypes
        <3>3. \A j \in 1..Len(stack') : stack'[j] = stack[j] /\ j \in 1..Len(stack)
            BY <1>0, <2>3, <3>2
        <3>4. \A j \in 1..Len(stack') : Below(stack', j) = Below(stack, j)
            BY <2>3, <3>3 DEF Below
        <3>5. slot' = Below(stack, Len(stack))
            BY <1>0, <2>1, <2>2, <3>1, <3>2 DEF Nested
        <3>6. slot' = Below(stack', Len(stack') + 1)
            <4>1. CASE Len(stack) = 1
                BY <2>3, <3>5, <4>1 DEF Below
            <4>2. CASE Len(stack) # 1
                <5>1. Len(stack) - 1 \in 1..Len(stack')
                    BY <1>0, <2>3, <4>2
                <5> QED BY <1>0, <2>3, <3>3, <3>5, <4>2, <5>1 DEF Below
            <4> QED BY <4>1, <4>2
        <3>7. \A j \in 1..Len(stack') : saved'[stack'[j]] = Below(stack', j)
            BY <2>6, <3>1, <3>3, <3>4 DEF Nested
        <3>8. ASSUME NEW c \in HookCallers, running'[c] \notin {Nothing, Original}
              PROVE  \E i \in 1..Len(stack') : stack'[i] = running'[c]
            <4>1. PICK i \in 1..Len(stack) : stack[i] = running[c]
                BY <2>2, <3>1, <3>8 DEF Nested
            <4>2. i # k
                BY <2>1, <3>1, <4>1
            <4>3. i \in 1..Len(stack')
                BY <1>0, <2>3, <3>2, <4>2
            <4> QED BY <2>2, <3>3, <4>1, <4>3
        <3> QED BY <3>6, <3>7, <3>8 DEF Nested
    <2> QED BY <2>9, <2>10 DEF HookInv
<1>4. ASSUME NEW c \in HookCallers, syscall(c) PROVE HookInv'
    <2>1. running' = [running EXCEPT ![c] = slot] /\ UNCHANGED <<slot, saved, stack, rash, crashed>>
        BY <1>4 DEF syscall
    <2>2. HookTypes'
        BY <1>0, <2>1 DEF HookTypes, HookTypeOK
    <2>3. ASSUME Nested PROVE Nested'
        <3>1. slot = Original \/ \E i \in 1..Len(stack) : stack[i] = slot
            BY <1>0, <2>3 DEF Nested, Below
        <3>2. \A d \in HookCallers : running'[d] \in {Nothing, Original} \/ \E i \in 1..Len(stack) : stack[i] = running'[d]
            BY <1>0, <2>1, <2>3, <3>1 DEF Nested, HookTypeOK
        <3> QED BY <2>1, <2>3, <3>2 DEF Nested, Below
    <2> QED BY <1>0, <2>1, <2>2, <2>3 DEF HookInv
<1>5. ASSUME NEW c \in HookCallers, sys_mysyscall(c) PROVE HookInv'
    <2>1. running' = [running EXCEPT ![c] = Nothing] /\ UNCHANGED <<slot, saved, stack, rash, crashed>>
        BY <1>5 DEF sys_mysyscall
    <2>2. HookTypes'
        BY <1>0, <2>1 DEF HookTypes, HookTypeOK
    <2>3. ASSUME Nested PROVE Nested'
        <3>1. \A d \in HookCallers : running'[d] \in {Nothing, Original} \/ \E i \in 1..Len(stack) : stack[i] = running'[d]
            BY <1>0, <2>1, <2>3 DEF Nested, HookTypeOK
        <3> QED BY <2>1, <2>3, <3>1 DEF Nested, Below
    <2> QED BY <1>0, <2>1, <2>2, <2>3 DEF HookInv
<1> QED BY <1>1, <1>2, <1>3, <1>4, <1>5 DEF HookNext

\* The table names the module loaded last, and calls run loaded code.
LEMMA HookImplies == HookInv => TableNamesLoadedCode
<1> SUFFICES ASSUME HookInv, ~rash
             PROVE  /\ slot = IF stack = <<>> THEN Original ELSE Last(stack)
                    /\ \A c \in HookCallers : running[c] \in {Nothing, Original} \cup ToSet(stack)
    BY DEF TableNamesLoadedCode
<1>1. Nested /\ stack \in Seq(HookModules) /\ Len(stack) \in Nat /\ DOMAIN stack = 1..Len(stack)
    BY DEF HookInv, HookTypes
<1>2. stack = <<>> <=> Len(stack) = 0
    BY <1>1
<1>3. slot = IF stack = <<>> THEN Original ELSE Last(stack)
    BY <1>1, <1>2 DEF Nested, Below, Last
<1> QED BY <1>1, <1>3 DEF Nested, ToSet

-----------------------------------------------------------------------------
(* The modules with a file under /proc *)

Writes == {NoWrite} \cup [at : {"copied"}, len : 0..ValueLen]
Bytes == [byte : Nat, sample : Nat]

ProcTypes ==
    /\ which \in DOMAIN Module /\ state \in {"out", "live"} /\ entries \in [Names -> Nat]
    /\ value \in [1..ValueLen -> {0, 1}] /\ writing \in [ProcWriters -> Writes]
    /\ lpj \in {"boot", "written", "unknown"} /\ tick \in 0..MaxTick
    /\ reader.at \in {"none", "open", "inside"} /\ reader.size \in Nat /\ reader.pos \in Nat
    /\ reader.got \in Seq(Bytes) /\ reader = [at |-> reader.at, size |-> reader.size, pos |-> reader.pos, got |-> reader.got]

\* A loaded module has its two entries, once; an unloaded one none but a
\* directory left behind when the file could not be created.
EntriesMatch ==
    /\ state = "live" => entries["file"] = 1 /\ entries["dir"] >= 1 /\ (~leftover => entries["dir"] = 1)
    /\ state = "out" => entries["file"] = 0 /\ (~leftover => entries["dir"] = 0)

\* A method runs only in a module that is loaded.
MethodsInside ==
    state = "out" => reader.at # "inside" /\ \A w \in ProcWriters : writing[w] = NoWrite

\* A terminator is in the buffer, or a writer has still to store one.
TerminatorDue ==
    \/ \E i \in 1..ValueLen : value[i] = 0
    \/ \E w \in ProcWriters : writing[w].at = "copied" /\ writing[w].len >= 1

\* The reader has the text up to its position, and if its buffer takes all of
\* the text, then none or all of it, of one moment.
PiecesSoFar(r) ==
    /\ r.pos = Len(r.got) /\ r.pos <= TextLen
    /\ \A i \in 1..Len(r.got) : r.got[i].byte = i
    /\ r.size >= TextLen => /\ r.pos \in {0, TextLen}
                            /\ \A i, j \in 1..Len(r.got) : r.got[i].sample = r.got[j].sample

ProcInv ==
    ProcTypes /\ EntriesMatch /\ MethodsInside /\ TerminatorDue /\ (which # "pm11" => PiecesSoFar(reader))

\* The reader's record before a file is opened.
LEMMA NoReaderFacts ==
    /\ NoReader.at = "none" /\ NoReader.size \in Nat /\ NoReader.pos \in Nat /\ NoReader.got \in Seq(Bytes)
    /\ NoReader = [at |-> NoReader.at, size |-> NoReader.size, pos |-> NoReader.pos, got |-> NoReader.got]
    /\ PiecesSoFar(NoReader)
<1>1. NoReader.at = "none" /\ NoReader.size = 0 /\ NoReader.pos = 0 /\ NoReader.got = <<>>
    BY DEF NoReader
<1>2. <<>> \in Seq(Bytes) /\ Len(<<>>) = 0
    OBVIOUS
<1>3. PiecesSoFar(NoReader)
    BY <1>1, <1>2, ProcAssumption DEF PiecesSoFar
<1> QED BY <1>1, <1>2, <1>3 DEF NoReader

\* ProcInv holds before the module is loaded.
LEMMA ProcInitOK == ProcInit => ProcInv
<1> SUFFICES ASSUME ProcInit PROVE ProcInv
    OBVIOUS
<1>1. Blank \in [1..ValueLen -> {0, 1}] /\ 1 \in 1..ValueLen /\ Blank[1] = 0
    BY ProcAssumption DEF Blank
<1>2. writing \in [ProcWriters -> Writes]
    BY DEF ProcInit, Writes
<1>3. ProcTypes
    BY <1>1, <1>2, NoReaderFacts, ProcAssumption DEF ProcInit, ProcTypes, Names
<1>4. EntriesMatch /\ MethodsInside /\ TerminatorDue
    BY <1>1, NoReaderFacts DEF ProcInit, EntriesMatch, MethodsInside, TerminatorDue, Names
<1> QED BY <1>3, <1>4, NoReaderFacts DEF ProcInit, ProcInv

\* The piece that a call takes: an interval that starts behind the position.
LEMMA PieceFacts ==
    ASSUME NEW a \in Nat, NEW b \in Nat, a >= 1
    PROVE  /\ Cardinality(a..b) = IF a > b THEN 0 ELSE b - a + 1
           /\ a <= b => a..b # {} /\ (CHOOSE i \in a..b : \A j \in a..b : i <= j) = a
           /\ a > b => a..b = {}
<1>1. Cardinality(a..b) = IF a > b THEN 0 ELSE b - a + 1
    BY FS_Interval
<1>2. ASSUME a <= b PROVE (CHOOSE i \in a..b : \A j \in a..b : i <= j) = a
    <2>1. a \in a..b /\ \A j \in a..b : a <= j
        BY <1>2
    <2>2. \A i \in a..b : (\A j \in a..b : i <= j) => i = a
        BY <2>1
    <2> QED BY <2>1, <2>2
<1> QED BY <1>1, <1>2

\* Every step of the modules, their writers and the reader keeps ProcInv.
LEMMA ProcStep == ProcInv /\ [ProcNext]_procVars => ProcInv'
<1> SUFFICES ASSUME ProcInv, [ProcNext]_procVars PROVE ProcInv'
    OBVIOUS
<1>0. ProcTypes /\ EntriesMatch /\ MethodsInside /\ TerminatorDue /\ (which # "pm11" => PiecesSoFar(reader))
    BY DEF ProcInv
<1>1. CASE UNCHANGED procVars
    BY <1>0, <1>1 DEF procVars, ProcInv, ProcTypes, EntriesMatch, MethodsInside, TerminatorDue, PiecesSoFar
<1>2. CASE init_module
    <2>1. /\ UNCHANGED <<which, writing, lpj, tick, reader>> /\ state = "out"
          /\ \/ UNCHANGED <<state, entries, leftover, value>>
             \/ /\ entries' = [entries EXCEPT !["dir"] = @ + 1] /\ leftover' = TRUE /\ UNCHANGED <<state, value>>
             \/ /\ entries' = [n \in Names |-> entries[n] + 1] /\ state' = "live" /\ leftover' = leftover
                /\ value' \in {Preset, Blank}
        BY <1>2 DEF init_module
    <2>2. \A v \in {Preset, Blank} : v \in [1..ValueLen -> {0, 1}] /\ ValueLen \in 1..ValueLen /\ v[ValueLen] = 0
        BY ProcAssumption DEF Preset, Blank
    <2>3. ProcTypes'
        <3>1. value' \in [1..ValueLen -> {0, 1}]
            BY <1>0, <2>1, <2>2 DEF ProcTypes
        <3>2. entries' \in [Names -> Nat] /\ state' \in {"out", "live"}
            BY <1>0, <2>1 DEF ProcTypes, Names
        <3> QED BY <1>0, <2>1, <3>1, <3>2 DEF ProcTypes
    <2>4. EntriesMatch'
        BY <1>0, <2>1 DEF EntriesMatch, ProcTypes, Names
    <2>5. MethodsInside' /\ TerminatorDue' /\ (which' # "pm11" => PiecesSoFar(reader)')
        BY <1>0, <2>1, <2>2 DEF MethodsInside, TerminatorDue, PiecesSoFar
    <2> QED BY <2>3, <2>4, <2>5 DEF ProcInv
<1>3. CASE cleanup_module
    <2>1. /\ UNCHANGED <<which, leftover, value, writing, lpj, tick, reader>> /\ state = "live" /\ state' = "out"
          /\ entries' = [n \in Names |-> entries[n] - 1]
          /\ reader.at # "inside" /\ \A w \in ProcWriters : writing[w] = NoWrite
        BY <1>3 DEF cleanup_module, Removed, NobodyInside
    <2>2. ProcTypes' /\ EntriesMatch'
        BY <1>0, <2>1 DEF ProcTypes, EntriesMatch, Names
    <2>3. MethodsInside' /\ TerminatorDue' /\ (which' # "pm11" => PiecesSoFar(reader)')
        BY <1>0, <2>1 DEF MethodsInside, TerminatorDue, PiecesSoFar
    <2> QED BY <2>2, <2>3 DEF ProcInv
<1>4. ASSUME NEW w \in ProcWriters, NEW count \in 0..(ValueLen + 1), copy_from_user(w, count) PROVE ProcInv'
    <2> DEFINE len == Length(count)
    <2>1. len \in 0..ValueLen
        BY ProcAssumption DEF Length
    <2>2. PICK ok \in 0..len :
             /\ value' = [i \in 1..ValueLen |-> IF i <= ok THEN 1 ELSE IF i <= len THEN 0 ELSE value[i]]
             /\ writing' = IF ok = len THEN [writing EXCEPT ![w] = [at |-> "copied", len |-> len]] ELSE writing
        BY <1>4 DEF copy_from_user
    <2>3. state = "live" /\ writing[w] = NoWrite /\ UNCHANGED <<which, state, loads, entries, leftover, lpj, tick, reader>>
        BY <1>4 DEF copy_from_user
    <2> HIDE DEF len
    <2>4. ProcTypes'
        <3>1. value' \in [1..ValueLen -> {0, 1}]
            BY <1>0, <2>2 DEF ProcTypes
        <3>2. [at |-> "copied", len |-> len] \in Writes
            BY <2>1 DEF Writes
        <3>3. writing' \in [ProcWriters -> Writes]
            BY <1>0, <2>2, <3>2 DEF ProcTypes
        <3> QED BY <1>0, <2>3, <3>1, <3>3 DEF ProcTypes
    <2>5. TerminatorDue'
        <3>1. CASE ok # len
            <4>1. ok + 1 \in 1..ValueLen /\ ok + 1 <= len /\ ~(ok + 1 <= ok)
                BY <2>1, <3>1, ProcAssumption
            <4>2. value'[ok + 1] = 0
                BY <2>2, <4>1
            <4> QED BY <4>1, <4>2 DEF TerminatorDue
        <3>2. CASE ok = len /\ len >= 1
            <4>1. writing'[w] = [at |-> "copied", len |-> len]
                BY <1>0, <2>2, <3>2 DEF ProcTypes
            <4> QED BY <3>2, <4>1 DEF TerminatorDue
        <3>3. CASE ok = len /\ len = 0
            <4>1. \A i \in 1..ValueLen : value'[i] = value[i]
                BY <2>2, <3>3, ProcAssumption
            <4>2. \A v \in ProcWriters : v # w => writing'[v] = writing[v]
                BY <1>0, <2>2 DEF ProcTypes
            <4>3. writing[w].at # "copied"
                BY <2>3 DEF NoWrite
            <4> QED BY <1>0, <4>1, <4>2, <4>3 DEF TerminatorDue
        <3> QED BY <2>1, <3>1, <3>2, <3>3
    <2>6. EntriesMatch' /\ MethodsInside' /\ (which' # "pm11" => PiecesSoFar(reader)')
        BY <1>0, <2>3 DEF EntriesMatch, MethodsInside, PiecesSoFar
    <2> QED BY <2>4, <2>5, <2>6 DEF ProcInv
<1>5. ASSUME NEW w \in ProcWriters, proc_write(w) PROVE ProcInv'
    <2> DEFINE len == writing[w].len
    <2>1. /\ value' = IF len \in 1..ValueLen THEN [value EXCEPT ![len] = 0] ELSE value
          /\ writing' = [writing EXCEPT ![w] = NoWrite] /\ writing[w].at = "copied"
          /\ UNCHANGED <<which, state, loads, entries, leftover, lpj, tick, reader>>
        BY <1>5 DEF proc_write, Terminate
    <2>2. len \in 0..ValueLen
        <3>1. writing[w] \in Writes /\ NoWrite.at = "none"
            BY <1>0 DEF ProcTypes, NoWrite
        <3> QED BY <2>1, <3>1 DEF Writes
    <2>3. ProcTypes'
        <3>1. value' \in [1..ValueLen -> {0, 1}]
            BY <1>0, <2>1 DEF ProcTypes
        <3>2. writing' \in [ProcWriters -> Writes]
            BY <1>0, <2>1 DEF ProcTypes, Writes
        <3> QED BY <1>0, <2>1, <3>1, <3>2 DEF ProcTypes
    <2>4. TerminatorDue'
        <3>1. CASE len >= 1
            <4>1. len \in 1..ValueLen /\ value'[len] = 0
                BY <1>0, <2>1, <2>2, <3>1, ProcAssumption DEF ProcTypes
            <4> QED BY <4>1 DEF TerminatorDue
        <3>2. CASE ~(len >= 1)
            <4>1. value' = value
                BY <2>1, <2>2, <3>2
            <4>2. \A v \in ProcWriters : v # w => writing'[v] = writing[v]
                BY <1>0, <2>1 DEF ProcTypes
            <4> QED BY <1>0, <3>2, <4>1, <4>2 DEF TerminatorDue
        <3> QED BY <3>1, <3>2
    <2>5. EntriesMatch' /\ MethodsInside' /\ (which' # "pm11" => PiecesSoFar(reader)')
        BY <1>0, <2>1 DEF EntriesMatch, MethodsInside, PiecesSoFar, ProcTypes
    <2> QED BY <2>3, <2>4, <2>5 DEF ProcInv
<1>6. ASSUME NEW b \in BOOLEAN, proc_write_pm3(b) PROVE ProcInv'
    BY <1>0, <1>6 DEF proc_write_pm3, ProcInv, ProcTypes, EntriesMatch, MethodsInside, TerminatorDue, PiecesSoFar
<1>7. CASE Tick
    BY SMTT(60), <1>0, <1>7, ProcAssumption DEF Tick, ProcInv, ProcTypes, EntriesMatch, MethodsInside, TerminatorDue, PiecesSoFar
<1>8. ASSUME UNCHANGED <<which, state, loads, entries, leftover, value, writing, lpj, tick>>
      PROVE  EntriesMatch' /\ TerminatorDue' /\ (ProcTypes' /\ (which # "pm11" => PiecesSoFar(reader'))
                                                 /\ (reader'.at = "inside" => state = "live") => ProcInv')
    BY <1>0, <1>8 DEF ProcInv, EntriesMatch, MethodsInside, TerminatorDue, PiecesSoFar
<1>9. ASSUME NEW r, reader' = r, UNCHANGED <<which, state, loads, entries, leftover, value, writing, lpj, tick>>,
             r.at \in {"none", "open", "inside"}, r.size \in Nat, r.pos \in Nat, r.got \in Seq(Bytes),
             r = [at |-> r.at, size |-> r.size, pos |-> r.pos, got |-> r.got],
             which # "pm11" => PiecesSoFar(r), r.at = "inside" => state = "live"
      PROVE  ProcInv'
    BY <1>0, <1>8, <1>9 DEF ProcTypes
<1>10. ASSUME NEW size \in 1..TextLen, OpenFile(size) PROVE ProcInv'
    <2> DEFINE r == [at |-> "open", size |-> size, pos |-> 0, got |-> <<>>]
    <2>1. reader' = r /\ UNCHANGED <<which, state, loads, entries, leftover, value, writing, lpj, tick>>
        BY <1>10 DEF OpenFile
    <2>2. r.at = "open" /\ r.size = size /\ r.pos = 0 /\ r.got = <<>> /\ size \in Nat
        BY ProcAssumption
    <2>3. <<>> \in Seq(Bytes) /\ Len(<<>>) = 0
        OBVIOUS
    <2>4. r = [at |-> r.at, size |-> r.size, pos |-> r.pos, got |-> r.got]
        OBVIOUS
    <2> HIDE DEF r
    <2>5. PiecesSoFar(r)
        BY <2>2, <2>3, ProcAssumption DEF PiecesSoFar
    <2>6. /\ r.at \in {"none", "open", "inside"} /\ r.at # "inside"
          /\ r.size \in Nat /\ r.pos \in Nat /\ r.got \in Seq(Bytes)
        BY <2>2, <2>3
    <2> QED BY <1>9, <2>1, <2>4, <2>5, <2>6
<1>11. CASE EnterRead
    <2> DEFINE r == [reader EXCEPT !.at = "inside"]
    <2>1. state = "live" /\ reader' = r /\ UNCHANGED <<which, state, loads, entries, leftover, value, writing, lpj, tick>>
        BY <1>11 DEF EnterRead
    <2>2. r = [at |-> "inside", size |-> reader.size, pos |-> reader.pos, got |-> reader.got]
        BY SMTT(60), <1>0 DEF ProcTypes
    <2>3. r.at = "inside" /\ r.size = reader.size /\ r.pos = reader.pos /\ r.got = reader.got
        BY <2>2
    <2> HIDE DEF r
    <2>4. PiecesSoFar(reader) => PiecesSoFar(r)
        BY <2>3 DEF PiecesSoFar
    <2>5. r.size \in Nat /\ r.pos \in Nat /\ r.got \in Seq(Bytes)
        BY <1>0, <2>3 DEF ProcTypes
    <2> QED BY <1>0, <1>9, <2>1, <2>2, <2>3, <2>4, <2>5
<1>12. CASE CloseFile
    BY <1>9, <1>12, NoReaderFacts DEF CloseFile
<1>13. CASE proc_read
    <2> DEFINE a == IF Module[which].whole THEN 1 ELSE reader.pos + 1
               b == IF Module[which].whole THEN TextLen
                    ELSE IF reader.pos + reader.size > TextLen THEN TextLen ELSE reader.pos + reader.size
               n == IF a > b THEN 0 ELSE b - a + 1
               more == reader.got \o [i \in 1..n |-> [byte |-> a + i - 1, sample |-> tick]]
    <2>1. a \in Nat /\ a >= 1 /\ b \in Nat /\ n \in Nat /\ reader.pos \in Nat /\ reader.size \in Nat /\ tick \in Nat
          /\ TextLen \in Nat /\ reader.got \in Seq(Bytes)
        BY SMTT(60), <1>0, ProcAssumption DEF ProcTypes
    <2>2. Piece(reader.pos, reader.size) = a..b
        BY DEF Piece
    <2>3. /\ reader.at = "inside" /\ UNCHANGED <<which, state, loads, entries, leftover, value, writing, lpj, tick>>
          /\ reader' = IF n = 0 THEN NoReader ELSE [reader EXCEPT !.at = "open", !.pos = @ + n, !.got = more]
        <3> HIDE DEF a, b
        <3>1. Cardinality(a..b) = n /\ (n # 0 => a..b # {} /\ (CHOOSE i \in a..b : \A j \in a..b : i <= j) = a)
            BY <2>1, PieceFacts
        <3>2. CASE n = 0
            BY <1>13, <2>2, <3>1, <3>2 DEF proc_read
        <3>3. CASE n # 0
            BY <1>13, <2>2, <3>1, <3>3 DEF proc_read
        <3> QED BY <3>2, <3>3
    <2>4. CASE n = 0
        BY <1>9, <2>3, <2>4, NoReaderFacts
    <2>5. CASE n # 0
        <3> DEFINE r == [at |-> "open", size |-> reader.size, pos |-> reader.pos + n, got |-> more]
        <3>1. reader' = r
            BY <1>0, <2>3, <2>5 DEF ProcTypes
        <3>2. r.at = "open" /\ r.size = reader.size /\ r.pos = reader.pos + n /\ r.got = more
            OBVIOUS
        <3>3. r = [at |-> r.at, size |-> r.size, pos |-> r.pos, got |-> r.got]
            OBVIOUS
        <3>m. more = reader.got \o [i \in 1..n |-> [byte |-> a + i - 1, sample |-> tick]]
            OBVIOUS
        <3> HIDE DEF r, more
        <3>4. which # "pm11" => ~Module[which].whole
            BY <1>0 DEF ProcTypes, Module, Pm1, Pm2, Pm3
        <3>5. ~Module[which].whole => a = reader.pos + 1 /\ n <= TextLen - reader.pos /\ n <= reader.size
                                      /\ (reader.size >= TextLen => n = TextLen - reader.pos)
            <4> SUFFICES ASSUME ~Module[which].whole
                         PROVE  a = reader.pos + 1 /\ n <= TextLen - reader.pos /\ n <= reader.size
                                /\ (reader.size >= TextLen => n = TextLen - reader.pos)
                OBVIOUS
            <4>1. a = reader.pos + 1
                OBVIOUS
            <4>2. b = IF reader.pos + reader.size > TextLen THEN TextLen ELSE reader.pos + reader.size
                OBVIOUS
            <4>3. a <= b /\ n = b - a + 1
                <5> HIDE DEF a, b
                <5> QED BY <2>1, <2>5
            <4> HIDE DEF a, b, n
            <4>4. b <= TextLen /\ b <= reader.pos + reader.size
                BY <2>1, <4>2
            <4>5. n = b - reader.pos
                BY SMTT(60), <2>1, <4>1, <4>3
            <4>6. n <= TextLen - reader.pos /\ n <= reader.size
                BY <2>1, <4>4, <4>5
            <4>7. reader.size >= TextLen => b = TextLen
                BY <2>1, <4>2
            <4> QED BY <4>1, <4>5, <4>6, <4>7
        <3> HIDE DEF a, b, n
        <3>6. /\ more \in Seq(Bytes) /\ Len(more) = Len(reader.got) + n
              /\ \A i \in 1..Len(more) : IF i <= Len(reader.got) THEN more[i] = reader.got[i]
                                         ELSE more[i].byte = a + (i - Len(reader.got)) - 1 /\ more[i].sample = tick
            <4> DEFINE piece == [i \in 1..n |-> [byte |-> a + i - 1, sample |-> tick]]
            <4>1. \A i \in 1..n : [byte |-> a + i - 1, sample |-> tick] \in Bytes
                BY <2>1 DEF Bytes
            <4>2. piece \in [1..n -> Bytes]
                BY <4>1
            <4>3. \A i \in 1..n : piece[i].byte = a + i - 1 /\ piece[i].sample = tick
                OBVIOUS
            <4>4. more = reader.got \o piece
                BY <3>m
            <4> HIDE DEF piece
            <4>5. piece \in Seq(Bytes) /\ Len(piece) = n
                BY <2>1, <4>2
            <4>6. reader.got \in Seq(Bytes) /\ a \in Nat /\ n \in Nat /\ tick \in Nat
                BY <2>1
            <4>7. /\ more \in Seq(Bytes) /\ Len(more) = Len(reader.got) + n
                  /\ \A i \in 1..(Len(reader.got) + n) :
                        more[i] = IF i <= Len(reader.got) THEN reader.got[i] ELSE piece[i - Len(reader.got)]
                BY <4>4, <4>5, <4>6, ConcatProperties
            <4>8. Len(reader.got) \in Nat
                BY <4>6
            <4>9. ASSUME NEW i \in 1..Len(more)
                  PROVE  /\ i <= Len(reader.got) => more[i] = reader.got[i]
                         /\ ~(i <= Len(reader.got)) =>
                               more[i].byte = a + (i - Len(reader.got)) - 1 /\ more[i].sample = tick
                <5>1. CASE i <= Len(reader.got)
                    BY <4>6, <4>7, <4>8, <5>1
                <5>2. CASE ~(i <= Len(reader.got))
                    <6>1. i - Len(reader.got) \in 1..n /\ more[i] = piece[i - Len(reader.got)]
                        BY SMTT(60), <4>6, <4>7, <4>8, <5>2
                    <6> QED BY <4>3, <5>2, <6>1
                <5> QED BY <5>1, <5>2
            <4> QED BY <4>7, <4>9
        <3>7. Len(reader.got) \in Nat
            BY <2>1
        <3>8. ASSUME which # "pm11" PROVE PiecesSoFar(r)
            <4>1. PiecesSoFar(reader) /\ a = reader.pos + 1 /\ reader.pos = Len(reader.got)
                BY <1>0, <3>4, <3>5, <3>8 DEF PiecesSoFar
            <4>2. r.pos = Len(r.got) /\ r.pos <= TextLen
                BY <2>1, <3>2, <3>4, <3>5, <3>6, <3>8, <4>1
            <4>3. \A i \in 1..Len(r.got) : r.got[i].byte = i
                BY <2>1, <3>2, <3>6, <3>7, <4>1 DEF PiecesSoFar
            <4>4. ASSUME r.size >= TextLen
                  PROVE  r.pos \in {0, TextLen} /\ \A i, j \in 1..Len(r.got) : r.got[i].sample = r.got[j].sample
                <5>1. n = TextLen - reader.pos /\ reader.pos \in {0, TextLen}
                    BY <3>2, <3>4, <3>5, <3>8, <4>1, <4>4 DEF PiecesSoFar
                <5>2. reader.pos = 0 /\ Len(reader.got) = 0 /\ r.pos = TextLen
                    BY <2>1, <2>5, <3>2, <4>1, <5>1
                <5>3. \A i \in 1..Len(r.got) : r.got[i].sample = tick
                    BY <3>2, <3>6, <5>2
                <5> QED BY <5>2, <5>3
            <4> QED BY <4>2, <4>3, <4>4 DEF PiecesSoFar
        <3>9. /\ r.at \in {"none", "open", "inside"} /\ r.at # "inside"
              /\ r.size \in Nat /\ r.pos \in Nat /\ r.got \in Seq(Bytes)
            BY <2>1, <3>2, <3>6
        <3> QED BY <1>9, <2>3, <3>1, <3>3, <3>8, <3>9
    <2> QED BY <2>4, <2>5
<1> QED
    BY <1>1, <1>2, <1>3, <1>4, <1>5, <1>6, <1>7, <1>10, <1>11, <1>12, <1>13 DEF ProcNext

\* What the invariant of the modules says of readers, of writers and of a module
\* that has been unloaded.
LEMMA ProcImplies ==
    ProcInv => TerminatedWhenQuiet /\ PiecesInOrder /\ UnloadedMeansGone /\ NoMethodAfterUnload
<1> SUFFICES ASSUME ProcInv
             PROVE  TerminatedWhenQuiet /\ PiecesInOrder /\ UnloadedMeansGone /\ NoMethodAfterUnload
    OBVIOUS
<1>0. ProcTypes /\ EntriesMatch /\ MethodsInside /\ TerminatorDue /\ (which # "pm11" => PiecesSoFar(reader))
    BY DEF ProcInv
<1>1. TerminatedWhenQuiet
    <2>1. NoWrite.at # "copied"
        BY DEF NoWrite
    <2> QED BY <1>0, <2>1 DEF TerminatorDue, TerminatedWhenQuiet
<1>2. PiecesInOrder
    <2>1. DOMAIN reader.got = 1..Len(reader.got)
        BY <1>0 DEF ProcTypes
    <2> QED BY <1>0, <2>1 DEF PiecesSoFar, PiecesInOrder
<1>3. UnloadedMeansGone /\ NoMethodAfterUnload
    BY <1>0 DEF EntriesMatch, MethodsInside, UnloadedMeansGone, NoMethodAfterUnload
<1> QED BY <1>1, <1>2, <1>3

-----------------------------------------------------------------------------
(* The theorems of the composition *)

\* A behaviour of the composition is a behaviour of each of these components.
LEMMA ProgramSteps ==
    [MCNext]_vars =>
       /\ [ScullNext]_scullVars /\ [CharNext]_charVars /\ [ProcNext]_procVars /\ [HookNext]_hookVars
       /\ [ClockNext]_clockVars /\ [ChkeyNext]_chkeyVars
BY DEF MCNext, Rest, vars

\* And it starts in initial states of theirs.
LEMMA ProgramStarts ==
    MCInit => ScullInit /\ CharInit /\ ProcInit /\ HookInit /\ ClockInit /\ ChkeyInit
BY DEF MCInit

\* Whatever step of set-up fails, the drivers give back all they took and show
\* users only what is ready; whatever allocation of a scull write fails, all it
\* took is on the list, as long as no write has got as far as the copy of
\* main.c:205, which overwrites that list; and scull's size keeps its bound.
THEOREM DriversClean == MCSpec => []DriversCleanUp
<1>1. ScullInv /\ CharInv => DriversCleanUp
    BY ScullImplies, CharImplies DEF DriversCleanUp
<1> QED
    BY <1>1, ProgramSteps, ProgramStarts, ScullInitOK, ScullStep, CharInitOK, CharStep, PTL DEF MCSpec

\* However writes of a /proc file overlap, fail half way or are empty, its buffer
\* is terminated when they are over; and who reads it in pieces gets the text.
THEOREM ProcFilesKept == MCSpec => []ProcFilesRight
<1>1. ProcInv => ProcFilesRight
    BY ProcImplies DEF ProcFilesRight
<1> QED
    BY <1>1, ProgramSteps, ProgramStarts, ProcInitOK, ProcStep, PTL DEF MCSpec

\* No entry of /proc, no running method and no slot of the system call table
\* leads into a module that is not loaded, unless it was unloaded rashly.
THEOREM ModulesUnload == MCSpec => []ModulesUnloadCleanly
<1>1. ProcInv /\ HookInv => ModulesUnloadCleanly
    BY ProcImplies, HookImplies DEF ModulesUnloadCleanly
<1> QED
    BY <1>1, ProgramSteps, ProgramStarts, ProcInitOK, ProcStep, HookInitOK, HookStep, PTL DEF MCSpec
=============================================================================
