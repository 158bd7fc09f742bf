-------------------------- MODULE PageFaultProofs --------------------------
(***************************************************************************)
(* Proofs about the page fault handler.  The invariant FaultInv has six    *)
(* parts: types, the counter, mmap_sem, the kernel's page tables, the      *)
(* error codes, and the ends of the accesses.  All steps are first sorted  *)
(* by what they do to the part in question (CountSteps, SemSteps,          *)
(* EndSteps), and the part is shown to survive each sort.                  *)
(***************************************************************************)
EXTENDS PageFault, FiniteSetTheorems, TLAPS

\* The places a processor can be at, and the ends of an access.
Places == {"idle", "access", "enter", "loaded", "classify", "down_read", "locked", "good_area", "dead"}
Ends == {"done", "fixup", "SIGSEGV", "SIGBUS", "oops"}

\* An end that fits the error code: a signal for user mode, an oops for the kernel.
Fits(how, e) == (how \in {"SIGSEGV", "SIGBUS"} => e.user) /\ (how = "oops" => ~e.user)

\* __bad_area_nosemaphore always ends the access: with a signal only for a fault
\* of user mode, with an oops only for one of the kernel.
LEMMA BadAreaEnds ==
    ASSUME NEW c \in CPUs, NEW e, __bad_area_nosemaphore(c, e)
    PROVE  \E how \in Ends : Leave(c, how) /\ Fits(how, e)
BY DEF __bad_area_nosemaphore, no_context, force_sig_info_fault, Ends, Fits

\* do_sigbus releases mmap_sem and ends the access the same way.
LEMMA SigbusEnds ==
    ASSUME NEW c \in CPUs, NEW e, do_sigbus(c, e)
    PROVE  up_read(c) /\ \E how \in Ends : Leave(c, how) /\ Fits(how, e)
BY DEF do_sigbus, no_context, force_sig_info_fault, Ends, Fits

\* mm_fault_error releases mmap_sem once on each of its paths, whatever
\* handle_mm_fault reported, and ends the access or lets it be tried again.
LEMMA FaultErrorEnds ==
    ASSUME NEW c \in CPUs, NEW e, NEW fault \in {"OOM", "SIGBUS", "HWPOISON"}, mm_fault_error(c, e, fault)
    PROVE  up_read(c) /\ (Resume(c, "OOM") \/ \E how \in Ends : Leave(c, how) /\ Fits(how, e))
<1>1. CASE fault = "OOM" /\ ~e.user
    BY <1>1 DEF mm_fault_error, no_context, Ends, Fits
<1>2. CASE fault = "OOM" /\ e.user
    BY <1>2 DEF mm_fault_error, out_of_memory
<1>3. CASE fault \in {"SIGBUS", "HWPOISON"}
    BY <1>3, SigbusEnds DEF mm_fault_error
<1> QED BY <1>1, <1>2, <1>3

-----------------------------------------------------------------------------
\* FaultTypeOK together with the types of the variables it leaves out.
ErrorType == [prot : BOOLEAN, write : BOOLEAN, user : BOOLEAN, rsvd : BOOLEAN]

FaultTypes ==
    /\ FaultTypeOK
    /\ err \in [CPUs -> ErrorType]
    /\ tlb \in [CPUs -> [KernelPages -> Rights]]
    /\ outcome \in [CPUs -> Ends \cup {"none", "OOM"}]

\* c moves from one of the places From to one of the places To, or stays.
Moves(c, From, To) == fpc[c] \in From /\ \E x \in To : fpc' = [fpc EXCEPT ![c] = x]

\* Of all steps of the handler only the fault itself, the load and the store of
\* pfcount touch the counter or move a processor into or out of the increment.
LEMMA CountSteps ==
    ASSUME FaultNext, FaultTypes
    PROVE  \/ \E c \in CPUs : Moves(c, Places \ {"enter", "loaded"}, Places \ {"enter", "loaded"}) /\ UNCHANGED countVars
           \/ \E c \in CPUs : Moves(c, {"access"}, {"enter"}) /\ faults' = faults + 1
                                                              /\ UNCHANGED <<seen, pfcount, overlapped>>
           \/ \E c \in CPUs : LoadCount(c)
           \/ \E c \in CPUs : StoreCount(c)
           \/ UNCHANGED <<fpc, countVars>>
<1> DEFINE Quiet(c) == Moves(c, Places \ {"enter", "loaded"}, Places \ {"enter", "loaded"}) /\ UNCHANGED countVars
<1>0. ASSUME NEW c \in CPUs, fpc[c] \notin {"enter", "loaded"}, NEW how, Leave(c, how) \/ Resume(c, how), UNCHANGED countVars
      PROVE  Quiet(c)
    BY <1>0 DEF Leave, Resume, Moves, Places, FaultTypes, FaultTypeOK
<1>1. ASSUME NEW c \in CPUs, Start(c) PROVE Quiet(c)
    BY <1>1 DEF Start, Moves, Places
<1>2. ASSUME NEW c \in CPUs, Execute(c)
      PROVE  \/ Quiet(c)
             \/ Moves(c, {"access"}, {"enter"}) /\ faults' = faults + 1 /\ UNCHANGED <<seen, pfcount, overlapped>>
  <2>1. fpc[c] = "access" /\ UNCHANGED <<seen, pfcount, overlapped>>
      BY <1>2 DEF Execute
  <2>2. CASE Leave(c, "done") /\ UNCHANGED faults
    <3>1. UNCHANGED countVars
        BY <2>1, <2>2 DEF countVars
    <3>2. fpc[c] \notin {"enter", "loaded"}
        BY <2>1
    <3> QED BY <1>0, <2>2, <3>1, <3>2
  <2>3. CASE fpc' = [fpc EXCEPT ![c] = "enter"] /\ faults' = faults + 1
      BY <2>1, <2>3 DEF Moves
  <2> QED BY <1>2, <2>2, <2>3 DEF Execute
<1>3. ASSUME NEW c \in CPUs, KernelSpace(c) PROVE Quiet(c)
    BY <1>0, <1>3, BadAreaEnds DEF KernelSpace
<1>4. ASSUME NEW c \in CPUs, UserSpace(c) PROVE Quiet(c)
  <2>1. fpc[c] = "classify" /\ UNCHANGED countVars
      BY <1>4 DEF UserSpace
  <2>2. \/ \E how : Leave(c, how)
        \/ fpc' = [fpc EXCEPT ![c] = "locked"] \/ fpc' = [fpc EXCEPT ![c] = "down_read"]
      BY <1>4, BadAreaEnds DEF UserSpace
  <2> QED BY <1>0, <2>1, <2>2 DEF Moves, Places
<1>5. ASSUME NEW c \in CPUs, down_read(c) PROVE Quiet(c)
    BY <1>5 DEF down_read, Moves, Places
<1>6. ASSUME NEW c \in CPUs, FindArea(c) PROVE Quiet(c)
  <2>1. fpc[c] = "locked" /\ UNCHANGED countVars
      BY <1>6 DEF FindArea
  <2>2. (\E how : Leave(c, how)) \/ fpc' = [fpc EXCEPT ![c] = "good_area"]
      BY <1>6, BadAreaEnds DEF FindArea, __bad_area
  <2> QED BY <1>0, <2>1, <2>2 DEF Moves, Places
<1>7. ASSUME NEW c \in CPUs, good_area(c) PROVE Quiet(c)
  <2>1. fpc[c] = "good_area" /\ UNCHANGED countVars
      BY <1>7 DEF good_area
  <2>2. \E how : Leave(c, how) \/ Resume(c, how)
      BY <1>7, BadAreaEnds, FaultErrorEnds DEF good_area, __bad_area
  <2> QED BY <1>0, <2>1, <2>2
<1>8. ASSUME NEW c \in CPUs, ChangeArea(c) PROVE UNCHANGED <<fpc, countVars>>
    BY <1>8 DEF ChangeArea
<1>9. CASE MapKernelPage \/ GrantWrite \/ vmalloc_sync_all
    BY <1>9 DEF MapKernelPage, GrantWrite, vmalloc_sync_all
<1> QED BY <1>1, <1>2, <1>3, <1>4, <1>5, <1>6, <1>7, <1>8, <1>9 DEF FaultNext

-----------------------------------------------------------------------------
\* The processors between their fault and the store of the counter.
Early == {c \in CPUs : fpc[c] \in {"enter", "loaded"}}
Loaded(c) == fpc[c] = "loaded"

\* PfcountLosesOnlyOverlapped made inductive.  The counter, and each copy of it
\* that a processor has loaded, is behind the faults by at least the processors
\* inside the increment; without an overlap at most one processor has a copy, and
\* it is the counter.
CountInv ==
    /\ fpc \in [CPUs -> Places]
    /\ seen \in [CPUs -> Nat] /\ pfcount \in Nat /\ faults \in Nat
    /\ pfcount + Cardinality(Early) <= faults
    /\ \A c \in CPUs : Loaded(c) => seen[c] + Cardinality(Early) <= faults
    /\ ~overlapped =>
          /\ pfcount + Cardinality(Early) = faults
          /\ \A c \in CPUs : Loaded(c) => seen[c] = pfcount
          /\ \A c, d \in CPUs : Loaded(c) /\ Loaded(d) => c = d

\* The processors inside the increment can be counted.
LEMMA EarlyFinite == IsFiniteSet(Early) /\ Cardinality(Early) \in Nat
BY FaultAssumption, FS_Subset, FS_CardinalityType DEF Early

\* No fault has been taken and none is being counted at boot.
LEMMA CountInit == FaultInit => CountInv
<1> SUFFICES ASSUME FaultInit PROVE CountInv
    OBVIOUS
<1>1. Early = {} /\ \A c \in CPUs : ~Loaded(c)
    BY DEF FaultInit, Early, Loaded
<1>2. Cardinality(Early) = 0
    BY <1>1, FS_EmptySet
<1>3. fpc \in [CPUs -> Places] /\ seen \in [CPUs -> Nat] /\ pfcount = 0 /\ faults = 0
    BY DEF FaultInit, Places
<1> QED BY <1>1, <1>2, <1>3 DEF CountInv

\* The load and the store of pfcount++ keep CountInv: a store that follows a stale
\* load can lower the counter, but never above the faults taken.
LEMMA CountKept == CountInv /\ FaultTypes /\ [FaultNext]_faultVars => CountInv'
<1> SUFFICES ASSUME CountInv, FaultTypes, [FaultNext]_faultVars PROVE CountInv'
    OBVIOUS
<1>1. CASE UNCHANGED <<fpc, countVars>>
    BY <1>1 DEF countVars, CountInv, Early, Loaded
<1>2. ASSUME NEW c \in CPUs, Moves(c, Places \ {"enter", "loaded"}, Places \ {"enter", "loaded"}), UNCHANGED countVars
      PROVE  CountInv'
  <2>1. PICK x \in Places \ {"enter", "loaded"} : fpc' = [fpc EXCEPT ![c] = x] /\ fpc[c] \notin {"enter", "loaded"}
      BY <1>2 DEF Moves
  <2>2. Early' = Early /\ (\A d \in CPUs : Loaded(d)' <=> Loaded(d)) /\ fpc' \in [CPUs -> Places]
      BY <2>1 DEF Early, Loaded, CountInv
  <2> QED BY <1>2, <2>2 DEF CountInv, countVars
<1>3. ASSUME NEW c \in CPUs, Moves(c, {"access"}, {"enter"}), faults' = faults + 1, UNCHANGED <<seen, pfcount, overlapped>>
      PROVE  CountInv'
  <2>1. fpc[c] = "access" /\ fpc' = [fpc EXCEPT ![c] = "enter"]
      BY <1>3 DEF Moves
  <2>2. Early' = Early \cup {c} /\ c \notin Early /\ (\A d \in CPUs : Loaded(d)' <=> Loaded(d)) /\ fpc' \in [CPUs -> Places]
      BY <2>1 DEF Early, Loaded, CountInv, Places
  <2>3. Cardinality(Early') = Cardinality(Early) + 1
      BY <2>2, EarlyFinite, FS_AddElement
  <2>4. \A d \in CPUs : Loaded(d)' => seen[d] + Cardinality(Early') <= faults + 1
      BY <2>2, <2>3, EarlyFinite DEF CountInv
  <2>5. pfcount + Cardinality(Early') <= faults + 1
      BY <2>3, EarlyFinite DEF CountInv
  <2>6. ~overlapped => pfcount + Cardinality(Early') = faults + 1
      BY <2>3, EarlyFinite DEF CountInv
  <2> QED BY SMTT(60), <1>3, <2>2, <2>4, <2>5, <2>6 DEF CountInv
<1>4. ASSUME NEW c \in CPUs, LoadCount(c) PROVE CountInv'
  <2>1. /\ fpc[c] = "enter" /\ fpc' = [fpc EXCEPT ![c] = "loaded"] /\ seen' = [seen EXCEPT ![c] = pfcount]
        /\ overlapped' = (overlapped \/ \E d \in CPUs : Loaded(d)) /\ UNCHANGED <<pfcount, faults>>
      BY <1>4 DEF LoadCount, Loaded
  <2>2. Early' = Early /\ fpc' \in [CPUs -> Places] /\ (\A d \in CPUs : Loaded(d)' <=> d = c \/ Loaded(d))
      BY <2>1 DEF Early, Loaded, CountInv, Places
  <2>3. seen' \in [CPUs -> Nat] /\ \A d \in CPUs : seen'[d] = IF d = c THEN pfcount ELSE seen[d]
      BY <2>1 DEF CountInv
  <2>4. \A d \in CPUs : Loaded(d)' => seen'[d] + Cardinality(Early) <= faults
      BY <2>2, <2>3 DEF CountInv
  <2>5. ASSUME ~overlapped' PROVE ~overlapped /\ \A d \in CPUs : ~Loaded(d)
      BY <2>1, <2>5
  <2>6. ASSUME ~overlapped'
        PROVE  /\ pfcount + Cardinality(Early) = faults
               /\ \A d \in CPUs : Loaded(d)' => d = c /\ seen'[d] = pfcount
      BY <2>2, <2>3, <2>5, <2>6 DEF CountInv
  <2> QED BY <2>1, <2>2, <2>3, <2>4, <2>6 DEF CountInv
<1>5. ASSUME NEW c \in CPUs, StoreCount(c) PROVE CountInv'
  <2>1. /\ Loaded(c) /\ fpc' = [fpc EXCEPT ![c] = "classify"] /\ pfcount' = seen[c] + 1
        /\ UNCHANGED <<seen, faults, overlapped>>
      BY <1>5 DEF StoreCount, Loaded, Increment
  <2>2. Early' = Early \ {c} /\ c \in Early /\ fpc' \in [CPUs -> Places] /\ (\A d \in CPUs : Loaded(d)' <=> d # c /\ Loaded(d))
      BY <2>1 DEF Early, Loaded, CountInv, Places
  <2>3. Cardinality(Early') = Cardinality(Early) - 1
      BY <2>2, EarlyFinite, FS_RemoveElement
  <2> QED BY <2>1, <2>2, <2>3, EarlyFinite DEF CountInv
<1> QED BY <1>1, <1>2, <1>3, <1>4, <1>5, CountSteps DEF faultVars, countVars

\* CountInv is strong enough for what do_pfcount promises.
LEMMA CountRight == CountInv => PfcountLosesOnlyOverlapped
BY EarlyFinite DEF CountInv, PfcountLosesOnlyOverlapped, sys_do_pfcount, Early

-----------------------------------------------------------------------------
\* User and kernel pages are disjoint, and TaskSize separates them.
LEMMA PageTypes ==
    /\ StackPage \in UserPages /\ 0 \in UserPages /\ LowPage \in KernelPages /\ VmallocPage \in KernelPages
    /\ \A p \in UserPages : p \notin KernelPages /\ ~(p >= TaskSize)
    /\ \A k \in KernelPages : k >= TaskSize
BY FaultAssumption DEF StackPage, UserPages, KernelPages

\* The fields of an access have their types, and fault_in_kernel_space tells
\* exactly the kernel pages.
LEMMA AccessFields ==
    ASSUME NEW a \in Accesses
    PROVE  /\ a.addr \in UserPages \cup KernelPages /\ a.write \in BOOLEAN /\ a.inTable \in BOOLEAN
           /\ a.implicit \in BOOLEAN /\ a.rsvd \in BOOLEAN /\ (a.ctx = "mmap" => ~a.inTable)
           /\ fault_in_kernel_space(a) <=> a.addr \in KernelPages
<1>1. a \in AccessType /\ (a.ctx = "mmap" => ~a.inTable)
    BY FaultAssumption
<1>2. /\ a.addr \in UserPages \cup KernelPages /\ a.write \in BOOLEAN /\ a.inTable \in BOOLEAN
      /\ a.implicit \in BOOLEAN /\ a.rsvd \in BOOLEAN
    BY <1>1 DEF AccessType
<1>3. fault_in_kernel_space(a) <=> a.addr \in KernelPages
    BY <1>2, PageTypes DEF fault_in_kernel_space
<1> QED BY <1>1, <1>2, <1>3

\* Where the ends of a fault leave the processor: out of the handler, with
\* mmap_sem held by nobody who did not hold it for writing before.
LEMMA LeaveTypes ==
    ASSUME FaultTypes, NEW c \in CPUs, NEW how \in Ends \cup {"none", "OOM"}, Leave(c, how) \/ Resume(c, how)
    PROVE  /\ fpc' \in [CPUs -> Places] /\ outcome' \in [CPUs -> Ends \cup {"none", "OOM"}] /\ semWrite' \subseteq CPUs
           /\ \E x \in {"idle", "dead", "access"} : fpc' = [fpc EXCEPT ![c] = x]
           /\ outcome' = [outcome EXCEPT ![c] = how] /\ semWrite' \subseteq semWrite
BY ZenonT(60) DEF Leave, Resume, FaultTypes, FaultTypeOK, Places

\* The initial state has the right types.
LEMMA TypesInit == FaultInit => FaultTypes
<1> SUFFICES ASSUME FaultInit PROVE FaultTypes
    OBVIOUS
<1>1. NoError \in ErrorType
    BY DEF NoError, ErrorType
<1>2. FaultTypeOK
    BY PageTypes DEF FaultInit, FaultTypeOK, Rights
<1>3. tlb \in [CPUs -> [KernelPages -> Rights]]
    BY DEF FaultInit, Rights
<1>4. err \in [CPUs -> ErrorType] /\ outcome \in [CPUs -> Ends \cup {"none", "OOM"}]
    BY <1>1 DEF FaultInit
<1> QED BY <1>2, <1>3, <1>4 DEF FaultTypes

\* The rights a walk finds are rights.
LEMMA WalkRights ==
    ASSUME FaultTypes, NEW c \in CPUs, NEW a \in Accesses
    PROVE  Walk(c, a) \in Rights
<1>1. a.addr \in UserPages \cup KernelPages
    BY AccessFields
<1>2. CASE a.addr \in UserPages
    BY <1>2 DEF Walk, FaultTypes, FaultTypeOK
<1>3. CASE a.addr \in KernelPages /\ a.addr \notin UserPages
    BY <1>3 DEF Walk, FaultTypes, FaultTypeOK, Rights
<1> QED BY <1>1, <1>2, <1>3

\* Every step of the processors, the handler and the kernel keeps the types.
LEMMA TypesKept == FaultTypes /\ [FaultNext]_faultVars => FaultTypes'
<1> SUFFICES ASSUME FaultTypes, [FaultNext]_faultVars PROVE FaultTypes'
    OBVIOUS
<1> USE DEF FaultTypes
<1> DEFINE Ctl == /\ fpc' \in [CPUs -> Places] /\ outcome' \in [CPUs -> Ends \cup {"none", "OOM"}]
                  /\ semWrite' \subseteq CPUs
           Mem == /\ area' \in [UserPages -> Rights] /\ pte' \in [UserPages -> Rights]
                  /\ master' \in [KernelPages -> Rights] /\ pmd' \subseteq KernelPages
<1>0. ASSUME Ctl, Mem, accessing' = accessing, err' \in [CPUs -> ErrorType], tlb' \in [CPUs -> [KernelPages -> Rights]]
      PROVE  FaultTypes'
    BY <1>0 DEF FaultTypeOK, Places
<1>1. ASSUME NEW c \in CPUs, Start(c) PROVE FaultTypes'
  <2>1. Ctl
      BY <1>1 DEF Start, FaultTypeOK, Places
  <2> QED BY <1>0, <1>1, <2>1 DEF Start, memVars, FaultTypeOK
<1>2. ASSUME NEW c \in CPUs, Execute(c) PROVE FaultTypes'
  <2>1. accessing[c] \in Accesses /\ Mem /\ accessing' = accessing
      BY <1>2 DEF FaultTypeOK, Execute, memVars
  <2>2. Walk(c, accessing[c]) \in Rights /\ {} \in Rights
      BY <2>1, WalkRights DEF Rights
  <2>3. tlb' \in [CPUs -> [KernelPages -> Rights]]
    <3>1. CASE UNCHANGED tlb
        BY <3>1
    <3>2. ASSUME NEW k \in KernelPages, NEW r \in Rights, tlb' = [tlb EXCEPT ![c][k] = r]
          PROVE  tlb' \in [CPUs -> [KernelPages -> Rights]]
        BY <3>2
    <3> QED BY <1>2, <2>2, <3>1, <3>2 DEF Execute
  <2>4. ErrorCode(c, accessing[c]) \in ErrorType
    <3>1. /\ accessing[c].write \in BOOLEAN /\ (Walk(c, accessing[c]) # {} \/ accessing[c].rsvd) \in BOOLEAN
          /\ (UserMode(accessing[c]) /\ ~accessing[c].implicit) \in BOOLEAN /\ accessing[c].rsvd \in BOOLEAN
        BY <2>1, AccessFields
    <3> QED BY <3>1 DEF ErrorCode, ErrorType
  <2>5. err' \in [CPUs -> ErrorType]
      BY <1>2, <2>4 DEF Execute
  <2>6. Ctl
    <3>1. CASE Leave(c, "done")
        BY <3>1, LeaveTypes DEF Ends
    <3>2. CASE fpc' = [fpc EXCEPT ![c] = "enter"] /\ UNCHANGED <<outcome, semWrite>>
        BY <3>2 DEF FaultTypeOK, Places
    <3> QED BY <1>2, <3>1, <3>2 DEF Execute
  <2> QED BY <1>0, <2>1, <2>3, <2>5, <2>6
<1>3. ASSUME NEW c \in CPUs, LoadCount(c) \/ StoreCount(c) PROVE FaultTypes'
  <2>1. Ctl
      BY <1>3 DEF LoadCount, StoreCount, FaultTypeOK, Places
  <2> QED BY <1>0, <1>3, <2>1 DEF LoadCount, StoreCount, memVars, FaultTypeOK
<1>4. ASSUME NEW c \in CPUs, KernelSpace(c) PROVE FaultTypes'
  <2>1. \E how \in Ends \cup {"none", "OOM"} : Leave(c, how) \/ Resume(c, how)
      BY <1>4, BadAreaEnds DEF KernelSpace, Ends
  <2>2. Ctl
      BY <2>1, LeaveTypes
  <2>3. accessing[c] \in Accesses
      BY DEF FaultTypeOK
  <2>4. pmd' \subseteq KernelPages
      BY <1>4, <2>3, AccessFields DEF KernelSpace, FaultTypeOK
  <2> QED BY <1>0, <1>4, <2>2, <2>4 DEF KernelSpace, FaultTypeOK
<1>5. ASSUME NEW c \in CPUs, UserSpace(c) PROVE FaultTypes'
  <2>1. UserError(err[c], accessing[c]) \in ErrorType
      BY DEF UserError, ErrorType
  <2>2. err' \in [CPUs -> ErrorType]
      BY <1>5, <2>1 DEF UserSpace
  <2>3. \/ \E how \in Ends : Leave(c, how)
        \/ /\ fpc' = [fpc EXCEPT ![c] = "locked"] \/ fpc' = [fpc EXCEPT ![c] = "down_read"]
           /\ UNCHANGED <<outcome, semWrite>>
      BY <1>5, BadAreaEnds DEF UserSpace, Ends
  <2>4. Ctl
      BY <2>3, LeaveTypes DEF FaultTypeOK, Places
  <2> QED BY <1>0, <1>5, <2>2, <2>4 DEF UserSpace, memVars, FaultTypeOK
<1>6. ASSUME NEW c \in CPUs, down_read(c) PROVE FaultTypes'
  <2>1. Ctl
      BY <1>6 DEF down_read, FaultTypeOK, Places
  <2> QED BY <1>0, <1>6, <2>1 DEF down_read, memVars, FaultTypeOK
<1>7. ASSUME NEW c \in CPUs, FindArea(c) PROVE FaultTypes'
  <2>1. \/ \E how \in Ends : Leave(c, how)
        \/ fpc' = [fpc EXCEPT ![c] = "good_area"] /\ UNCHANGED <<outcome, semWrite>>
      BY <1>7, BadAreaEnds DEF FindArea, __bad_area
  <2>2. Ctl
      BY <2>1, LeaveTypes DEF FaultTypeOK, Places
  <2>3. area' \in [UserPages -> Rights]
      BY <1>7, PageTypes DEF FindArea, FaultTypeOK
  <2> QED BY <1>0, <1>7, <2>2, <2>3 DEF FindArea, FaultTypeOK
<1>8. ASSUME NEW c \in CPUs, good_area(c) PROVE FaultTypes'
  <2>1. \E how \in Ends \cup {"none", "OOM"} : Leave(c, how) \/ Resume(c, how)
      BY <1>8, BadAreaEnds, FaultErrorEnds DEF good_area, __bad_area
  <2>2. Ctl
      BY <2>1, LeaveTypes
  <2>3. pte' \in [UserPages -> Rights]
    <3>1. CASE UNCHANGED pte
        BY <3>1 DEF FaultTypeOK
    <3>2. ASSUME NEW p, NEW b, pte' = [pte EXCEPT ![p] = IF b THEN {"READ", "WRITE"} ELSE @ \cup {"READ"}]
          PROVE  pte' \in [UserPages -> Rights]
        BY <3>2 DEF FaultTypeOK, Rights
    <3> QED BY <1>8, <3>1, <3>2 DEF good_area
  <2> QED BY <1>0, <1>8, <2>2, <2>3 DEF good_area, FaultTypeOK
<1>9. ASSUME NEW c \in CPUs, ChangeArea(c) PROVE FaultTypes'
  <2>1. area' \in [UserPages -> Rights] /\ pte' \in [UserPages -> Rights]
      BY <1>9 DEF ChangeArea, FaultTypeOK, Rights
  <2> QED BY <1>0, <1>9, <2>1 DEF ChangeArea, FaultTypeOK, Places
<1>10. CASE MapKernelPage \/ GrantWrite \/ vmalloc_sync_all
  <2>1. master' \in [KernelPages -> Rights] /\ pmd' \subseteq KernelPages
    <3>1. {"READ"} \in Rights /\ {"READ", "WRITE"} \in Rights
        BY DEF Rights
    <3>2. CASE MapKernelPage
      <4>1. PICK r \in {{"READ"}, {"READ", "WRITE"}} : master' = [master EXCEPT ![VmallocPage] = r]
          BY <3>2 DEF MapKernelPage
      <4>2. r \in Rights
          BY <3>1
      <4> QED BY <3>2, <4>1, <4>2 DEF MapKernelPage, FaultTypeOK
    <3>3. CASE GrantWrite
        BY <3>1, <3>3 DEF GrantWrite, FaultTypeOK
    <3>4. CASE vmalloc_sync_all
        BY <3>4, PageTypes DEF vmalloc_sync_all, FaultTypeOK
    <3> QED BY <1>10, <3>2, <3>3, <3>4
  <2> QED BY <1>0, <1>10, <2>1 DEF MapKernelPage, GrantWrite, vmalloc_sync_all, FaultTypeOK, Places
<1>11. CASE UNCHANGED faultVars
    BY <1>11 DEF faultVars, FaultTypeOK
<1> QED BY <1>1, <1>2, <1>3, <1>4, <1>5, <1>6, <1>7, <1>8, <1>9, <1>10, <1>11 DEF FaultNext

-----------------------------------------------------------------------------
\* Where the handler holds mmap_sem for reading.
Inside == {"locked", "good_area"}

\* SemBalanced and NoSelfDeadlock made inductive: mmap_sem is held for writing
\* only by sections that may hold it.
SemInv ==
    /\ semRead = [c \in CPUs |-> IF fpc[c] \in Inside THEN 1 ELSE 0]
    /\ semWrite # {} => \A c \in CPUs : fpc[c] \notin Inside
    /\ \A c \in semWrite : accessing[c].ctx = "mmap"
    /\ NoSelfDeadlock

\* The error code agrees with the access, as far as the handler relies on it.
Agrees(a, e) == (e.rsvd <=> a.rsvd) /\ (e.write <=> a.write)

\* Before the classification: a kernel page is not cached any more, and was found
\* present only where the page directory has its entry.
Fresh(c, a, e) ==
    /\ Agrees(a, e)
    /\ e.user <=> UserMode(a) /\ ~a.implicit
    /\ a.addr \in KernelPages => tlb[c][a.addr] = {} /\ (e.prot => a.rsvd \/ a.addr \in pmd)

\* After it, only user pages are left, and user registers count as user mode.
Checked(a, e) ==
    /\ Agrees(a, e) /\ ~a.rsvd /\ a.addr \in UserPages
    /\ e.user <=> UserMode(a)

ErrInv ==
    \A c \in CPUs :
       /\ fpc[c] \in {"enter", "loaded", "classify"} => Fresh(c, accessing[c], err[c])
       /\ fpc[c] \in {"down_read", "locked", "good_area"} => Checked(accessing[c], err[c])

\* Steps of the handler, by what they do to the program counter and mmap_sem.
Outside(c) == /\ Moves(c, Places \ Inside, Places \ (Inside \cup {"down_read"}))
              /\ UNCHANGED semRead /\ semWrite' \subseteq semWrite
Lock(c) == /\ Moves(c, Places \ Inside, {"locked"}) /\ semWrite = {} /\ semWrite' = semWrite
           /\ semRead' = [semRead EXCEPT ![c] = @ + 1]
Unlock(c) == /\ Moves(c, Inside, Places \ (Inside \cup {"down_read"})) /\ semWrite' \subseteq semWrite /\ up_read(c)
Within(c) == Moves(c, {"locked"}, {"good_area"}) /\ UNCHANGED <<semRead, semWrite>>
Wait(c) == Moves(c, Places \ Inside, {"down_read"}) /\ c \notin semWrite /\ UNCHANGED <<semRead, semWrite>>

\* The ends of a fault lead outside the section under mmap_sem.
LEMMA LeaveMoves ==
    ASSUME FaultTypes, NEW c \in CPUs, NEW how \in Ends \cup {"none", "OOM"}, Leave(c, how) \/ Resume(c, how)
    PROVE  (\E x \in Places \ (Inside \cup {"down_read"}) : fpc' = [fpc EXCEPT ![c] = x]) /\ semWrite' \subseteq semWrite
BY LeaveTypes DEF Places, Inside

\* Every step does one of the five things to mmap_sem, or begins an access.  The
\* interesting case is UserSpace, which waits for the lock only after a look at
\* the exception table: code that holds mmap_sem is not in it.
LEMMA SemSteps ==
    ASSUME FaultTypes, SemInv, ErrInv, FaultNext
    PROVE  /\ accessing' = accessing
           /\ \/ \E d \in CPUs : Start(d) \/ Outside(d) \/ Lock(d) \/ Unlock(d) \/ Within(d) \/ Wait(d)
              \/ UNCHANGED <<fpc, semRead, semWrite>>
<1> USE DEF FaultTypes
<1>1. ASSUME NEW d \in CPUs, Start(d) PROVE accessing' = accessing
    BY <1>1 DEF Start
<1>2. ASSUME NEW d \in CPUs, Execute(d) PROVE accessing' = accessing /\ Outside(d)
  <2>1. accessing' = accessing /\ fpc[d] = "access" /\ semRead' = semRead
      BY <1>2 DEF Execute
  <2>2. (\E x \in Places \ (Inside \cup {"down_read"}) : fpc' = [fpc EXCEPT ![d] = x]) /\ semWrite' \subseteq semWrite
      BY <1>2, LeaveMoves DEF Execute, Places, Inside, Ends
  <2> QED BY <2>1, <2>2 DEF Outside, Moves, Places, Inside
<1>3. ASSUME NEW d \in CPUs, LoadCount(d) \/ StoreCount(d) PROVE accessing' = accessing /\ Outside(d)
    BY <1>3 DEF LoadCount, StoreCount, Outside, Moves, Places, Inside
<1>4. ASSUME NEW d \in CPUs, KernelSpace(d) PROVE accessing' = accessing /\ Outside(d)
  <2>1. accessing' = accessing /\ fpc[d] = "classify" /\ semRead' = semRead
      BY <1>4 DEF KernelSpace
  <2>2. \E how \in Ends \cup {"none", "OOM"} : Leave(d, how) \/ Resume(d, how)
      BY <1>4, BadAreaEnds DEF KernelSpace, Ends
  <2> QED BY <2>1, <2>2, LeaveMoves DEF Outside, Moves, Places, Inside
<1>5. ASSUME NEW d \in CPUs, UserSpace(d) PROVE accessing' = accessing /\ (Outside(d) \/ Lock(d) \/ Wait(d))
  <2>1. accessing' = accessing /\ fpc[d] = "classify"
      BY <1>5 DEF UserSpace
  <2>2. \/ semRead' = semRead /\ \E how \in Ends : Leave(d, how)
        \/ semWrite = {} /\ semWrite' = semWrite /\ fpc' = [fpc EXCEPT ![d] = "locked"]
           /\ semRead' = [semRead EXCEPT ![d] = @ + 1]
        \/ /\ ~MustNotLock(UserError(err[d], accessing[d]), accessing[d]) /\ fpc' = [fpc EXCEPT ![d] = "down_read"]
           /\ semRead' = semRead /\ semWrite' = semWrite
      BY <1>5, BadAreaEnds DEF UserSpace, Ends, down_read_trylock
  <2>3. CASE semRead' = semRead /\ \E how \in Ends : Leave(d, how)
      BY <2>1, <2>3, LeaveMoves DEF Outside, Moves, Places, Inside
  <2>4. CASE semWrite = {} /\ semWrite' = semWrite /\ fpc' = [fpc EXCEPT ![d] = "locked"]
             /\ semRead' = [semRead EXCEPT ![d] = @ + 1]
      BY <2>1, <2>4 DEF Lock, Moves, Places, Inside
  <2>5. CASE /\ ~MustNotLock(UserError(err[d], accessing[d]), accessing[d]) /\ fpc' = [fpc EXCEPT ![d] = "down_read"]
             /\ semRead' = semRead /\ semWrite' = semWrite
    <3>1. accessing[d] \in Accesses /\ err[d] \in ErrorType
        BY DEF FaultTypeOK
    <3>2. accessing[d].ctx = "mmap" => ~accessing[d].inTable /\ ~err[d].user /\ ~UserMode(accessing[d])
        BY <2>1, <3>1, AccessFields DEF ErrInv, Fresh, UserMode
    <3>3. accessing[d].ctx # "mmap"
        BY <2>5, <3>2 DEF MustNotLock, UserError
    <3>4. d \notin semWrite
        BY <3>3 DEF SemInv
    <3> QED BY <2>1, <2>5, <3>4 DEF Wait, Moves, Places, Inside
  <2> QED BY <2>1, <2>2, <2>3, <2>4, <2>5
<1>6. ASSUME NEW d \in CPUs, down_read(d) PROVE accessing' = accessing /\ Lock(d)
    BY <1>6 DEF down_read, Lock, Moves, Places, Inside
<1>7. ASSUME NEW d \in CPUs, FindArea(d) PROVE accessing' = accessing /\ (Unlock(d) \/ Within(d))
  <2>1. accessing' = accessing /\ fpc[d] = "locked"
      BY <1>7 DEF FindArea
  <2>2. \/ up_read(d) /\ \E how \in Ends : Leave(d, how)
        \/ fpc' = [fpc EXCEPT ![d] = "good_area"] /\ UNCHANGED <<semRead, semWrite>>
      BY <1>7, BadAreaEnds DEF FindArea, __bad_area
  <2> QED BY <2>1, <2>2, LeaveMoves DEF Unlock, Within, Moves, Inside
<1>8. ASSUME NEW d \in CPUs, good_area(d) PROVE accessing' = accessing /\ Unlock(d)
  <2>1. accessing' = accessing /\ fpc[d] = "good_area"
      BY <1>8 DEF good_area
  <2>2. up_read(d) /\ \E how \in Ends \cup {"none", "OOM"} : Leave(d, how) \/ Resume(d, how)
      BY <1>8, BadAreaEnds, FaultErrorEnds DEF good_area, __bad_area
  <2> QED BY <2>1, <2>2, LeaveMoves DEF Unlock, Moves, Inside
<1>9. ASSUME NEW d \in CPUs, ChangeArea(d) PROVE accessing' = accessing /\ UNCHANGED <<fpc, semRead, semWrite>>
    BY <1>9 DEF ChangeArea
<1>10. CASE MapKernelPage \/ GrantWrite \/ vmalloc_sync_all
    BY <1>10 DEF MapKernelPage, GrantWrite, vmalloc_sync_all
<1> QED BY <1>1, <1>2, <1>3, <1>4, <1>5, <1>6, <1>7, <1>8, <1>9, <1>10 DEF FaultNext

\* Nobody holds mmap_sem at boot.
LEMMA SemInit == FaultInit => SemInv
BY DEF FaultInit, SemInv, NoSelfDeadlock, Inside

\* Every step keeps the readers of mmap_sem where the program counters say.
LEMMA SemKept == FaultTypes /\ SemInv /\ ErrInv /\ [FaultNext]_faultVars => SemInv'
<1> SUFFICES ASSUME FaultTypes, SemInv, ErrInv, [FaultNext]_faultVars PROVE SemInv'
    OBVIOUS
<1>1. CASE UNCHANGED <<accessing, fpc, semRead, semWrite>>
    BY <1>1 DEF SemInv, NoSelfDeadlock
<1>2. ASSUME NEW d \in CPUs, Start(d), accessing' = accessing PROVE SemInv'
  <2>1. /\ fpc[d] = "idle" /\ fpc' = [fpc EXCEPT ![d] = "access"] /\ semRead' = semRead
        /\ IF accessing[d].ctx = "mmap"
           THEN semWrite = {} /\ (\A c \in CPUs : semRead[c] = 0) /\ semWrite' = {d}
           ELSE semWrite' = semWrite
      BY <1>2 DEF Start
  <2>2. \A c \in CPUs : (fpc'[c] \in Inside <=> fpc[c] \in Inside) /\ (fpc'[c] = "down_read" => c # d /\ fpc[c] = "down_read")
      BY <2>1 DEF FaultTypes, FaultTypeOK, Inside
  <2>3. semRead' = [c \in CPUs |-> IF fpc'[c] \in Inside THEN 1 ELSE 0]
      BY <2>1, <2>2 DEF SemInv
  <2>4. semWrite' # {} => \A c \in CPUs : fpc'[c] \notin Inside
    <3>1. CASE accessing[d].ctx = "mmap"
      <4>1. \A c \in CPUs : fpc[c] \notin Inside
          BY <2>1, <3>1 DEF SemInv
      <4> QED BY <2>2, <4>1
    <3>2. CASE accessing[d].ctx # "mmap"
        BY <2>1, <2>2, <3>2 DEF SemInv
    <3> QED BY <3>1, <3>2
  <2>5. (\A c \in semWrite' : accessing'[c].ctx = "mmap") /\ NoSelfDeadlock'
      BY <1>2, <2>1, <2>2 DEF SemInv, NoSelfDeadlock
  <2> QED BY <2>3, <2>4, <2>5 DEF SemInv
<1>3. ASSUME NEW d \in CPUs, Outside(d), accessing' = accessing PROVE SemInv'
    BY <1>3 DEF Outside, Moves, FaultTypes, FaultTypeOK, SemInv, NoSelfDeadlock
<1>4. ASSUME NEW d \in CPUs, Lock(d), accessing' = accessing PROVE SemInv'
  <2>1. /\ fpc[d] \notin Inside /\ fpc' = [fpc EXCEPT ![d] = "locked"] /\ semWrite = {} /\ semWrite' = {}
        /\ semRead' = [semRead EXCEPT ![d] = @ + 1]
      BY <1>4 DEF Lock, Moves
  <2>2. semRead' = [c \in CPUs |-> IF fpc'[c] \in Inside THEN 1 ELSE 0]
      BY SMTT(60), <2>1 DEF FaultTypes, FaultTypeOK, SemInv, Inside
  <2> QED BY <2>1, <2>2 DEF SemInv, NoSelfDeadlock
<1>5. ASSUME NEW d \in CPUs, Unlock(d), accessing' = accessing PROVE SemInv'
  <2>1. PICK x \in Places \ (Inside \cup {"down_read"}) : fpc' = [fpc EXCEPT ![d] = x]
      BY <1>5 DEF Unlock, Moves
  <2>2. fpc[d] \in Inside /\ semWrite' \subseteq semWrite /\ semRead' = [semRead EXCEPT ![d] = @ - 1]
      BY <1>5 DEF Unlock, Moves, up_read
  <2>3. \A c \in CPUs : /\ fpc'[c] \in Inside <=> c # d /\ fpc[c] \in Inside
                        /\ fpc'[c] = "down_read" => fpc[c] = "down_read"
      BY <2>1 DEF FaultTypes, FaultTypeOK
  <2>4. semRead' = [c \in CPUs |-> IF fpc'[c] \in Inside THEN 1 ELSE 0]
      BY <2>2, <2>3 DEF SemInv
  <2>5. NoSelfDeadlock'
      BY <2>2, <2>3 DEF SemInv, NoSelfDeadlock
  <2> QED BY <1>5, <2>2, <2>3, <2>4, <2>5 DEF SemInv
<1>6. ASSUME NEW d \in CPUs, Within(d), accessing' = accessing PROVE SemInv'
    BY <1>6 DEF Within, Moves, FaultTypes, FaultTypeOK, SemInv, NoSelfDeadlock, Inside
<1>7. ASSUME NEW d \in CPUs, Wait(d), accessing' = accessing PROVE SemInv'
    BY <1>7 DEF Wait, Moves, FaultTypes, FaultTypeOK, SemInv, NoSelfDeadlock, Inside
<1> QED BY <1>1, <1>2, <1>3, <1>4, <1>5, <1>6, <1>7, SemSteps DEF faultVars

\* SemInv gives the two properties of mmap_sem that the run checks.
LEMMA SemRight == FaultTypes /\ SemInv => SemBalanced /\ NoSelfDeadlock
BY DEF SemInv, SemBalanced, Inside
-----------------------------------------------------------------------------
\* The page tables of the kernel: the low page is in every page directory, cached
\* translations are of pages in the page directory, and every mapped kernel page
\* can be read.
MemInv ==
    /\ LowPage \in pmd
    /\ \A c \in CPUs, k \in KernelPages : tlb[c][k] # {} => k \in pmd
    /\ \A k \in KernelPages : master[k] # {} => "READ" \in master[k]

\* The initial page tables satisfy MemInv.
LEMMA MemInit == FaultInit => MemInv
BY DEF FaultInit, MemInv

\* A walk caches only translations that the page directory has, and nothing is
\* ever removed from the page directory or from the kernel's rights.
LEMMA MemKept == FaultTypes /\ MemInv /\ [FaultNext]_faultVars => MemInv' /\ pmd \subseteq pmd'
<1> SUFFICES ASSUME FaultTypes, MemInv, [FaultNext]_faultVars PROVE MemInv' /\ pmd \subseteq pmd'
    OBVIOUS
<1>1. CASE UNCHANGED <<master, pmd, tlb>>
    BY <1>1 DEF MemInv
<1>2. ASSUME NEW c \in CPUs, Execute(c) PROVE MemInv' /\ pmd \subseteq pmd'
  <2>1. UNCHANGED <<master, pmd>> /\ accessing[c] \in Accesses
      BY <1>2 DEF Execute, memVars, FaultTypes, FaultTypeOK
  <2>2. accessing[c].addr \in KernelPages /\ Walk(c, accessing[c]) # {} => accessing[c].addr \in pmd
      BY <2>1, PageTypes DEF Walk, Cached, MemInv
  <2>3. ASSUME NEW k \in KernelPages, NEW r, tlb' = [tlb EXCEPT ![c][k] = r], r # {} => k \in pmd
        PROVE  MemInv'
      BY <2>1, <2>3 DEF MemInv, FaultTypes
  <2>4. CASE UNCHANGED tlb
      BY <2>1, <2>4 DEF MemInv
  <2> QED BY <1>2, <2>1, <2>2, <2>3, <2>4 DEF Execute
<1>3. ASSUME NEW c \in CPUs, KernelSpace(c) PROVE MemInv' /\ pmd \subseteq pmd'
    BY <1>3 DEF KernelSpace, MemInv
<1>4. CASE MapKernelPage
    BY <1>4 DEF MapKernelPage, MemInv, FaultTypes, FaultTypeOK
<1>5. CASE GrantWrite
    BY <1>5 DEF GrantWrite, MemInv, FaultTypes, FaultTypeOK
<1>6. CASE vmalloc_sync_all
    BY <1>6 DEF vmalloc_sync_all, MemInv
<1>7. ASSUME NEW c \in CPUs,
             Start(c) \/ LoadCount(c) \/ StoreCount(c) \/ UserSpace(c) \/ down_read(c) \/ FindArea(c) \/ good_area(c) \/ ChangeArea(c)
      PROVE  UNCHANGED <<master, pmd, tlb>>
    BY <1>7 DEF Start, LoadCount, StoreCount, UserSpace, down_read, FindArea, good_area, ChangeArea, memVars
<1> QED BY <1>1, <1>2, <1>3, <1>4, <1>5, <1>6, <1>7 DEF FaultNext, faultVars
-----------------------------------------------------------------------------
\* Nobody is in the handler at boot.
LEMMA ErrInit == FaultInit => ErrInv
BY DEF FaultInit, ErrInv

\* What one processor does leaves the error codes of the others right.
LEMMA ErrOthers ==
    ASSUME ErrInv, NEW c \in CPUs, accessing' = accessing, pmd \subseteq pmd',
           \A d \in CPUs \ {c} : fpc'[d] = fpc[d] /\ err'[d] = err[d] /\ tlb'[d] = tlb[d],
           fpc'[c] \in {"enter", "loaded", "classify"} => Fresh(c, accessing[c], err[c])',
           fpc'[c] \in {"down_read", "locked", "good_area"} => Checked(accessing[c], err[c])'
    PROVE  ErrInv'
<1>1. ASSUME NEW d \in CPUs, d # c
      PROVE  /\ fpc'[d] \in {"enter", "loaded", "classify"} => Fresh(d, accessing[d], err[d])'
             /\ fpc'[d] \in {"down_read", "locked", "good_area"} => Checked(accessing[d], err[d])'
  <2>1. fpc'[d] = fpc[d] /\ err'[d] = err[d] /\ tlb'[d] = tlb[d] /\ accessing'[d] = accessing[d]
      BY <1>1
  <2>2. Fresh(d, accessing[d], err[d]) => Fresh(d, accessing[d], err[d])'
      BY <2>1 DEF Fresh, Agrees
  <2>3. Checked(accessing[d], err[d])' <=> Checked(accessing[d], err[d])
      BY <2>1 DEF Checked, Agrees
  <2> QED BY <2>1, <2>2, <2>3 DEF ErrInv
<1> QED BY <1>1 DEF ErrInv

\* The error code of a fault stays right from the fault on, although other
\* processors change page directory and page tables meanwhile.
LEMMA ErrKept == FaultTypes /\ MemInv /\ ErrInv /\ [FaultNext]_faultVars => ErrInv'
<1> SUFFICES ASSUME FaultTypes, MemInv, ErrInv, [FaultNext]_faultVars PROVE ErrInv'
    OBVIOUS
<1> DEFINE Before == {"enter", "loaded", "classify"}
           After == {"down_read", "locked", "good_area"}
<1>0. pmd \subseteq pmd' /\ MemInv'
    BY MemKept
<1>1. ASSUME NEW c \in CPUs, UNCHANGED <<accessing, err, tlb>>, NEW x \in Places, fpc' = [fpc EXCEPT ![c] = x],
             x \in Before => fpc[c] \in Before, x \in After => fpc[c] \in After
      PROVE  ErrInv'
  <2>1. fpc'[c] = x /\ \A d \in CPUs \ {c} : fpc'[d] = fpc[d] /\ err'[d] = err[d] /\ tlb'[d] = tlb[d]
      BY <1>1 DEF FaultTypes, FaultTypeOK
  <2>2. x \in Before => Fresh(c, accessing[c], err[c])'
      BY <1>0, <1>1 DEF ErrInv, Fresh, Agrees
  <2>3. x \in After => Checked(accessing[c], err[c])'
      BY <1>1 DEF ErrInv, Checked, Agrees
  <2> QED BY <1>0, <1>1, <2>1, <2>2, <2>3, ErrOthers
<1>2. ASSUME NEW c \in CPUs, Start(c) PROVE ErrInv'
    BY <1>1, <1>2 DEF Start, Places
<1>3. ASSUME NEW c \in CPUs, NEW how \in Ends \cup {"none", "OOM"}, Leave(c, how) \/ Resume(c, how),
             UNCHANGED <<accessing, err, tlb>>
      PROVE  ErrInv'
  <2>1. PICK x \in {"idle", "dead", "access"} : fpc' = [fpc EXCEPT ![c] = x]
      BY <1>3, LeaveTypes
  <2>2. x \in Places /\ x \notin Before /\ x \notin After
      BY DEF Places
  <2> QED BY <1>1, <1>3, <2>1, <2>2
<1>4. ASSUME NEW c \in CPUs, Execute(c) PROVE ErrInv'
  <2> DEFINE a == accessing[c]
  <2>1. /\ accessing' = accessing /\ UNCHANGED pmd /\ a \in Accesses /\ fpc[c] = "access"
        /\ fpc \in [CPUs -> Places] /\ tlb \in [CPUs -> [KernelPages -> Rights]]
      BY <1>4 DEF Execute, memVars, FaultTypes, FaultTypeOK, Places
  <2>2. \A d \in CPUs \ {c} : fpc'[d] = fpc[d] /\ err'[d] = err[d] /\ tlb'[d] = tlb[d]
    <3>1. ASSUME NEW d \in CPUs \ {c} PROVE fpc'[d] = fpc[d]
        BY <1>4, <2>1, <3>1 DEF Execute, Leave
    <3>2. ASSUME NEW d \in CPUs \ {c} PROVE err'[d] = err[d]
        BY <1>4, <3>2 DEF Execute, FaultTypes
    <3>3. ASSUME NEW d \in CPUs \ {c} PROVE tlb'[d] = tlb[d]
        BY <1>4, <2>1, <3>3 DEF Execute
    <3> QED BY <3>1, <3>2, <3>3
  <2>3. CASE Translates(c, a) /\ Leave(c, "done")
    <3>1. fpc'[c] = "idle"
        BY <2>1, <2>3 DEF Leave
    <3> QED BY <1>0, <2>1, <2>2, <3>1, ErrOthers
  <2>4. CASE /\ fpc' = [fpc EXCEPT ![c] = "enter"] /\ err' = [err EXCEPT ![c] = ErrorCode(c, a)]
             /\ tlb' = IF a.addr \in KernelPages THEN [tlb EXCEPT ![c][a.addr] = {}] ELSE tlb
    <3>1. fpc'[c] = "enter" /\ err'[c] = ErrorCode(c, a)
        BY <2>1, <2>4 DEF FaultTypes
    <3>2. a.addr \in KernelPages => tlb'[c][a.addr] = {}
        BY <2>1, <2>4
    <3>3. a.addr \in KernelPages /\ Walk(c, a) # {} => a.addr \in pmd
        BY <2>1, PageTypes DEF Walk, Cached, MemInv
    <3>4. /\ err'[c].rsvd = a.rsvd /\ err'[c].write = a.write
          /\ err'[c].user = (UserMode(a) /\ ~a.implicit) /\ err'[c].prot = (Walk(c, a) # {} \/ a.rsvd)
        BY <3>1 DEF ErrorCode
    <3>5. accessing'[c] = a /\ pmd' = pmd
        BY <2>1
    <3>6. Fresh(c, accessing[c], err[c])'
        BY <3>2, <3>3, <3>4, <3>5 DEF Fresh, Agrees
    <3> QED BY <1>0, <2>1, <2>2, <3>1, <3>6, ErrOthers
  <2> QED BY <1>4, <2>3, <2>4 DEF Execute
<1>5. ASSUME NEW c \in CPUs, LoadCount(c) \/ StoreCount(c) PROVE ErrInv'
    BY <1>1, <1>5 DEF LoadCount, StoreCount, Places
<1>6. ASSUME NEW c \in CPUs, KernelSpace(c) PROVE ErrInv'
  <2>1. \E how \in Ends \cup {"none", "OOM"} : Leave(c, how) \/ Resume(c, how)
      BY <1>6, BadAreaEnds DEF KernelSpace, Ends
  <2> QED BY <1>3, <1>6, <2>1 DEF KernelSpace
<1>7. ASSUME NEW c \in CPUs, UserSpace(c) PROVE ErrInv'
  <2> DEFINE e == UserError(err[c], accessing[c])
  <2>1. /\ fpc[c] = "classify" /\ ~fault_in_kernel_space(accessing[c]) /\ UNCHANGED <<accessing, tlb>>
        /\ err' = [err EXCEPT ![c] = e] /\ accessing[c] \in Accesses
        /\ err[c] \in ErrorType /\ fpc \in [CPUs -> Places]
      BY <1>7 DEF UserSpace, FaultTypes, FaultTypeOK, Places
  <2>2. /\ e.rsvd = err[c].rsvd /\ e.write = err[c].write
        /\ e.user <=> UserMode(accessing[c]) \/ err[c].user
      BY <2>1 DEF UserError, ErrorType
  <2>3. ~e.rsvd => Checked(accessing[c], e)
      BY <2>1, <2>2, AccessFields DEF ErrInv, Fresh, Checked, Agrees
  <2>4. \/ \E how \in Ends : Leave(c, how)
        \/ /\ fpc' = [fpc EXCEPT ![c] = "locked"] \/ fpc' = [fpc EXCEPT ![c] = "down_read"]
           /\ ~e.rsvd
      BY <1>7, BadAreaEnds DEF UserSpace, Ends
  <2>5. err'[c] = e /\ \A d \in CPUs \ {c} : fpc'[d] = fpc[d] /\ err'[d] = err[d] /\ tlb'[d] = tlb[d]
      BY SMTT(60), <2>1, <2>4, LeaveTypes DEF FaultTypes
  <2>6. CASE \E how \in Ends : Leave(c, how)
    <3>1. fpc'[c] \notin Before /\ fpc'[c] \notin After
        BY <2>1, <2>6 DEF Leave
    <3> QED BY <1>0, <2>1, <2>5, <3>1, ErrOthers
  <2>7. CASE ~e.rsvd /\ (fpc' = [fpc EXCEPT ![c] = "locked"] \/ fpc' = [fpc EXCEPT ![c] = "down_read"])
    <3>1. fpc'[c] \notin Before
        BY <2>1, <2>7
    <3>2. Checked(accessing[c], err[c])'
        BY <2>1, <2>3, <2>5, <2>7 DEF Checked, Agrees
    <3> QED BY <1>0, <2>1, <2>5, <3>1, <3>2, ErrOthers
  <2> QED BY <2>4, <2>6, <2>7
<1>8. ASSUME NEW c \in CPUs, down_read(c) PROVE ErrInv'
    BY <1>1, <1>8 DEF down_read, Places
<1>9. ASSUME NEW c \in CPUs, FindArea(c) PROVE ErrInv'
  <2>1. fpc[c] = "locked" /\ UNCHANGED <<accessing, err, tlb>>
      BY <1>9 DEF FindArea
  <2>2. (\E how \in Ends : Leave(c, how)) \/ fpc' = [fpc EXCEPT ![c] = "good_area"]
      BY <1>9, BadAreaEnds DEF FindArea, __bad_area
  <2>3. "good_area" \in Places /\ "good_area" \notin Before
      BY DEF Places
  <2> QED BY <1>1, <1>3, <2>1, <2>2, <2>3
<1>10. ASSUME NEW c \in CPUs, good_area(c) PROVE ErrInv'
  <2>1. \E how \in Ends \cup {"none", "OOM"} : Leave(c, how) \/ Resume(c, how)
      BY <1>10, BadAreaEnds, FaultErrorEnds DEF good_area, __bad_area
  <2> QED BY <1>3, <1>10, <2>1 DEF good_area
<1>11. CASE UNCHANGED <<fpc, accessing, err, tlb>>
  <2>1. \A c \in CPUs : Fresh(c, accessing[c], err[c]) => Fresh(c, accessing[c], err[c])'
      BY <1>0, <1>11 DEF Fresh, Agrees
  <2> QED BY <1>11, <2>1 DEF ErrInv, Checked, Agrees
<1>12. ASSUME NEW c \in CPUs, ChangeArea(c) PROVE UNCHANGED <<fpc, accessing, err, tlb>>
    BY <1>12 DEF ChangeArea
<1>13. CASE MapKernelPage \/ GrantWrite \/ vmalloc_sync_all
    BY <1>11, <1>13 DEF MapKernelPage, GrantWrite, vmalloc_sync_all
<1> QED
    BY <1>2, <1>4, <1>5, <1>6, <1>7, <1>8, <1>9, <1>10, <1>11, <1>12, <1>13 DEF FaultNext, faultVars
-----------------------------------------------------------------------------
\* An end that fits the access.
EndFits(c, how) ==
    /\ how = "oops" /\ UserMode(accessing[c]) =>
          accessing[c].rsvd \/ (accessing[c].implicit /\ accessing[c].addr \in KernelPages)
    /\ how \in {"SIGSEGV", "SIGBUS"} => UserMode(accessing[c])

\* An oops for a kernel page comes from the branch for kernel addresses.
OopsRight(c) ==
    accessing[c].addr \in KernelPages /\ ~accessing[c].rsvd => Need(accessing[c]) \notin master[accessing[c].addr]

\* The steps that end or repeat an access do so in a way that fits it; and an oops
\* for a kernel page is not raised where the reference page table allows the
\* access, because spurious_fault was asked first.
LEMMA EndSteps ==
    ASSUME FaultTypes, ErrInv, FaultNext
    PROVE  /\ accessing' = accessing
           /\ \/ UNCHANGED outcome
              \/ \E c \in CPUs, how \in Ends \cup {"none", "OOM"} :
                    /\ outcome' = [outcome EXCEPT ![c] = how] /\ EndFits(c, how)
                    /\ how = "oops" => OopsRight(c)
<1> DEFINE Ending(c) == \E how \in Ends \cup {"none", "OOM"} :
                           /\ outcome' = [outcome EXCEPT ![c] = how] /\ EndFits(c, how)
                           /\ how = "oops" => OopsRight(c)
<1>0. ASSUME NEW c \in CPUs, NEW how \in {"none", "OOM", "done"}, outcome' = [outcome EXCEPT ![c] = how]
      PROVE  Ending(c)
    BY <1>0 DEF EndFits, Ends
<1>1. ASSUME NEW c \in CPUs, Start(c) PROVE accessing' = accessing /\ Ending(c)
    BY <1>0, <1>1 DEF Start
<1>2. ASSUME NEW c \in CPUs, Execute(c) PROVE accessing' = accessing /\ (UNCHANGED outcome \/ Ending(c))
    BY <1>0, <1>2 DEF Execute, Leave
<1>3. ASSUME NEW c \in CPUs, LoadCount(c) \/ StoreCount(c) \/ down_read(c) \/ ChangeArea(c)
      PROVE  accessing' = accessing /\ UNCHANGED outcome
    BY <1>3 DEF LoadCount, StoreCount, down_read, ChangeArea
<1>4. ASSUME NEW c \in CPUs, KernelSpace(c) PROVE accessing' = accessing /\ Ending(c)
  <2> DEFINE a == accessing[c]
  <2>1. /\ accessing' = accessing /\ a \in Accesses /\ err[c] \in ErrorType
        /\ fpc[c] = "classify" /\ fault_in_kernel_space(a)
      BY <1>4 DEF KernelSpace, FaultTypes, FaultTypeOK
  <2>2. a.addr \in KernelPages /\ Fresh(c, a, err[c])
      BY <2>1, AccessFields DEF ErrInv
  <2>3. CASE Resume(c, "none") \/ Leave(c, "done")
      BY <1>0, <2>1, <2>3 DEF Resume, Leave
  <2>4. CASE ~spurious_fault(err[c], a) /\ __bad_area_nosemaphore(c, err[c])
    <3>1. PICK how \in Ends : Leave(c, how) /\ Fits(how, err[c])
        BY <2>4, BadAreaEnds
    <3>2. EndFits(c, how)
        BY <2>2, <3>1 DEF EndFits, Fits, Fresh
    <3>3. how = "oops" => OopsRight(c)
        BY <2>2, <2>4, <3>1 DEF OopsRight, Fits, Fresh, Agrees, spurious_fault, spurious_fault_check, Need
    <3> QED BY <2>1, <3>1, <3>2, <3>3 DEF Leave
  <2> QED BY <1>4, <2>3, <2>4 DEF KernelSpace
<1>5. ASSUME NEW c \in CPUs, NEW e, __bad_area_nosemaphore(c, e) \/ do_sigbus(c, e) \/ __bad_area(c, e),
             accessing[c].addr \notin KernelPages, e.user <=> UserMode(accessing[c])
      PROVE  Ending(c)
  <2>1. PICK how \in Ends : Leave(c, how) /\ Fits(how, e)
      BY <1>5, BadAreaEnds, SigbusEnds DEF __bad_area
  <2>2. EndFits(c, how) /\ (how = "oops" => OopsRight(c))
      BY <1>5, <2>1 DEF EndFits, Fits, OopsRight
  <2> QED BY <2>1, <2>2 DEF Leave
<1>6. ASSUME NEW c \in CPUs, UserSpace(c) PROVE accessing' = accessing /\ (UNCHANGED outcome \/ Ending(c))
  <2> DEFINE e == UserError(err[c], accessing[c])
  <2>1. /\ fpc[c] = "classify" /\ ~fault_in_kernel_space(accessing[c]) /\ accessing' = accessing
        /\ accessing[c] \in Accesses /\ err[c] \in ErrorType
      BY <1>6 DEF UserSpace, FaultTypes, FaultTypeOK
  <2>2. e.rsvd = err[c].rsvd /\ (e.user <=> UserMode(accessing[c]) \/ err[c].user)
      BY <2>1 DEF UserError, ErrorType
  <2>3. /\ accessing[c].addr \notin KernelPages /\ (e.rsvd => accessing[c].rsvd)
        /\ e.user <=> UserMode(accessing[c])
      BY <2>1, <2>2, AccessFields DEF ErrInv, Fresh, Agrees
  <2>4. CASE Leave(c, "done")
      BY <1>0, <2>1, <2>4 DEF Leave
  <2>5. CASE e.rsvd /\ Leave(c, "oops")
      BY <2>1, <2>3, <2>5 DEF Leave, EndFits, OopsRight, Ends
  <2>6. CASE __bad_area_nosemaphore(c, e)
      BY <1>5, <2>1, <2>3, <2>6
  <2> QED BY <1>6, <2>1, <2>4, <2>5, <2>6 DEF UserSpace
<1>7. ASSUME NEW c \in CPUs, FindArea(c) PROVE accessing' = accessing /\ (UNCHANGED outcome \/ Ending(c))
  <2>1. fpc[c] = "locked" /\ accessing' = accessing /\ (UNCHANGED outcome \/ __bad_area(c, err[c]))
      BY <1>7 DEF FindArea
  <2>2. accessing[c].addr \notin KernelPages /\ (err[c].user <=> UserMode(accessing[c]))
      BY <2>1, PageTypes DEF ErrInv, Checked
  <2> QED BY <1>5, <2>1, <2>2
<1>8. ASSUME NEW c \in CPUs, good_area(c) PROVE accessing' = accessing /\ Ending(c)
  <2>1. fpc[c] = "good_area" /\ accessing' = accessing
      BY <1>8 DEF good_area
  <2>2. \/ __bad_area(c, err[c]) \/ Resume(c, "none") \/ Resume(c, "OOM")
        \/ \E how \in Ends : Leave(c, how) /\ Fits(how, err[c])
      BY <1>8, FaultErrorEnds DEF good_area
  <2>3. accessing[c].addr \notin KernelPages /\ (err[c].user <=> UserMode(accessing[c]))
      BY <2>1, PageTypes DEF ErrInv, Checked
  <2>4. CASE __bad_area(c, err[c])
      BY <1>5, <2>1, <2>3, <2>4
  <2>5. CASE Resume(c, "none") \/ Resume(c, "OOM")
      BY <1>0, <2>1, <2>5 DEF Resume
  <2>6. CASE \E how \in Ends : Leave(c, how) /\ Fits(how, err[c])
      BY <2>1, <2>3, <2>6 DEF Leave, EndFits, Fits, OopsRight
  <2> QED BY <2>2, <2>4, <2>5, <2>6
<1>9. CASE MapKernelPage \/ GrantWrite \/ vmalloc_sync_all
    BY <1>9 DEF MapKernelPage, GrantWrite, vmalloc_sync_all
<1> QED BY <1>1, <1>2, <1>3, <1>4, <1>6, <1>7, <1>8, <1>9 DEF FaultNext

\* UserFaultsSignal survives every step.
LEMMA SignalKept == FaultTypes /\ ErrInv /\ UserFaultsSignal /\ [FaultNext]_faultVars => UserFaultsSignal'
<1> SUFFICES ASSUME FaultTypes, ErrInv, UserFaultsSignal, [FaultNext]_faultVars PROVE UserFaultsSignal'
    OBVIOUS
<1>1. CASE UNCHANGED <<accessing, outcome>>
    BY <1>1 DEF UserFaultsSignal
<1>2. ASSUME accessing' = accessing, NEW c \in CPUs, NEW how, outcome' = [outcome EXCEPT ![c] = how], EndFits(c, how)
      PROVE  UserFaultsSignal'
    BY <1>2 DEF UserFaultsSignal, EndFits, FaultTypes
<1> QED BY <1>1, <1>2, EndSteps DEF faultVars

\* Everything about the handler that a step preserves.
FaultInv == FaultTypes /\ CountInv /\ SemInv /\ MemInv /\ ErrInv /\ UserFaultsSignal

\* FaultInv is an invariant of the handler.
LEMMA FaultInvHolds == FaultSpec => []FaultInv
<1>1. FaultInit => FaultInv
    BY TypesInit, CountInit, SemInit, MemInit, ErrInit DEF FaultInv, FaultInit, UserFaultsSignal
<1>2. FaultInv /\ [FaultNext]_faultVars => FaultInv'
    BY TypesKept, CountKept, SemKept, MemKept, ErrKept, SignalKept DEF FaultInv
<1> QED BY <1>1, <1>2, PTL DEF FaultSpec

\* For every number of processors, every layout of pages and every set of
\* accesses: on each path out of do_page_fault mmap_sem is released exactly once,
\* no thread waits for the mmap_sem it holds, and user mode gets signals where
\* the kernel gets oopses or fixups.
THEOREM FaultsEnd == FaultSpec => []FaultsEndProperly
<1>1. FaultInv => FaultsEndProperly
    BY SemRight DEF FaultInv, FaultsEndProperly
<1> QED BY <1>1, FaultInvHolds, PTL

\* For every number of processors, the counter behind do_pfcount never exceeds the
\* faults taken, and is exact until two increments overlap.
THEOREM FaultsCounted == FaultSpec => []PfcountLosesOnlyOverlapped
<1>1. FaultInv => PfcountLosesOnlyOverlapped
    BY CountRight DEF FaultInv
<1> QED BY <1>1, FaultInvHolds, PTL

\* An access that init_mm allows is answered by a retry and not by an oops.
LEMMA OopsesRight == FaultInv /\ FaultNext => AllowedAccessNeverOopses
<1> SUFFICES ASSUME FaultInv, FaultNext, NEW c \in CPUs,
                    outcome[c] # "oops", outcome'[c] = "oops", accessing[c].addr \in KernelPages, ~accessing[c].rsvd
             PROVE  Need(accessing[c]) \notin master[accessing[c].addr]
    BY DEF AllowedAccessNeverOopses
<1>1. PICK d \in CPUs, how \in Ends \cup {"none", "OOM"} :
         outcome' = [outcome EXCEPT ![d] = how] /\ (how = "oops" => OopsRight(d))
    BY EndSteps DEF FaultInv
<1>2. c = d /\ how = "oops"
    BY <1>1 DEF FaultInv, FaultTypes
<1> QED BY <1>1, <1>2 DEF OopsRight

\* A retry is never in vain: after vmalloc_fault the entry is present, after
\* spurious_fault the walk finds the rights, after handle_mm_fault the page
\* table has them.
LEMMA RetriesRight == FaultInv /\ FaultNext => NoEndlessFault
<1> SUFFICES ASSUME FaultInv, FaultNext, NEW c \in CPUs,
                    fpc[c] \in {"classify", "good_area"}, fpc'[c] = "access", outcome'[c] # "OOM"
             PROVE  Translates(c, accessing[c])' \/ ErrorCode(c, accessing[c])' # err[c]
    BY DEF NoEndlessFault
<1> DEFINE a == accessing[c]
<1>0. /\ a \in Accesses /\ FaultTypes /\ fpc \in [CPUs -> Places] /\ outcome \in [CPUs -> Ends \cup {"none", "OOM"}]
    BY DEF FaultInv, FaultTypes, FaultTypeOK, Places
<1>1. ASSUME NEW d \in CPUs, NEW how, Leave(d, how) PROVE FALSE
    BY <1>0, <1>1 DEF Leave
<1>2. ASSUME NEW d \in CPUs, NEW x, fpc' = [fpc EXCEPT ![d] = x], d # c \/ x # "access" PROVE FALSE
    BY <1>0, <1>2
<1>3. PICK d \in CPUs : (KernelSpace(d) \/ good_area(d)) /\ (Resume(d, "none") \/ Resume(d, "OOM"))
  <2>1. ASSUME NEW d \in CPUs, Start(d) PROVE FALSE
      BY <1>2, <2>1 DEF Start
  <2>2. ASSUME NEW d \in CPUs, Execute(d) PROVE FALSE
      BY <1>1, <1>2, <2>2 DEF Execute
  <2>3. ASSUME NEW d \in CPUs, LoadCount(d) \/ StoreCount(d) \/ down_read(d) PROVE FALSE
      BY <1>2, <2>3 DEF LoadCount, StoreCount, down_read
  <2>4. ASSUME NEW d \in CPUs, UserSpace(d) PROVE FALSE
      BY <1>1, <1>2, <2>4, BadAreaEnds DEF UserSpace
  <2>5. ASSUME NEW d \in CPUs, FindArea(d) PROVE FALSE
      BY <1>1, <1>2, <2>5, BadAreaEnds DEF FindArea, __bad_area
  <2>6. ASSUME NEW d \in CPUs, KernelSpace(d) PROVE Resume(d, "none")
      BY <1>1, <2>6, BadAreaEnds DEF KernelSpace
  <2>7. ASSUME NEW d \in CPUs, good_area(d) PROVE Resume(d, "none") \/ Resume(d, "OOM")
      BY <1>1, <2>7, BadAreaEnds, FaultErrorEnds DEF good_area, __bad_area
  <2>8. ASSUME NEW d \in CPUs, ChangeArea(d) PROVE FALSE
      BY <2>8 DEF ChangeArea
  <2>9. CASE MapKernelPage \/ GrantWrite \/ vmalloc_sync_all
      BY <2>9 DEF MapKernelPage, GrantWrite, vmalloc_sync_all
  <2> QED BY <2>1, <2>2, <2>3, <2>4, <2>5, <2>6, <2>7, <2>8, <2>9 DEF FaultNext
<1>4. d = c /\ Resume(c, "none")
    BY <1>0, <1>2, <1>3 DEF Resume
<1>5. CASE KernelSpace(c)
  <2> DEFINE e == err[c]
  <2>1. /\ fpc[c] = "classify" /\ accessing' = accessing /\ tlb' = tlb /\ master' = master
        /\ fault_in_kernel_space(a) /\ e \in ErrorType
      BY <1>0, <1>5 DEF KernelSpace, FaultTypes
  <2>2. /\ Fresh(c, a, e) /\ a.addr \in KernelPages /\ a.addr \notin UserPages /\ tlb[c][a.addr] = {}
      BY <1>0, <2>1, AccessFields, PageTypes DEF FaultInv, ErrInv, Fresh
  <2>3. Walk(c, a)' = IF a.addr \in pmd' THEN master[a.addr] ELSE {}
      BY <2>1, <2>2 DEF Walk, Cached
  <2>4. \/ ~e.rsvd /\ ~e.user /\ ~e.prot /\ vmalloc_fault(a) /\ a.addr \in pmd'
        \/ spurious_fault(e, a) /\ (~e.prot /\ vmalloc_fault(a) => a.addr \in pmd') /\ pmd \subseteq pmd'
      BY <1>5, <1>4, <1>1, BadAreaEnds DEF KernelSpace, spurious_fault
  <2>5. CASE ~e.prot /\ vmalloc_fault(a) /\ a.addr \in pmd'
    <3>1. Walk(c, a)' # {}
        BY <2>3, <2>5 DEF vmalloc_fault, vmalloc_sync_one
    <3>2. ErrorCode(c, a)'.prot
        BY <3>1 DEF ErrorCode
    <3> QED BY <2>5, <3>2
  <2>6. CASE spurious_fault(e, a) /\ pmd \subseteq pmd' /\ ~(~e.prot /\ vmalloc_fault(a))
    <3>1. ~a.rsvd /\ (~UserMode(a) \/ a.implicit) /\ master[a.addr] # {} /\ (a.write => "WRITE" \in master[a.addr])
        BY <2>2, <2>6 DEF spurious_fault, spurious_fault_check, Fresh, Agrees
    <3>2. a.addr \in pmd'
        BY <2>2, <2>6, <3>1 DEF FaultInv, MemInv, Fresh, vmalloc_fault, vmalloc_sync_one, KernelPages
    <3>3. Need(a) \in Walk(c, a)'
        BY <2>2, <2>3, <3>1, <3>2 DEF FaultInv, MemInv, Need
    <3>4. accessing'[c] = a
        BY <2>1
    <3> QED BY <3>1, <3>3, <3>4 DEF Translates, Need, UserMode, Walk, Cached
  <2> QED BY <2>4, <2>5, <2>6
<1>6. CASE good_area(c)
  <2> DEFINE p == a.addr
             e == err[c]
  <2>1. /\ fpc[c] = "good_area" /\ accessing' = accessing /\ Checked(a, e)
        /\ pte' = [pte EXCEPT ![p] = IF Write(e) THEN {"READ", "WRITE"} ELSE @ \cup {"READ"}]
    <3>1. fpc[c] = "good_area" /\ accessing' = accessing
        BY <1>6 DEF good_area
    <3>2. Checked(a, e)
        BY <3>1 DEF FaultInv, ErrInv
    <3>3. ~Resume(c, "OOM")
        BY <1>0 DEF Resume
    <3>4. ~__bad_area(c, e) /\ \A fault \in {"OOM", "SIGBUS", "HWPOISON"} : ~mm_fault_error(c, e, fault)
        BY <1>1, <3>3, BadAreaEnds, FaultErrorEnds DEF __bad_area
    <3> QED BY <1>6, <3>1, <3>2, <3>4 DEF good_area
  <2>2. p \in UserPages /\ p \notin KernelPages /\ ~a.rsvd /\ (e.write <=> a.write)
      BY <2>1, PageTypes DEF Checked, Agrees
  <2>3. Need(a) \in pte'[p]
      BY <1>0, <2>1, <2>2 DEF Need, Write, FaultTypes, FaultTypeOK
  <2>4. accessing'[c] = a
      BY <2>1
  <2> QED BY <2>2, <2>3, <2>4 DEF Translates, Walk, Need
<1> QED BY <1>3, <1>4, <1>5, <1>6

\* The action property of the page fault run, for every instance: what
\* do_page_fault answers is right for the access.
THEOREM FaultsAnsweredRight == FaultSpec => FaultsAnswered
<1>1. FaultInv /\ [FaultNext]_faultVars => [AllowedAccessNeverOopses /\ NoEndlessFault]_faultVars
    BY OopsesRight, RetriesRight
<1> QED BY <1>1, FaultInvHolds, PTL DEF FaultSpec, FaultsAnswered
=============================================================================
