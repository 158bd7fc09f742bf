----------------------------- MODULE PageFault -----------------------------
(***************************************************************************)
(* The page fault handler of the modified kernel (src/5/kernel/fault.c,    *)
(* the 32-bit build), run by several processors for the threads of one     *)
(* process.  A thread executes an access; the hardware either translates   *)
(* it or enters do_page_fault, which counts the fault, repairs the page    *)
(* tables and lets the access be tried again, or ends it with a signal,    *)
(* an exception-table fixup or an oops.  Addresses are page numbers.       *)
(***************************************************************************)
EXTENDS Naturals, Sequences, FiniteSets

CONSTANTS CPUs,
          TaskSize,     \* the first kernel page; user pages are 0..TaskSize-1
          VmallocPage,  \* a kernel page of the vmalloc area, mapped on demand
          LowPage,      \* a kernel page mapped in every page directory
          Cushion,      \* how far below the stack pointer an access may be
          Accesses,     \* the accesses threads make (see AccessType)
          MaxFaults     \* bound on the faults of a behaviour

UserPages == 0..(TaskSize - 1)
KernelPages == {VmallocPage, LowPage}
StackPage == TaskSize - 1    \* where the stack pointer is
NoLimit == 15                \* bytes is_prefetch looks at

\* An access: what the instruction does, and what the handler can find out
\* about it.  ctx is the code that makes it: user mode, a system call, a
\* section that holds mmap_sem for writing, an atomic section, a kernel thread.
AccessType ==
    [addr : UserPages \cup KernelPages, write : BOOLEAN, ctx : {"user", "syscall", "mmap", "atomic", "kthread"},
     inTable : BOOLEAN,   \* the instruction is listed in the exception table
     implicit : BOOLEAN,  \* made by the processor itself (a descriptor table)
     rsvd : BOOLEAN,      \* the walk meets a reserved bit in the page table
     probe : BOOLEAN,     \* a kprobe's fault handler claims the fault
     code : Seq({"prefix", "escape", "hint", "other"})]  \* its first bytes

ASSUME FaultAssumption ==
    /\ IsFiniteSet(CPUs) /\ Accesses \subseteq AccessType
    /\ TaskSize \in Nat \ {0} /\ Cushion \in Nat /\ MaxFaults \in Nat
    /\ VmallocPage \in Nat \ UserPages /\ LowPage \in Nat \ UserPages /\ VmallocPage # LowPage
    \* "the kernel only validly references user space from well defined areas of
    \* code", none of which holds mmap_sem
    /\ \A a \in Accesses : a.ctx = "mmap" => ~a.inTable

VARIABLES fpc,       \* where each processor is
          accessing, \* the access its thread makes
          err,       \* the error code of its fault
          seen,      \* the value of pfcount it has loaded
          pfcount, faults, overlapped,
          semRead,   \* mmap_sem: how often each processor holds it for reading
          semWrite,  \* the processors (at most one) that hold it for writing
          area,      \* the area of each user page: its rights, or {}
          pte,       \* the user page tables
          master,    \* init_mm: the rights of each kernel page
          pmd,       \* the kernel pages this page directory has an entry for
          tlb,       \* rights each processor has cached for a kernel page
          outcome    \* how the last access of each processor ended

faultVars == <<fpc, accessing, err, seen, pfcount, faults, overlapped, semRead, semWrite,
               area, pte, master, pmd, tlb, outcome>>
memVars == <<area, pte, master, pmd>>
countVars == <<seen, pfcount, faults, overlapped>>

Rights == SUBSET {"READ", "WRITE"}
Need(a) == IF a.write THEN "WRITE" ELSE "READ"
UserMode(a) == a.ctx = "user"
-----------------------------------------------------------------------------
(* The processor. *)

Cached(c, a) == a.addr \in KernelPages /\ tlb[c][a.addr] # {}

\* The rights the walk of the page tables finds; none when an entry is absent.
Walk(c, a) ==
    IF a.addr \in UserPages THEN pte[a.addr]
    ELSE IF Cached(c, a) THEN tlb[c][a.addr]
    ELSE IF a.addr \in pmd THEN master[a.addr] ELSE {}

\* User mode may not use kernel pages.
Translates(c, a) ==
    /\ ~a.rsvd /\ Need(a) \in Walk(c, a)
    /\ a.addr \in KernelPages => ~UserMode(a) \/ a.implicit

\* The error code: PF_PROT, PF_WRITE, PF_USER and PF_RSVD.
ErrorCode(c, a) ==
    [prot |-> Walk(c, a) # {} \/ a.rsvd, write |-> a.write,
     user |-> UserMode(a) /\ ~a.implicit, rsvd |-> a.rsvd]

NoError == [prot |-> FALSE, write |-> FALSE, user |-> FALSE, rsvd |-> FALSE]

\* A thread repeats its access.  A section that holds mmap_sem waits until
\* nobody else has it.
Start(c) ==
    LET mmap == accessing[c].ctx = "mmap" IN
    /\ fpc[c] = "idle" /\ faults < MaxFaults
    /\ mmap => semWrite = {} /\ \A d \in CPUs : semRead[d] = 0
    /\ semWrite' = IF mmap THEN semWrite \cup {c} ELSE semWrite
    /\ fpc' = [fpc EXCEPT ![c] = "access"]
    /\ outcome' = [outcome EXCEPT ![c] = "none"]
    /\ UNCHANGED <<accessing, err, countVars, semRead, memVars, tlb>>

\* Leave(c, how): the access is over, and with it the section it was made in.
Leave(c, how) ==
    /\ fpc' = [fpc EXCEPT ![c] = IF how \in {"SIGSEGV", "SIGBUS", "oops", "bug"} THEN "dead" ELSE "idle"]
    /\ outcome' = [outcome EXCEPT ![c] = how]
    /\ semWrite' = IF how = "oops" THEN semWrite ELSE semWrite \ {c}

\* A fault drops the cached translation.
Execute(c) ==
    LET a == accessing[c] IN
    /\ fpc[c] = "access"
    /\ \/ /\ Translates(c, a)
          /\ Leave(c, "done")
          /\ tlb' = IF a.addr \in KernelPages THEN [tlb EXCEPT ![c][a.addr] = Walk(c, a)] ELSE tlb
          /\ UNCHANGED <<err, faults>>
       \/ /\ ~Translates(c, a) /\ faults < MaxFaults
          /\ fpc' = [fpc EXCEPT ![c] = "enter"] /\ err' = [err EXCEPT ![c] = ErrorCode(c, a)]
          /\ tlb' = IF a.addr \in KernelPages THEN [tlb EXCEPT ![c][a.addr] = {}] ELSE tlb
          /\ faults' = faults + 1
          /\ UNCHANGED <<outcome, semWrite>>
    /\ UNCHANGED <<accessing, seen, pfcount, overlapped, semRead, memVars>>
-----------------------------------------------------------------------------
(* The ends of a fault. *)

check_prefetch_opcode(code, i) == i <= Len(code) /\ i <= NoLimit /\ code[i] = "prefix"

\* Prefixes are skipped; then come the two bytes of a prefetch.
is_prefetch(a) ==
    \E i \in 1..Len(a.code) :
       /\ \A j \in 1..(i - 1) : check_prefetch_opcode(a.code, j)
       /\ i <= NoLimit /\ a.code[i] = "escape"
       /\ i < Len(a.code) /\ a.code[i + 1] = "hint"

\* The fault is over and the processor does what its registers say.
Resume(c, why) ==
    /\ fpc' = [fpc EXCEPT ![c] = "access"] /\ outcome' = [outcome EXCEPT ![c] = why]
    /\ UNCHANGED semWrite

force_sig_info_fault(c, sig) == Leave(c, sig)

\* Code in the exception table continues at its fixup; a prefetch is dropped.
no_context(c) == Leave(c, IF accessing[c].inTable THEN "fixup"
                          ELSE IF is_prefetch(accessing[c]) THEN "done" ELSE "oops")

__bad_area_nosemaphore(c, e) ==
    IF e.user
    THEN IF is_prefetch(accessing[c]) THEN Leave(c, "done") ELSE force_sig_info_fault(c, "SIGSEGV")
    ELSE no_context(c)

up_read(c) == semRead' = [semRead EXCEPT ![c] = @ - 1]

__bad_area(c, e) == up_read(c) /\ __bad_area_nosemaphore(c, e)

\* The out-of-memory killer makes room and the access is tried again.
out_of_memory(c) == up_read(c) /\ Resume(c, "OOM")

do_sigbus(c, e) ==
    /\ up_read(c)
    /\ IF ~e.user THEN no_context(c)
       ELSE IF is_prefetch(accessing[c]) THEN Leave(c, "done") ELSE force_sig_info_fault(c, "SIGBUS")

mm_fault_error_kept(c, e, fault) ==
    CASE fault = "OOM" /\ ~e.user -> UNCHANGED semRead /\ no_context(c)
      [] fault = "OOM" /\ e.user -> out_of_memory(c)
      [] OTHER -> do_sigbus(c, e)

mm_fault_error(c, e, fault) ==
    CASE fault = "OOM" /\ ~e.user -> up_read(c) /\ no_context(c)
      [] fault = "OOM" /\ e.user -> out_of_memory(c)
      [] fault \in {"SIGBUS", "HWPOISON"} -> do_sigbus(c, e)
      [] OTHER -> UNCHANGED semRead /\ Leave(c, "bug")
-----------------------------------------------------------------------------
(* do_page_fault *)

\* pfcount++ is a load and a store: volatile, and neither locked nor per
\* processor.
LoadCount(c) ==
    /\ fpc[c] = "enter"
    /\ seen' = [seen EXCEPT ![c] = pfcount]
    /\ overlapped' = (overlapped \/ \E d \in CPUs : fpc[d] = "loaded")
    /\ fpc' = [fpc EXCEPT ![c] = "loaded"]
    /\ UNCHANGED <<accessing, err, pfcount, faults, semRead, semWrite, memVars, tlb, outcome>>

Increment_two(n) == n + 2

Increment(n) == n + 1

StoreCount(c) ==
    /\ fpc[c] = "loaded"
    /\ pfcount' = Increment(seen[c])
    /\ fpc' = [fpc EXCEPT ![c] = "classify"]
    /\ UNCHANGED <<accessing, err, seen, faults, overlapped, semRead, semWrite, memVars, tlb, outcome>>

fault_in_kernel_space(a) == a.addr >= TaskSize

\* Only the entry of the page directory is copied: the page tables below it
\* are shared with init_mm.  pmd_present(*pmd_k) and pte_present(*pte_k).
vmalloc_sync_one(k) == master[k] # {}

vmalloc_fault(a) == a.addr = VmallocPage /\ vmalloc_sync_one(a.addr)

spurious_fault_check(e, rights) == e.write => "WRITE" \in rights

\* The reference page table already allows what the processor refused.
spurious_fault(e, a) ==
    /\ ~e.user /\ ~e.rsvd
    /\ master[a.addr] # {}
    /\ spurious_fault_check(e, master[a.addr])

notify_page_fault(a) == ~UserMode(a) /\ a.probe

\* The branch for kernel addresses.  It takes no lock.
KernelSpace(c) ==
    LET a == accessing[c]
        e == err[c]
        ondemand == ~e.rsvd /\ ~e.user /\ ~e.prot /\ vmalloc_fault(a)
    IN
    /\ fpc[c] = "classify" /\ fault_in_kernel_space(a)
    /\ pmd' = IF ondemand THEN pmd \cup {a.addr} ELSE pmd
    /\ IF ondemand \/ spurious_fault(e, a) THEN Resume(c, "none")
       ELSE IF notify_page_fault(a) THEN Leave(c, "done")
       ELSE __bad_area_nosemaphore(c, e)
    /\ UNCHANGED <<accessing, err, countVars, semRead, area, pte, master, tlb>>

\* User registers count as a user access, whatever the error code says.
UserError(e, a) == IF UserMode(a) THEN [e EXCEPT !.user = TRUE] ELSE e

down_read_trylock == semWrite = {}

\* The lock is taken: an access no valid kernel code makes must not wait for
\* it, because the thread may hold it itself.
MustNotLock(e, a) == ~e.user /\ ~a.inTable

\* in_atomic() or no mm
NoUserContext(a) == a.ctx \in {"atomic", "kthread"}

\* The branch for user addresses, up to the lock.  pgtable_bad kills the
\* thread.
UserSpace(c) ==
    LET a == accessing[c]
        e == UserError(err[c], a)
    IN
    /\ fpc[c] = "classify" /\ ~fault_in_kernel_space(a)
    /\ err' = [err EXCEPT ![c] = e]
    /\ \/ notify_page_fault(a) /\ Leave(c, "done") /\ UNCHANGED semRead
       \/ ~notify_page_fault(a) /\ e.rsvd /\ Leave(c, "oops") /\ UNCHANGED semRead
       \/ /\ ~notify_page_fault(a) /\ ~e.rsvd
          /\ NoUserContext(a) \/ (~down_read_trylock /\ MustNotLock(e, a))
          /\ __bad_area_nosemaphore(c, e) /\ UNCHANGED semRead
       \/ /\ ~notify_page_fault(a) /\ ~e.rsvd /\ ~NoUserContext(a)
          /\ IF down_read_trylock
             THEN /\ semRead' = [semRead EXCEPT ![c] = @ + 1]
                  /\ fpc' = [fpc EXCEPT ![c] = "locked"]
             ELSE /\ ~MustNotLock(e, a)
                  /\ fpc' = [fpc EXCEPT ![c] = "down_read"] /\ UNCHANGED semRead
          /\ UNCHANGED <<outcome, semWrite>>
    /\ UNCHANGED <<accessing, countVars, memVars, tlb>>

down_read(c) ==
    /\ fpc[c] = "down_read" /\ semWrite = {}
    /\ semRead' = [semRead EXCEPT ![c] = @ + 1]
    /\ fpc' = [fpc EXCEPT ![c] = "locked"]
    /\ UNCHANGED <<accessing, err, countVars, semWrite, memVars, tlb, outcome>>

\* The first area that ends above the address, as the page it starts at.
Above(p) == {q \in UserPages : q >= p /\ area[q] # {}}

find_vma(p) == CHOOSE q \in Above(p) : \A r \in Above(p) : q <= r

IsStack(p) == \A q \in p..StackPage : area[q] = area[StackPage]

\* The stack is the area that grows down; too far below the stack pointer is
\* always a bug.
MayGrow(e, p) ==
    /\ IsStack(find_vma(p))
    /\ e.user => p + Cushion >= StackPage

Write_ignored(e) == FALSE

Write(e) == e.write

access_error(e, rights) ==
    IF e.write THEN "WRITE" \notin rights ELSE e.prot \/ rights = {}

\* Under the lock: find the area, grow the stack, check the rights.
FindArea(c) ==
    LET p == accessing[c].addr
        e == err[c]
        grows == Above(p) # {} /\ find_vma(p) # p
    IN
    /\ fpc[c] = "locked"
    /\ \/ /\ Above(p) = {} \/ (grows /\ ~MayGrow(e, p))
          /\ __bad_area(c, e) /\ UNCHANGED area
       \/ /\ grows /\ MayGrow(e, p)
          /\ \/ __bad_area(c, e) /\ UNCHANGED area      \* expand_stack refuses
             \/ /\ area' = [q \in UserPages |-> IF q \in p..find_vma(p) THEN area[StackPage] ELSE area[q]]
                /\ fpc' = [fpc EXCEPT ![c] = "good_area"]
                /\ UNCHANGED <<semRead, semWrite, outcome>>
       \/ /\ Above(p) # {} /\ ~grows
          /\ fpc' = [fpc EXCEPT ![c] = "good_area"]
          /\ UNCHANGED <<semRead, semWrite, outcome, area>>
    /\ UNCHANGED <<accessing, err, countVars, pte, master, pmd, tlb>>

\* handle_mm_fault maps the page with the rights asked for, or fails.
good_area(c) ==
    LET p == accessing[c].addr
        e == err[c]
    IN
    /\ fpc[c] = "good_area"
    /\ \/ access_error(e, area[p]) /\ __bad_area(c, e) /\ UNCHANGED pte
       \/ /\ ~access_error(e, area[p])
          /\ \E fault \in {"OOM", "SIGBUS", "HWPOISON"} : mm_fault_error(c, e, fault)
          /\ UNCHANGED pte
       \/ /\ ~access_error(e, area[p])
          /\ pte' = [pte EXCEPT ![p] = IF Write(e) THEN {"READ", "WRITE"} ELSE @ \cup {"READ"}]
          /\ up_read(c) /\ Resume(c, "none")
    /\ UNCHANGED <<accessing, err, countVars, area, master, pmd, tlb>>
-----------------------------------------------------------------------------
(* The rest of the kernel. *)

\* mprotect or munmap of a page that is not the stack, by the section that
\* holds the lock.
ChangeArea(c) ==
    /\ fpc[c] = "access" /\ accessing[c].ctx = "mmap"
    /\ \E p \in UserPages, r \in {{}, {"READ"}, {"READ", "WRITE"}} :
          /\ area[p] # {} /\ area[p] # r /\ ~IsStack(p)
          /\ area' = [area EXCEPT ![p] = r]
          /\ pte' = [pte EXCEPT ![p] = {}]
    /\ UNCHANGED <<fpc, accessing, err, countVars, semRead, semWrite, master, pmd, tlb, outcome>>

\* vmalloc fills in init_mm only; more rights for a mapped page are not
\* announced to the processors.
MapKernelPage ==
    /\ \E r \in {{"READ"}, {"READ", "WRITE"}} :
          /\ master[VmallocPage] \subseteq r /\ master[VmallocPage] # r
          /\ master' = [master EXCEPT ![VmallocPage] = r]
    /\ UNCHANGED <<fpc, accessing, err, countVars, semRead, semWrite, area, pte, pmd, tlb, outcome>>

GrantWrite ==
    /\ master[LowPage] = {"READ"}
    /\ master' = [master EXCEPT ![LowPage] = {"READ", "WRITE"}]
    /\ UNCHANGED <<fpc, accessing, err, countVars, semRead, semWrite, area, pte, pmd, tlb, outcome>>

\* Copies every entry of the vmalloc area into every page directory.
vmalloc_sync_all ==
    /\ vmalloc_sync_one(VmallocPage)
    /\ pmd' = pmd \cup {VmallocPage}
    /\ UNCHANGED <<fpc, accessing, err, countVars, semRead, semWrite, area, pte, master, tlb, outcome>>

\* do_pfcount returns the counter.
sys_do_pfcount == pfcount

FaultInit ==
    /\ fpc = [c \in CPUs |-> "idle"]
    /\ accessing \in [CPUs -> Accesses]
    /\ err = [c \in CPUs |-> NoError]
    /\ seen = [c \in CPUs |-> 0] /\ pfcount = 0 /\ faults = 0 /\ overlapped = FALSE
    /\ semRead = [c \in CPUs |-> 0] /\ semWrite = {}
    /\ area = [p \in UserPages |-> IF p = 0 THEN {"READ"} ELSE IF p = StackPage THEN {"READ", "WRITE"} ELSE {}]
    /\ pte = [p \in UserPages |-> {}]
    /\ master = [k \in KernelPages |-> IF k = LowPage THEN {"READ"} ELSE {}]
    /\ pmd = {LowPage}
    /\ tlb = [c \in CPUs |-> [k \in KernelPages |-> {}]]
    /\ outcome = [c \in CPUs |-> "none"]

FaultNext ==
    \/ \E c \in CPUs :
          \/ Start(c) \/ Execute(c) \/ LoadCount(c) \/ StoreCount(c) \/ KernelSpace(c) \/ UserSpace(c)
          \/ down_read(c) \/ FindArea(c) \/ good_area(c) \/ ChangeArea(c)
    \/ MapKernelPage \/ GrantWrite \/ vmalloc_sync_all

FaultSpec == FaultInit /\ [][FaultNext]_faultVars
-----------------------------------------------------------------------------
FaultTypeOK ==
    /\ fpc \in [CPUs -> {"idle", "access", "enter", "loaded", "classify", "down_read", "locked",
                         "good_area", "dead"}]
    /\ accessing \in [CPUs -> Accesses] /\ semWrite \subseteq CPUs
    /\ area \in [UserPages -> Rights] /\ pte \in [UserPages -> Rights]
    /\ master \in [KernelPages -> Rights] /\ pmd \subseteq KernelPages

\* On every path out of do_page_fault mmap_sem has been released exactly once,
\* and while the handler reads the areas nobody changes them.
SemBalanced ==
    /\ \A c \in CPUs : semRead[c] = IF fpc[c] \in {"locked", "good_area"} THEN 1 ELSE 0
    /\ semWrite # {} => \A c \in CPUs : semRead[c] = 0

\* A faulting thread never waits for the mmap_sem it holds itself: the deadlock
\* the exception table is searched for.
NoSelfDeadlock == \A c \in CPUs : fpc[c] = "down_read" => c \notin semWrite

\* Code that runs in user mode gets a signal and never an oops, unless the page
\* table is corrupt or the processor itself touched a kernel page; kernel code
\* never gets a signal.
UserFaultsSignal ==
    \A c \in CPUs :
       LET a == accessing[c] IN
       /\ outcome[c] = "oops" /\ UserMode(a) => a.rsvd \/ (a.implicit /\ a.addr \in KernelPages)
       /\ outcome[c] \in {"SIGSEGV", "SIGBUS"} => UserMode(a)

\* Without overlapping increments the counter behind do_pfcount is the number of
\* faults that have got past it; with them it may lose counts, never gain any.
PfcountLosesOnlyOverlapped ==
    LET early == Cardinality({c \in CPUs : fpc[c] \in {"enter", "loaded"}}) IN
    /\ sys_do_pfcount <= faults
    /\ ~overlapped => sys_do_pfcount + early = faults

\* An access of kernel code that the reference page table allows, however stale
\* the page directory and the cached translation, does not end in an oops.
AllowedAccessNeverOopses ==
    \A c \in CPUs :
        LET a == accessing[c] IN
        outcome[c] # "oops" /\ outcome'[c] = "oops" /\ a.addr \in KernelPages /\ ~a.rsvd
            => Need(a) \notin master[a.addr]

\* When the handler lets the access be tried again, and memory has not run out,
\* the access does not take the same fault again: it goes through, or fails in
\* another way ("exit gracefully rather than endlessly redo the fault").
NoEndlessFault ==
    \A c \in CPUs :
        fpc[c] \in {"classify", "good_area"} /\ fpc'[c] = "access" /\ outcome'[c] # "OOM"
            => Translates(c, accessing[c])' \/ ErrorCode(c, accessing[c])' # err[c]

\* Every fault ends on one of the handler's paths with mmap_sem as it found it,
\* without waiting for itself, and with an end that fits who made the access.
FaultsEndProperly == SemBalanced /\ NoSelfDeadlock /\ UserFaultsSignal

\* What do_page_fault answers is right for the access: allowed ones go through in
\* the end, and no access is retried in vain.
FaultsAnswered == [][AllowedAccessNeverOopses /\ NoEndlessFault]_faultVars
=============================================================================
