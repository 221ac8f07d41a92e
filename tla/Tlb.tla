-------------------------------- MODULE Tlb ---------------------------------
(***************************************************************************)
(* Pmap on several CPUs with their translation look-aside buffers.  A CPU  *)
(* caches the entries it uses; lcr3 in env_run and sched_halt empties its  *)
(* buffer; tlb_invalidate drops one address, on the CPU that edits the page*)
(* table, and only if that page table is the one in use there.             *)
(***************************************************************************)
EXTENDS Pmap

CONSTANTS
  CPU,
  Care      \* TRUE: a program edits only its own address space and those of
            \* environments that are on no CPU, as fork, sfork, spawn and
            \* sys_ipc_try_send do; FALSE: also those of running children

VARIABLES
  curenv,   \* [CPU -> Env \cup {Nil}]
  tlb       \* [CPU -> SUBSET [va : VA, page : Page, w : BOOLEAN]]

tlbVars == <<vars, curenv, tlb>>

TlbInit == Init /\ curenv = [c \in CPU |-> Nil] /\ tlb = [c \in CPU |-> {}]

OnCpu(e) == \E c \in CPU : curenv[c] = e
MayEdit(c, e) == curenv[c] # Nil /\ (curenv[c] = e \/ ~OnCpu(e) \/ ~Care)

(* env_run and sched_halt, as far as address spaces go (module Kernel keeps*)
(* an environment on one CPU).                                             *)
EnvRun(c, e) ==
  /\ e \in Alive
  /\ curenv[c] = e \/ ~OnCpu(e)
  /\ curenv' = [curenv EXCEPT ![c] = e]
  /\ tlb' = [tlb EXCEPT ![c] = {}]
  /\ UNCHANGED vars

SchedHalt(c) ==
  /\ curenv[c] # Nil
  /\ curenv' = [curenv EXCEPT ![c] = Nil]
  /\ tlb' = [tlb EXCEPT ![c] = {}]
  /\ UNCHANGED vars

(* The processor walks the page table for an access and keeps the entry.   *)
Access(c, va) ==
  /\ curenv[c] # Nil
  /\ LET e == curenv[c] IN
       /\ pte[e][va] # Nil
       /\ ~\E x \in tlb[c] : x.va = va
       /\ tlb' = [tlb EXCEPT ![c] = @ \cup
                    {[va |-> va, page |-> pte[e][va], w |-> va \in writable[e]]}]
  /\ UNCHANGED <<vars, curenv>>

(* Variant: no invalidation.                                               *)
TlbInvalidate_Not(c, e, S) == tlb' = tlb

(* tlb_invalidate, for the addresses of S                                  *)
TlbInvalidate(c, e, S) ==
  tlb' = IF curenv[c] = e
           THEN [tlb EXCEPT ![c] = {x \in @ : x.va \notin S}]
           ELSE tlb

(* Handlers that edit a page table, run on CPU c.                          *)
AllocOn(c, e, va, w) ==
  /\ MayEdit(c, e)
  /\ SysPageAlloc(e, va, w)
  /\ TlbInvalidate(c, e, {va})
  /\ UNCHANGED curenv

MapOn(c, src, srcva, dst, dstva, w) ==
  /\ MayEdit(c, src) /\ MayEdit(c, dst)
  /\ SysPageMap(src, srcva, dst, dstva, w)
  /\ TlbInvalidate(c, dst, {dstva})
  /\ UNCHANGED curenv

UnmapOn(c, e, va) ==
  /\ MayEdit(c, e)
  /\ SysPageUnmap(e, va)
  /\ TlbInvalidate(c, e, {va})
  /\ UNCHANGED curenv

ExecOn(c, keep) ==
  /\ curenv[c] # Nil
  /\ ExecUnmapUser(curenv[c], keep)
  /\ TlbInvalidate(c, curenv[c], VA \ keep)
  /\ UNCHANGED curenv

(* env_free of the CPU's own environment (lcr3) or of one that is on no CPU*)
FreeOn(c, e) ==
  /\ curenv[c] = e \/ ~OnCpu(e)
  /\ EnvFree(e)
  /\ curenv' = [curenv EXCEPT ![c] = IF @ = e THEN Nil ELSE @]
  /\ tlb' = [tlb EXCEPT ![c] = IF curenv[c] = e THEN {} ELSE @]

SetupOn(e) == EnvSetupVm(e) /\ UNCHANGED <<curenv, tlb>>

TlbNext ==
  \/ \E e \in Env : SetupOn(e)
  \/ \E c \in CPU :
       \/ SchedHalt(c)
       \/ \E e \in Env : EnvRun(c, e) \/ FreeOn(c, e)
       \/ \E va \in VA : Access(c, va)
       \/ \E e \in Env, va \in VA, w \in BOOLEAN : AllocOn(c, e, va, w)
       \/ \E e, dst \in Env, va, dstva \in VA, w \in BOOLEAN :
            MapOn(c, e, va, dst, dstva, w)
       \/ \E e \in Env, va \in VA : UnmapOn(c, e, va)
       \/ \E keep \in SUBSET VA : ExecOn(c, keep)

TlbSpec == TlbInit /\ [][TlbNext]_tlbVars

-----------------------------------------------------------------------------

TlbTypeOK ==
  /\ TypeOK
  /\ curenv \in [CPU -> Env \cup {Nil}]
  /\ tlb \in [CPU -> SUBSET [va : VA, page : Page, w : BOOLEAN]]

(* The same on several CPUs: no edit of an address space spoils the count  *)
(* of another.                                                             *)
AllAccounted == TlbTypeOK /\ PagesAccounted

(* No CPU uses a translation that the page table no longer has: "The TLB   *)
(* must be invalidated if you remove an entry from the page table"         *)
(* (page_remove).  A stale entry reads or writes a page that may by now    *)
(* belong to somebody else, and a stale PTE_W defeats copy-on-write.       *)
TlbFresh ==
  \A c \in CPU : \A x \in tlb[c] :
    /\ curenv[c] # Nil
    /\ pte[curenv[c]][x.va] = x.page
    /\ x.w => x.va \in writable[curenv[c]]
=============================================================================
