-------------------------------- MODULE Pmap --------------------------------
(***************************************************************************)
(* Physical pages, page tables and reference counts of the JOS kernel      *)
(* (mit-6.828/lab/kern/pmap.c, the address-space parts of env.c, and the   *)
(* sys_page_* calls of syscall.c).                                         *)
(*                                                                         *)
(* Every action is one handler, run under the big kernel lock (module      *)
(* Kernel).  Whom a caller may name is Kernel's Envid2env; here any live   *)
(* environment may be the target.  The free list is a set: page_alloc      *)
(* takes some free page where the code takes the first.  Only mappings     *)
(* below UTOP are counted, as in the code.                                 *)
(***************************************************************************)
EXTENDS Integers, FiniteSets

CONSTANTS
  Env,      \* slots of envs[]
  VA,       \* page-aligned user addresses
  PDX(_),   \* the page directory index of an address
  Page,     \* physical pages that page_init puts on the free list
  RefMod,   \* pp_ref is a uint16_t: 2^16 in the code
  Nil

ASSUME NilAssumption == Nil \notin Page
ASSUME FiniteAssumption == IsFiniteSet(Env) /\ IsFiniteSet(VA) /\ IsFiniteSet(Page)
ASSUME RefModAssumption == RefMod \in Nat \ {0, 1}

VARIABLES
  pgdir,          \* [Env -> Page \cup {Nil}]: the page directory, Nil if free
  pde,            \* [Env -> [Pdx -> Page \cup {Nil}]]: page table pages
  pte,            \* [Env -> [VA -> Page \cup {Nil}]]: mapped pages
  writable,       \* [Env -> SUBSET VA]: entries with PTE_W
  pp_ref,         \* [Page -> 0 .. RefMod - 1]
  page_free_list  \* SUBSET Page

vars == <<pgdir, pde, pte, writable, pp_ref, page_free_list>>

Pdx == {PDX(va) : va \in VA}
Alive == {e \in Env : pgdir[e] # Nil}

(* After page_init, before the first env_setup_vm.                         *)
Init ==
  /\ pgdir = [e \in Env |-> Nil]
  /\ pde = [e \in Env |-> [i \in Pdx |-> Nil]]
  /\ pte = [e \in Env |-> [va \in VA |-> Nil]]
  /\ writable = [e \in Env |-> {}]
  /\ pp_ref = [p \in Page |-> 0]
  /\ page_free_list = Page

-----------------------------------------------------------------------------
(* References, as sets of the entries that hold them.                      *)

MappedAt(p) == {m \in Env \X VA : pte[m[1]][m[2]] = p}
TableAt(p) == {t \in Env \X Pdx : pde[t[1]][t[2]] = p}
DirOf(p) == {e \in Env : pgdir[e] = p}

Refs(p) == Cardinality(MappedAt(p)) + Cardinality(TableAt(p)) + Cardinality(DirOf(p))

-----------------------------------------------------------------------------
(* Page counts after lost[p] calls of page_decref and gain[p] increments   *)
(* of page p; the decrements come first, and a count that a decrement brings  *)
(* to zero puts the page on the free list.                                 *)
Counted(lost, gain) == [p \in Page |-> (pp_ref[p] - lost[p] + gain[p]) % RefMod]

Freed(lost) == {p \in Page : pp_ref[p] # 0 /\ lost[p] >= pp_ref[p]}

One(q) == [p \in Page |-> IF p = q THEN 1 ELSE 0]
None == [p \in Page |-> 0]

(* env_setup_vm                                                            *)
EnvSetupVm(e) ==
  /\ pgdir[e] = Nil
  /\ \E p \in page_free_list :
       /\ pgdir' = [pgdir EXCEPT ![e] = p]
       /\ pp_ref' = Counted(None, One(p))
       /\ page_free_list' = page_free_list \ {p}
  /\ UNCHANGED <<pde, pte, writable>>

(* Variant: the page tables are not given back.                            *)
EnvFree_KeepTables(e) ==
  LET lost == [p \in Page |-> Cardinality({va \in VA : pte[e][va] = p}) + One(pgdir[e])[p]] IN
  /\ e \in Alive
  /\ pgdir' = [pgdir EXCEPT ![e] = Nil]
  /\ pde' = [pde EXCEPT ![e] = [i \in Pdx |-> Nil]]
  /\ pte' = [pte EXCEPT ![e] = [va \in VA |-> Nil]]
  /\ writable' = [writable EXCEPT ![e] = {}]
  /\ pp_ref' = Counted(lost, None)
  /\ page_free_list' = page_free_list \cup Freed(lost)

(* The part of env_free that gives the address space back: every mapping,  *)
(* then each page table, then the page directory.                          *)
EnvFree(e) ==
  LET lost == [p \in Page |-> Cardinality({va \in VA : pte[e][va] = p})
                                + Cardinality({i \in Pdx : pde[e][i] = p})
                                + One(pgdir[e])[p]]
  IN
  /\ e \in Alive
  /\ pgdir' = [pgdir EXCEPT ![e] = Nil]
  /\ pde' = [pde EXCEPT ![e] = [i \in Pdx |-> Nil]]
  /\ pte' = [pte EXCEPT ![e] = [va \in VA |-> Nil]]
  /\ writable' = [writable EXCEPT ![e] = {}]
  /\ pp_ref' = Counted(lost, None)
  /\ page_free_list' = page_free_list \cup Freed(lost)

(* The entry of va becomes pp, with the page table page new counted if the *)
(* walk took one; lost are the references given up, counted says that pp   *)
(* gains one, and left is what page_alloc has left on the free list.       *)
SetEntry(e, pp, va, w, new, left, lost, counted) ==
  LET gain == [p \in Page |-> (IF counted THEN One(pp)[p] ELSE 0) + One(new)[p]] IN
  /\ pte' = [pte EXCEPT ![e][va] = pp]
  /\ writable' = [writable EXCEPT ![e] = IF w THEN @ \cup {va} ELSE @ \ {va}]
  /\ pde' = IF new = Nil THEN pde ELSE [pde EXCEPT ![e][PDX(va)] = new]
  /\ pp_ref' = Counted(lost, gain)
  /\ page_free_list' = left \cup Freed(lost)
  /\ UNCHANGED pgdir

(* pgdir_walk(create): the page table page it takes, Nil if there is one   *)
(* already; no element if memory has run out.                              *)
PgdirWalk(e, va, avail) == IF pde[e][PDX(va)] # Nil THEN {Nil} ELSE avail

(* Variants: a page inserted again where it is mapped is counted again; the*)
(* page table page stays on the free list.                                 *)
PageInsert_CountAgain(e, pp, va, w, avail) ==
  LET lost == IF pte[e][va] # pp THEN One(pte[e][va]) ELSE None IN
  \E new \in PgdirWalk(e, va, avail) :
    SetEntry(e, pp, va, w, new, avail \ {new}, lost, TRUE)

PageInsert_TableStaysFree(e, pp, va, w, avail) ==
  LET lost == IF pte[e][va] # pp THEN One(pte[e][va]) ELSE None IN
  \E new \in PgdirWalk(e, va, avail) :
    SetEntry(e, pp, va, w, new, avail, lost, pte[e][va] # pp)

(* page_insert of pp, when avail are the pages on the free list: an old    *)
(* mapping of another page is removed and pp counted; the same page again  *)
(* only changes the permission.                                            *)
PageInsert(e, pp, va, w, avail) ==
  LET lost == IF pte[e][va] # pp THEN One(pte[e][va]) ELSE None IN
  \E new \in PgdirWalk(e, va, avail) :
    SetEntry(e, pp, va, w, new, avail \ {new}, lost, pte[e][va] # pp)

(* sys_page_alloc.  Without memory for the page or its page table nothing  *)
(* changes: page_free gives the page back.                                 *)
SysPageAlloc(e, va, w) ==
  /\ e \in Alive
  /\ \E pp \in page_free_list : PageInsert(e, pp, va, w, page_free_list \ {pp})

(* Variant: sys_page_map does not look at the source's PTE_W.              *)
SysPageMap_NoCheck(src, srcva, dst, dstva, w) ==
  /\ src \in Alive /\ dst \in Alive
  /\ pte[src][srcva] # Nil
  /\ PageInsert(dst, pte[src][srcva], dstva, w, page_free_list)

(* sys_page_map, and the page part of sys_ipc_try_send.                    *)
SysPageMap(src, srcva, dst, dstva, w) ==
  /\ src \in Alive /\ dst \in Alive
  /\ pte[src][srcva] # Nil
  /\ w => srcva \in writable[src]
  /\ PageInsert(dst, pte[src][srcva], dstva, w, page_free_list)

(* Variant: page_remove does not notice that nothing is mapped.            *)
PageRemove_NoCheck(e, S) ==
  LET lost == [p \in Page |-> Cardinality({va \in S : pte[e][va] = p})] IN
  /\ pte' = [pte EXCEPT ![e] = [va \in VA |-> IF va \in S THEN Nil ELSE @[va]]]
  /\ writable' = [writable EXCEPT ![e] = @ \ S]
  /\ pp_ref' = Counted(lost, None)
  /\ page_free_list' = page_free_list \cup Freed(lost) \cup {pte[e][va] : va \in S}
  /\ UNCHANGED <<pgdir, pde>>

(* page_remove of the mappings of e at the addresses of S: sys_page_unmap  *)
(* for one address, exec_unmap_user for all but the kept ones.             *)
PageRemove(e, S) ==
  LET lost == [p \in Page |-> Cardinality({va \in S : pte[e][va] = p})] IN
  /\ pte' = [pte EXCEPT ![e] = [va \in VA |-> IF va \in S THEN Nil ELSE @[va]]]
  /\ writable' = [writable EXCEPT ![e] = @ \ S]
  /\ pp_ref' = Counted(lost, None)
  /\ page_free_list' = page_free_list \cup Freed(lost)
  /\ UNCHANGED <<pgdir, pde>>

SysPageUnmap(e, va) == e \in Alive /\ PageRemove(e, {va})

(* exec_unmap_user; which mappings stay (PTE_SHARE, the staged program) is *)
(* the caller's choice.                                                    *)
ExecUnmapUser(e, keep) == e \in Alive /\ PageRemove(e, VA \ keep)

Next ==
  \E e \in Env :
    \/ EnvSetupVm(e)
    \/ EnvFree(e)
    \/ \E va \in VA, w \in BOOLEAN : SysPageAlloc(e, va, w)
    \/ \E va, dstva \in VA, dst \in Env, w \in BOOLEAN : SysPageMap(e, va, dst, dstva, w)
    \/ \E va \in VA : SysPageUnmap(e, va)
    \/ \E keep \in SUBSET VA : ExecUnmapUser(e, keep)

Spec == Init /\ [][Next]_vars

-----------------------------------------------------------------------------
(* Properties.                                                             *)

TypeOK ==
  /\ pgdir \in [Env -> Page \cup {Nil}]
  /\ pde \in [Env -> [Pdx -> Page \cup {Nil}]]
  /\ pte \in [Env -> [VA -> Page \cup {Nil}]]
  /\ writable \in [Env -> SUBSET VA]
  /\ pp_ref \in [Page -> 0 .. RefMod - 1]
  /\ page_free_list \subseteq Page

(* pp_ref is the number of page table entries, page directory entries and  *)
(* environments that refer to the page (the comment in struct PageInfo).   *)
RefsExact == \A p \in Page : pp_ref[p] = Refs(p)

(* A page is on the free list exactly when nothing refers to it: nothing   *)
(* leaks, and no page is handed out while an address space still has it.   *)
FreeIsUnreferenced == \A p \in Page : p \in page_free_list <=> Refs(p) = 0

(* A page that serves as page table or page directory has one owner and is *)
(* mapped into no address space, so no program writes page tables.         *)
TablesPrivate ==
  \A p \in Page : TableAt(p) # {} \/ DirOf(p) # {} => Refs(p) = 1

(* Every page is accounted for, in every sequence of calls, also when      *)
(* memory runs out in the middle of one.                                   *)
PagesAccounted == TypeOK /\ RefsExact /\ FreeIsUnreferenced /\ TablesPrivate

(* Write access cannot be regained: a page that is in use and that nobody  *)
(* can write stays so until it has been freed.  Copy-on-write and          *)
(* read-only sharing rest on this.                                         *)
Writers(p) == {m \in MappedAt(p) : m[2] \in writable[m[1]]}

WriteNotRegained ==
  [][\A p \in Page : MappedAt(p) # {} /\ Writers(p) = {} => Writers(p)' = {}]_vars
=============================================================================
