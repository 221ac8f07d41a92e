------------------------------- MODULE Malloc --------------------------------
(***************************************************************************)
(* The user heap, lib/malloc.c.  Addresses count words of 4 bytes, the     *)
(* unit to which malloc rounds every size.  The last word of the last page *)
(* of a run holds the reference count of that page; the pages before it    *)
(* are marked PTE_CONTINUED.  Nothing is concurrent: a call is one step.   *)
(***************************************************************************)
EXTENDS Integers, FiniteSetsExt

CONSTANTS
  PGSIZE,      \* words in a page
  MaxPage,     \* the address space is the pages 0 .. MaxPage - 1
  Begin, End,  \* mbegin and mend, as pages
  Low,         \* the pages below mbegin that the program has mapped, at
               \*   least those of its text
  Sizes        \* BOUND: the sizes, in words, that the program asks for,
               \*   all of them below MAXMALLOC

ASSUME HeapAssumption ==
  /\ {PGSIZE, MaxPage, Begin, End} \subseteq Nat \ {0}
  /\ PGSIZE > 1 /\ Begin < End /\ End < MaxPage
  /\ Low \subseteq 0 .. Begin - 1 /\ Low # {}
  /\ Sizes \subseteq 1 .. (MaxPage - End) * PGSIZE

VARIABLES
  mptr,   \* word address; 0 before the first call
  heap,   \* the pages that malloc has mapped
  cont,   \* those of them marked PTE_CONTINUED
  ref,    \* [heap \ cont -> Nat]
  blocks, \* what the program holds: set of [v, n]
  dead    \* BOOLEAN: an assertion has failed

vars == <<mptr, heap, cont, ref, blocks, dead>>

mbegin == Begin * PGSIZE
mend == End * PGSIZE
InRegion(a) == a \in mbegin .. mend - 1
PageOf(a) == a \div PGSIZE
Pages(v, n) == PageOf(v) .. PageOf(v + n - 1)

Init ==
  /\ mptr = 0
  /\ heap = {} /\ cont = {}
  /\ ref = [p \in {} |-> 0]
  /\ blocks = {}
  /\ dead = FALSE

-----------------------------------------------------------------------------
(* free, on a state h = [heap, cont, ref]: the whole pages of the run are  *)
(* unmapped, and the last one when its count gets to zero.                 *)

LastOf(p, h) == Min({q \in p .. MaxPage : q \notin h.cont})

(* Variant: the mark outlives the page.                                    *)
Unmap_KeepsMark(S, h) ==
  [heap |-> h.heap \ S, cont |-> h.cont,
   ref |-> [p \in DOMAIN h.ref \ S |-> h.ref[p]]]

Unmap(S, h) ==
  [heap |-> h.heap \ S, cont |-> h.cont \ S,
   ref |-> [p \in DOMAIN h.ref \ S |-> h.ref[p]]]

(* Variant: a page of several blocks is unmapped with the first.           *)
free_NoCount(v, h) == Unmap(PageOf(v) .. LastOf(PageOf(v), h), h)

(* Variant: the last page of a run is forgotten.                           *)
free_StopsEarly(v, h) ==
  IF PageOf(v) \in h.cont THEN Unmap(PageOf(v) .. LastOf(PageOf(v), h) - 1, h)
  ELSE IF h.ref[PageOf(v)] = 1 THEN Unmap({PageOf(v)}, h)
  ELSE [h EXCEPT !.ref[PageOf(v)] = @ - 1]

free(v, h) ==
  LET last == LastOf(PageOf(v), h)
      left == Unmap(PageOf(v) .. last - 1, h) IN
  IF left.ref[last] = 1 THEN Unmap({last}, left)
  ELSE [left EXCEPT !.ref = [left.ref EXCEPT ![last] = @ - 1]]

Now == [heap |-> heap, cont |-> cont, ref |-> ref]

Becomes(h) == heap' = h.heap /\ cont' = h.cont /\ ref' = h.ref

Free(b) ==
  /\ ~dead /\ b \in blocks
  /\ blocks' = blocks \ {b}
  /\ IF InRegion(b.v)
       THEN Becomes(free(b.v, Now)) /\ dead' = dead
       ELSE dead' = TRUE /\ UNCHANGED <<heap, cont, ref>>
  /\ UNCHANGED mptr

-----------------------------------------------------------------------------
(* malloc                                                                  *)

At == IF mptr = 0 THEN mbegin ELSE mptr

(* Variant: no room is kept for the reference count.                       *)
Fits_NoRef(n) == At % PGSIZE # 0 /\ PageOf(At) = PageOf(At + n - 1)

(* The page is open, and there is room for the chunk and the count.        *)
Fits(n) == At % PGSIZE # 0 /\ PageOf(At) = PageOf(At + n - 1 + 1)

Extend(n) ==
  /\ ~dead
  /\ Fits(n)
  /\ ref' = [ref EXCEPT ![PageOf(At)] = @ + 1]
  /\ blocks' = blocks \cup {[v |-> At, n |-> n]}
  /\ mptr' = At + n
  /\ UNCHANGED <<heap, cont, dead>>

(* Otherwise the open page is given up, by a call of free.                 *)
Opens(n) == ~dead /\ ~Fits(n) /\ (At % PGSIZE # 0 => InRegion(At))
Closed == IF At % PGSIZE # 0 THEN free(At, Now) ELSE Now
From == IF At % PGSIZE # 0 THEN PageOf(At) + 1 ELSE PageOf(At)

(* The end of a run that reaches the end of the address space wraps round, *)
(* and the loop over its pages is empty.                                   *)
isfree(p, n, h) ==
  \/ p * PGSIZE + n >= MaxPage * PGSIZE
  \/ \A q \in Pages(p * PGSIZE, n) : q < End /\ q \notin h.heap \cup Low

(* Variant: the search starts over with the first page of all.             *)
Visit_FromZero(k) ==
  LET first == IF From < End THEN End - From ELSE MaxPage - From + End IN
  IF k < first THEN (From + k) % MaxPage ELSE k - first

(* The pages that the search visits, in order: up to mend, and once more   *)
(* from mbegin.  If it starts at mend it misses it, and goes on through    *)
(* the rest of the address space and the pages below mbegin.               *)
Visit(k) ==
  LET first == IF From < End THEN End - From ELSE MaxPage - From + End IN
  IF k < first THEN (From + k) % MaxPage ELSE Begin + k - first
Visits == (IF From < End THEN End - From ELSE MaxPage - From + End) + (End - Begin)

Found(n) == {k \in 0 .. Visits - 1 : isfree(Visit(k), n + 1, Closed)}
Place(n) == Visit(Min(Found(n)))

(* Variant: the page starts with the reference of the block alone.         *)
Run_OneRef(p, n, h) ==
  LET run == Pages(p * PGSIZE, n + 1)
      last == PageOf(p * PGSIZE + n) IN
  [heap |-> h.heap \cup run, cont |-> h.cont \cup (run \ {last}),
   ref |-> [q \in DOMAIN h.ref \cup {last} |-> IF q = last THEN 1 ELSE h.ref[q]]]

(* One reference for the block, and one for mptr.                          *)
Run(p, n, h) ==
  LET run == Pages(p * PGSIZE, n + 1)
      last == PageOf(p * PGSIZE + n) IN
  [heap |-> h.heap \cup run, cont |-> h.cont \cup (run \ {last}),
   ref |-> [q \in DOMAIN h.ref \cup {last} |-> IF q = last THEN 2 ELSE h.ref[q]]]

(* A block at address 0 is taken for a failure: the program never frees it.*)
Allocate(n) ==
  /\ Opens(n) /\ Found(n) # {} /\ Place(n) < End
  /\ LET p == Place(n) IN
       /\ Becomes(Run(p, n, Closed))
       /\ mptr' = p * PGSIZE + n
       /\ blocks' = IF p = 0 THEN blocks ELSE blocks \cup {[v |-> p * PGSIZE, n |-> n]}
  /\ UNCHANGED dead

(* Out of physical memory, or above UTOP: the pages mapped so far are       *)
(* unmapped again.                                                         *)
AllocateNoMem(n) ==
  /\ Opens(n) /\ Found(n) # {}
  /\ Becomes(Closed)
  /\ mptr' = Place(n) * PGSIZE
  /\ UNCHANGED <<blocks, dead>>

(* Out of address space                                                    *)
AllocateFull(n) ==
  /\ Opens(n) /\ Found(n) = {}
  /\ Becomes(Closed)
  /\ mptr' = mbegin
  /\ UNCHANGED <<blocks, dead>>

(* The assertion of free fails on the open page.                           *)
AllocatePanics(n) ==
  /\ ~dead /\ ~Fits(n)
  /\ At % PGSIZE # 0 /\ ~InRegion(At)
  /\ dead' = TRUE
  /\ UNCHANGED <<mptr, heap, cont, ref, blocks>>

Next ==
  \/ \E n \in Sizes : Extend(n) \/ Allocate(n) \/ AllocateNoMem(n) \/ AllocateFull(n) \/ AllocatePanics(n)
  \/ \E b \in blocks : Free(b)

Spec == Init /\ [][Next]_vars

-----------------------------------------------------------------------------
(* Properties.                                                             *)

TypeOK ==
  /\ mptr \in 0 .. MaxPage * PGSIZE
  /\ cont \subseteq heap /\ heap \subseteq 0 .. End - 1
  /\ DOMAIN ref = heap \ cont
  /\ \A p \in DOMAIN ref : ref[p] \in Nat \ {0}

Words(b) == b.v .. b.v + b.n - 1
EndPage(b) == PageOf(b.v + b.n)

(* The blocks that the program holds do not overlap, all their pages are   *)
(* mapped, and no block holds the word that counts the references of its   *)
(* page, whatever was allocated and freed before.                          *)
BlocksIntact ==
  /\ \A b \in blocks : Pages(b.v, b.n + 1) \subseteq heap
  /\ \A b, c \in blocks : b # c => Words(b) \cap Words(c) = {}
  /\ \A b \in blocks, p \in DOMAIN ref : (p + 1) * PGSIZE - 1 \notin Words(b)

(* Who refers to a page: the blocks that end in it, and mptr.              *)
Users(p) ==
  Cardinality({b \in blocks : EndPage(b) = p})
  + (IF mptr % PGSIZE # 0 /\ PageOf(mptr) = p THEN 1 ELSE 0)

(* No page is unmapped under its users.                                    *)
CountCovers == \A p \in DOMAIN ref : ref[p] >= Users(p)

(* Blocks, counts and marks agree after any sequence of calls.             *)
HeapIntact == TypeOK /\ BlocksIntact /\ CountCovers

Lost == {p \in DOMAIN ref : p >= Begin /\ ref[p] > Users(p)}

(* A page is lost to the heap only to a chunk of whole pages: mptr then    *)
(* stands at the start of the page that holds nothing but the count, where *)
(* the next call does not take it for an open page.  (A failed assertion   *)
(* ends the program with all its pages.)                                   *)
LostToWholePages ==
  [][dead' \/ \A p \in Lost' \ Lost : mptr' = p * PGSIZE]_vars

(* The heap is left, and the program brought down by free, only after the  *)
(* last page of the heap was the open one and a chunk did not fit in it.   *)
LeavesAtEnd ==
  [][/\ heap' \ heap \subseteq Begin .. End - 1 \/ From >= End \/ At < mbegin
     /\ dead' /\ ~dead => \E p \in heap : p < Begin]_vars
=============================================================================
