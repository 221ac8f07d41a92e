-------------------------------- MODULE Cow ---------------------------------
(***************************************************************************)
(* fork (lib/fork.c) and sfork (lib/sfork.c): a child gets its parent's    *)
(* pages, copy-on-write or shared, one system call at a time, while the    *)
(* parent's own code goes on writing to its stack and all other            *)
(* environments run; a write to a copy-on-write page faults, and the upcall*)
(* makes a private copy (pgfault; kern/trap.c page_fault_handler).         *)
(*                                                                         *)
(* The contents of a page are one value.  A frame is free when nobody maps *)
(* it (module Pmap).  The frames of page tables are left out, so a         *)
(* sys_page_map into the child may fail at any time.                       *)
(***************************************************************************)
EXTENDS Integers, FiniteSetsExt

CONSTANTS
  Env, Root,
  Text,      \* the read-only pages of the program, numbered by address
  Data,      \* its writable pages
  Share,     \* those mapped with PTE_SHARE (lib/fd.c)
  Stack, XStack, \* USTACKTOP - PGSIZE and UXSTACKTOP - PGSIZE
  PFTEMP,
  Frame,
  Value, Zero,
  Written,   \* BOUND: the values that programs write
  Nil

Page == Text \cup Data \cup Share \cup {Stack}
Place == Page \cup {XStack, PFTEMP}

ASSUME CowAssumption ==
  /\ Root \in Env /\ Zero \in Value /\ Written \subseteq Value
  /\ Frame \subseteq Nat /\ Page \subseteq Frame /\ XStack \in Nat /\ \A p \in Page : p < XStack
  /\ PFTEMP \notin Page \cup {XStack}
  /\ Stack \notin Text \cup Data \cup Share
  /\ Text \cap Data = {} /\ Text \cap Share = {} /\ Data \cap Share = {}

Bits == SUBSET {"PTE_W", "PTE_COW", "PTE_SHARE"}
Pte == [frame : Frame, bits : Bits]
Fault == [at : {"alloc", "copy", "map", "unmap", "retry"}, page : Page, val : Value \cup {Nil}]

ASSUME NilAssumption == Nil \notin Pte /\ Nil \notin Fault /\ Nil \notin Value

VARIABLES
  kind,    \* "fork" or "sfork": BOUND: the one that the program and its
           \* children use; sharepage marks a page PTE_SHARE in the child only,
           \* so a later fork of the parent would freeze a page that the child
           \* can still write
  pt,      \* [Env -> [Place -> Pte \cup {Nil}]]
  mem,     \* [Frame -> Value]
  status,  \* [Env -> {"unborn", "embryo", "runnable", "panicked", "gone"}]
  upcall,  \* [Env -> BOOLEAN]: env_pgfault_upcall is set
  op,      \* [Env -> Op]: the fork under way, and where in it
  fault    \* [Env -> Fault \cup {Nil}]: the page being copied, and what the store
           \* that faulted writes there; Nil once its registers are lost

vars == <<kind, pt, mem, status, upcall, op, fault>>

Idle == [at |-> "idle"]
Op ==
  {Idle} \cup [at : {"exofork"}]
  \cup [at : {"scan", "map", "remap"}, child : Env, page : 0 .. XStack, bits : Bits]
  \cup [at : {"xstack", "upcall", "runnable"}, child : Env]

Mapped(e, p) == pt[e][p] # Nil
Used(tables) ==
  {tables[x[1]][x[2]].frame : x \in {y \in Env \X Place : tables[y[1]][y[2]] # Nil}}
Free == Frame \ Used(pt)

(* The page tables become new.  page_alloc clears what it gives out; here a*)
(* frame is cleared when its last mapping goes.                            *)
SetPt(new) ==
  /\ pt' = new
  /\ mem' = [f \in Frame |-> IF f \in Used(new) THEN mem[f] ELSE Zero]

(* page_alloc: frames differ in nothing but their number.                  *)
Alloc(e, p, bits) ==
  /\ Free # {}
  /\ SetPt([pt EXCEPT ![e][p] = [frame |-> Min(Free), bits |-> bits]])

(* The program before its first fork: every page is in a frame of its own. *)
Init ==
  /\ kind \in {"fork", "sfork"}
  /\ pt = [e \in Env |-> [p \in Place |->
       IF e = Root /\ p \in Page
         THEN [frame |-> p,
               bits |-> IF p \in Text THEN {}
                        ELSE IF p \in Share THEN {"PTE_W", "PTE_SHARE"} ELSE {"PTE_W"}]
         ELSE Nil]]
  /\ mem = [f \in Frame |-> Zero]
  /\ status = [e \in Env |-> IF e = Root THEN "runnable" ELSE "unborn"]
  /\ upcall = [e \in Env |-> FALSE]
  /\ op = [e \in Env |-> Idle]
  /\ fault = [e \in Env |-> Nil]

-----------------------------------------------------------------------------

(* The environment runs code of the library at a given place.              *)
At(e, where) == status[e] = "runnable" /\ fault[e] = Nil /\ op[e].at = where
Goto(e, o) == op' = [op EXCEPT ![e] = o]
Scan(where, child, page, bits) == [at |-> where, child |-> child, page |-> page, bits |-> bits]

(* A panic of the library: the environment traps into the monitor for ever *)
(* and keeps what it has.                                                  *)
Panic(e) ==
  /\ status' = [status EXCEPT ![e] = "panicked"]
  /\ UNCHANGED <<kind, pt, mem, upcall, op, fault>>

(* The end of e: exit, or a fault without upcall.                          *)
Destroy(e) ==
  /\ SetPt([pt EXCEPT ![e] = [p \in DOMAIN @ |-> Nil]])
  /\ status' = [status EXCEPT ![e] = "gone"]
  /\ Goto(e, Idle)
  /\ fault' = [fault EXCEPT ![e] = Nil]
  /\ UNCHANGED <<kind, upcall>>

(* set_pgfault_handler, on the first fork.  (PTE_AVAIL sets all the bits   *)
(* that software uses.)                                                    *)
SetPgfaultHandler(e) ==
  /\ At(e, "idle")
  /\ Goto(e, [at |-> "exofork"])
  /\ \/ upcall[e] /\ UNCHANGED <<pt, mem, upcall>>
     \/ /\ ~upcall[e]
        /\ Alloc(e, XStack, {"PTE_W", "PTE_COW", "PTE_SHARE"})
        /\ upcall' = [upcall EXCEPT ![e] = TRUE]
  /\ UNCHANGED <<kind, status, fault>>

SysExofork(e, child) ==
  /\ At(e, "exofork")
  /\ status[child] = "unborn"
  /\ status' = [status EXCEPT ![child] = "embryo"]
  /\ Goto(e, Scan("scan", child, 0, {}))
  /\ UNCHANGED <<kind, pt, mem, upcall, fault>>

-----------------------------------------------------------------------------
(* The loop over the pages.  uvpt is read in one place and used in the next*)
(* ones; the system calls look at the page table of their own moment.      *)

(* Variant: the exception stack is copied like any other page.             *)
PagesLeft_XStackToo(e) == {p \in Page \cup {XStack} : p >= op[e].page /\ Mapped(e, p)}

PagesLeft(e) == {p \in Page : p >= op[e].page /\ Mapped(e, p)}

(* duppage, or sharepage for all but the stack: the bits for the child.    *)
Dup(p) == kind = "fork" \/ p = Stack
Perm(p, bits) ==
  IF "PTE_SHARE" \in bits \/ "PTE_W" \notin bits THEN bits
  ELSE IF Dup(p) THEN (bits \ {"PTE_W"}) \cup {"PTE_COW"}
  ELSE (bits \ {"PTE_COW"}) \cup {"PTE_SHARE"}

ReadUvpt(e) ==
  /\ At(e, "scan")
  /\ IF PagesLeft(e) = {} THEN Goto(e, [at |-> "xstack", child |-> op[e].child])
     ELSE LET p == Min(PagesLeft(e)) IN
            Goto(e, Scan("map", op[e].child, p, pt[e][p].bits))
  /\ UNCHANGED <<kind, pt, mem, status, upcall, fault>>

(* Variant: a page that was copy-on-write before is not marked again.      *)
MapInChild_NotAgain(e) ==
  LET p == op[e].page
      perm == Perm(p, op[e].bits) IN
  /\ At(e, "map")
  /\ SetPt([pt EXCEPT ![op[e].child][p] = [frame |-> pt[e][p].frame, bits |-> perm]])
  /\ Goto(e, IF Dup(p) /\ "PTE_W" \in op[e].bits /\ "PTE_COW" \in perm THEN [op[e] EXCEPT !.at = "remap"]
             ELSE Scan("scan", op[e].child, p + 1, {}))
  /\ UNCHANGED <<kind, status, upcall, fault>>

MapInChild(e) ==
  LET p == op[e].page
      perm == Perm(p, op[e].bits) IN
  /\ At(e, "map")
  /\ SetPt([pt EXCEPT ![op[e].child][p] = [frame |-> pt[e][p].frame, bits |-> perm]])
  /\ Goto(e, IF Dup(p) /\ "PTE_COW" \in perm THEN [op[e] EXCEPT !.at = "remap"]
             ELSE Scan("scan", op[e].child, p + 1, {}))
  /\ UNCHANGED <<kind, status, upcall, fault>>

Remap(e) ==
  LET p == op[e].page IN
  /\ At(e, "remap")
  /\ SetPt([pt EXCEPT ![e][p] = [frame |-> @.frame, bits |-> Perm(p, op[e].bits)]])
  /\ Goto(e, Scan("scan", op[e].child, p + 1, {}))
  /\ UNCHANGED <<kind, status, upcall, fault>>

(* Variant: the child gets no upcall.                                      *)
AllocXStack_NoUpcall(e) ==
  /\ At(e, "xstack")
  /\ Alloc(op[e].child, XStack, {"PTE_W"})
  /\ Goto(e, [op[e] EXCEPT !.at = "runnable"])
  /\ UNCHANGED <<kind, status, upcall, fault>>

AllocXStack(e) ==
  /\ At(e, "xstack")
  /\ Alloc(op[e].child, XStack, {"PTE_W"})
  /\ Goto(e, [op[e] EXCEPT !.at = "upcall"])
  /\ UNCHANGED <<kind, status, upcall, fault>>

SetUpcall(e) ==
  /\ At(e, "upcall")
  /\ upcall' = [upcall EXCEPT ![op[e].child] = TRUE]
  /\ Goto(e, [op[e] EXCEPT !.at = "runnable"])
  /\ UNCHANGED <<kind, pt, mem, status, fault>>

SetStatus(e) ==
  /\ At(e, "runnable")
  /\ status' = [status EXCEPT ![op[e].child] = "runnable"]
  /\ Goto(e, Idle)
  /\ UNCHANGED <<kind, pt, mem, upcall, fault>>

(* A call that needs memory fails and the library panics; a child that is  *)
(* not finished stays as it is.                                            *)
ForkPanics(e) ==
  /\ \/ At(e, "exofork")
     \/ At(e, "map")
     \/ At(e, "xstack")
     \/ At(e, "idle") /\ ~upcall[e] /\ Free = {}
  /\ Panic(e)

-----------------------------------------------------------------------------
(* A write.  In the middle of fork the program writes to its stack only.   *)

Store(e, p, v) ==
  /\ status[e] = "runnable" /\ fault[e] = Nil
  /\ op[e] = Idle \/ p = Stack
  /\ "PTE_W" \in pt[e][p].bits
  /\ mem' = [mem EXCEPT ![pt[e][p].frame] = v]
  /\ UNCHANGED <<kind, pt, status, upcall, op, fault>>

(* page_fault_handler: to the upcall, on the exception stack;              *)
StoreFaults(e, p, v) ==
  /\ status[e] = "runnable" /\ fault[e] = Nil
  /\ op[e] = Idle \/ p = Stack
  /\ "PTE_W" \notin pt[e][p].bits
  /\ upcall[e] /\ Mapped(e, XStack) /\ "PTE_W" \in pt[e][XStack].bits
  /\ fault' = [fault EXCEPT ![e] = [at |-> "alloc", page |-> p, val |-> v]]
  /\ UNCHANGED <<kind, pt, mem, status, upcall, op>>

(* without it the environment is destroyed.                                *)
StoreKills(e, p) ==
  /\ status[e] = "runnable" /\ fault[e] = Nil
  /\ op[e] = Idle \/ p = Stack
  /\ "PTE_W" \notin pt[e][p].bits
  /\ ~(upcall[e] /\ Mapped(e, XStack) /\ "PTE_W" \in pt[e][XStack].bits)
  /\ Destroy(e)

InFault(e, where) == status[e] = "runnable" /\ fault[e] # Nil /\ fault[e].at = where
FaultGoto(e, where) == fault' = [fault EXCEPT ![e].at = where]

PgfaultPanics(e) ==
  /\ InFault(e, "alloc")
  /\ "PTE_COW" \notin pt[e][fault[e].page].bits \/ Free = {}
  /\ Panic(e)

PgfaultAlloc(e) ==
  /\ InFault(e, "alloc")
  /\ "PTE_COW" \in pt[e][fault[e].page].bits
  /\ Alloc(e, PFTEMP, {"PTE_W"})
  /\ FaultGoto(e, "copy")
  /\ UNCHANGED <<kind, status, upcall, op>>

(* Variant: the new page stays empty.                                      *)
PgfaultCopy_NoCopy(e) ==
  /\ InFault(e, "copy")
  /\ FaultGoto(e, "map")
  /\ UNCHANGED <<kind, pt, mem, status, upcall, op>>

PgfaultCopy(e) ==
  /\ InFault(e, "copy")
  /\ mem' = [mem EXCEPT ![pt[e][PFTEMP].frame] = mem[pt[e][fault[e].page].frame]]
  /\ FaultGoto(e, "map")
  /\ UNCHANGED <<kind, pt, status, upcall, op>>

PgfaultMap(e) ==
  /\ InFault(e, "map")
  /\ SetPt([pt EXCEPT ![e][fault[e].page] = [frame |-> pt[e][PFTEMP].frame, bits |-> {"PTE_W"}]])
  /\ FaultGoto(e, "unmap")
  /\ UNCHANGED <<kind, status, upcall, op>>

PgfaultUnmap(e) ==
  /\ InFault(e, "unmap")
  /\ SetPt([pt EXCEPT ![e][PFTEMP] = Nil])
  /\ FaultGoto(e, "retry")
  /\ UNCHANGED <<kind, status, upcall, op>>

(* The upcall pushes the address to return to below the program's stack    *)
(* pointer.  If the stack is copy-on-write, it faults in its turn.  %esp is*)
(* on the program's stack by then, so the kernel puts the new UTrapframe   *)
(* over that of the first fault: the registers of the store are lost.      *)
StackFaults(e) ==
  /\ InFault(e, "retry") /\ "PTE_W" \notin pt[e][Stack].bits
  /\ fault' = [fault EXCEPT ![e] = [at |-> "alloc", page |-> Stack, val |-> Nil]]
  /\ UNCHANGED <<kind, pt, mem, status, upcall, op>>

(* It returns to the instruction that faulted.                             *)
Retry(e) ==
  /\ InFault(e, "retry") /\ "PTE_W" \in pt[e][Stack].bits
  /\ fault[e].val # Nil
  /\ "PTE_W" \in pt[e][fault[e].page].bits
  /\ mem' = [mem EXCEPT ![pt[e][fault[e].page].frame] = fault[e].val]
  /\ fault' = [fault EXCEPT ![e] = Nil]
  /\ UNCHANGED <<kind, pt, status, upcall, op>>

(* It returns there with eax, ebx, ecx, edx and the flags of the upcall.   *)
(* The program goes on with any store or call (it is not in fork, whose    *)
(* own faults are on the stack).                                           *)
RetryLost(e) ==
  /\ InFault(e, "retry") /\ "PTE_W" \in pt[e][Stack].bits
  /\ fault[e].val = Nil
  /\ fault' = [fault EXCEPT ![e] = Nil]
  /\ UNCHANGED <<kind, pt, mem, status, upcall, op>>

Exit(e) == At(e, "idle") /\ Destroy(e)

-----------------------------------------------------------------------------

Pgfault(e) ==
  \/ PgfaultAlloc(e)
  \/ PgfaultPanics(e)
  \/ PgfaultCopy(e)
  \/ PgfaultMap(e)
  \/ PgfaultUnmap(e)
  \/ StackFaults(e)
  \/ Retry(e)
  \/ RetryLost(e)

ForkStep(e) ==
  \/ \E child \in Env : SysExofork(e, child)
  \/ ReadUvpt(e)
  \/ MapInChild(e)
  \/ Remap(e)
  \/ AllocXStack(e)
  \/ SetUpcall(e)
  \/ SetStatus(e)

Next ==
  \E e \in Env :
    \/ SetPgfaultHandler(e)
    \/ ForkStep(e)
    \/ ForkPanics(e)
    \/ \E p \in Page, v \in Written : Store(e, p, v) \/ StoreFaults(e, p, v)
    \/ \E p \in Page : StoreKills(e, p)
    \/ Pgfault(e)
    \/ Exit(e)

Spec == Init /\ [][Next]_vars

-----------------------------------------------------------------------------
(* Properties.                                                             *)

TypeOK ==
  /\ kind \in {"fork", "sfork"}
  /\ pt \in [Env -> [Place -> Pte \cup {Nil}]]
  /\ mem \in [Frame -> Value]
  /\ status \in [Env -> {"unborn", "embryo", "runnable", "panicked", "gone"}]
  /\ upcall \in [Env -> BOOLEAN]
  /\ op \in [Env -> Op]
  /\ fault \in [Env -> Fault \cup {Nil}]

(* A child is there as far as it has been built.  A page that is between   *)
(* the two system calls of duppage is there once the parent can no longer  *)
(* change it: its own mapping is done, or a fault has given it a copy.     *)
BuiltBy(e, child) == op[e].at \notin {"idle", "exofork"} /\ op[e].child = child
Visible(e, p) ==
  /\ Mapped(e, p)
  /\ \/ status[e] \in {"runnable", "panicked"}
     \/ \E parent \in Env :
          /\ BuiltBy(parent, e)
          /\ ~(op[parent].at = "remap" /\ op[parent].page = p
                 /\ pt[parent][p].frame = pt[e][p].frame)

M == INSTANCE PrivateMemory WITH
       None <- Nil,
       val <- [e \in Env |-> [p \in Page |-> IF Visible(e, p) THEN mem[pt[e][p].frame] ELSE Nil]],
       shared <- IF kind = "fork" THEN Share ELSE Page \ {Stack}

(* fork and sfork give every environment a memory of its own, whatever     *)
(* parent, child and grandchildren write at whatever moment of a fork or a *)
(* page fault: "why do we need to mark ours copy-on-write again".  A store *)
(* whose registers were lost in the upcall may go astray, but never into   *)
(* the memory of another environment.                                      *)
ImplementsPrivateMemory == M!Spec

(* A frame that somebody maps copy-on-write and could still read through   *)
(* that mapping is writable nowhere: pgfault may copy it with no lock.     *)
(* Only the page of a duppage between its two system calls is an exception.*)
CowIsFrozen ==
  \A e, f \in Env : \A p, q \in Page :
    /\ Visible(e, p) /\ pt[e][p].bits \cap {"PTE_W", "PTE_COW"} = {"PTE_COW"}
    /\ Mapped(f, q) /\ pt[f][q].frame = pt[e][p].frame
    => "PTE_W" \notin pt[f][q].bits

(* Every environment that can meet a copy-on-write page can take the fault:*)
(* it has its upcall, and an exception stack that nobody else maps.        *)
CanTakeFault ==
  \A e \in Env :
    status[e] = "runnable" /\ (\E p \in Page : Mapped(e, p) /\ "PTE_COW" \in pt[e][p].bits) =>
      /\ upcall[e] /\ Mapped(e, XStack) /\ "PTE_W" \in pt[e][XStack].bits
      /\ \A f \in Env \ {e} : Mapped(f, XStack) => pt[f][XStack].frame # pt[e][XStack].frame

(* What pgfault relies on: frozen frames, and a way to get to it.          *)
CowSound == TypeOK /\ CowIsFrozen /\ CanTakeFault
=============================================================================
