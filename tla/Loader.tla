------------------------------- MODULE Loader --------------------------------
(***************************************************************************)
(* Loading a program: spawn (lib/spawn.c) into a new environment, exec     *)
(* (lib/exec.c) and sys_exec (kern/syscall.c) into the running one.  Any   *)
(* system call on the way may fail.  Nobody else works on the two address  *)
(* spaces; the child does not run before it is ENV_RUNNABLE.               *)
(***************************************************************************)
EXTENDS Integers, FiniteSets, FiniteSetsExt

CONSTANTS
  PGSIZE,
  NPROGPAGE,  \* BOUND: pages at UTEXT that programs may use
  NFD,        \* BOUND: slots of struct Fd pages
  Program,    \* BOUND: the files, as functions from "text" and "data" to headers
  MaxCalls    \* BOUND: calls of spawn and exec

(* A program header.  Segments share no page, and an address has the same  *)
(* offset in its page as the byte of the file that is loaded there.        *)
IsHeader(h) ==
  /\ h.p_filesz \in 0 .. h.p_memsz
  /\ h.p_va % PGSIZE = h.p_offset % PGSIZE
  /\ h.p_va + h.p_memsz <= NPROGPAGE * PGSIZE

ASSUME LoaderAssumption ==
  /\ PGSIZE \in Nat \ {0} /\ NFD \in Nat \ {0}
  /\ \A p \in DOMAIN Program :
       /\ IsHeader(Program[p].text) /\ IsHeader(Program[p].data)
       /\ Program[p].text.p_filesz = Program[p].text.p_memsz

(* The pages of an address space: the program's, the stack, UTEMP, the     *)
(* struct Fd pages and those at ETEMP.                                     *)
ProgPage == 0 .. NPROGPAGE - 1
STACK == NPROGPAGE
UTEMP == NPROGPAGE + 1
FdPage == NPROGPAGE + 2 .. NPROGPAGE + 1 + NFD
ETEMP == NPROGPAGE + 2 + NFD

Down(a) == a - (a % PGSIZE)
Up(a) == Down(a + PGSIZE - 1)

FileEnd(p) == Max({Program[p][s].p_offset + Program[p][s].p_filesz : s \in {"text", "data"}})

(* st_size: symbols follow the segments.                                   *)
Size(p) == FileEnd(p) + PGSIZE
NStaged == Max({Up(Size(p)) : p \in DOMAIN Program}) \div PGSIZE
Page == 0 .. ETEMP + NStaged - 1

(* A byte of a file is told from the bytes of the others, and from 0.      *)
FileByte(p, off) == IF off < Size(p) THEN 1000 * p + off + 1 ELSE 0

None == [bytes |-> <<>>, share |-> FALSE]
Mapped(bytes, share) == [bytes |-> [b \in 0 .. PGSIZE - 1 |-> bytes[b]], share |-> share]
Zero == [b \in 0 .. PGSIZE - 1 |-> 0]

(* What readn of n bytes at offset off leaves in a fresh page.             *)
ReadPage(p, off, n) == [b \in 0 .. PGSIZE - 1 |-> IF b < n THEN FileByte(p, off + b) ELSE 0]

VARIABLES
  at,      \* where the caller is in spawn or exec: [pc, prog, seg, j, fd]
  mem,     \* [{"self", "child"} -> [Page -> None or a mapped page]]
  status,  \* env_status of the two
  runs,    \* the program that each has been given last, or 0
  execs,   \* how often the caller was replaced
  calls    \* the number of calls so far

vars == <<at, mem, status, runs, execs, calls>>

Idle == [pc |-> "idle", prog |-> 0, seg |-> "text", j |-> 0, fd |-> 0]
NoMemory == [pg \in Page |-> None]

(* The bytes that the pages of program p hold once it is loaded.           *)
Byte(p, a) ==
  LET s == CHOOSE s \in {"text", "data"} :
             Program[p][s].p_va <= a /\ a < Program[p][s].p_va + Program[p][s].p_memsz
      h == Program[p][s] IN
  IF a - h.p_va < h.p_filesz THEN FileByte(p, h.p_offset + a - h.p_va) ELSE 0

Addresses(h) == h.p_va .. h.p_va + h.p_memsz - 1
AllAddresses(p) == Addresses(Program[p].text) \cup Addresses(Program[p].data)
PagesOf(h) == {a \div PGSIZE : a \in Addresses(h)}

(* The caller runs program p, loaded by the kernel or by spawn (then with  *)
(* PTE_SHARE on its text), and has one descriptor open.                    *)
Init ==
  \E p \in DOMAIN Program, spawned \in BOOLEAN :
    /\ at = Idle
    /\ mem = [e \in {"self", "child"} |->
         IF e = "child" THEN NoMemory ELSE
         [pg \in Page |->
           IF pg \in PagesOf(Program[p].text) \cup PagesOf(Program[p].data) THEN
             Mapped([b \in 0 .. PGSIZE - 1 |->
                       LET a == pg * PGSIZE + b IN IF a \in AllAddresses(p) THEN Byte(p, a) ELSE 0],
                    spawned /\ pg \in PagesOf(Program[p].text))
           ELSE IF pg = STACK THEN Mapped(Zero, FALSE)
           ELSE IF pg = Min(FdPage) THEN Mapped(Zero, TRUE)
           ELSE None]]
    /\ status = [self |-> "ENV_RUNNABLE", child |-> "ENV_FREE"]
    /\ runs = [self |-> p, child |-> 0]
    /\ execs = 0 /\ calls = 0

At(pc) == at.pc = pc /\ status.self = "ENV_RUNNABLE"
Goto(pc) == at' = [at EXCEPT !.pc = pc]
Return == at' = Idle

Map(e, pg, what) == [mem EXCEPT ![e][pg] = what]
Closed == [mem.self EXCEPT ![at.fd] = None]

FreeFd == {f \in FdPage : mem.self[f] = None}
Open(pc) ==
  /\ FreeFd # {}
  /\ at' = [at EXCEPT !.pc = pc, !.fd = Min(FreeFd)]
  /\ mem' = Map("self", Min(FreeFd), Mapped(Zero, TRUE))

-----------------------------------------------------------------------------
(* spawn                                                                   *)

Begin(pc) ==
  /\ At("idle") /\ calls < MaxCalls
  /\ calls' = calls + 1
  /\ \E p \in DOMAIN Program : at' = [Idle EXCEPT !.pc = pc, !.prog = p]
  /\ UNCHANGED <<mem, status, runs, execs>>

(* One child is watched; the one before is on its own.                     *)
Spawn == Begin("spawn")

SpawnOpen ==
  /\ At("spawn")
  /\ Open("header") \/ (Return /\ UNCHANGED mem)
  /\ UNCHANGED <<status, runs, execs, calls>>

(* Variant: the file stays open.                                           *)
SpawnHeader_KeepsOpen ==
  /\ At("header")
  /\ at' = [at EXCEPT !.pc = "exofork", !.fd = 0] \/ Return
  /\ UNCHANGED <<mem, status, runs, execs, calls>>

SpawnHeader ==
  /\ At("header")
  /\ mem' = [mem EXCEPT !.self = Closed]
  /\ at' = [at EXCEPT !.pc = "exofork", !.fd = 0] \/ Return
  /\ UNCHANGED <<status, runs, execs, calls>>

Exofork ==
  /\ At("exofork")
  /\ \/ /\ Goto("share")
        /\ mem' = [mem EXCEPT !.child = NoMemory]
        /\ status' = [status EXCEPT !.child = "ENV_NOT_RUNNABLE"]
        /\ runs' = [runs EXCEPT !.child = 0]
     \/ Return /\ UNCHANGED <<mem, status, runs>>
  /\ UNCHANGED <<execs, calls>>

(* From UTEXT to USTACKTOP                                                 *)
SharedPages == {pg \in ProgPage \cup FdPage \cup {STACK} : mem.self[pg].share}

CopySharedPages ==
  /\ At("share")
  /\ \/ /\ Goto("stack")
        /\ mem' = [mem EXCEPT !.child =
             [pg \in Page |-> IF pg \in SharedPages THEN mem.self[pg] ELSE @[pg]]]
        /\ UNCHANGED status
     \/ /\ status' = [status EXCEPT !.self = "ENV_FREE"]
        /\ UNCHANGED <<at, mem>>
  /\ UNCHANGED <<runs, execs, calls>>

(* init_stack.  If it fails, spawn returns and the child stays; so does a  *)
(* page at UTEMP that an earlier load left there, if there was no memory.  *)
InitStack ==
  /\ At("stack")
  /\ mem' \in {[Map("child", STACK, Mapped(Zero, FALSE)) EXCEPT !.self[UTEMP] = None],
               Map("self", UTEMP, None), mem}
  /\ IF mem'.child[STACK] = None THEN Return ELSE Goto("reopen")
  /\ UNCHANGED <<status, runs, execs, calls>>

(* Variant: the child is forgotten.                                        *)
Error_KeepsChild(m) ==
  /\ Return
  /\ mem' = [m EXCEPT !.self[at.fd] = None]
  /\ UNCHANGED status

(* error: the child is destroyed and the file closed.                      *)
Error(m) ==
  /\ Return
  /\ mem' = [m EXCEPT !.child = NoMemory, !.self[at.fd] = None]
  /\ status' = [status EXCEPT !.child = "ENV_FREE"]

(* Without a file there is nothing to close.                               *)
Reopen ==
  /\ At("reopen")
  /\ \/ Open("segment") /\ UNCHANGED status
     \/ /\ Return
        /\ mem' = [mem EXCEPT !.child = NoMemory]
        /\ status' = [status EXCEPT !.child = "ENV_FREE"]
  /\ UNCHANGED <<runs, execs, calls>>

(* The segment being loaded, from the start of its first page: addresses   *)
(* and sizes grow by delta, and j runs over its pages.                     *)
Header == Program[at.prog][at.seg]
Delta == Header.p_va % PGSIZE
MemSize == Header.p_memsz + Delta
FileSize == Header.p_filesz + Delta
Target == (Header.p_va - Delta + at.j) \div PGSIZE
Offset == Header.p_offset - Delta + at.j

NextPage == at' = [at EXCEPT !.j = @ + PGSIZE]

SegmentEnd ==
  /\ At("segment") /\ at.j >= MemSize
  /\ at' = IF at.seg = "text" THEN [at EXCEPT !.seg = "data", !.j = 0] ELSE [at EXCEPT !.pc = "start"]
  /\ UNCHANGED <<mem, status, runs, execs, calls>>

(* A page of text: read_map and sys_page_map.  The temporary page stays    *)
(* mapped if the second half fails.                                        *)
TextPage ==
  /\ At("segment") /\ at.seg = "text" /\ at.j < MemSize
  /\ LET read == Mapped(ReadPage(at.prog, Offset, PGSIZE), FALSE) IN
     \/ /\ NextPage
        /\ mem' = [mem EXCEPT !.child[Target] = [read EXCEPT !.share = TRUE], !.self[UTEMP] = None]
        /\ UNCHANGED status
     \/ Error(mem)
     \/ Error(Map("self", UTEMP, read))
  /\ UNCHANGED <<runs, execs, calls>>

(* Variant: the whole page is read, bytes behind p_filesz too.             *)
DataBytes_WholePage == ReadPage(at.prog, Offset, PGSIZE)

DataBytes == ReadPage(at.prog, Offset, Min({PGSIZE, FileSize - at.j}))

(* map_segment: a blank page, or one from the file.  If only the mapping   *)
(* fails, the caller panics.                                               *)
BlankPage ==
  /\ At("segment") /\ at.seg = "data" /\ at.j < MemSize /\ at.j >= FileSize
  /\ \/ NextPage /\ mem' = Map("child", Target, Mapped(Zero, FALSE)) /\ UNCHANGED status
     \/ Error(mem)
  /\ UNCHANGED <<runs, execs, calls>>

DataPage ==
  /\ At("segment") /\ at.seg = "data" /\ at.j < MemSize /\ at.j < FileSize
  /\ LET read == Mapped(DataBytes, FALSE) IN
     \/ /\ NextPage
        /\ mem' = [mem EXCEPT !.child[Target] = read, !.self[UTEMP] = None]
        /\ UNCHANGED status
     \/ Error(mem)
     \/ Error(Map("self", UTEMP, read))
     \/ status' = [status EXCEPT !.self = "ENV_FREE"] /\ UNCHANGED <<at, mem>>
  /\ UNCHANGED <<runs, execs, calls>>

Start ==
  /\ At("start")
  /\ mem' = [mem EXCEPT !.self = Closed]
  /\ status' = [status EXCEPT !.child = "ENV_RUNNABLE"]
  /\ runs' = [runs EXCEPT !.child = at.prog]
  /\ Return
  /\ UNCHANGED <<execs, calls>>

-----------------------------------------------------------------------------
(* exec                                                                    *)

Exec == Begin("exec")

ExecOpen ==
  /\ At("exec")
  /\ Open("stage") \/ (Return /\ UNCHANGED mem)
  /\ UNCHANGED <<status, runs, execs, calls>>

(* fstat fails                                                             *)
ExecStat ==
  /\ At("stage") /\ at.j = 0
  /\ mem' = [mem EXCEPT !.self = Closed]
  /\ Return
  /\ UNCHANGED <<status, runs, execs, calls>>

(* The file is read to ETEMP.  If that fails, the caller is destroyed.     *)
Stage ==
  /\ At("stage") /\ at.j < Size(at.prog)
  /\ \/ /\ NextPage
        /\ mem' = Map("self", ETEMP + (at.j \div PGSIZE), Mapped(ReadPage(at.prog, at.j, PGSIZE), FALSE))
        /\ UNCHANGED status
     \/ status' = [status EXCEPT !.self = "ENV_FREE"] /\ UNCHANGED <<at, mem>>
  /\ UNCHANGED <<runs, execs, calls>>

NotExec ==
  /\ At("stage") /\ at.j >= Size(at.prog)
  /\ mem' = [mem EXCEPT !.self = Closed]
  /\ Return
  /\ UNCHANGED <<status, runs, execs, calls>>

(* Variant: only the offsets of the segments are looked at.                *)
StagingSize_NoFilesz(p) == Max({PGSIZE} \cup {Program[p][s].p_offset : s \in {"text", "data"}})

StagingSize(p) ==
  Max({PGSIZE} \cup {Program[p][s].p_offset + Program[p][s].p_filesz : s \in {"text", "data"}})

(* Variant: nothing is unmapped.                                           *)
exec_unmap_user_Nothing(m) == m

(* Shared pages stay, and the first pages at ETEMP.                        *)
exec_unmap_user(m) ==
  [pg \in Page |->
    IF m[pg].share \/ pg \in ETEMP .. ETEMP + (Up(StagingSize(at.prog)) \div PGSIZE) - 1
    THEN m[pg] ELSE None]

(* A byte of the file as it lies at ETEMP; what is no longer mapped there  *)
(* makes the kernel fault (here: -1).                                      *)
Staged(m, off) ==
  LET pg == m[ETEMP + (off \div PGSIZE)] IN IF pg = None THEN -1 ELSE pg.bytes[off % PGSIZE]

SegmentByte(m, a) ==
  LET inside == {s \in {"text", "data"} : a \in Addresses(Program[at.prog][s])} IN
  IF inside = {} THEN 0
  ELSE LET h == Program[at.prog][CHOOSE s \in inside : TRUE] IN
       IF a - h.p_va < h.p_filesz THEN Staged(m, h.p_offset + a - h.p_va) ELSE 0

(* sys_exec: the new program is put over what is left of the old one.      *)
SysExec ==
  LET p == at.prog
      m == exec_unmap_user(mem.self) IN
  /\ At("stage") /\ at.j >= Size(p)
  /\ mem' = [mem EXCEPT !.self =
       [pg \in Page |->
         IF pg \in PagesOf(Program[p].text) \cup PagesOf(Program[p].data)
           THEN Mapped([b \in 0 .. PGSIZE - 1 |-> SegmentByte(m, pg * PGSIZE + b)], FALSE)
         ELSE IF pg = STACK THEN Mapped(Zero, FALSE)
         ELSE m[pg]]]
  /\ runs' = [runs EXCEPT !.self = p]
  /\ execs' = execs + 1
  /\ Return
  /\ UNCHANGED <<status, calls>>

(* Whether sys_exec refuses its arguments or gives up when the old program *)
(* is already unmapped, the caller is destroyed; without memory the kernel *)
(* panics.                                                                 *)
SysExecFails ==
  /\ At("stage") /\ at.j >= Size(at.prog)
  /\ status' = [status EXCEPT !.self = "ENV_FREE"]
  /\ UNCHANGED <<at, mem, runs, execs, calls>>

-----------------------------------------------------------------------------

Next ==
  \/ Spawn \/ SpawnOpen \/ SpawnHeader \/ Exofork \/ CopySharedPages \/ InitStack \/ Reopen
  \/ SegmentEnd \/ TextPage \/ BlankPage \/ DataPage \/ Start
  \/ Exec \/ ExecOpen \/ ExecStat \/ Stage \/ NotExec \/ SysExec \/ SysExecFails

Spec == Init /\ [][Next]_vars

-----------------------------------------------------------------------------
(* Properties                                                              *)

(* Types; a byte of -1 would be a fault of the kernel in sys_exec.         *)
TypeOK ==
  /\ at.seg \in {"text", "data"} /\ at.fd \in FdPage \cup {0} /\ at.j \in 0 .. Max(Page) * PGSIZE
  /\ \A e \in {"self", "child"}, pg \in Page :
       mem[e][pg] = None \/ mem[e][pg].bytes \in [0 .. PGSIZE - 1 -> 0 .. 1000 * (Cardinality(DOMAIN Program) + 1)]
  /\ status \in [{"self", "child"} -> {"ENV_FREE", "ENV_NOT_RUNNABLE", "ENV_RUNNABLE"}]

(* A program that may run is the one in the file, byte for byte: the bytes *)
(* of its segments, zeros up to p_memsz, and a stack.  Nothing that it     *)
(* shares with its parent, or has left of what was there before, shows     *)
(* through.                                                                *)
LoadedExactly ==
  \A e \in {"self", "child"} : status[e] = "ENV_RUNNABLE" /\ runs[e] # 0 =>
    /\ mem[e][STACK] # None
    /\ \A a \in AllAddresses(runs[e]) :
         LET pg == mem[e][a \div PGSIZE] IN pg # None /\ pg.bytes[a % PGSIZE] = Byte(runs[e], a)

(* Between calls the caller has the descriptors it had, and one more for   *)
(* every exec; its child has those, and not that of the program file.      *)
FdsExact ==
  LET Fds(e) == {f \in FdPage : mem[e][f] # None} IN
  at.pc = "idle" /\ status.self = "ENV_RUNNABLE" =>
    /\ Cardinality(Fds("self")) = 1 + execs
    /\ runs.child # 0 => Fds("child") \subseteq Fds("self") /\ Min(FdPage) \in Fds("child")

(* A call that has ended has left the child whole or not at all, unless    *)
(* init_stack failed: then it is left without a stack, and cannot run.     *)
NoHalfChild ==
  at.pc = "idle" /\ status.child = "ENV_NOT_RUNNABLE" => mem.child[STACK] = None

(* No byte of another program's data is left to a program, but in shared   *)
(* pages and in the copy of a file at ETEMP.                               *)
NoOldData ==
  \A e \in {"self", "child"}, pg \in ProgPage \cup {STACK} :
    status[e] = "ENV_RUNNABLE" /\ runs[e] # 0 /\ mem[e][pg] # None /\ ~mem[e][pg].share =>
      \A b \in 0 .. PGSIZE - 1 : mem[e][pg].bytes[b] \div 1000 \in {0, runs[e]}

(* What may run is the program of its file and nothing else; the kernel    *)
(* reads no byte of it from a page that it has unmapped.                   *)
ProgramsIntact == TypeOK /\ LoadedExactly /\ NoOldData

(* What a call leaves behind, whichever way it went.                       *)
NothingLeftOver == FdsExact /\ NoHalfChild
=============================================================================
