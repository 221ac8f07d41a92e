-------------------------------- MODULE Pipe --------------------------------
(***************************************************************************)
(* One pipe (lib/pipe.c) and the descriptors that refer to it (lib/fd.c),  *)
(* shared by fork (lib/fork.c).                                            *)
(*                                                                         *)
(* A descriptor is two pages of an environment: its struct Fd, one page per*)
(* end of the pipe, and the struct Pipe.  Every mapping counts in pp_ref,  *)
(* and the other end is taken for closed when both pages have the same     *)
(* count.  There is no lock: dup, close and fork map and unmap one page per*)
(* system call, and _pipeisclosed reads the two counts one after the other *)
(* and tries again if env_runs shows that it was off its CPU in between.   *)
(***************************************************************************)
EXTENDS Integers, FiniteSets, FiniteSetsExt

CONSTANTS
  Env,
  Creator,     \* the environment that has called pipe
  May,         \* BOUND: the calls each environment makes, pairs <<e, call>>
  MAXFD,
  PIPEBUFSIZ,
  NCPU,
  NByte,       \* BOUND: bytes asked for by a read or write
  MaxBytes,    \* BOUND: bytes written in all
  Nil

ASSUME PipeAssumption ==
  /\ IsFiniteSet(Env) /\ Creator \in Env
  /\ May \subseteq Env \X {"close", "dup", "fork", "exit", "read", "write"}
  /\ MAXFD \in Nat \ {0, 1} /\ PIPEBUFSIZ \in Nat \ {0} /\ NCPU \in Nat \ {0}
  /\ NByte \in Nat \ {0} /\ MaxBytes \in Nat

Fd == 0 .. MAXFD - 1
End == {"rd", "wr"}

ASSUME NilAssumption == Nil \notin Fd /\ Nil \notin End

VARIABLES
  fd,        \* [Env -> [Fd -> End \cup {Nil}]]: the struct Fd mapped there
  data,      \* [Env -> SUBSET Fd]: where the struct Pipe is mapped
  p_rpos, p_wpos,
  p_buf,     \* [0 .. PIPEBUFSIZ - 1 -> 0 .. MaxBytes]: the k-th byte is k
  got,       \* the byte that was read last
  status,    \* [Env -> {"unborn", "embryo", "runnable", "gone"}]
  running,   \* SUBSET Env: on a CPU
  op         \* [Env -> Op]: the library call under way, and where in it

pages == <<fd, data>>
bytes == <<p_rpos, p_wpos, p_buf, got>>
sched == <<status, running>>
vars == <<pages, bytes, sched, op>>

Idle == [at |-> "idle"]

(* ref is the count read first; moved says that env_runs is no longer n.   *)
Op ==
  {Idle}
  \cup [at : {"close"}, fd : Fd, dup : Fd \cup {Nil}]
  \cup [at : {"dup_data", "dup_fd"}, fd : Fd, dup : Fd]
  \cup [at : {"exit"}] \cup [at : {"exit_close"}, fd : Fd]
  \cup [at : {"fork"}, child : Env]
  \cup [at : {"read", "write", "write_inc", "closed_read", "closed_write"}, fd : Fd, i : 0 .. NByte]
  \cup [at : {"read_inc"}, fd : Fd, i : 0 .. NByte, byte : 0 .. MaxBytes]
  \cup [at : {"closed2_read", "closed2_write"}, fd : Fd, i : 0 .. NByte,
          ref : 0 .. Cardinality(Env) * MAXFD, moved : BOOLEAN]

(* pipe: descriptor 0 is the read end, 1 the write end.                    *)
Init ==
  /\ fd = [e \in Env |-> [i \in Fd |->
       IF e = Creator /\ i = 0 THEN "rd" ELSE IF e = Creator /\ i = 1 THEN "wr" ELSE Nil]]
  /\ data = [e \in Env |-> IF e = Creator THEN {0, 1} ELSE {}]
  /\ p_rpos = 0 /\ p_wpos = 0
  /\ p_buf = [k \in 0 .. PIPEBUFSIZ - 1 |-> 0]
  /\ got = 0
  /\ status = [e \in Env |-> IF e = Creator THEN "runnable" ELSE "unborn"]
  /\ running = {Creator}
  /\ op = [e \in Env |-> Idle]

-----------------------------------------------------------------------------

At(e, where) == e \in running /\ op[e].at = where
Goto(e, o) == op' = [op EXCEPT ![e] = o]

(* pageref of a struct Fd and of the struct Pipe                           *)
FdRef(end) == Cardinality({x \in Env \X Fd : fd[x[1]][x[2]] = end})
PipeRef == Cardinality({x \in Env \X Fd : x[2] \in data[x[1]]})

UnmapFd(e, i) == fd' = [fd EXCEPT ![e][i] = Nil] /\ UNCHANGED data
UnmapData(e, i) == data' = [data EXCEPT ![e] = @ \ {i}] /\ UNCHANGED fd

(* close, and the close(newfdnum) with which dup begins: devpipe_close     *)
(* unmaps the struct Fd first.                                             *)
Close(e, i, dup) ==
  /\ At(e, "idle")
  /\ fd[e][i] # Nil
  /\ dup # Nil => fd[e][dup] # Nil
  /\ UnmapFd(e, i)
  /\ Goto(e, [at |-> "close", fd |-> i, dup |-> dup])
  /\ UNCHANGED <<bytes, sched>>

(* Variant: the struct Pipe stays mapped.                                  *)
CloseData_KeepData(e) ==
  /\ At(e, "close")
  /\ Goto(e, IF op[e].dup = Nil THEN Idle
             ELSE [at |-> "dup_data", fd |-> op[e].fd, dup |-> op[e].dup])
  /\ UNCHANGED <<pages, bytes, sched>>

CloseData(e) ==
  /\ At(e, "close")
  /\ UnmapData(e, op[e].fd)
  /\ Goto(e, IF op[e].dup = Nil THEN Idle
             ELSE [at |-> "dup_data", fd |-> op[e].fd, dup |-> op[e].dup])
  /\ UNCHANGED <<bytes, sched>>

(* dup to a number that is not open.                                       *)
Dup(e, old, new) ==
  /\ At(e, "idle")
  /\ fd[e][old] # Nil /\ fd[e][new] = Nil
  /\ Goto(e, [at |-> "dup_data", fd |-> new, dup |-> old])
  /\ UNCHANGED <<pages, bytes, sched>>

(* dup maps the struct Pipe before the struct Fd.  (The page table for both*)
(* exists, so the calls do not fail.)                                      *)
DupData(e) ==
  /\ At(e, "dup_data")
  /\ data' = [data EXCEPT ![e] = IF op[e].dup \in @ THEN @ \cup {op[e].fd} ELSE @]
  /\ Goto(e, [op[e] EXCEPT !.at = "dup_fd"])
  /\ UNCHANGED <<fd, bytes, sched>>

(* With dup(i, i) the descriptor is closed by now: -E_INVAL.               *)
DupFd(e) ==
  /\ At(e, "dup_fd")
  /\ fd' = [fd EXCEPT ![e][op[e].fd] = fd[e][op[e].dup]]
  /\ Goto(e, Idle)
  /\ UNCHANGED <<data, bytes, sched>>

-----------------------------------------------------------------------------
(* fork copies the pages in the order of their addresses, so all struct Fd *)
(* before any struct Pipe.  They are PTE_SHARE: duppage maps each with one *)
(* system call.                                                            *)

Fork(e, child) ==
  /\ At(e, "idle")
  /\ status[child] = "unborn"
  /\ status' = [status EXCEPT ![child] = "embryo"]
  /\ Goto(e, [at |-> "fork", child |-> child])
  /\ UNCHANGED <<pages, bytes, running>>

FdsLeft(e, child) == {i \in Fd : fd[e][i] # Nil /\ fd[child][i] = Nil}

DuppageFd(e) ==
  /\ At(e, "fork")
  /\ LET c == op[e].child
         i == Min(FdsLeft(e, c)) IN
       /\ FdsLeft(e, c) # {}
       /\ fd' = [fd EXCEPT ![c][i] = fd[e][i]]
  /\ UNCHANGED <<data, bytes, sched, op>>

DuppageData(e) ==
  /\ At(e, "fork")
  /\ LET c == op[e].child IN
       /\ FdsLeft(e, c) = {}
       /\ data[e] \ data[c] # {}
       /\ data' = [data EXCEPT ![c] = @ \cup {Min(data[e] \ data[c])}]
  /\ UNCHANGED <<fd, bytes, sched, op>>

(* sys_env_set_status(child, ENV_RUNNABLE)                                 *)
ForkReturn(e) ==
  /\ At(e, "fork")
  /\ LET c == op[e].child IN
       /\ FdsLeft(e, c) = {} /\ data[e] \ data[c] = {}
       /\ status' = [status EXCEPT ![c] = "runnable"]
  /\ Goto(e, Idle)
  /\ UNCHANGED <<pages, bytes, running>>

(* exit: close_all, then sys_env_destroy.                                  *)
Exit(e) ==
  /\ At(e, "idle")
  /\ Goto(e, [at |-> "exit"])
  /\ UNCHANGED <<pages, bytes, sched>>

Open(e) == {i \in Fd : fd[e][i] # Nil}

ExitClose(e) ==
  /\ At(e, "exit")
  /\ Open(e) # {}
  /\ UnmapFd(e, Min(Open(e)))
  /\ Goto(e, [at |-> "exit_close", fd |-> Min(Open(e))])
  /\ UNCHANGED <<bytes, sched>>

ExitCloseData(e) ==
  /\ At(e, "exit_close")
  /\ UnmapData(e, op[e].fd)
  /\ Goto(e, [at |-> "exit"])
  /\ UNCHANGED <<bytes, sched>>

SysEnvDestroy(e) ==
  /\ At(e, "exit")
  /\ Open(e) = {}
  /\ data' = [data EXCEPT ![e] = {}]
  /\ status' = [status EXCEPT ![e] = "gone"]
  /\ running' = running \ {e}
  /\ Goto(e, Idle)
  /\ UNCHANGED <<fd, bytes>>

-----------------------------------------------------------------------------
(* _pipeisclosed.  Reading n goes with the first pageref and reading nn    *)
(* with the second: a switch between them is a switch before or after.     *)
(* (C leaves the order of the two pageref open; this is the textual one.)  *)

FirstRef(e, from, to) ==
  /\ At(e, from)
  /\ Goto(e, [at |-> to, fd |-> op[e].fd, i |-> op[e].i,
              ref |-> FdRef(fd[e][op[e].fd]), moved |-> FALSE])
  /\ UNCHANGED <<pages, bytes, sched>>

(* Variant: env_runs is not looked at.                                     *)
SecondRef_NoRetry(e, at, first, caller) ==
  /\ At(e, at)
  /\ Goto(e, IF op[e].ref = PipeRef THEN Idle
             ELSE [at |-> caller, fd |-> op[e].fd, i |-> op[e].i])
  /\ UNCHANGED <<pages, bytes, sched>>

(* The counts are read again; or the caller returns 0; or it yields and    *)
(* looks again.                                                            *)
SecondRef(e, at, first, caller) ==
  LET back(where) == [at |-> where, fd |-> op[e].fd, i |-> op[e].i] IN
  /\ At(e, at)
  /\ Goto(e, IF op[e].moved THEN back(first)
             ELSE IF op[e].ref = PipeRef THEN Idle
             ELSE back(caller))
  /\ UNCHANGED <<pages, bytes, sched>>

PipeIsClosed(e) ==
  \/ FirstRef(e, "closed_read", "closed2_read")
  \/ SecondRef(e, "closed2_read", "closed_read", "read")
  \/ FirstRef(e, "closed_write", "closed2_write")
  \/ SecondRef(e, "closed2_write", "closed_write", "write")

-----------------------------------------------------------------------------
(* devpipe_read and devpipe_write: byte by byte, the position last.        *)

Start(e, end, where) ==
  /\ At(e, "idle")
  /\ \E i \in Fd : fd[e][i] = end /\ Goto(e, [at |-> where, fd |-> i, i |-> 0])
  /\ UNCHANGED <<pages, bytes, sched>>

Read(e) == Start(e, "rd", "read")
Write(e) == Start(e, "wr", "write") /\ p_wpos + NByte <= MaxBytes

(* All bytes are there, or no more for now and some are: return i.         *)
ReadReturn(e) ==
  /\ At(e, "read")
  /\ op[e].i = NByte \/ (op[e].i > 0 /\ p_rpos = p_wpos)
  /\ Goto(e, Idle)
  /\ UNCHANGED <<pages, bytes, sched>>

ReadEmpty(e) ==
  /\ At(e, "read")
  /\ op[e].i = 0 /\ p_rpos = p_wpos
  /\ Goto(e, [op[e] EXCEPT !.at = "closed_read"])
  /\ UNCHANGED <<pages, bytes, sched>>

ReadByte(e) ==
  /\ At(e, "read")
  /\ op[e].i < NByte /\ p_rpos # p_wpos
  /\ Goto(e, [at |-> "read_inc", fd |-> op[e].fd, i |-> op[e].i,
              byte |-> p_buf[p_rpos % PIPEBUFSIZ]])
  /\ UNCHANGED <<pages, bytes, sched>>

ReadInc(e) ==
  /\ At(e, "read_inc")
  /\ p_rpos' = p_rpos + 1
  /\ got' = op[e].byte
  /\ Goto(e, [at |-> "read", fd |-> op[e].fd, i |-> op[e].i + 1])
  /\ UNCHANGED <<pages, p_wpos, p_buf, sched>>

(* Variant: one byte too many.                                             *)
Full_OffByOne == p_wpos > p_rpos + PIPEBUFSIZ

Full == p_wpos >= p_rpos + PIPEBUFSIZ

WriteReturn(e) ==
  /\ At(e, "write")
  /\ op[e].i = NByte
  /\ Goto(e, Idle)
  /\ UNCHANGED <<pages, bytes, sched>>

WriteFull(e) ==
  /\ At(e, "write")
  /\ op[e].i < NByte /\ Full
  /\ Goto(e, [op[e] EXCEPT !.at = "closed_write"])
  /\ UNCHANGED <<pages, bytes, sched>>

(* Variant: one byte more than asked for.                                  *)
WriteByte_PastEnd(e) ==
  /\ At(e, "write")
  /\ op[e].i <= NByte /\ ~Full
  /\ p_buf' = [p_buf EXCEPT ![p_wpos % PIPEBUFSIZ] = p_wpos + 1]
  /\ Goto(e, [op[e] EXCEPT !.at = "write_inc"])
  /\ UNCHANGED <<pages, p_rpos, p_wpos, got, sched>>

WriteByte(e) ==
  /\ At(e, "write")
  /\ op[e].i < NByte /\ ~Full
  /\ p_buf' = [p_buf EXCEPT ![p_wpos % PIPEBUFSIZ] = p_wpos + 1]
  /\ Goto(e, [op[e] EXCEPT !.at = "write_inc"])
  /\ UNCHANGED <<pages, p_rpos, p_wpos, got, sched>>

WriteInc(e) ==
  /\ At(e, "write_inc")
  /\ p_wpos' = p_wpos + 1
  /\ Goto(e, [at |-> "write", fd |-> op[e].fd, i |-> op[e].i + 1])
  /\ UNCHANGED <<pages, p_rpos, p_buf, got, sched>>

-----------------------------------------------------------------------------
(* The clock interrupt and sys_yield hand a CPU from e to f, or back to e; *)
(* env_run counts env_runs.                                                *)

Dispatched(f) ==
  IF op[f].at \in {"closed2_read", "closed2_write"} THEN [op[f] EXCEPT !.moved = TRUE] ELSE op[f]

Switch(e, f) ==
  /\ e \in running
  /\ status[f] = "runnable" /\ f \notin running \ {e}
  /\ running' = (running \ {e}) \cup {f}
  /\ Goto(f, Dispatched(f))
  /\ UNCHANGED <<pages, bytes, status>>

EnvRun(f) ==
  /\ status[f] = "runnable" /\ f \notin running
  /\ Cardinality(running) < NCPU
  /\ running' = running \cup {f}
  /\ Goto(f, Dispatched(f))
  /\ UNCHANGED <<pages, bytes, status>>

(* What a program decides on its own                                       *)
Call(e) ==
  \/ <<e, "close">> \in May /\ \E i \in Fd : Close(e, i, Nil)
  \/ <<e, "dup">> \in May /\ \E old, new \in Fd : Dup(e, old, new) \/ Close(e, new, old)
  \/ <<e, "fork">> \in May /\ \E child \in Env : Fork(e, child)
  \/ <<e, "exit">> \in May /\ Exit(e)
  \/ <<e, "read">> \in May /\ Read(e)
  \/ <<e, "write">> \in May /\ Write(e)

(* and how a call of the library goes on.                                  *)
Continue(e) ==
  \/ CloseData(e)
  \/ DupData(e)
  \/ DupFd(e)
  \/ DuppageFd(e)
  \/ DuppageData(e)
  \/ ForkReturn(e)
  \/ ExitClose(e)
  \/ ExitCloseData(e)
  \/ SysEnvDestroy(e)
  \/ PipeIsClosed(e)
  \/ ReadReturn(e)
  \/ ReadEmpty(e)
  \/ ReadByte(e)
  \/ ReadInc(e)
  \/ WriteReturn(e)
  \/ WriteFull(e)
  \/ WriteByte(e)
  \/ WriteInc(e)

Next ==
  \E e \in Env :
    \/ Call(e)
    \/ Continue(e)
    \/ \E f \in Env : Switch(e, f)
    \/ EnvRun(e)

Spec == Init /\ [][Next]_vars

-----------------------------------------------------------------------------
(* Properties.                                                             *)

TypeOK ==
  /\ fd \in [Env -> [Fd -> End \cup {Nil}]]
  /\ data \in [Env -> SUBSET Fd]
  /\ p_rpos \in 0 .. MaxBytes /\ p_wpos \in 0 .. MaxBytes
  /\ p_buf \in [0 .. PIPEBUFSIZ - 1 -> 0 .. MaxBytes]
  /\ got \in 0 .. MaxBytes
  /\ status \in [Env -> {"unborn", "embryo", "runnable", "gone"}]
  /\ running \in SUBSET Env
  /\ op \in [Env -> Op]

HasEnd(end) == \E e \in Env, i \in Fd : fd[e][i] = end
Forking == \E e \in Env : op[e].at = "fork"

SaysClosed(e, at) == op[e].at = at /\ op'[e] = Idle

(* On one CPU, and while nobody forks, _pipeisclosed never takes an open   *)
(* pipe for closed (what user/testpiperace.c and testpiperace2.c try).     *)
NoFalseEof ==
  [][~Forking => \A e \in Env :
       /\ SaysClosed(e, "closed2_read") => ~HasEnd("wr")
       /\ SaysClosed(e, "closed2_write") => ~HasEnd("rd")]_vars

(* A read that reports the end of a closed pipe has left no byte in it:    *)
(* user/testpipe.c writes, closes, and expects the reader to get it all.   *)
EofMeansDrained ==
  [][\A e \in Env : SaysClosed(e, "closed2_read") /\ ~HasEnd("wr") => p_rpos = p_wpos]_vars

(* With one reader and one writer the pipe is a queue of PIPEBUFSIZ bytes: *)
(* nothing is lost, repeated or overtaken while its positions chase each   *)
(* other without a lock.                                                   *)
Stream == INSTANCE BoundedQueue WITH
  Item <- 1 .. MaxBytes, Capacity <- PIPEBUFSIZ, last <- got,
  queue <- [k \in 1 .. p_wpos - p_rpos |-> p_buf[(p_rpos + k - 1) % PIPEBUFSIZ]]

PipeIsStream == Stream!Spec

(* Once one end is closed everywhere, and nobody is in the middle of a     *)
(* close, dup or fork, the counts agree: the other end is not left waiting *)
(* for ever.                                                               *)
LastOneOut ==
  (\A e \in Env : op[e].at \notin {"close", "dup_fd", "exit_close", "fork"}) =>
    /\ ~HasEnd("wr") => FdRef("rd") = PipeRef
    /\ ~HasEnd("rd") => FdRef("wr") = PipeRef

(* Positions stay in bounds, and no end waits for one that is gone.        *)
DescriptorsSound == TypeOK /\ LastOneOut
=============================================================================
