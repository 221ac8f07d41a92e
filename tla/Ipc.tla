-------------------------------- MODULE Ipc ---------------------------------
(***************************************************************************)
(* Message passing: sys_ipc_try_send and sys_ipc_recv (kern/syscall.c) as  *)
(* ipc_send and ipc_recv of lib/ipc.c use them.                            *)
(*                                                                         *)
(* System calls are atomic (the big lock, module Kernel); everything else  *)
(* interleaves.  Permission bits are reduced to zero or not zero.          *)
(* Values and pages are opaque; the sender's buffer holds a page for the   *)
(* whole of ipc_send.                                                      *)
(***************************************************************************)
EXTENDS Integers

CONSTANTS
  Env,
  Sender,   \* BOUND: the environments that call ipc_send
  Receiver, \* BOUND: the environments that call ipc_recv
  Value,
  Page,     \* pages that may be sent
  Buf,      \* receive addresses below UTOP, each in a page table of its own
  NoPage,   \* an address at or above UTOP: no page sent, none wanted
  BadPage,  \* an address whose page sys_ipc_try_send refuses to send
  Nil

VARIABLES
  env_status,       \* [Env -> Status]; running environments count as runnable
  env_ipc_recving,  \* [Env -> BOOLEAN]
  env_ipc_dstva,    \* [Env -> Buf \cup {NoPage}]
  env_ipc_from,     \* [Env -> Env \cup {Nil}]
  env_ipc_value,    \* [Env -> Value \cup {Nil}]
  env_ipc_perm,     \* [Env -> BOOLEAN]: not zero
  mapped,           \* [Env -> [Buf -> Page \cup {NoPage}]]
  pc,               \* [Env -> Where]: where the program is
  arg,              \* [Env -> Args]: of the ipc_send under way
  got               \* [Env -> Result \cup {Nil}]: what ipc_recv returned last

fields == <<env_ipc_recving, env_ipc_dstva, env_ipc_from, env_ipc_value, env_ipc_perm, mapped>>
vars == <<env_status, fields, pc, arg, got>>

Status == {"ENV_RUNNABLE", "ENV_NOT_RUNNABLE", "ENV_FREE"}
Where == {"user", "ipc_send", "ipc_recv", "panic", "gone"}
Args == [to : Env, val : Value, pg : Page \cup {NoPage, BadPage}]
Result == [from : Env, val : Value, perm : BOOLEAN, pg : Page \cup {NoPage}]

ASSUME DistinctAssumption ==
  /\ NoPage \notin Page \cup Buf /\ BadPage \notin Page \cup {NoPage}
  /\ Nil \notin Env \cup Value \cup Args \cup Result
  /\ Sender \subseteq Env /\ Receiver \subseteq Env

E_BAD_ENV == 2
E_INVAL == 3
E_NO_MEM == 4
E_IPC_NOT_RECV == 7

Init ==
  /\ env_status = [e \in Env |-> "ENV_RUNNABLE"]
  /\ env_ipc_recving = [e \in Env |-> FALSE]
  /\ env_ipc_dstva = [e \in Env |-> NoPage]
  /\ env_ipc_from = [e \in Env |-> Nil]
  /\ env_ipc_value = [e \in Env |-> Nil]
  /\ env_ipc_perm = [e \in Env |-> FALSE]
  /\ mapped = [e \in Env |-> [b \in Buf |-> NoPage]]
  /\ pc = [e \in Env |-> "user"]
  /\ arg = [e \in Env |-> Nil]
  /\ got = [e \in Env |-> Nil]

-----------------------------------------------------------------------------
(* ipc_send                                                                *)

IpcSend(e, a) ==
  /\ e \in Sender
  /\ pc[e] = "user"
  /\ pc' = [pc EXCEPT ![e] = "ipc_send"]
  /\ arg' = [arg EXCEPT ![e] = a]
  /\ UNCHANGED <<env_status, fields, got>>

(* The end of ipc_send with result r: it returns, or panics on an error.   *)
SendEnds(e, r) ==
  /\ pc' = [pc EXCEPT ![e] = IF r < 0 THEN "panic" ELSE "user"]
  /\ arg' = [arg EXCEPT ![e] = Nil]
  /\ UNCHANGED got

(* The receiver is not waiting: ipc_send yields and tries again.           *)
TrySendNotRecv(e) ==
  /\ pc[e] = "ipc_send"
  /\ env_status[arg[e].to] # "ENV_FREE"
  /\ ~env_ipc_recving[arg[e].to]
  /\ UNCHANGED <<env_status, fields, pc, arg, got>>

(* The receiver is gone.                                                   *)
TrySendBadEnv(e) ==
  /\ pc[e] = "ipc_send"
  /\ env_status[arg[e].to] = "ENV_FREE"
  /\ SendEnds(e, -E_BAD_ENV)
  /\ UNCHANGED <<env_status, fields>>

(* The page to send fails a check.                                         *)
TrySendInval(e) ==
  /\ pc[e] = "ipc_send"
  /\ env_status[arg[e].to] # "ENV_FREE"
  /\ env_ipc_recving[arg[e].to]
  /\ arg[e].pg = BadPage
  /\ SendEnds(e, -E_INVAL)
  /\ UNCHANGED <<env_status, fields>>

(* Variants: the receiver stays open for another message; the receiver is  *)
(* not made runnable.                                                      *)
Wake_StaysOpen(e, to) ==
  /\ pc[e] = "ipc_send"
  /\ env_status[to] # "ENV_FREE" /\ env_ipc_recving[to] /\ arg[e].pg # BadPage
  /\ env_ipc_from' = [env_ipc_from EXCEPT ![to] = e]
  /\ env_ipc_value' = [env_ipc_value EXCEPT ![to] = arg[e].val]
  /\ env_status' = [env_status EXCEPT ![to] = "ENV_RUNNABLE"]
  /\ UNCHANGED <<env_ipc_recving, env_ipc_dstva>>

Wake_NotRunnable(e, to) ==
  /\ pc[e] = "ipc_send"
  /\ env_status[to] # "ENV_FREE" /\ env_ipc_recving[to] /\ arg[e].pg # BadPage
  /\ env_ipc_from' = [env_ipc_from EXCEPT ![to] = e]
  /\ env_ipc_value' = [env_ipc_value EXCEPT ![to] = arg[e].val]
  /\ env_ipc_recving' = [env_ipc_recving EXCEPT ![to] = FALSE]
  /\ UNCHANGED <<env_status, env_ipc_dstva>>

(* The checks have passed: the receiver gets sender and value and is made  *)
(* runnable, before its page is looked at.                                 *)
Wake(e, to) ==
  /\ pc[e] = "ipc_send"
  /\ env_status[to] # "ENV_FREE" /\ env_ipc_recving[to] /\ arg[e].pg # BadPage
  /\ env_ipc_from' = [env_ipc_from EXCEPT ![to] = e]
  /\ env_ipc_value' = [env_ipc_value EXCEPT ![to] = arg[e].val]
  /\ env_ipc_recving' = [env_ipc_recving EXCEPT ![to] = FALSE]
  /\ env_status' = [env_status EXCEPT ![to] = "ENV_RUNNABLE"]
  /\ UNCHANGED env_ipc_dstva

WantsPage(e, to) == arg[e].pg # NoPage /\ env_ipc_dstva[to] # NoPage

(* The message is delivered, with its page if the receiver wants one.      *)
TrySend(e) ==
  LET to == arg[e].to IN
  /\ Wake(e, to)
  /\ env_ipc_perm' = [env_ipc_perm EXCEPT ![to] = WantsPage(e, to)]
  /\ mapped' = IF WantsPage(e, to)
                 THEN [mapped EXCEPT ![to][env_ipc_dstva[to]] = arg[e].pg]
                 ELSE mapped
  /\ SendEnds(e, 0)

(* page_insert finds no memory for a page table: the error goes to the     *)
(* sender, with the receiver already awake and its env_ipc_perm old.       *)
TrySendNoMem(e) ==
  LET to == arg[e].to IN
  /\ Wake(e, to)
  /\ WantsPage(e, to)
  /\ mapped[to][env_ipc_dstva[to]] = NoPage
  /\ SendEnds(e, -E_NO_MEM)
  /\ UNCHANGED <<env_ipc_perm, mapped>>

-----------------------------------------------------------------------------
(* ipc_recv                                                                *)

(* An address that is not page-aligned.                                    *)
IpcRecvInval(e) ==
  /\ e \in Receiver
  /\ pc[e] = "user"
  /\ UNCHANGED <<env_status, fields, pc, arg, got>>

(* sys_ipc_recv marks the caller as waiting and gives up the CPU.          *)
IpcRecv(e, dstva) ==
  /\ e \in Receiver
  /\ pc[e] = "user"
  /\ pc' = [pc EXCEPT ![e] = "ipc_recv"]
  /\ env_ipc_recving' = [env_ipc_recving EXCEPT ![e] = TRUE]
  /\ env_ipc_dstva' = [env_ipc_dstva EXCEPT ![e] = dstva]
  /\ env_status' = [env_status EXCEPT ![e] = "ENV_NOT_RUNNABLE"]
  /\ UNCHANGED <<env_ipc_from, env_ipc_value, env_ipc_perm, mapped, arg, got>>

(* What ipc_recv reads from its struct Env, and the page that a caller who *)
(* goes by the permission finds in its buffer.                             *)
Received(e) ==
  [from |-> env_ipc_from[e], val |-> env_ipc_value[e], perm |-> env_ipc_perm[e],
   pg |-> IF env_ipc_perm[e] /\ env_ipc_dstva[e] # NoPage
            THEN mapped[e][env_ipc_dstva[e]] ELSE NoPage]

(* Variant: sys_ipc_recv does not give up the CPU.                         *)
IpcRecvReturn_NoWait(e) ==
  /\ pc[e] = "ipc_recv"
  /\ env_status[e] # "ENV_FREE"
  /\ pc' = [pc EXCEPT ![e] = "user"]
  /\ got' = [got EXCEPT ![e] = Received(e)]
  /\ UNCHANGED <<env_status, fields, arg>>

(* The scheduler resumes the receiver inside ipc_recv.                     *)
IpcRecvReturn(e) ==
  /\ pc[e] = "ipc_recv"
  /\ env_status[e] = "ENV_RUNNABLE"
  /\ pc' = [pc EXCEPT ![e] = "user"]
  /\ got' = [got EXCEPT ![e] = Received(e)]
  /\ UNCHANGED <<env_status, fields, arg>>

(* The environment exits or is destroyed, wherever it is; env_free leaves  *)
(* the ipc fields as they are.                                             *)
Gone(e) ==
  /\ env_status[e] # "ENV_FREE"
  /\ env_status' = [env_status EXCEPT ![e] = "ENV_FREE"]
  /\ pc' = [pc EXCEPT ![e] = "gone"]
  /\ arg' = [arg EXCEPT ![e] = Nil]
  /\ UNCHANGED <<fields, got>>

Send(e) == TrySendNotRecv(e) \/ TrySendBadEnv(e) \/ TrySendInval(e) \/ TrySend(e) \/ TrySendNoMem(e)

Next ==
  \E e \in Env :
    \/ \E a \in Args : IpcSend(e, a)
    \/ TrySendNotRecv(e)
    \/ TrySendBadEnv(e)
    \/ TrySendInval(e)
    \/ TrySend(e)
    \/ TrySendNoMem(e)
    \/ IpcRecvInval(e)
    \/ \E b \in Buf \cup {NoPage} : IpcRecv(e, b)
    \/ IpcRecvReturn(e)
    \/ Gone(e)

Spec == Init /\ [][Next]_vars

(* Every program in a system call loop gets its turn: the scheduler is     *)
(* fair to it (NoStarvation of module Kernel) where no environments in     *)
(* lower slots of envs[] come and go for ever.                             *)
FairSpec == Spec /\ \A e \in Env : WF_vars(Send(e)) /\ WF_vars(IpcRecvReturn(e))

-----------------------------------------------------------------------------
(* Properties.                                                             *)

TypeOK ==
  /\ env_status \in [Env -> Status]
  /\ env_ipc_recving \in [Env -> BOOLEAN]
  /\ env_ipc_dstva \in [Env -> Buf \cup {NoPage}]
  /\ env_ipc_from \in [Env -> Env \cup {Nil}]
  /\ env_ipc_value \in [Env -> Value \cup {Nil}]
  /\ env_ipc_perm \in [Env -> BOOLEAN]
  /\ mapped \in [Env -> [Buf -> Page \cup {NoPage}]]
  /\ pc \in [Env -> Where]
  /\ arg \in [Env -> Args \cup {Nil}]
  /\ got \in [Env -> Result \cup {Nil}]

(* The abstract state: what is being sent, who waits, and what has been    *)
(* delivered and not yet returned.                                         *)
Sending ==
  [e \in Env |-> IF pc[e] = "ipc_send" /\ arg[e].pg # BadPage THEN arg[e] ELSE Nil]
Waiting ==
  [e \in Env |-> IF pc[e] = "ipc_recv" /\ env_ipc_recving[e]
                   THEN IF env_ipc_dstva[e] = NoPage THEN "value" ELSE "page"
                   ELSE "no"]
Inbox ==
  [e \in Env |-> IF pc[e] = "ipc_recv" /\ ~env_ipc_recving[e] THEN Received(e) ELSE Nil]

R == INSTANCE Rendezvous WITH
       None <- Nil, sending <- Sending, waiting <- Waiting, inbox <- Inbox

(* page_insert finds memory for the page table it needs.                   *)
MemoryLasts == \A e \in Env : ~TrySendNoMem(e)

(* The system calls and the library implement the rendezvous as long as    *)
(* page_insert finds memory (IpcIsRendezvous of IpcProofs).  With memory   *)
(* running out they implement this weaker one: each message reaches its    *)
(* receiver once and unmixed, or its sender fails and nothing was          *)
(* delivered, or it was torn: the sender fails, and the receiver has the   *)
(* value, no page, and the permission of an older message.  The receiver   *)
(* reads its struct Env some time after it was woken; nobody may write     *)
(* there in between.                                                       *)
RendezvousOrTorn == R!TornSpec

(* The comment of ipc_recv: the permission it stores is "nonzero iff a     *)
(* page was successfully transferred".                                     *)
PermMeansPage ==
  \A e \in Env : got[e] # Nil => (got[e].perm <=> got[e].pg # NoPage)

(* A receiver that somebody tries to send to does not wait for ever, with  *)
(* any number of senders that race for it and memory running out.          *)
SendReachesReceiver ==
  \A e \in Receiver, s \in Sender :
    /\ pc[e] = "ipc_recv"
    /\ pc[s] = "ipc_send" /\ arg[s].to = e /\ arg[s].pg # BadPage
    ~> pc[e] # "ipc_recv" \/ pc[s] = "gone"
=============================================================================
