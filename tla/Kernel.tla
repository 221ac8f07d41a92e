------------------------------- MODULE Kernel -------------------------------
(***************************************************************************)
(* Environments, scheduler, traps and the big kernel lock of the JOS       *)
(* kernel on several CPUs (mit-6.828/lab/kern: env.c, sched.c, trap.c,     *)
(* spinlock.c, init.c and the system calls of syscall.c that change an     *)
(* environment's status).                                                  *)
(*                                                                         *)
(* A CPU runs user code without the lock, spins for it when it traps, and  *)
(* gives it back in env_run or sched_halt.  What a CPU does between two    *)
(* of these points is cut into the steps trap entry / handler, return      *)
(* from the handler, and sched_yield; `pc' forces their order.  Nothing in *)
(* a step assumes that the lock is held: that the lock makes the steps of  *)
(* one trap look atomic is a result (KernelMutex), not a premise.          *)
(***************************************************************************)
EXTENDS Integers, Sequences, FiniteSets

CONSTANTS
  CPU,       \* the processors mp_init found
  BSP,       \* the one that runs i386_init
  NENV,      \* size of the envs[] table
  NBOOT,     \* environments i386_init creates before the first sched_yield
  MaxGen,    \* number of generations of an env_id: 2^19 - 1 in env_alloc
  Loose,     \* system calls that programs issue without the care described
             \* at SetStatusCare and DestroyCare
  Nil        \* C's NULL, and the envid 0

Slot == 0 .. NENV - 1

EnvId == [gen : 0 .. MaxGen, slot : Slot]

ASSUME NENVAssumption == NENV \in Nat \ {0}
ASSUME MaxGenAssumption == MaxGen \in Nat \ {0}
ASSUME BootAssumption == BSP \in CPU /\ NBOOT \in 1 .. NENV
ASSUME NilAssumption == Nil \notin Slot /\ Nil \notin EnvId
ASSUME LooseAssumption == Loose \subseteq {"sys_env_set_status", "sys_env_destroy"}

VARIABLES
  env_status,     \* [Slot -> Status]
  env_gen,        \* [Slot -> 0 .. MaxGen]: generation part of env_id
  env_parent_id,  \* [Slot -> EnvId \cup {Nil}]
  env_ipc_recving,\* [Slot -> BOOLEAN]
  env_runs,       \* [Slot -> {0, 1}]: 1 stands for any positive count
  env_free_list,  \* Seq(Slot)
  curenv,         \* [CPU -> Slot \cup {Nil}]
  cpu_status,     \* [CPU -> {"CPU_STARTED", "CPU_HALTED"}]
  locked,         \* kernel_lock.locked, 0 or 1
  pc              \* [CPU -> Where]: where the CPU's control is

idVars == <<env_gen, env_parent_id, env_free_list>>
envVars == <<idVars, env_ipc_recving, env_runs>>
vars == <<env_status, envVars, curenv, cpu_status, locked, pc>>

Status == {"ENV_FREE", "ENV_DYING", "ENV_RUNNABLE", "ENV_RUNNING",
           "ENV_NOT_RUNNABLE"}

(* Where a CPU can be.  user: in user mode; halted: in the hlt of          *)
(* sched_halt; mp_main, trap, wake: spinning in lock_kernel, called from   *)
(* mp_main, from trap() after user mode, from trap() after a hlt; entry:   *)
(* in trap() after user mode, past lock_kernel; ret: back from             *)
(* trap_dispatch; sched: at the start of sched_yield; monitor: in the      *)
(* endless kernel monitor loop of sched_halt.                              *)
Spinning == {"mp_main", "trap", "wake"}
InKernel == {"entry", "ret", "sched", "monitor"}
Where == {"user", "halted"} \cup Spinning \cup InKernel

Goto(c, l) == pc' = [pc EXCEPT ![c] = l]

(* The state in which i386_init calls sched_yield: it holds the lock, the  *)
(* other CPUs have reported CPU_STARTED and are on their way into          *)
(* lock_kernel, and env_create has taken the first NBOOT slots.            *)
Init ==
  /\ env_status = [s \in Slot |-> IF s < NBOOT THEN "ENV_RUNNABLE" ELSE "ENV_FREE"]
  /\ env_gen = [s \in Slot |-> IF s < NBOOT THEN 1 ELSE 0]
  /\ env_parent_id = [s \in Slot |-> Nil]
  /\ env_ipc_recving = [s \in Slot |-> FALSE]
  /\ env_runs = [s \in Slot |-> 0]
  /\ env_free_list = [i \in 1 .. NENV - NBOOT |-> NBOOT + i - 1]
  /\ curenv = [c \in CPU |-> Nil]
  /\ cpu_status = [c \in CPU |-> "CPU_STARTED"]
  /\ locked = 1
  /\ pc = [c \in CPU |-> IF c = BSP THEN "sched" ELSE "mp_main"]

-----------------------------------------------------------------------------
(* Helpers of the handlers.                                                *)

env_id(s) == [gen |-> env_gen[s], slot |-> s]

(* Variant: envid2env without the permission check.                        *)
Envid2env_NoPerm(c, id, e, checkperm) ==
  \/ id = Nil /\ e = curenv[c]
  \/ id # Nil /\ e = id.slot /\ env_status[e] # "ENV_FREE" /\ env_id(e) = id

(* envid2env: the id 0 is the caller; a stale id or a free slot is refused,*)
(* and with checkperm so is anything but the caller and its children.      *)
Envid2env(c, id, e, checkperm) ==
  \/ id = Nil /\ e = curenv[c]
  \/ /\ id # Nil
     /\ e = id.slot
     /\ env_status[e] # "ENV_FREE"
     /\ env_id(e) = id
     /\ checkperm => e = curenv[c] \/ env_parent_id[e] = env_id(curenv[c])

(* Variant: env_free forgets to return the slot to the free list.          *)
EnvFree_NoPush(e) ==
  /\ env_status' = [env_status EXCEPT ![e] = "ENV_FREE"]
  /\ UNCHANGED envVars

(* env_free: the address space goes away and the slot is pushed on the     *)
(* free list; env_id stays behind for the next generation.                 *)
EnvFree(e) ==
  /\ env_status' = [env_status EXCEPT ![e] = "ENV_FREE"]
  /\ env_free_list' = <<e>> \o env_free_list
  /\ UNCHANGED <<env_gen, env_parent_id, env_ipc_recving, env_runs>>

(* Variant: env_destroy frees an environment that runs on another CPU.     *)
EnvDestroy_NoZombie(c, e) ==
  /\ EnvFree(e)
  /\ IF curenv[c] = e
       THEN curenv' = [curenv EXCEPT ![c] = Nil] /\ Goto(c, "sched")
       ELSE UNCHANGED curenv /\ Goto(c, "ret")

(* env_destroy: an environment on another CPU becomes a zombie, any other  *)
(* is freed; the caller's own death ends in sched_yield with no curenv.    *)
EnvDestroy(c, e) ==
  \/ /\ env_status[e] = "ENV_RUNNING" /\ curenv[c] # e
     /\ env_status' = [env_status EXCEPT ![e] = "ENV_DYING"]
     /\ Goto(c, "ret")
     /\ UNCHANGED <<envVars, curenv>>
  \/ /\ ~(env_status[e] = "ENV_RUNNING" /\ curenv[c] # e)
     /\ EnvFree(e)
     /\ IF curenv[c] = e
          THEN curenv' = [curenv EXCEPT ![c] = Nil] /\ Goto(c, "sched")
          ELSE UNCHANGED curenv /\ Goto(c, "ret")

(* Variant: the environment switched away from stays marked running.       *)
Demoted_Not(c) == env_status

(* The status table after `if (curenv && curenv->env_status == RUNNING)    *)
(* curenv->env_status = RUNNABLE', which env_run and sched_yield begin with*)
Demoted(c) ==
  [s \in Slot |-> IF s = curenv[c] /\ env_status[s] = "ENV_RUNNING"
                    THEN "ENV_RUNNABLE" ELSE env_status[s]]

(* env_run: switch to e, release the lock and drop into user mode.         *)
EnvRun(c, e) ==
  /\ env_status' = [Demoted(c) EXCEPT ![e] = "ENV_RUNNING"]
  /\ env_runs' = [env_runs EXCEPT ![e] = 1]
  /\ curenv' = [curenv EXCEPT ![c] = e]
  /\ locked' = 0
  /\ Goto(c, "user")
  /\ UNCHANGED <<idVars, env_ipc_recving, cpu_status>>

-----------------------------------------------------------------------------
(* The lock and the ways into the kernel.                                  *)

(* Any trap of user code: a system call, an exception or an interrupt.  A  *)
(* CPU marked as halted would take the lock twice and wait for itself; no  *)
(* CPU ever does (MarksTrue), so that relock is not in Where.              *)
TrapFromUser(c) ==
  /\ pc[c] = "user"
  /\ cpu_status' = [cpu_status EXCEPT ![c] = "CPU_STARTED"]
  /\ Goto(c, IF cpu_status[c] = "CPU_HALTED" THEN "relock" ELSE "trap")
  /\ UNCHANGED <<env_status, envVars, curenv, locked>>

(* Variant: the xchg of trap() is a plain read.                            *)
InterruptWhileHalted_NoReset(c) ==
  /\ pc[c] = "halted"
  /\ Goto(c, IF cpu_status[c] = "CPU_HALTED" THEN "wake" ELSE "sched")
  /\ UNCHANGED <<env_status, envVars, curenv, cpu_status, locked>>

(* An interrupt ends a hlt.  trap() takes the lock only if the xchg of     *)
(* cpu_status says the CPU was halted; whatever the interrupt is, curenv   *)
(* is NULL and the handler ends in sched_yield.                            *)
InterruptWhileHalted(c) ==
  /\ pc[c] = "halted"
  /\ cpu_status' = [cpu_status EXCEPT ![c] = "CPU_STARTED"]
  /\ Goto(c, IF cpu_status[c] = "CPU_HALTED" THEN "wake" ELSE "sched")
  /\ UNCHANGED <<env_status, envVars, curenv, locked>>

(* The xchg of spin_lock that finds the lock free.                         *)
AcquireLock(c) ==
  /\ pc[c] \in Spinning
  /\ locked = 0
  /\ locked' = 1
  /\ Goto(c, IF pc[c] = "trap" THEN "entry" ELSE "sched")
  /\ UNCHANGED <<env_status, envVars, curenv, cpu_status>>

(* A zombie is freed when it traps.                                        *)
CollectZombie(c) ==
  /\ pc[c] = "entry"
  /\ env_status[curenv[c]] = "ENV_DYING"
  /\ EnvFree(curenv[c])
  /\ curenv' = [curenv EXCEPT ![c] = Nil]
  /\ Goto(c, "sched")
  /\ UNCHANGED <<cpu_status, locked>>

-----------------------------------------------------------------------------
(* The handlers.  All of them run with curenv alive.                       *)

(* Variant: trap() does not look for a zombie before it dispatches.        *)
InHandler_NoZombieCheck(c) == pc[c] = "entry"

InHandler(c) == pc[c] = "entry" /\ env_status[curenv[c]] # "ENV_DYING"

(* Handlers that leave environments and scheduling alone: device           *)
(* interrupts, the breakpoint monitor, system calls about memory, time and *)
(* packets, and every system call that ends in an error.                   *)
HandleOther(c) ==
  /\ InHandler(c)
  /\ Goto(c, "ret")
  /\ UNCHANGED <<env_status, envVars, curenv, cpu_status, locked>>

(* The timer interrupt, and sys_yield.                                     *)
HandleYield(c) ==
  /\ InHandler(c)
  /\ Goto(c, "sched")
  /\ UNCHANGED <<env_status, envVars, curenv, cpu_status, locked>>

(* An exception the program cannot handle kills it.                        *)
HandleFatal(c) ==
  /\ InHandler(c)
  /\ EnvDestroy(c, curenv[c])
  /\ UNCHANGED <<cpu_status, locked>>

(* Programs do not destroy a child a second time while the first request   *)
(* is pending.  The kernel does not check this.                            *)
DestroyCare(e) ==
  "sys_env_destroy" \in Loose \/ env_status[e] # "ENV_DYING"

SysEnvDestroy(c, id) ==
  /\ InHandler(c)
  /\ \E e \in Slot :
       /\ Envid2env(c, id, e, TRUE)
       /\ DestroyCare(e)
       /\ EnvDestroy(c, e)
  /\ UNCHANGED <<cpu_status, locked>>

(* The generation after g: 1 again where the env_id would get negative.    *)
NextGeneration(g) == IF g = MaxGen THEN 1 ELSE g + 1

(* Variant: the receiving flag of the slot's last user stays.              *)
EnvAlloc_KeepRecving(e, parent) ==
  /\ env_gen' = [env_gen EXCEPT ![e] = NextGeneration(@)]
  /\ env_runs' = [env_runs EXCEPT ![e] = 0]
  /\ env_parent_id' = [env_parent_id EXCEPT ![e] = parent]
  /\ env_free_list' = Tail(env_free_list)
  /\ UNCHANGED env_ipc_recving

(* env_alloc: the slot e at the head of the free list gets its next        *)
(* generation.                                                             *)
EnvAlloc(e, parent) ==
  /\ env_gen' = [env_gen EXCEPT ![e] = NextGeneration(@)]
  /\ env_runs' = [env_runs EXCEPT ![e] = 0]
  /\ env_parent_id' = [env_parent_id EXCEPT ![e] = parent]
  /\ env_ipc_recving' = [env_ipc_recving EXCEPT ![e] = FALSE]
  /\ env_free_list' = Tail(env_free_list)

(* sys_exofork: the child starts not runnable.  Failures (no free slot, no *)
(* memory) are HandleOther.                                                *)
SysExofork(c) ==
  /\ InHandler(c)
  /\ env_free_list # <<>>
  /\ EnvAlloc(Head(env_free_list), env_id(curenv[c]))
  /\ env_status' = [env_status EXCEPT ![Head(env_free_list)] = "ENV_NOT_RUNNABLE"]
  /\ Goto(c, "ret")
  /\ UNCHANGED <<curenv, cpu_status, locked>>

(* Programs set the status of themselves, of a child that has never run    *)
(* (all that fork, sfork, spawn and dumbfork do), or of one that waits for *)
(* a CPU.  The kernel does not check this.                                 *)
SetStatusCare(c, e) ==
  \/ "sys_env_set_status" \in Loose
  \/ curenv[c] = e
  \/ env_status[e] = "ENV_RUNNABLE"
  \/ env_runs[e] = 0

SysEnvSetStatus(c, id, status) ==
  /\ InHandler(c)
  /\ \E e \in Slot :
       /\ Envid2env(c, id, e, TRUE)
       /\ SetStatusCare(c, e)
       /\ env_status' = [env_status EXCEPT ![e] = status]
  /\ Goto(c, "ret")
  /\ UNCHANGED <<envVars, curenv, cpu_status, locked>>

(* sys_ipc_recv blocks the caller.                                         *)
SysIpcRecv(c) ==
  /\ InHandler(c)
  /\ env_ipc_recving' = [env_ipc_recving EXCEPT ![curenv[c]] = TRUE]
  /\ env_status' = [env_status EXCEPT ![curenv[c]] = "ENV_NOT_RUNNABLE"]
  /\ Goto(c, "sched")
  /\ UNCHANGED <<idVars, env_runs, curenv, cpu_status, locked>>

(* Variant: the receiver keeps its receiving flag.                         *)
SysIpcTrySend_KeepRecving(c, id) ==
  /\ InHandler(c)
  /\ \E e \in Slot :
       /\ Envid2env(c, id, e, FALSE)
       /\ env_ipc_recving[e]
       /\ env_status' = [env_status EXCEPT ![e] = "ENV_RUNNABLE"]
  /\ Goto(c, "ret")
  /\ UNCHANGED <<envVars, curenv, cpu_status, locked>>

(* sys_ipc_try_send wakes a receiver, whether or not the page can then be  *)
(* mapped.  Anyone may send to anyone.                                     *)
SysIpcTrySend(c, id) ==
  /\ InHandler(c)
  /\ \E e \in Slot :
       /\ Envid2env(c, id, e, FALSE)
       /\ env_ipc_recving[e]
       /\ env_ipc_recving' = [env_ipc_recving EXCEPT ![e] = FALSE]
       /\ env_status' = [env_status EXCEPT ![e] = "ENV_RUNNABLE"]
  /\ Goto(c, "ret")
  /\ UNCHANGED <<idVars, env_runs, curenv, cpu_status, locked>>

-----------------------------------------------------------------------------
(* The ways out of the kernel.                                             *)

(* The end of trap(): resume curenv if it is still running.                *)
TrapReturn(c) ==
  /\ pc[c] = "ret"
  /\ IF curenv[c] # Nil /\ env_status[curenv[c]] = "ENV_RUNNING"
       THEN EnvRun(c, curenv[c])
       ELSE /\ Goto(c, "sched")
            /\ UNCHANGED <<env_status, envVars, curenv, cpu_status, locked>>

(* Variant: every scan starts at envs[0].                                  *)
ScanStart_Zero(c) == 0

(* sched_yield scans envs[] in circular order from ScanStart.              *)
ScanStart(c) == IF curenv[c] = Nil THEN 0 ELSE curenv[c] + 1

ScanDistance(start, s) == (s - start + NENV) % NENV

(* Variant: the scan does not wrap around at the end of envs[].            *)
SchedRun_NoWrap(c) ==
  /\ pc[c] = "sched"
  /\ ScanStart(c) \in Slot => Demoted(c)[ScanStart(c)] = "ENV_RUNNABLE"
  /\ EnvRun(c, ScanStart(c))

(* The first runnable environment of the scan runs.                        *)
SchedRun(c) ==
  /\ pc[c] = "sched"
  /\ \E e \in Slot :
       /\ Demoted(c)[e] = "ENV_RUNNABLE"
       /\ \A s \in Slot : Demoted(c)[s] = "ENV_RUNNABLE" =>
            ScanDistance(ScanStart(c), e) <= ScanDistance(ScanStart(c), s)
       /\ EnvRun(c, e)

(* Variants: sched_halt looks only for runnable environments; it overlooks *)
(* zombies.                                                                *)
NothingLeft_OnlyRunnable == \A s \in Slot : env_status[s] # "ENV_RUNNABLE"

NothingLeft_NoZombie ==
  \A s \in Slot : env_status[s] \notin {"ENV_RUNNABLE", "ENV_RUNNING"}

(* sched_halt looks for an environment that still may run anywhere.        *)
NothingLeft ==
  \A s \in Slot : env_status[s] \notin {"ENV_RUNNABLE", "ENV_RUNNING", "ENV_DYING"}

(* Variant: sched_halt does not mark the CPU as halted.                    *)
SchedHalt_NoMark(c) ==
  /\ pc[c] = "sched"
  /\ \A s \in Slot : Demoted(c)[s] # "ENV_RUNNABLE"
  /\ IF NothingLeft
       THEN /\ Goto(c, "monitor")
            /\ UNCHANGED <<curenv, locked>>
       ELSE /\ curenv' = [curenv EXCEPT ![c] = Nil]
            /\ locked' = 0
            /\ Goto(c, "halted")
  /\ UNCHANGED <<env_status, envVars, cpu_status>>

(* Nothing is runnable: sched_halt halts the CPU, or enters the monitor    *)
(* with the lock held if nothing is left that could run.                   *)
SchedHalt(c) ==
  /\ pc[c] = "sched"
  /\ \A s \in Slot : Demoted(c)[s] # "ENV_RUNNABLE"
  /\ IF NothingLeft
       THEN /\ Goto(c, "monitor")
            /\ UNCHANGED <<curenv, cpu_status, locked>>
       ELSE /\ curenv' = [curenv EXCEPT ![c] = Nil]
            /\ cpu_status' = [cpu_status EXCEPT ![c] = "CPU_HALTED"]
            /\ locked' = 0
            /\ Goto(c, "halted")
  /\ UNCHANGED <<env_status, envVars>>

(* while (1) monitor(NULL);                                                *)
MonitorLoop(c) == pc[c] = "monitor" /\ UNCHANGED vars

-----------------------------------------------------------------------------

Handler(c) ==
  \/ CollectZombie(c)
  \/ HandleOther(c)
  \/ HandleYield(c)
  \/ HandleFatal(c)
  \/ \E id \in EnvId \cup {Nil} : SysEnvDestroy(c, id)
  \/ SysExofork(c)
  \/ \E id \in EnvId \cup {Nil}, status \in {"ENV_RUNNABLE", "ENV_NOT_RUNNABLE"} :
       SysEnvSetStatus(c, id, status)
  \/ SysIpcRecv(c)
  \/ \E id \in EnvId \cup {Nil} : SysIpcTrySend(c, id)

Sched(c) == SchedRun(c) \/ SchedHalt(c)

Next ==
  \E c \in CPU :
    \/ TrapFromUser(c)
    \/ InterruptWhileHalted(c)
    \/ AcquireLock(c)
    \/ Handler(c)
    \/ TrapReturn(c)
    \/ Sched(c)
    \/ MonitorLoop(c)

Spec == Init /\ [][Next]_vars

(* What CPU c does by itself: a trap or an interrupt will come, and kernel *)
(* code runs on.  Which of these it is depends on pc[c] alone.             *)
Runs(c) ==
  \/ TrapFromUser(c)
  \/ InterruptWhileHalted(c)
  \/ Handler(c)
  \/ TrapReturn(c)
  \/ Sched(c)

(* Kernel code runs to completion with interrupts off.  The periodic LAPIC *)
(* timer ends every hlt and every stay in user mode; a tick that comes     *)
(* while the CPU is in the kernel stays pending and is delivered once it   *)
(* is back in user mode, so a CPU that keeps trapping is also preempted    *)
(* (SF of HandleYield).  The spinlock is not a ticket lock: weak fairness  *)
(* says only that some spinning CPU gets a free lock.                      *)
Fairness ==
  /\ \A c \in CPU : WF_vars(Runs(c)) /\ SF_vars(HandleYield(c))
  /\ WF_vars(\E c \in CPU : AcquireLock(c))

FairSpec == Spec /\ Fairness

-----------------------------------------------------------------------------
(* Properties.                                                             *)

TypeOK ==
  /\ env_status \in [Slot -> Status]
  /\ env_gen \in [Slot -> 0 .. MaxGen]
  /\ env_parent_id \in [Slot -> EnvId \cup {Nil}]
  /\ env_ipc_recving \in [Slot -> BOOLEAN]
  /\ env_runs \in [Slot -> {0, 1}]
  /\ env_free_list \in Seq(Slot)
  /\ curenv \in [CPU -> Slot \cup {Nil}]
  /\ cpu_status \in [CPU -> {"CPU_STARTED", "CPU_HALTED"}]
  /\ locked \in {0, 1}
  /\ pc \in [CPU -> Where]

(* The big kernel lock works: at most one CPU is past lock_kernel, and     *)
(* then the lock is taken; a taken lock has a CPU that will give it back.  *)
(* In trap() the lock is re-acquired after a hlt only if cpu_status says   *)
(* so, and it is released far from there, in env_run and sched_halt.       *)
KernelMutex ==
  /\ \A c, d \in CPU : pc[c] \in InKernel /\ pc[d] \in InKernel => c = d
  /\ locked = 1 <=> \E c \in CPU : pc[c] \in InKernel

(* No environment is on two CPUs: sched_yield never picks one that another *)
(* CPU runs, although it looks only at env_status.                         *)
OneCpuPerEnv ==
  \A c, d \in CPU : curenv[c] # Nil /\ curenv[c] = curenv[d] => c = d

(* A CPU in user mode, or in trap() after it, has a curenv (the assert in  *)
(* trap) that is running or a zombie, so that no other CPU schedules,      *)
(* frees or reallocates the environment under it; no CPU at all keeps a    *)
(* curenv that has been freed.                                             *)
CurenvLive ==
  \A c \in CPU :
    /\ pc[c] \in {"user", "trap", "entry"} =>
         /\ curenv[c] # Nil
         /\ env_status[curenv[c]] \in {"ENV_RUNNING", "ENV_DYING"}
    /\ curenv[c] # Nil => env_status[curenv[c]] # "ENV_FREE"

(* Every environment that is marked running or dying is on some CPU: no    *)
(* zombie is left for which no trap will come, and none is marked running  *)
(* while nobody runs it.                                                   *)
RunningIsHosted ==
  \A s \in Slot : env_status[s] \in {"ENV_RUNNING", "ENV_DYING"} =>
    \E c \in CPU : curenv[c] = s

(* The free list holds the free slots, each of them once.                  *)
FreeListExact ==
  /\ \A s \in Slot : env_status[s] = "ENV_FREE" <=>
       \E i \in 1 .. Len(env_free_list) : env_free_list[i] = s
  /\ \A i, j \in 1 .. Len(env_free_list) :
       env_free_list[i] = env_free_list[j] => i = j

(* An environment that waits in sys_ipc_recv is off every CPU, so the      *)
(* unconditional `env_status = ENV_RUNNABLE' of sys_ipc_try_send never     *)
(* makes a running environment runnable.                                   *)
ReceiverBlocked ==
  \A s \in Slot : env_status[s] # "ENV_FREE" /\ env_ipc_recving[s] =>
    env_status[s] = "ENV_NOT_RUNNABLE"

(* The halted CPUs, and only they, are marked CPU_HALTED: the mark decides *)
(* whether trap() takes the lock once, twice or not at all.                *)
HaltedMark ==
  \A c \in CPU : cpu_status[c] = "CPU_HALTED" <=> pc[c] = "halted"

(* The marks that the code goes by, of slots and CPUs, tell the truth.     *)
MarksTrue == TypeOK /\ RunningIsHosted /\ ReceiverBlocked /\ HaltedMark

(* The kernel monitor that ends a run (`No runnable environments in the    *)
(* system!') is entered only when no CPU runs anything and no environment  *)
(* can ever run again.                                                     *)
MonitorQuiescent ==
  \A c \in CPU : pc[c] = "monitor" =>
    /\ \A s \in Slot : env_status[s] \in {"ENV_FREE", "ENV_NOT_RUNNABLE"}
    /\ \A d \in CPU : pc[d] \notin {"user", "trap"}

(* A zombie is freed by the CPU it is on, at its next trap, and in no      *)
(* other way (the comment in env_destroy).                                 *)
ZombieFreedAtTrap ==
  [][\A s \in Slot : env_status[s] = "ENV_DYING" /\ env_status'[s] # "ENV_DYING" =>
       /\ env_status'[s] = "ENV_FREE"
       /\ \E c \in CPU : curenv[c] = s /\ pc[c] = "entry"]_vars

(* Only the environment itself, its parent, or a failed check of its own   *)
(* trap ends an environment; a stale parent id gives no right until its    *)
(* generation comes round again.                                           *)
KilledByParentOrSelf ==
  [][\A s \in Slot :
       env_status[s] \notin {"ENV_FREE", "ENV_DYING"}
         /\ env_status'[s] \in {"ENV_FREE", "ENV_DYING"} =>
       \E c \in CPU : /\ pc[c] = "entry"
                      /\ \/ curenv[c] = s
                         \/ env_parent_id[s] = env_id(curenv[c])]_vars

(* A CPU loses the environment of a slot below s, which ends there; its    *)
(* next scan starts at envs[0] again.                                      *)
EndsBelow(s) == \E c \in CPU : curenv[c] \in 0 .. s - 1 /\ curenv'[c] = Nil

(* Whom round robin can starve, even if the lock starves a CPU: a runnable *)
(* environment gets a CPU (or is destroyed, or made not runnable), unless  *)
(* environments in slots below its own keep ending on some CPU.  The first *)
(* slot is never starved, and nobody is by environments that only run and  *)
(* yield.                                                                  *)
NoStarvation ==
  \A s \in Slot :
    \/ env_status[s] = "ENV_RUNNABLE" ~> env_status[s] # "ENV_RUNNABLE"
    \/ []<><<EndsBelow(s)>>_vars

(* If the lock starves no CPU for ever, a destroyed environment that was   *)
(* running elsewhere is freed in the end.                                  *)
ZombieFreed ==
  (\A c \in CPU : SF_vars(AcquireLock(c))) =>
    \A s \in Slot : env_status[s] = "ENV_DYING" ~> env_status[s] = "ENV_FREE"
=============================================================================
