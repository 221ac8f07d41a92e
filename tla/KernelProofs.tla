---------------------------- MODULE KernelProofs ----------------------------
(* Proofs about Kernel for any number of CPUs and any size of envs[].  The *)
(* last part holds whatever programs do, the others under the assumption   *)
(* that they issue system calls with care (Loose = {}).                    *)
EXTENDS Kernel, SequenceTheorems, TLAPS

(* What the invariants need besides each other: a CPU that has not yet     *)
(* entered the scheduler, or sleeps, has no curenv; past the trap entry    *)
(* the curenv of the CPU that holds the lock is no zombie.                 *)
CurenvPlace ==
  \A c \in CPU :
    /\ pc[c] \in {"mp_main", "halted", "wake"} => curenv[c] = Nil
    /\ pc[c] \in {"ret", "sched"} /\ curenv[c] # Nil =>
         env_status[curenv[c]] # "ENV_DYING"

(* An environment that has not run since env_alloc is on no CPU and cannot *)
(* have called sys_ipc_recv.                                               *)
NotRunYet ==
  \A s \in Slot : env_status[s] # "ENV_FREE" /\ env_runs[s] = 0 =>
    env_status[s] \notin {"ENV_RUNNING", "ENV_DYING"} /\ ~env_ipc_recving[s]

(* The inductive invariant.                                                *)
Inv ==
  /\ TypeOK
  /\ KernelMutex
  /\ OneCpuPerEnv
  /\ CurenvLive
  /\ RunningIsHosted
  /\ FreeListExact
  /\ ReceiverBlocked
  /\ HaltedMark
  /\ MonitorQuiescent
  /\ CurenvPlace
  /\ NotRunYet

-----------------------------------------------------------------------------
(* The free list: env_free pushes a slot, env_alloc pops one.              *)

(* env_free: the old list follows the new first element.                   *)
LEMMA PushFree ==
  ASSUME NEW s \in Seq(Slot), NEW e \in Slot
  PROVE  /\ <<e>> \o s \in Seq(Slot)
         /\ Len(<<e>> \o s) = Len(s) + 1
         /\ (<<e>> \o s)[1] = e
         /\ \A i \in 1 .. Len(s) : (<<e>> \o s)[i + 1] = s[i]
  OBVIOUS

(* env_alloc: the list without its first element.                          *)
LEMMA PopFree ==
  ASSUME NEW s \in Seq(Slot), s # <<>>
  PROVE  /\ Head(s) \in Slot /\ Head(s) = s[1] /\ Len(s) \in Nat \ {0}
         /\ Tail(s) \in Seq(Slot)
         /\ Len(Tail(s)) = Len(s) - 1
         /\ \A i \in 1 .. Len(s) - 1 : Tail(s)[i] = s[i + 1]
  OBVIOUS

(* Pushing a slot that is in use keeps the list exact.                     *)
LEMMA EnvFreeExact ==
  ASSUME TypeOK, FreeListExact, NEW e \in Slot, env_status[e] # "ENV_FREE",
         EnvFree(e)
  PROVE  FreeListExact' /\ env_free_list' \in Seq(Slot)
<1> DEFINE s == env_free_list
           t == <<e>> \o s
<1>1. /\ s \in Seq(Slot) /\ Len(s) \in Nat
      /\ env_free_list' = t
      /\ env_status' = [env_status EXCEPT ![e] = "ENV_FREE"]
      /\ env_status \in [Slot -> Status]
  BY DEF TypeOK, EnvFree
<1>2. /\ t \in Seq(Slot) /\ Len(t) = Len(s) + 1 /\ t[1] = e
      /\ \A i \in 1 .. Len(s) : t[i + 1] = s[i]
  BY <1>1, PushFree
<1>3. \A j \in 2 .. Len(t) : j - 1 \in 1 .. Len(s) /\ t[j] = s[j - 1]
  BY <1>1, <1>2
<1>4. \A i \in 1 .. Len(s) : s[i] # e
  BY <1>1 DEF FreeListExact
<1> HIDE DEF t
<1>5. \A x \in Slot : env_status'[x] = "ENV_FREE" <=>
        \E i \in 1 .. Len(t) : t[i] = x
  <2> SUFFICES ASSUME NEW x \in Slot
               PROVE  env_status'[x] = "ENV_FREE" <=> \E i \in 1 .. Len(t) : t[i] = x
    OBVIOUS
  <2>1. CASE x = e
    BY <1>1, <1>2, <2>1
  <2>2. CASE x # e
    <3>1. env_status'[x] = env_status[x]
      BY <1>1, <2>2
    <3>2. (\E i \in 1 .. Len(t) : t[i] = x) => \E i \in 1 .. Len(s) : s[i] = x
      <4> SUFFICES ASSUME NEW i \in 1 .. Len(t), t[i] = x
                   PROVE  \E k \in 1 .. Len(s) : s[k] = x
        OBVIOUS
      <4>1. i # 1
        BY <1>2, <2>2
      <4>2. i \in 2 .. Len(t)
        BY <4>1, <1>1, <1>2
      <4> QED BY <4>2, <1>3
    <3>3. (\E i \in 1 .. Len(s) : s[i] = x) => \E i \in 1 .. Len(t) : t[i] = x
      <4> SUFFICES ASSUME NEW i \in 1 .. Len(s), s[i] = x
                   PROVE  \E k \in 1 .. Len(t) : t[k] = x
        OBVIOUS
      <4>1. i + 1 \in 1 .. Len(t) /\ t[i + 1] = x
        BY <1>1, <1>2
      <4> QED BY <4>1
    <3> QED BY <3>1, <3>2, <3>3 DEF FreeListExact
  <2> QED BY <2>1, <2>2
<1>6. \A i, j \in 1 .. Len(t) : t[i] = t[j] => i = j
  <2> SUFFICES ASSUME NEW i \in 1 .. Len(t), NEW j \in 1 .. Len(t), t[i] = t[j]
               PROVE  i = j
    OBVIOUS
  <2>1. CASE i = 1 /\ j = 1
    BY <2>1
  <2>2. CASE i = 1 /\ j # 1
    BY <2>2, <1>1, <1>2, <1>3, <1>4
  <2>3. CASE i # 1 /\ j = 1
    BY <2>3, <1>1, <1>2, <1>3, <1>4
  <2>4. CASE i # 1 /\ j # 1
    <3>1. s[i - 1] = s[j - 1] /\ i - 1 \in 1 .. Len(s) /\ j - 1 \in 1 .. Len(s)
      BY <2>4, <1>1, <1>2, <1>3
    <3>2. i - 1 = j - 1
      BY <3>1 DEF FreeListExact
    <3> QED BY <3>2
  <2> QED BY <2>1, <2>2, <2>3, <2>4
<1> QED BY <1>1, <1>2, <1>5, <1>6 DEF FreeListExact

(* Popping the first slot and putting it to use keeps the list exact.      *)
LEMMA EnvAllocExact ==
  ASSUME TypeOK, FreeListExact, env_free_list # <<>>,
         env_free_list' = Tail(env_free_list),
         env_status' = [env_status EXCEPT ![Head(env_free_list)] = "ENV_NOT_RUNNABLE"]
  PROVE  /\ FreeListExact' /\ env_free_list' \in Seq(Slot)
         /\ Head(env_free_list) \in Slot
         /\ env_status[Head(env_free_list)] = "ENV_FREE"
<1> DEFINE s == env_free_list
           t == Tail(s)
           e == Head(s)
<1>1. s \in Seq(Slot) /\ Len(s) \in Nat /\ env_status \in [Slot -> Status]
  BY DEF TypeOK
<1>2. /\ e \in Slot /\ e = s[1] /\ Len(s) \in Nat \ {0}
      /\ t \in Seq(Slot) /\ Len(t) = Len(s) - 1
      /\ \A i \in 1 .. Len(s) - 1 : t[i] = s[i + 1]
  BY <1>1, PopFree
<1>3. env_status[e] = "ENV_FREE"
  BY <1>1, <1>2 DEF FreeListExact
<1>4. env_free_list' = t /\ env_status' = [env_status EXCEPT ![e] = "ENV_NOT_RUNNABLE"]
  OBVIOUS
<1> HIDE DEF t, e
<1>5. \A x \in Slot : env_status'[x] = "ENV_FREE" <=>
        \E i \in 1 .. Len(t) : t[i] = x
  <2> SUFFICES ASSUME NEW x \in Slot
               PROVE  env_status'[x] = "ENV_FREE" <=> \E i \in 1 .. Len(t) : t[i] = x
    OBVIOUS
  <2>1. CASE x = e
    <3>1. \A i \in 1 .. Len(t) : i + 1 \in 1 .. Len(s) /\ i + 1 # 1 /\ t[i] = s[i + 1]
      BY <1>1, <1>2
    <3>2. \A i \in 1 .. Len(t) : t[i] # e
      BY <3>1, <1>1, <1>2 DEF FreeListExact
    <3> QED BY <3>2, <2>1, <1>1, <1>4
  <2>2. CASE x # e
    <3>1. env_status'[x] = env_status[x]
      BY <1>1, <1>2, <1>4, <2>2
    <3>2. (\E i \in 1 .. Len(t) : t[i] = x) => \E i \in 1 .. Len(s) : s[i] = x
      <4> SUFFICES ASSUME NEW i \in 1 .. Len(t), t[i] = x
                   PROVE  \E k \in 1 .. Len(s) : s[k] = x
        OBVIOUS
      <4>1. i + 1 \in 1 .. Len(s) /\ s[i + 1] = x
        BY <1>1, <1>2
      <4> QED BY <4>1
    <3>3. (\E i \in 1 .. Len(s) : s[i] = x) => \E i \in 1 .. Len(t) : t[i] = x
      <4> SUFFICES ASSUME NEW i \in 1 .. Len(s), s[i] = x
                   PROVE  \E k \in 1 .. Len(t) : t[k] = x
        OBVIOUS
      <4>1. i # 1
        BY <1>2, <2>2
      <4>2. i - 1 \in 1 .. Len(t) /\ t[i - 1] = x
        BY <4>1, <1>1, <1>2
      <4> QED BY <4>2
    <3> QED BY <3>1, <3>2, <3>3 DEF FreeListExact
  <2> QED BY <2>1, <2>2
<1>6. \A i, j \in 1 .. Len(t) : t[i] = t[j] => i = j
  <2> SUFFICES ASSUME NEW i \in 1 .. Len(t), NEW j \in 1 .. Len(t), t[i] = t[j]
               PROVE  i = j
    OBVIOUS
  <2>1. s[i + 1] = s[j + 1] /\ i + 1 \in 1 .. Len(s) /\ j + 1 \in 1 .. Len(s)
    BY <1>1, <1>2
  <2>2. i + 1 = j + 1
    BY <2>1 DEF FreeListExact
  <2> QED BY <2>2
<1>7. FreeListExact' /\ env_free_list' \in Seq(Slot)
  BY <1>2, <1>4, <1>5, <1>6 DEF FreeListExact
<1>8. Head(env_free_list) \in Slot /\ env_status[Head(env_free_list)] = "ENV_FREE"
  BY <1>2, <1>3 DEF e
<1> QED BY <1>7, <1>8
-----------------------------------------------------------------------------
(* Every step keeps every part of the invariant.                           *)

(* While c is past lock_kernel every other CPU is outside, and the curenv  *)
(* of another CPU, if it has one, is running or dying.                     *)
Alone(c) ==
  /\ locked = 1
  /\ \A d \in CPU \ {c} :
       /\ pc[d] \notin InKernel
       /\ \/ curenv[d] = Nil
          \/ /\ curenv[d] \in Slot
             /\ env_status[curenv[d]] \in {"ENV_RUNNING", "ENV_DYING"}
             /\ pc[d] \in {"user", "trap"}
             /\ curenv[d] # curenv[c]

(* A handler runs for an environment that is running and not receiving.    *)
Serving(c) ==
  /\ pc[c] = "entry" /\ pc[c] \in InKernel
  /\ curenv[c] \in Slot /\ curenv[c] # Nil
  /\ env_status[curenv[c]] = "ENV_RUNNING"
  /\ ~env_ipc_recving[curenv[c]]

(* The lock keeps every other CPU out of the kernel's data.                *)
LEMMA OthersOutside ==
  ASSUME Inv, NEW c \in CPU, pc[c] \in InKernel
  PROVE  Alone(c)
BY DEF Alone, Inv, TypeOK, OneCpuPerEnv, KernelMutex, CurenvLive, CurenvPlace, Where,
       Spinning, InKernel

(* What trap() has made sure of before it dispatches.                      *)
LEMMA HandlerCurenv ==
  ASSUME Inv, NEW c \in CPU, InHandler(c)
  PROVE  Serving(c)
BY DEF Serving, Inv, TypeOK, CurenvLive, ReceiverBlocked, InHandler, InKernel

(* A CPU leaves user mode and starts to spin.                              *)
LEMMA TrapFromUserStep ==
  ASSUME Inv, NEW c \in CPU, TrapFromUser(c)
  PROVE  Inv'
<1> USE DEF Inv, TrapFromUser, Goto, envVars, idVars
<1>1. TypeOK'
  BY DEF TypeOK, HaltedMark, Status, Where, Spinning, InKernel
<1>2. KernelMutex'
  BY DEF KernelMutex, TypeOK, Where, Spinning, InKernel
<1>3. OneCpuPerEnv' /\ RunningIsHosted' /\ FreeListExact' /\ ReceiverBlocked' /\ NotRunYet'
  BY DEF OneCpuPerEnv, RunningIsHosted, FreeListExact, ReceiverBlocked, NotRunYet,
         TypeOK, Where, Spinning, InKernel
<1>4. CurenvLive' /\ MonitorQuiescent' /\ CurenvPlace'
  BY DEF CurenvLive, MonitorQuiescent, CurenvPlace,
         TypeOK, Where, Spinning, InKernel
<1>5. HaltedMark'
  BY DEF HaltedMark, TypeOK, Where, Spinning, InKernel
<1> QED BY <1>1, <1>2, <1>3, <1>4, <1>5

(* A CPU leaves its hlt and starts to spin.                                *)
LEMMA InterruptWhileHaltedStep ==
  ASSUME Inv, NEW c \in CPU, InterruptWhileHalted(c)
  PROVE  Inv'
<1> USE DEF Inv, InterruptWhileHalted, Goto, envVars, idVars
<1>1. TypeOK'
  BY DEF TypeOK, Status, Where, Spinning, InKernel
<1>2. KernelMutex'
  BY DEF KernelMutex, HaltedMark, TypeOK, Where, Spinning, InKernel
<1>3. OneCpuPerEnv' /\ RunningIsHosted' /\ FreeListExact' /\ ReceiverBlocked' /\ NotRunYet'
  BY DEF OneCpuPerEnv, RunningIsHosted, FreeListExact, ReceiverBlocked, NotRunYet,
         TypeOK, Where, Spinning, InKernel
<1>4. CurenvLive' /\ MonitorQuiescent' /\ CurenvPlace'
  BY DEF CurenvLive, MonitorQuiescent, CurenvPlace,
         TypeOK, Where, Spinning, InKernel
<1>5. HaltedMark'
  BY DEF HaltedMark, TypeOK, Where, Spinning, InKernel
<1> QED BY <1>1, <1>2, <1>3, <1>4, <1>5

(* The xchg of spin_lock finds the lock free.                              *)
LEMMA AcquireLockStep ==
  ASSUME Inv, NEW c \in CPU, AcquireLock(c)
  PROVE  Inv'
<1> USE DEF Inv, AcquireLock, Goto, envVars, idVars
<1>1. TypeOK'
  BY DEF TypeOK, Status, Where, Spinning, InKernel
<1>2. KernelMutex'
  BY DEF KernelMutex, TypeOK, Where, Spinning, InKernel
<1>3. OneCpuPerEnv' /\ RunningIsHosted' /\ FreeListExact' /\ ReceiverBlocked' /\ NotRunYet'
  BY DEF OneCpuPerEnv, RunningIsHosted, FreeListExact, ReceiverBlocked, NotRunYet,
         TypeOK, Where, Spinning, InKernel
<1>4. CurenvLive' /\ MonitorQuiescent' /\ CurenvPlace'
  BY DEF CurenvLive, MonitorQuiescent, CurenvPlace,
         TypeOK, Where, Spinning, InKernel
<1>5. HaltedMark'
  BY DEF HaltedMark, TypeOK, Where, Spinning, InKernel
<1> QED BY <1>1, <1>2, <1>3, <1>4, <1>5

(* A handler that changes no environment.                                  *)
LEMMA HandleOtherStep ==
  ASSUME Inv, NEW c \in CPU, HandleOther(c)
  PROVE  Inv'
<1> USE DEF Inv, HandleOther, InHandler, Goto, envVars, idVars
<1>1. TypeOK'
  BY DEF TypeOK, Status, Where, Spinning, InKernel
<1>2. KernelMutex'
  BY DEF KernelMutex, TypeOK, Where, Spinning, InKernel
<1>3. OneCpuPerEnv' /\ RunningIsHosted' /\ FreeListExact' /\ ReceiverBlocked' /\ NotRunYet'
  BY DEF OneCpuPerEnv, RunningIsHosted, FreeListExact, ReceiverBlocked, NotRunYet,
         TypeOK, Where, Spinning, InKernel
<1>4. CurenvLive' /\ MonitorQuiescent' /\ CurenvPlace'
  BY DEF CurenvLive, MonitorQuiescent, CurenvPlace,
         TypeOK, Where, Spinning, InKernel
<1>5. HaltedMark'
  BY DEF HaltedMark, TypeOK, Where, Spinning, InKernel
<1> QED BY <1>1, <1>2, <1>3, <1>4, <1>5

(* Timer interrupt and sys_yield.                                          *)
LEMMA HandleYieldStep ==
  ASSUME Inv, NEW c \in CPU, HandleYield(c)
  PROVE  Inv'
<1> USE DEF Inv, HandleYield, InHandler, Goto, envVars, idVars
<1>1. TypeOK'
  BY DEF TypeOK, Status, Where, Spinning, InKernel
<1>2. KernelMutex'
  BY DEF KernelMutex, TypeOK, Where, Spinning, InKernel
<1>3. OneCpuPerEnv' /\ RunningIsHosted' /\ FreeListExact' /\ ReceiverBlocked' /\ NotRunYet'
  BY DEF OneCpuPerEnv, RunningIsHosted, FreeListExact, ReceiverBlocked, NotRunYet,
         TypeOK, Where, Spinning, InKernel
<1>4. CurenvLive' /\ MonitorQuiescent' /\ CurenvPlace'
  BY DEF CurenvLive, MonitorQuiescent, CurenvPlace,
         TypeOK, Where, Spinning, InKernel
<1>5. HaltedMark'
  BY DEF HaltedMark, TypeOK, Where, Spinning, InKernel
<1> QED BY <1>1, <1>2, <1>3, <1>4, <1>5

(* The caller blocks in sys_ipc_recv.                                      *)
LEMMA SysIpcRecvStep ==
  ASSUME Inv, NEW c \in CPU, SysIpcRecv(c)
  PROVE  Inv'
<1> USE DEF Inv, SysIpcRecv, Goto, idVars
<1> USE DEF Serving, Alone
<1>a. Serving(c)
  BY HandlerCurenv DEF SysIpcRecv
<1>b. Alone(c)
  BY <1>a, OthersOutside
<1>1. TypeOK'
  BY <1>a, <1>b DEF TypeOK, Status, Where, Spinning, InKernel
<1>2. KernelMutex' /\ HaltedMark'
  BY <1>a, <1>b DEF KernelMutex, HaltedMark, TypeOK, Where, Spinning, InKernel
<1>3. OneCpuPerEnv'
  BY <1>a, <1>b DEF OneCpuPerEnv, TypeOK, Where, Spinning, InKernel
<1>4. CurenvLive'
  BY <1>a, <1>b DEF CurenvLive, TypeOK, Where, Spinning, InKernel
<1>5. RunningIsHosted'
  BY <1>a, <1>b DEF RunningIsHosted, TypeOK, Where, Spinning, InKernel
<1>6. FreeListExact'
  <2>1. \A x \in Slot : env_status'[x] = "ENV_FREE" <=> env_status[x] = "ENV_FREE"
    BY <1>a, <1>b DEF TypeOK
  <2> QED BY <2>1 DEF FreeListExact
<1>7. ReceiverBlocked'
  BY <1>a, <1>b DEF ReceiverBlocked, TypeOK, Where, Spinning, InKernel
<1>8. MonitorQuiescent' /\ CurenvPlace'
  BY <1>a, <1>b DEF MonitorQuiescent, CurenvPlace,
         TypeOK, Where, Spinning, InKernel
<1>9. NotRunYet'
  BY <1>a, <1>b DEF NotRunYet, TypeOK, Where, Spinning, InKernel
<1> QED BY <1>1, <1>2, <1>3, <1>4, <1>5, <1>6, <1>7, <1>8, <1>9

(* env_destroy of an environment that runs on another CPU.                 *)
LEMMA KillElsewhereStep ==
  ASSUME Inv, NEW c \in CPU, InHandler(c), NEW e \in Slot,
         env_status[e] = "ENV_RUNNING", curenv[c] # e,
         env_status' = [env_status EXCEPT ![e] = "ENV_DYING"],
         pc' = [pc EXCEPT ![c] = "ret"],
         UNCHANGED <<envVars, curenv, cpu_status, locked>>
  PROVE  Inv'
<1> USE DEF Inv, envVars, idVars
<1> USE DEF Serving, Alone
<1>a. Serving(c)
  BY HandlerCurenv
<1>b. Alone(c)
  BY <1>a, OthersOutside
<1>1. TypeOK'
  BY <1>a, <1>b DEF TypeOK, Status, Where, Spinning, InKernel
<1>2. KernelMutex' /\ HaltedMark'
  BY <1>a, <1>b DEF KernelMutex, HaltedMark, TypeOK, Where, Spinning, InKernel
<1>3. OneCpuPerEnv'
  BY <1>a, <1>b DEF OneCpuPerEnv, TypeOK, Where, Spinning, InKernel
<1>4. CurenvLive'
  BY <1>a, <1>b DEF CurenvLive, TypeOK, Where, Spinning, InKernel
<1>5. RunningIsHosted'
  BY <1>a, <1>b DEF RunningIsHosted, TypeOK, Where, Spinning, InKernel
<1>6. FreeListExact'
  <2>1. \A x \in Slot : env_status'[x] = "ENV_FREE" <=> env_status[x] = "ENV_FREE"
    BY <1>a, <1>b DEF TypeOK
  <2> QED BY <2>1 DEF FreeListExact
<1>7. ReceiverBlocked'
  BY <1>a, <1>b DEF ReceiverBlocked, TypeOK, Where, Spinning, InKernel
<1>8. MonitorQuiescent' /\ CurenvPlace'
  BY <1>a, <1>b DEF MonitorQuiescent, CurenvPlace,
         TypeOK, Where, Spinning, InKernel
<1>9. NotRunYet'
  BY <1>a, <1>b DEF NotRunYet, TypeOK, Where, Spinning, InKernel
<1> QED BY <1>1, <1>2, <1>3, <1>4, <1>5, <1>6, <1>7, <1>8, <1>9

(* env_destroy of an environment that is on no CPU.                        *)
LEMMA FreeOtherStep ==
  ASSUME Inv, NEW c \in CPU, InHandler(c), NEW e \in Slot, curenv[c] # e,
         env_status[e] \notin {"ENV_FREE", "ENV_RUNNING", "ENV_DYING"},
         EnvFree(e), pc' = [pc EXCEPT ![c] = "ret"],
         UNCHANGED <<curenv, cpu_status, locked>>
  PROVE  Inv'
<1> USE DEF Inv, EnvFree
<1> USE DEF Serving, Alone
<1>a. Serving(c)
  BY HandlerCurenv
<1>b. Alone(c)
  BY <1>a, OthersOutside
<1>c. FreeListExact' /\ env_free_list' \in Seq(Slot)
  BY EnvFreeExact
<1>1. TypeOK'
  BY <1>a, <1>b, <1>c DEF TypeOK, Status, Where, Spinning, InKernel
<1>2. KernelMutex' /\ HaltedMark'
  BY <1>a, <1>b, <1>c DEF KernelMutex, HaltedMark,
         TypeOK, Where, Spinning, InKernel
<1>3. OneCpuPerEnv'
  BY <1>a, <1>b, <1>c DEF OneCpuPerEnv, TypeOK, Where, Spinning, InKernel
<1>4. CurenvLive'
  BY <1>a, <1>b, <1>c DEF CurenvLive, TypeOK, Where, Spinning, InKernel
<1>5. RunningIsHosted'
  BY <1>a, <1>b, <1>c DEF RunningIsHosted, TypeOK, Where, Spinning, InKernel
<1>6. FreeListExact'
  BY <1>c
<1>7. ReceiverBlocked'
  BY <1>a, <1>b, <1>c DEF ReceiverBlocked, TypeOK, Where, Spinning, InKernel
<1>8. MonitorQuiescent' /\ CurenvPlace'
  BY <1>a, <1>b, <1>c DEF MonitorQuiescent, CurenvPlace,
         TypeOK, Where, Spinning, InKernel
<1>9. NotRunYet'
  BY <1>a, <1>b, <1>c DEF NotRunYet, TypeOK, Where, Spinning, InKernel
<1> QED BY <1>1, <1>2, <1>3, <1>4, <1>5, <1>6, <1>7, <1>8, <1>9

(* env_free of the CPU's own curenv, which then has none.                  *)
LEMMA FreeSelfStep ==
  ASSUME Inv, NEW c \in CPU, pc[c] = "entry",
         EnvFree(curenv[c]), pc' = [pc EXCEPT ![c] = "sched"],
         curenv' = [curenv EXCEPT ![c] = Nil],
         UNCHANGED <<cpu_status, locked>>
  PROVE  Inv'
<1> USE DEF Inv, EnvFree
<1>a. /\ pc[c] \in InKernel
      /\ curenv[c] \in Slot
      /\ env_status[curenv[c]] # "ENV_FREE"
  BY DEF TypeOK, CurenvLive, InKernel
<1> USE DEF Alone
<1>b. Alone(c)
  BY <1>a, OthersOutside
<1>c. FreeListExact' /\ env_free_list' \in Seq(Slot)
  BY <1>a, EnvFreeExact
<1>1. TypeOK'
  BY <1>a, <1>b, <1>c DEF TypeOK, Status, Where, Spinning, InKernel
<1>2. KernelMutex' /\ HaltedMark'
  BY <1>a, <1>b, <1>c DEF KernelMutex, HaltedMark,
         TypeOK, Where, Spinning, InKernel
<1>3. OneCpuPerEnv'
  BY <1>a, <1>b, <1>c DEF OneCpuPerEnv, TypeOK, Where, Spinning, InKernel
<1>4. CurenvLive'
  BY <1>a, <1>b, <1>c DEF CurenvLive, TypeOK, Where, Spinning, InKernel
<1>5. RunningIsHosted'
  BY <1>a, <1>b, <1>c DEF RunningIsHosted, TypeOK, Where, Spinning, InKernel
<1>6. FreeListExact'
  BY <1>c
<1>7. ReceiverBlocked'
  BY <1>a, <1>b, <1>c DEF ReceiverBlocked, TypeOK, Where, Spinning, InKernel
<1>8. MonitorQuiescent' /\ CurenvPlace'
  BY <1>a, <1>b, <1>c DEF MonitorQuiescent, CurenvPlace,
         TypeOK, Where, Spinning, InKernel
<1>9. NotRunYet'
  BY <1>a, <1>b, <1>c DEF NotRunYet, TypeOK, Where, Spinning, InKernel
<1> QED BY <1>1, <1>2, <1>3, <1>4, <1>5, <1>6, <1>7, <1>8, <1>9

(* env_destroy, called for an environment that is not free and no zombie.  *)
LEMMA EnvDestroyStep ==
  ASSUME Inv, NEW c \in CPU, InHandler(c), NEW e \in Slot,
         env_status[e] \notin {"ENV_FREE", "ENV_DYING"},
         EnvDestroy(c, e), UNCHANGED <<cpu_status, locked>>
  PROVE  Inv'
<1>1. CASE env_status[e] = "ENV_RUNNING" /\ curenv[c] # e
  <2>1. /\ env_status' = [env_status EXCEPT ![e] = "ENV_DYING"]
        /\ pc' = [pc EXCEPT ![c] = "ret"]
        /\ UNCHANGED <<envVars, curenv>>
    BY <1>1 DEF EnvDestroy, Goto
  <2> QED BY <1>1, <2>1, KillElsewhereStep
<1>2. CASE curenv[c] = e
  <2>1. /\ EnvFree(curenv[c]) /\ pc' = [pc EXCEPT ![c] = "sched"]
        /\ curenv' = [curenv EXCEPT ![c] = Nil]
    BY <1>2 DEF EnvDestroy, Goto
  <2> QED BY <2>1, FreeSelfStep DEF InHandler
<1>3. CASE env_status[e] # "ENV_RUNNING" /\ curenv[c] # e
  <2>1. EnvFree(e) /\ pc' = [pc EXCEPT ![c] = "ret"] /\ UNCHANGED curenv
    BY <1>3 DEF EnvDestroy, Goto
  <2> QED BY <1>3, <2>1, FreeOtherStep
<1> QED BY <1>1, <1>2, <1>3

(* trap() frees its zombie.                                                *)
LEMMA CollectZombieStep ==
  ASSUME Inv, NEW c \in CPU, CollectZombie(c)
  PROVE  Inv'
BY FreeSelfStep DEF CollectZombie, Goto

(* An exception kills the environment.                                     *)
LEMMA HandleFatalStep ==
  ASSUME Inv, NEW c \in CPU, HandleFatal(c)
  PROVE  Inv'
<1>1. InHandler(c) /\ EnvDestroy(c, curenv[c]) /\ UNCHANGED <<cpu_status, locked>>
  BY DEF HandleFatal
<1>2. curenv[c] \in Slot /\ env_status[curenv[c]] = "ENV_RUNNING"
  BY <1>1, HandlerCurenv DEF Serving
<1> QED BY <1>1, <1>2, EnvDestroyStep

(* sys_env_destroy, issued with care.                                      *)
LEMMA SysEnvDestroyStep ==
  ASSUME Loose = {}, Inv, NEW c \in CPU, NEW id, SysEnvDestroy(c, id)
  PROVE  Inv'
<1>1. InHandler(c) /\ UNCHANGED <<cpu_status, locked>>
  BY DEF SysEnvDestroy
<1>2. curenv[c] \in Slot /\ env_status[curenv[c]] = "ENV_RUNNING"
  BY <1>1, HandlerCurenv DEF Serving
<1>3. PICK e \in Slot : Envid2env(c, id, e, TRUE) /\ DestroyCare(e) /\ EnvDestroy(c, e)
  BY DEF SysEnvDestroy
<1>4. env_status[e] \notin {"ENV_FREE", "ENV_DYING"}
  BY <1>2, <1>3 DEF Envid2env, DestroyCare
<1> QED BY <1>1, <1>3, <1>4, EnvDestroyStep

(* sys_exofork takes the first slot of the free list.                      *)
LEMMA SysExoforkStep ==
  ASSUME Inv, NEW c \in CPU, SysExofork(c)
  PROVE  Inv'
<1> USE DEF Inv, SysExofork, EnvAlloc, NextGeneration, Goto
<1> USE DEF Serving, Alone
<1>a. Serving(c)
  BY HandlerCurenv DEF SysExofork
<1>b. Alone(c)
  BY <1>a, OthersOutside
<1>c. /\ FreeListExact' /\ env_free_list' \in Seq(Slot)
      /\ Head(env_free_list) \in Slot
      /\ env_status[Head(env_free_list)] = "ENV_FREE"
  BY EnvAllocExact
<1>1. TypeOK'
  <2>1. env_gen' \in [Slot -> 0 .. MaxGen]
    BY <1>c, MaxGenAssumption DEF TypeOK
  <2>2. env_parent_id' \in [Slot -> EnvId \cup {Nil}]
    BY <1>a, <1>c DEF TypeOK, env_id, EnvId
  <2> QED BY <1>a, <1>c, <2>1, <2>2 DEF TypeOK, Status, Where, Spinning, InKernel
<1>2. KernelMutex' /\ HaltedMark'
  BY <1>a, <1>b, <1>c DEF KernelMutex, HaltedMark,
         TypeOK, Where, Spinning, InKernel
<1>3. OneCpuPerEnv'
  BY <1>a, <1>b, <1>c DEF OneCpuPerEnv, TypeOK, Where, Spinning, InKernel
<1>4. CurenvLive'
  BY <1>a, <1>b, <1>c DEF CurenvLive, TypeOK, Where, Spinning, InKernel
<1>5. RunningIsHosted'
  BY <1>a, <1>b, <1>c DEF RunningIsHosted, TypeOK, Where, Spinning, InKernel
<1>6. FreeListExact'
  BY <1>c
<1>7. ReceiverBlocked'
  BY <1>a, <1>b, <1>c DEF ReceiverBlocked, TypeOK, Where, Spinning, InKernel
<1>8. MonitorQuiescent' /\ CurenvPlace'
  BY <1>a, <1>b, <1>c DEF MonitorQuiescent, CurenvPlace,
         TypeOK, Where, Spinning, InKernel
<1>9. NotRunYet'
  BY <1>a, <1>b, <1>c DEF NotRunYet, TypeOK, Where, Spinning, InKernel
<1> QED BY <1>1, <1>2, <1>3, <1>4, <1>5, <1>6, <1>7, <1>8, <1>9

(* A careful change of an environment's status.                            *)
LEMMA SetStatusStep ==
  ASSUME Inv, NEW c \in CPU, InHandler(c), NEW e \in Slot,
         NEW status \in {"ENV_RUNNABLE", "ENV_NOT_RUNNABLE"},
         env_status[e] # "ENV_FREE",
         curenv[c] = e \/ (env_status[e] \notin {"ENV_RUNNING", "ENV_DYING"}
                             /\ ~env_ipc_recving[e]),
         env_status' = [env_status EXCEPT ![e] = status],
         pc' = [pc EXCEPT ![c] = "ret"],
         UNCHANGED <<envVars, curenv, cpu_status, locked>>
  PROVE  Inv'
<1> USE DEF Inv, envVars, idVars
<1> USE DEF Serving, Alone
<1>a. Serving(c)
  BY HandlerCurenv
<1>b. Alone(c)
  BY <1>a, OthersOutside
<1>1. TypeOK'
  BY <1>a, <1>b DEF TypeOK, Status, Where, Spinning, InKernel
<1>2. KernelMutex' /\ HaltedMark'
  BY <1>a, <1>b DEF KernelMutex, HaltedMark, TypeOK, Where, Spinning, InKernel
<1>3. OneCpuPerEnv'
  BY <1>a, <1>b DEF OneCpuPerEnv, TypeOK, Where, Spinning, InKernel
<1>4. CurenvLive'
  BY <1>a, <1>b DEF CurenvLive, TypeOK, Where, Spinning, InKernel
<1>5. RunningIsHosted'
  BY <1>a, <1>b DEF RunningIsHosted, TypeOK, Where, Spinning, InKernel
<1>6. FreeListExact'
  <2>1. \A x \in Slot : env_status'[x] = "ENV_FREE" <=> env_status[x] = "ENV_FREE"
    BY <1>a, <1>b DEF TypeOK
  <2> QED BY <2>1 DEF FreeListExact
<1>7. ReceiverBlocked'
  BY <1>a, <1>b DEF ReceiverBlocked, TypeOK, Where, Spinning, InKernel
<1>8. MonitorQuiescent' /\ CurenvPlace'
  BY <1>a, <1>b DEF MonitorQuiescent, CurenvPlace,
         TypeOK, Where, Spinning, InKernel
<1>9. NotRunYet'
  BY <1>a, <1>b DEF NotRunYet, TypeOK, Where, Spinning, InKernel
<1> QED BY <1>1, <1>2, <1>3, <1>4, <1>5, <1>6, <1>7, <1>8, <1>9

(* sys_env_set_status, issued with care.                                   *)
LEMMA SysEnvSetStatusStep ==
  ASSUME Loose = {}, Inv, NEW c \in CPU, NEW id,
         NEW status \in {"ENV_RUNNABLE", "ENV_NOT_RUNNABLE"},
         SysEnvSetStatus(c, id, status)
  PROVE  Inv'
<1>1. /\ InHandler(c) /\ pc' = [pc EXCEPT ![c] = "ret"]
      /\ UNCHANGED <<envVars, curenv, cpu_status, locked>>
  BY DEF SysEnvSetStatus, Goto
<1>2. curenv[c] \in Slot /\ env_status[curenv[c]] = "ENV_RUNNING"
  BY <1>1, HandlerCurenv DEF Serving
<1>3. PICK e \in Slot : /\ Envid2env(c, id, e, TRUE) /\ SetStatusCare(c, e)
                        /\ env_status' = [env_status EXCEPT ![e] = status]
  BY DEF SysEnvSetStatus
<1>4. /\ env_status[e] # "ENV_FREE"
      /\ curenv[c] = e \/ (env_status[e] \notin {"ENV_RUNNING", "ENV_DYING"}
                              /\ ~env_ipc_recving[e])
  BY <1>2, <1>3 DEF Envid2env, SetStatusCare, Inv, TypeOK, ReceiverBlocked, NotRunYet
<1> QED BY <1>1, <1>3, <1>4, SetStatusStep

(* sys_ipc_try_send wakes a receiver.                                      *)
LEMMA WakeStep ==
  ASSUME Inv, NEW c \in CPU, InHandler(c), NEW e \in Slot,
         env_status[e] # "ENV_FREE", env_ipc_recving[e],
         env_ipc_recving' = [env_ipc_recving EXCEPT ![e] = FALSE],
         env_status' = [env_status EXCEPT ![e] = "ENV_RUNNABLE"],
         pc' = [pc EXCEPT ![c] = "ret"],
         UNCHANGED <<idVars, env_runs, curenv, cpu_status, locked>>
  PROVE  Inv'
<1> USE DEF Inv, idVars
<1> USE DEF Serving, Alone
<1>a. Serving(c)
  BY HandlerCurenv
<1>b. Alone(c)
  BY <1>a, OthersOutside
<1>c. env_status[e] = "ENV_NOT_RUNNABLE" /\ e # curenv[c]
  BY <1>a DEF ReceiverBlocked
<1>1. TypeOK'
  BY <1>a, <1>b, <1>c DEF TypeOK, Status, Where, Spinning, InKernel
<1>2. KernelMutex' /\ HaltedMark'
  BY <1>a, <1>b, <1>c DEF KernelMutex, HaltedMark,
         TypeOK, Where, Spinning, InKernel
<1>3. OneCpuPerEnv'
  BY <1>a, <1>b, <1>c DEF OneCpuPerEnv, TypeOK, Where, Spinning, InKernel
<1>4. CurenvLive'
  BY <1>a, <1>b, <1>c DEF CurenvLive, TypeOK, Where, Spinning, InKernel
<1>5. RunningIsHosted'
  BY <1>a, <1>b, <1>c DEF RunningIsHosted, TypeOK, Where, Spinning, InKernel
<1>6. FreeListExact'
  <2>1. \A x \in Slot : env_status'[x] = "ENV_FREE" <=> env_status[x] = "ENV_FREE"
    BY <1>a, <1>b, <1>c DEF TypeOK
  <2> QED BY <2>1 DEF FreeListExact
<1>7. ReceiverBlocked'
  BY <1>a, <1>b, <1>c DEF ReceiverBlocked, TypeOK, Where, Spinning, InKernel
<1>8. MonitorQuiescent' /\ CurenvPlace'
  BY <1>a, <1>b, <1>c DEF MonitorQuiescent, CurenvPlace,
         TypeOK, Where, Spinning, InKernel
<1>9. NotRunYet'
  BY <1>a, <1>b, <1>c DEF NotRunYet, TypeOK, Where, Spinning, InKernel
<1> QED BY <1>1, <1>2, <1>3, <1>4, <1>5, <1>6, <1>7, <1>8, <1>9

(* sys_ipc_try_send.                                                       *)
LEMMA SysIpcTrySendStep ==
  ASSUME Inv, NEW c \in CPU, NEW id, SysIpcTrySend(c, id)
  PROVE  Inv'
<1>1. InHandler(c)
  BY DEF SysIpcTrySend
<1>2. curenv[c] \in Slot /\ env_status[curenv[c]] = "ENV_RUNNING"
  BY <1>1, HandlerCurenv DEF Serving
<1>3. PICK e \in Slot :
        /\ Envid2env(c, id, e, FALSE) /\ env_ipc_recving[e]
        /\ env_ipc_recving' = [env_ipc_recving EXCEPT ![e] = FALSE]
        /\ env_status' = [env_status EXCEPT ![e] = "ENV_RUNNABLE"]
  BY DEF SysIpcTrySend
<1>4. env_status[e] # "ENV_FREE"
  BY <1>2, <1>3 DEF Envid2env
<1>5. /\ pc' = [pc EXCEPT ![c] = "ret"]
      /\ UNCHANGED <<idVars, env_runs, curenv, cpu_status, locked>>
  BY DEF SysIpcTrySend, Goto
<1> QED BY <1>1, <1>3, <1>4, <1>5, WakeStep

(* env_run releases the lock with e on the CPU.                            *)
LEMMA RunStep ==
  ASSUME Inv, NEW c \in CPU, pc[c] \in {"ret", "sched"}, NEW e \in Slot,
         env_runs' = [env_runs EXCEPT ![e] = 1],
         \/ env_status[e] = "ENV_RUNNABLE"
         \/ e = curenv[c] /\ env_status[e] = "ENV_RUNNING",
         env_status' = [x \in Slot |->
           IF x = e THEN "ENV_RUNNING"
           ELSE IF x = curenv[c] /\ env_status[x] = "ENV_RUNNING"
                  THEN "ENV_RUNNABLE" ELSE env_status[x]],
         curenv' = [curenv EXCEPT ![c] = e], locked' = 0,
         pc' = [pc EXCEPT ![c] = "user"],
         UNCHANGED <<idVars, env_ipc_recving, cpu_status>>
  PROVE  Inv'
<1> USE DEF Inv, envVars, idVars
<1>a. pc[c] \in InKernel
  BY DEF InKernel
<1> USE DEF Alone
<1>b. Alone(c)
  BY <1>a, OthersOutside
<1>1. TypeOK'
  BY <1>a, <1>b DEF TypeOK, Status, Where, Spinning, InKernel
<1>2. KernelMutex' /\ HaltedMark'
  BY <1>a, <1>b DEF KernelMutex, HaltedMark, TypeOK, Where, Spinning, InKernel
<1>3. OneCpuPerEnv'
  <2>1. \A d \in CPU \ {c} : curenv[d] # e
    BY <1>b, NilAssumption
  <2> QED BY <2>1 DEF OneCpuPerEnv, TypeOK
<1>4. CurenvLive'
  <2>1. \A d \in CPU \ {c} : curenv[d] # e
    BY <1>b, NilAssumption
  <2> QED BY <1>b, <2>1, NilAssumption DEF CurenvLive, TypeOK
<1>5. RunningIsHosted'
  <2>1. curenv[c] # Nil => env_status[curenv[c]] # "ENV_DYING"
    BY DEF CurenvPlace
  <2>2. curenv'[c] = e /\ \A d \in CPU \ {c} : curenv'[d] = curenv[d]
    BY DEF TypeOK
  <2> QED BY <2>1, <2>2, NilAssumption DEF RunningIsHosted, TypeOK
<1>6. FreeListExact'
  <2>1. \A x \in Slot : env_status'[x] = "ENV_FREE" <=> env_status[x] = "ENV_FREE"
    BY <1>a, <1>b DEF TypeOK
  <2> QED BY <2>1 DEF FreeListExact
<1>7. ReceiverBlocked'
  BY <1>a, <1>b DEF ReceiverBlocked, TypeOK, Where, Spinning, InKernel
<1>8. MonitorQuiescent' /\ CurenvPlace'
  BY <1>a, <1>b DEF MonitorQuiescent, CurenvPlace,
         TypeOK, Where, Spinning, InKernel
<1>9. NotRunYet'
  BY <1>a, <1>b DEF NotRunYet, TypeOK, Where, Spinning, InKernel
<1> QED BY <1>1, <1>2, <1>3, <1>4, <1>5, <1>6, <1>7, <1>8, <1>9

(* sched_halt puts the CPU to sleep.                                       *)
LEMMA HaltStep ==
  ASSUME Inv, NEW c \in CPU, pc[c] = "sched",
         curenv[c] # Nil =>
           env_status[curenv[c]] \notin {"ENV_RUNNABLE", "ENV_RUNNING", "ENV_DYING"},
         curenv' = [curenv EXCEPT ![c] = Nil],
         cpu_status' = [cpu_status EXCEPT ![c] = "CPU_HALTED"],
         locked' = 0, pc' = [pc EXCEPT ![c] = "halted"],
         UNCHANGED <<env_status, envVars>>
  PROVE  Inv'
<1> USE DEF Inv, envVars, idVars
<1>a. pc[c] \in InKernel
  BY DEF InKernel
<1> USE DEF Alone
<1>b. Alone(c)
  BY <1>a, OthersOutside
<1>1. TypeOK'
  BY <1>a, <1>b DEF TypeOK, Status, Where, Spinning, InKernel
<1>2. KernelMutex' /\ HaltedMark'
  BY <1>a, <1>b DEF KernelMutex, HaltedMark, TypeOK, Where, Spinning, InKernel
<1>3. OneCpuPerEnv'
  BY <1>a, <1>b DEF OneCpuPerEnv, TypeOK, Where, Spinning, InKernel
<1>4. CurenvLive'
  BY <1>a, <1>b DEF CurenvLive, TypeOK, Where, Spinning, InKernel
<1>5. RunningIsHosted'
  BY <1>a, <1>b DEF RunningIsHosted, TypeOK, Where, Spinning, InKernel
<1>6. FreeListExact'
  BY <1>a, <1>b DEF FreeListExact, TypeOK, Where, Spinning, InKernel
<1>7. ReceiverBlocked'
  BY <1>a, <1>b DEF ReceiverBlocked, TypeOK, Where, Spinning, InKernel
<1>8. MonitorQuiescent' /\ CurenvPlace'
  BY <1>a, <1>b DEF MonitorQuiescent, CurenvPlace,
         TypeOK, Where, Spinning, InKernel
<1>9. NotRunYet'
  BY <1>a, <1>b DEF NotRunYet, TypeOK, Where, Spinning, InKernel
<1> QED BY <1>1, <1>2, <1>3, <1>4, <1>5, <1>6, <1>7, <1>8, <1>9

(* sched_halt enters the monitor and keeps the lock.                       *)
LEMMA EnterMonitorStep ==
  ASSUME Inv, NEW c \in CPU, pc[c] = "sched", NothingLeft,
         pc' = [pc EXCEPT ![c] = "monitor"],
         UNCHANGED <<env_status, envVars, curenv, cpu_status, locked>>
  PROVE  Inv'
<1> USE DEF Inv, envVars, idVars
<1>a. pc[c] \in InKernel
  BY DEF InKernel
<1> USE DEF Alone
<1>b. Alone(c)
  BY <1>a, OthersOutside
<1>1. TypeOK'
  BY <1>a, <1>b DEF TypeOK, Status, Where, Spinning, InKernel
<1>2. KernelMutex'
  BY <1>a, <1>b DEF KernelMutex, TypeOK, Where, Spinning, InKernel
<1>3. OneCpuPerEnv' /\ RunningIsHosted' /\ FreeListExact' /\ ReceiverBlocked' /\ NotRunYet'
  BY <1>a, <1>b DEF OneCpuPerEnv, RunningIsHosted, FreeListExact, ReceiverBlocked, NotRunYet,
         TypeOK, Where, Spinning, InKernel
<1>4. CurenvLive'
  BY <1>a, <1>b DEF CurenvLive, TypeOK, Where, Spinning, InKernel
<1>5. HaltedMark'
  BY <1>a, <1>b DEF HaltedMark, TypeOK, Where, Spinning, InKernel
<1>6. MonitorQuiescent'
  <2>1. \A s \in Slot : env_status[s] \in {"ENV_FREE", "ENV_NOT_RUNNABLE"}
    BY DEF NothingLeft, TypeOK, Status
  <2>2. \A d \in CPU : pc'[d] \notin {"user", "trap"}
    BY <1>b, <2>1 DEF TypeOK, CurenvLive
  <2> QED BY <2>1, <2>2 DEF MonitorQuiescent
<1>7. CurenvPlace'
  BY <1>a, <1>b DEF CurenvPlace, TypeOK, Where, Spinning, InKernel
<1> QED BY <1>1, <1>2, <1>3, <1>4, <1>5, <1>6, <1>7

(* The end of trap() falls into sched_yield.                               *)
LEMMA ReschedStep ==
  ASSUME Inv, NEW c \in CPU, pc[c] = "ret",
         curenv[c] = Nil \/ env_status[curenv[c]] # "ENV_RUNNING",
         pc' = [pc EXCEPT ![c] = "sched"],
         UNCHANGED <<env_status, envVars, curenv, cpu_status, locked>>
  PROVE  Inv'
<1> USE DEF Inv, envVars, idVars
<1>a. pc[c] \in InKernel
  BY DEF InKernel
<1> USE DEF Alone
<1>b. Alone(c)
  BY <1>a, OthersOutside
<1>1. TypeOK'
  BY <1>a, <1>b DEF TypeOK, Status, Where, Spinning, InKernel
<1>2. KernelMutex'
  BY <1>a, <1>b DEF KernelMutex, TypeOK, Where, Spinning, InKernel
<1>3. OneCpuPerEnv' /\ RunningIsHosted' /\ FreeListExact' /\ ReceiverBlocked' /\ NotRunYet'
  BY <1>a, <1>b DEF OneCpuPerEnv, RunningIsHosted, FreeListExact, ReceiverBlocked, NotRunYet,
         TypeOK, Where, Spinning, InKernel
<1>4. CurenvLive'
  BY <1>a, <1>b DEF CurenvLive, TypeOK, Where, Spinning, InKernel
<1>5. HaltedMark'
  BY <1>a, <1>b DEF HaltedMark, TypeOK, Where, Spinning, InKernel
<1>6. MonitorQuiescent'
  BY <1>a, <1>b DEF MonitorQuiescent, TypeOK, Where, Spinning, InKernel
<1>7. CurenvPlace'
  BY <1>a, <1>b DEF CurenvPlace, TypeOK, Where, Spinning, InKernel
<1> QED BY <1>1, <1>2, <1>3, <1>4, <1>5, <1>6, <1>7

(* env_run of an environment that is runnable or curenv.                   *)
LEMMA EnvRunStep ==
  ASSUME Inv, NEW c \in CPU, pc[c] \in {"ret", "sched"},
         NEW e \in Slot, Demoted(c)[e] = "ENV_RUNNABLE", EnvRun(c, e)
  PROVE  Inv'
<1>1. /\ env_status' = [x \in Slot |->
           IF x = e THEN "ENV_RUNNING"
           ELSE IF x = curenv[c] /\ env_status[x] = "ENV_RUNNING"
                  THEN "ENV_RUNNABLE" ELSE env_status[x]]
      /\ curenv' = [curenv EXCEPT ![c] = e] /\ locked' = 0
      /\ pc' = [pc EXCEPT ![c] = "user"]
      /\ env_runs' = [env_runs EXCEPT ![e] = 1]
      /\ UNCHANGED <<idVars, env_ipc_recving, cpu_status>>
  BY DEF EnvRun, Demoted, Goto
<1>2. \/ env_status[e] = "ENV_RUNNABLE"
      \/ e = curenv[c] /\ env_status[e] = "ENV_RUNNING"
  BY DEF Demoted
<1> QED BY <1>1, <1>2, RunStep

(* The end of trap().                                                      *)
LEMMA TrapReturnStep ==
  ASSUME Inv, NEW c \in CPU, TrapReturn(c)
  PROVE  Inv'
<1>1. CASE curenv[c] # Nil /\ env_status[curenv[c]] = "ENV_RUNNING"
  <2>1. pc[c] = "ret" /\ EnvRun(c, curenv[c])
    BY <1>1 DEF TrapReturn
  <2>2. curenv[c] \in Slot
    BY <1>1 DEF Inv, TypeOK
  <2>3. Demoted(c)[curenv[c]] = "ENV_RUNNABLE"
    BY <1>1, <2>2 DEF Demoted
  <2> QED BY <2>1, <2>2, <2>3, EnvRunStep
<1>2. CASE ~(curenv[c] # Nil /\ env_status[curenv[c]] = "ENV_RUNNING")
  BY <1>2, ReschedStep DEF TrapReturn, Goto
<1> QED BY <1>1, <1>2

(* sched_yield finds a runnable environment.                               *)
LEMMA SchedRunStep ==
  ASSUME Inv, NEW c \in CPU, SchedRun(c)
  PROVE  Inv'
BY EnvRunStep DEF SchedRun

(* sched_yield finds none.                                                 *)
LEMMA SchedHaltStep ==
  ASSUME Inv, NEW c \in CPU, SchedHalt(c)
  PROVE  Inv'
<1>1. pc[c] = "sched" /\ UNCHANGED <<env_status, envVars>>
  BY DEF SchedHalt
<1>2. CASE NothingLeft
  <2>1. pc' = [pc EXCEPT ![c] = "monitor"] /\ UNCHANGED <<curenv, cpu_status, locked>>
    BY <1>2 DEF SchedHalt, Goto
  <2> QED BY <1>1, <1>2, <2>1, EnterMonitorStep
<1>3. CASE ~NothingLeft
  <2>1. /\ curenv' = [curenv EXCEPT ![c] = Nil]
        /\ cpu_status' = [cpu_status EXCEPT ![c] = "CPU_HALTED"]
        /\ locked' = 0 /\ pc' = [pc EXCEPT ![c] = "halted"]
    BY <1>3 DEF SchedHalt, Goto
  <2>2. curenv[c] # Nil =>
          env_status[curenv[c]] \notin {"ENV_RUNNABLE", "ENV_RUNNING", "ENV_DYING"}
    BY <1>1 DEF SchedHalt, Demoted, Inv, CurenvPlace, TypeOK
  <2> QED BY <1>1, <2>1, <2>2, HaltStep
<1> QED BY <1>2, <1>3

-----------------------------------------------------------------------------

(* i386_init hands the scheduler a state that satisfies the invariant.     *)
LEMMA InitInv == Init => Inv
<1> SUFFICES ASSUME Init PROVE Inv
  OBVIOUS
<1> USE NENVAssumption, MaxGenAssumption, BootAssumption, NilAssumption DEF Init
<1>1. env_free_list \in Seq(Slot) /\ Len(env_free_list) = NENV - NBOOT
  BY DEF Slot
<1>2. TypeOK
  BY <1>1 DEF TypeOK, Slot, Status, Where, Spinning, InKernel
<1>3. KernelMutex
  BY DEF KernelMutex, InKernel
<1>4. OneCpuPerEnv /\ CurenvLive
  BY DEF OneCpuPerEnv, CurenvLive
<1>5. RunningIsHosted /\ ReceiverBlocked
  BY DEF RunningIsHosted, ReceiverBlocked
<1>6. FreeListExact
  <2>1. \A s \in Slot : env_status[s] = "ENV_FREE" <=> s >= NBOOT
    BY DEF Slot
  <2>2. ASSUME NEW s \in Slot, s >= NBOOT
        PROVE  \E i \in 1 .. Len(env_free_list) : env_free_list[i] = s
    <3>1. s - NBOOT + 1 \in 1 .. Len(env_free_list) /\ env_free_list[s - NBOOT + 1] = s
      BY <1>1, <2>2 DEF Slot
    <3> QED BY <3>1
  <2>3. \A i \in 1 .. Len(env_free_list) : env_free_list[i] = NBOOT + i - 1
    BY <1>1
  <2> QED BY <1>1, <2>1, <2>2, <2>3 DEF FreeListExact, Slot
<1>7. HaltedMark /\ MonitorQuiescent /\ CurenvPlace /\ NotRunYet
  BY DEF HaltedMark, MonitorQuiescent, CurenvPlace, NotRunYet
<1> QED BY <1>2, <1>3, <1>4, <1>5, <1>6, <1>7 DEF Inv

(* No step of a CPU breaks the invariant.                                  *)
LEMMA NextInv ==
  ASSUME Loose = {}
  PROVE  Inv /\ [Next]_vars => Inv'
<1> SUFFICES ASSUME Inv, [Next]_vars PROVE Inv'
  OBVIOUS
<1>1. CASE UNCHANGED vars
  BY <1>1 DEF Inv, vars, envVars, idVars, TypeOK, KernelMutex, OneCpuPerEnv, CurenvLive,
              RunningIsHosted, FreeListExact, ReceiverBlocked, HaltedMark,
              MonitorQuiescent, CurenvPlace, NotRunYet
<1>2. ASSUME NEW c \in CPU, TrapFromUser(c) PROVE Inv'
  BY <1>2, TrapFromUserStep
<1>3. ASSUME NEW c \in CPU, InterruptWhileHalted(c) PROVE Inv'
  BY <1>3, InterruptWhileHaltedStep
<1>4. ASSUME NEW c \in CPU, AcquireLock(c) PROVE Inv'
  BY <1>4, AcquireLockStep
<1>5. ASSUME NEW c \in CPU, Handler(c) PROVE Inv'
  BY <1>5, CollectZombieStep, HandleOtherStep, HandleYieldStep, HandleFatalStep,
     SysEnvDestroyStep, SysExoforkStep, SysEnvSetStatusStep, SysIpcRecvStep,
     SysIpcTrySendStep DEF Handler
<1>6. ASSUME NEW c \in CPU, TrapReturn(c) PROVE Inv'
  BY <1>6, TrapReturnStep
<1>7. ASSUME NEW c \in CPU, Sched(c) PROVE Inv'
  BY <1>7, SchedRunStep, SchedHaltStep DEF Sched
<1>8. ASSUME NEW c \in CPU, MonitorLoop(c) PROVE Inv'
  BY <1>8, <1>1 DEF MonitorLoop
<1> QED BY <1>1, <1>2, <1>3, <1>4, <1>5, <1>6, <1>7, <1>8 DEF Next

(* Inv holds in every state that careful programs can bring about.         *)
THEOREM Invariance ==
  ASSUME Loose = {}
  PROVE  Spec => []Inv
<1>1. Inv /\ [Next]_vars => Inv'
  BY NextInv
<1> QED BY <1>1, InitInv, PTL DEF Spec

(* sched_yield never gives an environment to a second CPU. *)
THEOREM NoEnvOnTwoCpus ==
  ASSUME Loose = {}
  PROVE  Spec => []OneCpuPerEnv
BY Invariance, PTL DEF Inv

(* No CPU's curenv is freed or rescheduled under it; assert(curenv) holds. *)
THEOREM CurenvNeverFreed ==
  ASSUME Loose = {}
  PROVE  Spec => []CurenvLive
BY Invariance, PTL DEF Inv

(* Running environments and zombies are on a CPU. *)
THEOREM ZombiesAreHosted ==
  ASSUME Loose = {}
  PROVE  Spec => []RunningIsHosted
BY Invariance, PTL DEF Inv

(* env_free_list holds exactly the free slots, each once. *)
THEOREM FreeListIsExact ==
  ASSUME Loose = {}
  PROVE  Spec => []FreeListExact
BY Invariance, PTL DEF Inv

(* A waiting receiver is on no CPU and in no scan. *)
THEOREM ReceiversAreBlocked ==
  ASSUME Loose = {}
  PROVE  Spec => []ReceiverBlocked
BY Invariance, PTL DEF Inv

(* The status of every slot, the receiving flags and cpu_status are what   *)
(* the scheduler, sys_ipc_try_send and trap() take them for.               *)
THEOREM MarksAreTrue ==
  ASSUME Loose = {}
  PROVE  Spec => []MarksTrue
<1>1. Inv => MarksTrue
  BY DEF Inv, MarksTrue
<1> QED BY <1>1, Invariance, PTL

(* The monitor starts only when nothing can run any more. *)
THEOREM MonitorIsLast ==
  ASSUME Loose = {}
  PROVE  Spec => []MonitorQuiescent
BY Invariance, PTL DEF Inv

(* A zombie leaves that state only by being freed at a trap of its own CPU *)
(* (env_destroy's comment).                                                *)
THEOREM ZombiesFreedAtTrap ==
  ASSUME Loose = {}
  PROVE  Spec => ZombieFreedAtTrap
<1> DEFINE A == \A s \in Slot :
                  env_status[s] = "ENV_DYING" /\ env_status'[s] # "ENV_DYING" =>
                    /\ env_status'[s] = "ENV_FREE"
                    /\ \E c \in CPU : curenv[c] = s /\ pc[c] = "entry"
<1>1. ASSUME Inv, Next PROVE A
  <2> SUFFICES ASSUME NEW s \in Slot, env_status[s] = "ENV_DYING",
                      env_status'[s] # "ENV_DYING"
               PROVE  /\ env_status'[s] = "ENV_FREE"
                      /\ \E c \in CPU : curenv[c] = s /\ pc[c] = "entry"
    OBVIOUS
  <2> USE <1>1 DEF Inv, TypeOK
  <2>1. ASSUME NEW c \in CPU, UNCHANGED env_status PROVE FALSE
    BY <2>1
  <2>2. ASSUME NEW c \in CPU, CollectZombie(c) PROVE curenv[c] = s /\ env_status'[s] = "ENV_FREE"
    BY <2>2 DEF CollectZombie, EnvFree
  <2>3. ASSUME NEW c \in CPU, InHandler(c), NEW e \in Slot,
               NEW v \in Status, env_status' = [env_status EXCEPT ![e] = v],
               e = curenv[c] \/ env_status[e] # "ENV_DYING"
        PROVE  FALSE
    BY <2>3 DEF InHandler
  <2>4. ASSUME NEW c \in CPU, InHandler(c), NEW e \in Slot, EnvDestroy(c, e),
               env_status[e] # "ENV_DYING"
        PROVE  FALSE
    BY <2>4 DEF EnvDestroy, EnvFree
  <2>5. ASSUME NEW c \in CPU, InHandler(c) PROVE curenv[c] \in Slot /\ env_status[curenv[c]] = "ENV_RUNNING"
    BY <2>5, HandlerCurenv DEF Serving
  <2>6. ASSUME NEW c \in CPU, Handler(c) PROVE CollectZombie(c)
    <3>1. CASE HandleOther(c) \/ HandleYield(c)
      BY <3>1, <2>1 DEF HandleOther, HandleYield
    <3>2. CASE HandleFatal(c)
      BY <3>2, <2>4, <2>5 DEF HandleFatal
    <3>3. ASSUME NEW id, SysEnvDestroy(c, id) PROVE FALSE
      BY <3>3, <2>4, <2>5 DEF SysEnvDestroy, DestroyCare
    <3>4. CASE SysExofork(c)
      <4>1. /\ Head(env_free_list) \in Slot
            /\ env_status[Head(env_free_list)] = "ENV_FREE"
        BY <3>4, EnvAllocExact DEF SysExofork, EnvAlloc
      <4> QED BY <3>4, <4>1, <2>3 DEF SysExofork, Status
    <3>5. ASSUME NEW id, NEW status \in {"ENV_RUNNABLE", "ENV_NOT_RUNNABLE"},
                 SysEnvSetStatus(c, id, status)
          PROVE  FALSE
      BY <3>5, <2>3 DEF SysEnvSetStatus, SetStatusCare, Status, NotRunYet
    <3>6. CASE SysIpcRecv(c)
      BY <3>6, <2>3, <2>5 DEF SysIpcRecv, Status
    <3>7. ASSUME NEW id, SysIpcTrySend(c, id) PROVE FALSE
      <4>1. PICK e \in Slot :
              /\ Envid2env(c, id, e, FALSE) /\ env_ipc_recving[e]
              /\ env_status' = [env_status EXCEPT ![e] = "ENV_RUNNABLE"]
        BY <3>7 DEF SysIpcTrySend
      <4>2. env_status[e] # "ENV_DYING"
        BY <1>1, <4>1 DEF ReceiverBlocked
      <4> QED BY <4>1, <4>2, <3>7, <2>3 DEF SysIpcTrySend, Status
    <3> QED BY <2>6, <3>1, <3>2, <3>3, <3>4, <3>5, <3>6, <3>7 DEF Handler
  <2>7. ASSUME NEW c \in CPU, NEW e \in Slot, Demoted(c)[e] = "ENV_RUNNABLE", EnvRun(c, e)
        PROVE  FALSE
    BY <2>7 DEF EnvRun, Demoted
  <2>8. ASSUME NEW c \in CPU, TrapReturn(c) PROVE FALSE
    BY <2>8, <2>1, <2>7 DEF TrapReturn, Demoted
  <2>9. ASSUME NEW c \in CPU, Sched(c) PROVE FALSE
    BY <2>9, <2>1, <2>7 DEF Sched, SchedRun, SchedHalt
  <2>10. PICK c \in CPU : Handler(c)
    BY <1>1, <2>1, <2>8, <2>9
       DEF Next, TrapFromUser, InterruptWhileHalted, AcquireLock, MonitorLoop, vars
  <2>11. CollectZombie(c)
    BY <2>10, <2>6
  <2> QED BY <2>11, <2>2 DEF CollectZombie
<1>2. Inv /\ [Next]_vars => [A]_vars
  BY <1>1
<1> QED BY <1>2, Invariance, PTL DEF Spec, ZombieFreedAtTrap

-----------------------------------------------------------------------------
(* The lock needs no care of the programs: whatever system calls they make *)
(* (any Loose), it is taken and given back in pairs, because the decision  *)
(* to take it rests on the halt mark of the CPU itself and never on the    *)
(* status of an environment.                                               *)

(* A CPU that comes from user mode has a curenv: only it sets its curenv.  *)
HasCurenv ==
  \A c \in CPU : pc[c] \in {"user", "trap", "entry"} => curenv[c] # Nil

LockInv == TypeOK /\ KernelMutex /\ HaltedMark /\ HasCurenv

(* What a CPU inside the kernel does to the lock and the marks: it stays   *)
(* inside and leaves them alone, or it gives the lock back on its way to   *)
(* user mode with a curenv, or to a hlt with the mark set.                 *)
StaysInside(c) ==
  /\ pc[c] \in InKernel
  /\ \E l \in {"ret", "sched", "monitor"} : Goto(c, l)
  /\ UNCHANGED <<cpu_status, locked>>
  /\ \A d \in CPU \ {c} : curenv'[d] = curenv[d]

GoesOut(c) ==
  /\ pc[c] \in InKernel
  /\ locked' = 0
  /\ \/ Goto(c, "user") /\ curenv'[c] # Nil /\ UNCHANGED cpu_status
     \/ Goto(c, "halted") /\ cpu_status' = [cpu_status EXCEPT ![c] = "CPU_HALTED"]
  /\ \A d \in CPU \ {c} : curenv'[d] = curenv[d]

LEMMA InsideKeepsLock ==
  ASSUME LockInv, TypeOK', NEW c \in CPU, StaysInside(c) \/ GoesOut(c)
  PROVE  LockInv'
<1> USE DEF LockInv, TypeOK, Where, Spinning, InKernel, Goto
<1>1. KernelMutex'
  <2>1. locked = 1 /\ \A d \in CPU \ {c} : pc[d] \notin InKernel
    BY DEF KernelMutex, StaysInside, GoesOut
  <2>2. \A d \in CPU \ {c} : pc'[d] = pc[d]
    BY DEF StaysInside, GoesOut
  <2>3. CASE StaysInside(c)
    <3>1. pc'[c] \in InKernel /\ locked' = 1
      BY <2>1, <2>3 DEF StaysInside
    <3> HIDE DEF LockInv, TypeOK, InKernel
    <3>2. \A d \in CPU : pc'[d] \in InKernel <=> d = c
      BY <2>1, <2>2, <3>1
    <3>3. \E d \in CPU : pc'[d] \in InKernel
      BY <3>2
    <3>4. InKernel' = InKernel
      BY DEF InKernel
    <3> QED BY <3>1, <3>2, <3>3, <3>4 DEF KernelMutex
  <2>4. CASE GoesOut(c)
    <3>1. pc'[c] \notin InKernel /\ locked' = 0
      BY <2>4 DEF GoesOut
    <3> HIDE DEF LockInv, TypeOK, InKernel
    <3>2. \A d \in CPU : pc'[d] \notin InKernel
      BY <2>1, <2>2, <3>1
    <3>3. InKernel' = InKernel
      BY DEF InKernel
    <3> QED BY <3>1, <3>2, <3>3 DEF KernelMutex
  <2> QED BY <2>3, <2>4
<1>2. HaltedMark'
  BY DEF HaltedMark, StaysInside, GoesOut
<1>3. HasCurenv'
  BY DEF HasCurenv, StaysInside, GoesOut
<1> QED BY <1>1, <1>2, <1>3

LEMMA LockInit == Init => LockInv
<1> SUFFICES ASSUME Init PROVE LockInv
  OBVIOUS
<1> USE NENVAssumption, MaxGenAssumption, BootAssumption, NilAssumption
<1>1. env_free_list \in Seq(Slot)
  BY InitInv DEF Inv, TypeOK
<1>2. TypeOK
  BY <1>1 DEF Init, TypeOK, Status, Where, Spinning, InKernel, Slot
<1> QED BY <1>2 DEF Init, LockInv, KernelMutex, HaltedMark, HasCurenv, Where, Spinning, InKernel

(* An environment is destroyed by c, or c collects the zombie it ran.      *)
Ends(c, e) ==
  /\ \/ EnvDestroy(c, e)
     \/ EnvFree(e) /\ curenv' = [curenv EXCEPT ![c] = Nil] /\ Goto(c, "sched")
  /\ UNCHANGED <<cpu_status, locked>>

(* The free list after a push, and the types of what env_destroy changes.  *)
LEMMA EnvDestroyTypes ==
  ASSUME LockInv, NEW c \in CPU, NEW e \in Slot, pc[c] \in InKernel,
         Ends(c, e)
  PROVE  TypeOK' /\ StaysInside(c)
<1> USE DEF LockInv, TypeOK, Goto, Ends
<1>1. <<e>> \o env_free_list \in Seq(Slot)
  BY PushFree
<1>2. TypeOK'
  BY <1>1 DEF EnvDestroy, EnvFree, envVars, idVars, Status, Where, Spinning, InKernel
<1>3. StaysInside(c)
  BY DEF EnvDestroy, EnvFree, StaysInside
<1> QED BY <1>2, <1>3

LEMMA EnvRunTypes ==
  ASSUME LockInv, NEW c \in CPU, NEW e \in Slot, pc[c] \in InKernel, EnvRun(c, e)
  PROVE  TypeOK' /\ GoesOut(c)
<1> USE DEF LockInv, TypeOK, Goto, EnvRun
<1>1. Demoted(c) \in [Slot -> Status]
  BY DEF Demoted, Status
<1>2. env_status' \in [Slot -> Status]
  BY <1>1 DEF Status
<1>3. TypeOK'
  BY <1>2 DEF idVars, Where, Spinning, InKernel
<1>4. GoesOut(c)
  BY NilAssumption DEF GoesOut
<1> QED BY <1>3, <1>4

LEMMA LockHandler ==
  ASSUME LockInv, NEW c \in CPU, Handler(c)
  PROVE  LockInv'
<1> USE DEF LockInv
<1>0. /\ pc[c] = "entry" /\ pc[c] \in InKernel
      /\ curenv[c] \in Slot /\ env_id(curenv[c]) \in EnvId
  <2>1. pc[c] = "entry"
    BY DEF Handler, CollectZombie, HandleOther, HandleYield, HandleFatal, SysEnvDestroy,
           SysExofork, SysEnvSetStatus, SysIpcRecv, SysIpcTrySend, InHandler
  <2> QED BY <2>1 DEF HasCurenv, TypeOK, InKernel, env_id, EnvId
<1>1. CASE CollectZombie(c) \/ HandleFatal(c)
  <2> DEFINE e == curenv[c]
  <2>1. Ends(c, e)
    BY <1>1 DEF CollectZombie, HandleFatal, Ends
  <2>2. e \in Slot
    BY <1>0
  <2> HIDE DEF e
  <2>3. TypeOK' /\ StaysInside(c)
    BY <1>0, <2>1, <2>2, EnvDestroyTypes
  <2> QED BY <2>3, InsideKeepsLock
<1>2. CASE HandleOther(c) \/ HandleYield(c)
  <2>1. TypeOK'
    BY <1>2 DEF TypeOK, HandleOther, HandleYield, Goto, envVars, idVars, Status, Where,
                Spinning, InKernel
  <2>2. StaysInside(c)
    BY <1>0, <1>2 DEF HandleOther, HandleYield, StaysInside
  <2> QED BY <2>1, <2>2, InsideKeepsLock
<1>3. ASSUME NEW id, SysEnvDestroy(c, id) PROVE LockInv'
  <2>1. PICK e \in Slot : EnvDestroy(c, e)
    BY <1>3 DEF SysEnvDestroy
  <2>2. Ends(c, e)
    BY <1>3, <2>1 DEF SysEnvDestroy, Ends
  <2>3. TypeOK' /\ StaysInside(c)
    BY <1>0, <2>2, EnvDestroyTypes
  <2> QED BY <2>3, InsideKeepsLock
<1>4. CASE SysExofork(c)
  <2>1. Head(env_free_list) \in Slot /\ Tail(env_free_list) \in Seq(Slot)
    BY <1>4, PopFree DEF SysExofork, TypeOK
  <2>2. env_gen' \in [Slot -> 0 .. MaxGen]
    BY <1>4, <2>1, MaxGenAssumption DEF SysExofork, EnvAlloc, NextGeneration, TypeOK
  <2>3. TypeOK'
    BY <1>0, <1>4, <2>1, <2>2 DEF TypeOK, SysExofork, EnvAlloc, Goto, Status, Where,
         Spinning, InKernel
  <2>4. StaysInside(c)
    BY <1>0, <1>4 DEF SysExofork, StaysInside
  <2> QED BY <2>3, <2>4, InsideKeepsLock
<1>5. ASSUME NEW id, NEW status \in {"ENV_RUNNABLE", "ENV_NOT_RUNNABLE"},
             SysEnvSetStatus(c, id, status)
      PROVE  LockInv'
  <2>1. TypeOK'
    BY <1>5 DEF TypeOK, SysEnvSetStatus, Goto, envVars, idVars, Status, Where, Spinning, InKernel
  <2>2. StaysInside(c)
    BY <1>0, <1>5 DEF SysEnvSetStatus, StaysInside
  <2> QED BY <2>1, <2>2, InsideKeepsLock
<1>6. CASE SysIpcRecv(c)
  <2>1. TypeOK'
    BY <1>0, <1>6 DEF TypeOK, SysIpcRecv, Goto, idVars, Status, Where, Spinning, InKernel
  <2>2. StaysInside(c)
    BY <1>0, <1>6 DEF SysIpcRecv, StaysInside
  <2> QED BY <2>1, <2>2, InsideKeepsLock
<1>7. ASSUME NEW id, SysIpcTrySend(c, id) PROVE LockInv'
  <2>1. TypeOK'
    BY <1>7 DEF TypeOK, SysIpcTrySend, Goto, idVars, Status, Where, Spinning, InKernel
  <2>2. StaysInside(c)
    BY <1>0, <1>7 DEF SysIpcTrySend, StaysInside
  <2> QED BY <2>1, <2>2, InsideKeepsLock
<1> QED BY <1>1, <1>2, <1>3, <1>4, <1>5, <1>6, <1>7 DEF Handler

LEMMA LockOut ==
  ASSUME LockInv, NEW c \in CPU, TrapReturn(c) \/ Sched(c)
  PROVE  LockInv'
<1> USE DEF LockInv
<1>0. pc[c] \in InKernel
  BY DEF TrapReturn, Sched, SchedRun, SchedHalt, InKernel
<1>1. ASSUME NEW e \in Slot, EnvRun(c, e) PROVE LockInv'
  BY <1>0, <1>1, EnvRunTypes, InsideKeepsLock
<1>2. CASE TrapReturn(c)
  <2>1. CASE curenv[c] # Nil /\ env_status[curenv[c]] = "ENV_RUNNING"
    BY <1>1, <1>2, <2>1 DEF TrapReturn, TypeOK
  <2>2. CASE ~(curenv[c] # Nil /\ env_status[curenv[c]] = "ENV_RUNNING")
    <3>1. TypeOK'
      BY <1>2, <2>2 DEF TypeOK, TrapReturn, Goto, envVars, idVars, Status, Where, Spinning, InKernel
    <3>2. StaysInside(c)
      BY <1>0, <1>2, <2>2 DEF TrapReturn, StaysInside
    <3> QED BY <3>1, <3>2, InsideKeepsLock
  <2> QED BY <2>1, <2>2
<1>3. CASE SchedRun(c)
  BY <1>1, <1>3 DEF SchedRun
<1>4. CASE SchedHalt(c)
  <2>1. TypeOK'
    BY <1>4 DEF TypeOK, SchedHalt, Goto, envVars, idVars, Status, Where, Spinning, InKernel
  <2>2. StaysInside(c) \/ GoesOut(c)
    BY <1>0, <1>4 DEF TypeOK, SchedHalt, StaysInside, GoesOut
  <2> QED BY <2>1, <2>2, InsideKeepsLock
<1> QED BY <1>2, <1>3, <1>4 DEF Sched

LEMMA LockIn ==
  ASSUME LockInv, NEW c \in CPU,
         TrapFromUser(c) \/ InterruptWhileHalted(c) \/ AcquireLock(c)
  PROVE  LockInv'
<1> USE DEF LockInv, TypeOK, Goto, envVars, idVars, Status, Where, Spinning, InKernel,
            TrapFromUser, InterruptWhileHalted, AcquireLock
<1>1. TypeOK'
  BY DEF HaltedMark
<1>2. KernelMutex'
  BY DEF KernelMutex, HaltedMark
<1>3. HaltedMark'
  BY DEF HaltedMark
<1>4. HasCurenv'
  BY DEF HasCurenv
<1> QED BY <1>1, <1>2, <1>3, <1>4

LEMMA LockNext == LockInv /\ [Next]_vars => LockInv'
<1> SUFFICES ASSUME LockInv, [Next]_vars PROVE LockInv'
  OBVIOUS
<1>1. ASSUME UNCHANGED vars PROVE LockInv'
  BY <1>1 DEF LockInv, TypeOK, KernelMutex, HaltedMark, HasCurenv, vars, envVars, idVars
<1> QED BY <1>1, LockIn, LockHandler, LockOut DEF Next, MonitorLoop

(* Whatever programs do, types, lock and halt marks are kept.              *)
LEMMA LockInvariance == Spec => []LockInv
BY LockInit, LockNext, PTL DEF Spec

(* Every variable keeps its type: among others the links of the free list and
   every curenv stay inside envs[]. *)
THEOREM TypeCorrect == Spec => []TypeOK
BY LockInvariance, PTL DEF LockInv

(* At most one CPU is between lock_kernel and the unlock_kernel of env_run or
   sched_halt, and the lock is taken exactly then, whatever programs ask of the
   kernel. *)
THEOREM LockIsExclusive == Spec => []KernelMutex
BY LockInvariance, PTL DEF LockInv

(* cpu_status is CPU_HALTED exactly while the CPU is in its hlt, whatever
   programs ask of the kernel. *)
THEOREM HaltedCpusAreMarked == Spec => []HaltedMark
BY LockInvariance, PTL DEF LockInv

(* Nobody can end an environment but itself, its parent, or a trap of its  *)
(* own that the kernel refuses: no other handler and no way in or out of   *)
(* the kernel makes a live slot dying or free, and the parent's right does *)
(* not pass to whoever has the parent's slot later (envid2env).            *)
THEOREM OnlyParentOrSelfKills == Spec => KilledByParentOrSelf
<1> DEFINE Ended(s) == /\ env_status[s] \notin {"ENV_FREE", "ENV_DYING"}
                       /\ env_status'[s] \in {"ENV_FREE", "ENV_DYING"}
           Right(c, s) == /\ pc[c] = "entry"
                          /\ curenv[c] = s \/ env_parent_id[s] = env_id(curenv[c])
           A == \A s \in Slot :
                  env_status[s] \notin {"ENV_FREE", "ENV_DYING"}
                    /\ env_status'[s] \in {"ENV_FREE", "ENV_DYING"} =>
                  \E c \in CPU : /\ pc[c] = "entry"
                                 /\ \/ curenv[c] = s
                                    \/ env_parent_id[s] = env_id(curenv[c])
<1>1. ASSUME LockInv, Next PROVE A
  <2> SUFFICES ASSUME NEW s \in Slot, Ended(s) PROVE \E c \in CPU : Right(c, s)
    OBVIOUS
  <2>0. env_status \in [Slot -> Status] /\ curenv \in [CPU -> Slot \cup {Nil}]
    BY <1>1 DEF LockInv, TypeOK
  <2>1. ASSUME UNCHANGED env_status PROVE FALSE
    BY <2>1
  <2>2. ASSUME NEW e \in Slot, NEW v \in Status \ {"ENV_FREE", "ENV_DYING"},
               env_status' = [env_status EXCEPT ![e] = v]
        PROVE  FALSE
    BY <2>0, <2>2
  <2>3. ASSUME NEW c \in CPU, NEW e \in Slot, EnvDestroy(c, e) PROVE s = e
    BY <2>0, <2>3 DEF EnvDestroy, EnvFree
  <2>4. ASSUME NEW c \in CPU, InHandler(c) PROVE curenv[c] \in Slot /\ pc[c] = "entry"
    BY <1>1, <2>0, <2>4 DEF LockInv, HasCurenv, InHandler
  <2>5. ASSUME NEW c \in CPU, Handler(c) PROVE Right(c, s)
    <3>1. ASSUME CollectZombie(c) PROVE FALSE
      BY <3>1, <2>0 DEF CollectZombie, EnvFree
    <3>2. CASE HandleOther(c) \/ HandleYield(c)
      BY <3>2, <2>1 DEF HandleOther, HandleYield
    <3>3. CASE HandleFatal(c)
      BY <3>3, <2>3, <2>4 DEF HandleFatal
    <3>4. ASSUME NEW id, SysEnvDestroy(c, id) PROVE Right(c, s)
      <4>1. PICK e \in Slot : Envid2env(c, id, e, TRUE) /\ EnvDestroy(c, e)
        BY <3>4 DEF SysEnvDestroy
      <4>2. s = e /\ pc[c] = "entry"
        BY <3>4, <4>1, <2>3, <2>4 DEF SysEnvDestroy
      <4> QED BY <4>1, <4>2 DEF Envid2env
    <3>5. CASE SysExofork(c)
      <4>1. Head(env_free_list) \in Slot
        BY <3>5, <1>1, PopFree DEF SysExofork, LockInv, TypeOK
      <4> QED BY <3>5, <4>1, <2>2 DEF SysExofork, Status
    <3>6. ASSUME NEW id, NEW status \in {"ENV_RUNNABLE", "ENV_NOT_RUNNABLE"},
                 SysEnvSetStatus(c, id, status)
          PROVE  FALSE
      BY <3>6, <2>2 DEF SysEnvSetStatus, Status
    <3>7. CASE SysIpcRecv(c)
      BY <3>7, <2>2, <2>4 DEF SysIpcRecv, Status
    <3>8. ASSUME NEW id, SysIpcTrySend(c, id) PROVE FALSE
      BY <3>8, <2>2 DEF SysIpcTrySend, Status
    <3> QED BY <2>5, <3>1, <3>2, <3>3, <3>4, <3>5, <3>6, <3>7, <3>8 DEF Handler
  <2>6. ASSUME NEW c \in CPU, NEW e \in Slot, EnvRun(c, e) PROVE FALSE
    BY <2>0, <2>6 DEF EnvRun, Demoted
  <2>7. ASSUME NEW c \in CPU, TrapReturn(c) \/ Sched(c) PROVE FALSE
    BY <2>0, <2>7, <2>1, <2>6 DEF TrapReturn, Sched, SchedRun, SchedHalt
  <2>8. PICK c \in CPU : Handler(c)
    BY <1>1, <2>1, <2>7
       DEF Next, TrapFromUser, InterruptWhileHalted, AcquireLock, MonitorLoop, vars
  <2> QED BY <2>8, <2>5
<1>2. LockInv /\ [Next]_vars => [A]_vars
  BY <1>1
<1> QED BY <1>2, LockInvariance, PTL DEF Spec, KilledByParentOrSelf
=============================================================================
