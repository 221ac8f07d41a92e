------------------------------ MODULE Threads --------------------------------
(***************************************************************************)
(* The threads, semaphores and mailboxes under lwIP (net/lwip/jos/arch:    *)
(* thread.c, sys_arch.c).  The threads share one environment and switch    *)
(* only in thread_yield.  All that they share is the record k; an operator *)
(* with the name of a C function gives the record after its call.  Waits   *)
(* are without a time limit.                                               *)
(***************************************************************************)
EXTENDS Integers, Sequences, FiniteSetsExt, SequencesExt

CONSTANTS
  Thread,
  NSEM, NMBOX, MBOXSLOTS

ASSUME ThreadsAssumption ==
  /\ NSEM \in Nat \ {0} /\ NMBOX \in Nat \ {0} /\ MBOXSLOTS \in Nat \ {0}

Sem == 0 .. NSEM - 1
Mbox == 0 .. NMBOX - 1
NULL == -1

VARIABLES
  k,      \* [sem, sem_free, mbox, mbox_free, tc]
  queue,  \* Seq(Thread): thread_queue
  cur     \* the thread that runs

(* Outside thread_wait tc_wait_addr is 0; gen is the local variable of     *)
(* sys_arch_sem_wait.                                                      *)
Running == [addr |-> NULL, gen |-> 0, wakeup |-> FALSE]

(* sys_init: LIST_INSERT_HEAD leaves the last entry first.                 *)
sys_init ==
  [sem |-> [s \in Sem |-> [freed |-> TRUE, gen |-> 0, counter |-> 0, waiters |-> FALSE]],
   sem_free |-> [i \in 1 .. NSEM |-> NSEM - i],
   mbox |-> [m \in Mbox |-> [freed |-> TRUE, head |-> NULL, nextq |-> 0, msg |-> <<>>,
                             queued_msg |-> NULL, free_msg |-> NULL]],
   mbox_free |-> [i \in 1 .. NMBOX |-> NMBOX - i],
   tc |-> [t \in Thread |-> Running]]

-----------------------------------------------------------------------------
(* Threads                                                                 *)

thread_wakeup(s, x) ==
  [x EXCEPT !.tc = [t \in Thread |-> [x.tc[t] EXCEPT !.wakeup = @ \/ x.tc[t].addr = s]]]

thread_wakeups_pending == \E i \in DOMAIN queue : k.tc[queue[i]].wakeup

(* A thread in thread_wait goes on if it was woken or the word at its      *)
(* address has changed: it went to sleep with counter 0 and waiters 1.     *)
Awake(t, x) ==
  LET w == x.tc[t] IN
  w.addr # NULL => w.wakeup \/ x.sem[w.addr].counter > 0 \/ ~x.sem[w.addr].waiters

(* Variant: the threads that are passed over change their order.           *)
Switch_Reverses(q, x) ==
  LET i == Min({j \in DOMAIN q : Awake(q[j], x)}) IN
  /\ k' = x
  /\ cur' = q[i]
  /\ queue' = SubSeq(q, i + 1, Len(q)) \o Reverse(SubSeq(q, 1, i - 1))

(* thread_yield, with the running thread at the end of q or not in it.     *)
(* A thread that is not awake goes straight to the end of the queue.       *)
Switch(q, x) ==
  LET i == Min({j \in DOMAIN q : Awake(q[j], x)}) IN
  /\ k' = x
  /\ cur' = q[i]
  /\ queue' = SubSeq(q, i + 1, Len(q)) \o SubSeq(q, 1, i - 1)

thread_yield(x) == Switch(Append(queue, cur), x)

(* Variant: the thread stays in the queue.                                 *)
thread_halt_StaysQueued(x) == Switch(Append(queue, cur), x)

thread_halt(x) == Switch(queue, x)

-----------------------------------------------------------------------------
(* Semaphores                                                              *)

sys_sem_new(count, x) ==
  LET s == Head(x.sem_free) IN
  [x EXCEPT !.sem_free = Tail(@),
            !.sem[s] = [@ EXCEPT !.freed = FALSE, !.counter = count, !.gen = @ + 1]]

sys_sem_free(s, x) ==
  [x EXCEPT !.sem_free = <<s>> \o @,
            !.sem[s] = [@ EXCEPT !.freed = TRUE, !.gen = @ + 1]]

(* Variant: the flag is not looked at again, and the sleeper not woken.    *)
sys_sem_signal_NoWakeup(s, x) == [x EXCEPT !.sem[s].counter = @ + 1, !.sem[s].waiters = FALSE]

sys_sem_signal(s, x) ==
  LET y == [x EXCEPT !.sem[s].counter = @ + 1, !.sem[s].waiters = FALSE] IN
  IF x.sem[s].waiters THEN thread_wakeup(s, y) ELSE y

(* sys_arch_sem_wait by t on s, or on the semaphore on which t slept.      *)
Waits(t, s) == IF k.tc[t].addr = NULL THEN s ELSE k.tc[t].addr
Gen(t, s) == IF k.tc[t].addr = NULL THEN k.sem[s].gen ELSE k.tc[t].gen

(* The semaphore was freed under the waiter: SYS_ARCH_TIMEOUT.             *)
Broken(t, s) == Gen(t, s) # k.sem[Waits(t, s)].gen
Acquires(t, s) == ~Broken(t, s) /\ k.sem[Waits(t, s)].counter > 0
Blocks(t, s) == ~Broken(t, s) /\ k.sem[Waits(t, s)].counter = 0

(* After the wait, with the count taken or not.                            *)
Acquired(t, s) == [k EXCEPT !.sem[Waits(t, s)].counter = @ - 1, !.tc[t] = Running]
GivenUp(t) == [k EXCEPT !.tc[t] = Running]

Block(t, s) ==
  thread_yield([k EXCEPT !.sem[Waits(t, s)].waiters = TRUE,
                         !.tc[t] = [addr |-> Waits(t, s), gen |-> Gen(t, s), wakeup |-> FALSE]])

-----------------------------------------------------------------------------
(* Mailboxes.  A slot is empty again once its message is fetched.          *)

NoMsg == [n |-> NULL]

sys_mbox_new(x) ==
  LET m == Head(x.mbox_free)
      q == Head(x.sem_free)
      f == x.sem_free[2]
      y == sys_sem_new(MBOXSLOTS, sys_sem_new(0, x)) IN
  [y EXCEPT !.mbox_free = Tail(@),
            !.mbox[m] = [freed |-> FALSE, head |-> NULL, nextq |-> 0,
                         msg |-> [i \in 0 .. MBOXSLOTS - 1 |-> NoMsg],
                         queued_msg |-> q, free_msg |-> f]]

sys_mbox_free(m, x) ==
  LET y == sys_sem_free(x.mbox[m].free_msg, sys_sem_free(x.mbox[m].queued_msg, x)) IN
  [y EXCEPT !.mbox_free = <<m>> \o @, !.mbox[m].freed = TRUE]

(* sys_mbox_trypost, once the wait for free_msg is over                    *)
MboxFull(m, x) == x.mbox[m].nextq = x.mbox[m].head

Posted(m, msg, x) ==
  LET b == x.mbox[m] IN
  sys_sem_signal(b.queued_msg,
    [x EXCEPT !.mbox[m].msg[b.nextq] = msg,
              !.mbox[m].nextq = (b.nextq + 1) % MBOXSLOTS,
              !.mbox[m].head = IF b.head = NULL THEN b.nextq ELSE b.head])

(* sys_arch_mbox_fetch, once the wait for queued_msg is over               *)
MboxHead(m, x) == x.mbox[m].msg[x.mbox[m].head]

(* Variant: the sender that waits for room is not told.                    *)
Fetched_NoSignal(m, x) ==
  LET b == x.mbox[m]
      next == (b.head + 1) % MBOXSLOTS IN
  [x EXCEPT !.mbox[m].msg[b.head] = NoMsg,
            !.mbox[m].head = IF next = b.nextq THEN NULL ELSE next]

Fetched(m, x) ==
  LET b == x.mbox[m]
      next == (b.head + 1) % MBOXSLOTS IN
  sys_sem_signal(b.free_msg,
    [x EXCEPT !.mbox[m].msg[b.head] = NoMsg,
              !.mbox[m].head = IF next = b.nextq THEN NULL ELSE next])

-----------------------------------------------------------------------------

(* The messages of a mailbox, the oldest first.                            *)
Messages(m) ==
  LET b == k.mbox[m]
      n == IF b.head = NULL THEN 0 ELSE ((b.nextq - b.head + MBOXSLOTS - 1) % MBOXSLOTS) + 1 IN
  [i \in 1 .. n |-> b.msg[(b.head + i - 1) % MBOXSLOTS]]

(* The two semaphores of a mailbox count its messages and its free slots:  *)
(* sys_arch_mbox_fetch never finds an empty mailbox (sys_arch.c:214), nor  *)
(* sys_mbox_trypost a full one.                                            *)
CountsMatch ==
  \A m \in Mbox : ~k.mbox[m].freed =>
    /\ k.sem[k.mbox[m].queued_msg].counter = Len(Messages(m))
    /\ k.sem[k.mbox[m].free_msg].counter = MBOXSLOTS - Len(Messages(m))
=============================================================================
