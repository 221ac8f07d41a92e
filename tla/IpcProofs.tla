------------------------------ MODULE IpcProofs ------------------------------
(* Proofs about Ipc, for any set of environments, values, pages and        *)
(* buffers: message passing is type-correct and implements Rendezvous.     *)
EXTENDS Ipc, TLAPS

(* Where a program is decides what its struct Env holds.  A sender has its *)
(* arguments.  A receiver either waits, marked as receiving and not        *)
(* runnable, or has been woken with a sender and a value in place.  Nobody *)
(* else alive is marked as receiving, so nobody can be woken twice.        *)
Placed ==
  \A e \in Env :
    /\ pc[e] = "gone" <=> env_status[e] = "ENV_FREE"
    /\ pc[e] = "ipc_send" => arg[e] \in Args
    /\ pc[e] = "ipc_recv" =>
         /\ env_ipc_recving[e] <=> env_status[e] = "ENV_NOT_RUNNABLE"
         /\ ~env_ipc_recving[e] => env_ipc_from[e] \in Env /\ env_ipc_value[e] \in Value
    /\ env_ipc_recving[e] => pc[e] \in {"ipc_recv", "gone"}

IpcInv == TypeOK /\ Placed

LEMMA IpcInit == Init => IpcInv
BY DistinctAssumption DEF Init, IpcInv, TypeOK, Placed, Status, Where

LEMMA ReceivedType ==
  ASSUME IpcInv, NEW e \in Env, pc[e] = "ipc_recv", ~env_ipc_recving[e]
  PROVE  Received(e) \in Result
BY DEF IpcInv, TypeOK, Placed, Received, Result

LEMMA IpcStep == IpcInv /\ [Next]_vars => IpcInv'
<1> SUFFICES ASSUME IpcInv, [Next]_vars PROVE IpcInv'
  OBVIOUS
<1> USE DEF IpcInv, TypeOK, Placed, Status, Where
<1>1. CASE UNCHANGED vars
  BY <1>1 DEF vars, fields
<1>2. ASSUME NEW e \in Env, NEW a \in Args, IpcSend(e, a) PROVE IpcInv'
  BY <1>2 DEF IpcSend, fields
<1>3. ASSUME NEW e \in Env, TrySendNotRecv(e) \/ IpcRecvInval(e) PROVE IpcInv'
  BY <1>3 DEF TrySendNotRecv, IpcRecvInval, fields
<1>4. ASSUME NEW e \in Env, TrySendBadEnv(e) PROVE IpcInv'
  BY <1>4 DEF TrySendBadEnv, SendEnds, fields
<1>5. ASSUME NEW e \in Env, TrySendInval(e) PROVE IpcInv'
  BY <1>5 DEF TrySendInval, SendEnds, fields
<1>6. ASSUME NEW e \in Env, TrySend(e) PROVE IpcInv'
  BY <1>6, DistinctAssumption DEF TrySend, Wake, WantsPage, SendEnds, Args
<1>7. ASSUME NEW e \in Env, TrySendNoMem(e) PROVE IpcInv'
  BY <1>7 DEF TrySendNoMem, Wake, WantsPage, SendEnds, Args, E_NO_MEM
<1>8. ASSUME NEW e \in Env, NEW b \in Buf \cup {NoPage}, IpcRecv(e, b) PROVE IpcInv'
  BY <1>8 DEF IpcRecv
<1>9. ASSUME NEW e \in Env, IpcRecvReturn(e) PROVE IpcInv'
  <2>1. Received(e) \in Result
    BY <1>9, ReceivedType DEF IpcRecvReturn
  <2> QED BY <1>9, <2>1 DEF IpcRecvReturn, fields
<1>10. ASSUME NEW e \in Env, Gone(e) PROVE IpcInv'
  BY <1>10 DEF Gone, fields
<1> QED BY <1>1, <1>2, <1>3, <1>4, <1>5, <1>6, <1>7, <1>8, <1>9, <1>10 DEF Next

(* The IPC fields of struct Env stay of their types, and whoever is in     *)
(* ipc_send or ipc_recv is where sys_ipc_try_send and sys_ipc_recv left it *)
(* (Placed).                                                               *)
THEOREM IpcInvariance == Spec => []IpcInv
BY IpcInit, IpcStep, PTL DEF Spec

(* Every variable of the message passing keeps its type.                   *)
THEOREM IpcTypes == Spec => []TypeOK
BY IpcInvariance, PTL DEF IpcInv

-----------------------------------------------------------------------------
(* The refinement.  Each action of Ipc is a step of Rendezvous or leaves   *)
(* what is sent, waited for, delivered and returned as it was.             *)

LEMMA InitImplements == Init => R!Init
BY DEF Init, R!Init, Sending, Waiting, Inbox

(* ipc_send begins; a message whose page will be refused is not one that   *)
(* the sender can deliver.                                                 *)
LEMMA IpcSendImplements ==
  ASSUME IpcInv, NEW e \in Env, NEW a \in Args, IpcSend(e, a)
  PROVE  (\E m \in R!Message : R!BeginSend(e, m)) \/ UNCHANGED R!vars
<1> USE DEF IpcSend, fields
<1>1. Waiting' = Waiting
  BY DEF IpcInv, TypeOK, Waiting
<1>2. Inbox' = Inbox
  BY DEF IpcInv, TypeOK, Inbox, Received
<1>3. CASE a.pg = BadPage
  <2>1. Sending' = Sending
    BY <1>3 DEF IpcInv, TypeOK, Sending
  <2> QED BY <1>1, <1>2, <2>1 DEF R!vars
<1>4. CASE a.pg # BadPage
  <2>1. a \in R!Message
    BY <1>4 DEF Args, R!Message
  <2>2. Sending' = [Sending EXCEPT ![e] = a]
    BY <1>4 DEF IpcInv, TypeOK, Sending
  <2>3. R!Idle(e)
    BY DEF R!Idle, Sending, Waiting, Inbox
  <2> QED BY <1>1, <1>2, <2>1, <2>2, <2>3 DEF R!BeginSend
<1> QED BY <1>3, <1>4

(* The sender fails before anything was delivered.                         *)
LEMMA SendFailsImplements ==
  ASSUME IpcInv, NEW e \in Env, TrySendBadEnv(e) \/ TrySendInval(e)
  PROVE  R!Abandon(e)
<1> USE DEF TrySendBadEnv, TrySendInval, SendEnds, fields
<1>1. Waiting' = [Waiting EXCEPT ![e] = "no"]
  BY DEF IpcInv, TypeOK, Waiting
<1>2. Inbox' = [Inbox EXCEPT ![e] = Nil]
  <2>1. \A x \in Env : Received(x)' = Received(x)
    BY DEF Received
  <2>2. env_ipc_recving' = env_ipc_recving
    OBVIOUS
  <2>3. pc[e] # "ipc_recv" /\ pc'[e] # "ipc_recv"
    BY DEF IpcInv, TypeOK
  <2>4. \A x \in Env \ {e} : pc'[x] = pc[x]
    BY DEF IpcInv, TypeOK
  <2> QED BY <2>1, <2>2, <2>3, <2>4 DEF Inbox
<1>3. Sending' = [Sending EXCEPT ![e] = Nil]
  BY DEF IpcInv, TypeOK, Sending
<1> QED BY <1>1, <1>2, <1>3 DEF R!Abandon

(* sys_ipc_try_send has woken the receiver: what both ways on have in      *)
(* common.  The receiver is in ipc_recv, since it is alive and marked.     *)
LEMMA WakeImplements ==
  ASSUME IpcInv, NEW e \in Env, NEW to \in Env, to = arg[e].to, Wake(e, to),
         pc' \in {[pc EXCEPT ![e] = "user"], [pc EXCEPT ![e] = "panic"]},
         arg' = [arg EXCEPT ![e] = Nil]
  PROVE  /\ e # to /\ arg[e] \in Args /\ pc[to] = "ipc_recv"
         /\ Sending[e] = arg[e] /\ Sending[e] # Nil
         /\ Waiting[to] = IF env_ipc_dstva[to] = NoPage THEN "value" ELSE "page"
         /\ Sending' = [Sending EXCEPT ![e] = Nil]
         /\ Waiting' = [Waiting EXCEPT ![to] = "no"]
<1>1. e # to /\ arg[e] \in Args /\ pc[to] = "ipc_recv"
  BY DEF Wake, IpcInv, TypeOK, Placed
<1>2. Sending[e] = arg[e] /\ Sending[e] # Nil
  BY <1>1, DistinctAssumption DEF Wake, Sending
<1>3. Waiting[to] = IF env_ipc_dstva[to] = NoPage THEN "value" ELSE "page"
  BY <1>1 DEF Wake, Waiting
<1>4. Sending' = [Sending EXCEPT ![e] = Nil]
  BY <1>1 DEF Wake, IpcInv, TypeOK, Sending
<1>5. Waiting' = [Waiting EXCEPT ![to] = "no"]
  BY <1>1 DEF Wake, IpcInv, TypeOK, Waiting
<1> QED BY <1>1, <1>2, <1>3, <1>4, <1>5

(* The message arrives, with its page if the receiver wants one.           *)
LEMMA TrySendImplements ==
  ASSUME IpcInv, NEW e \in Env, TrySend(e)
  PROVE  \E r \in Env : R!Exchange(e, r)
<1>1. PICK to \in Env : to = arg[e].to
  BY DEF TrySend, Wake, IpcInv, Placed, Args
<1>2. /\ e # to /\ arg[e] \in Args /\ pc[to] = "ipc_recv"
      /\ Sending[e] = arg[e] /\ Sending[e] # Nil
      /\ Waiting[to] = IF env_ipc_dstva[to] = NoPage THEN "value" ELSE "page"
      /\ Sending' = [Sending EXCEPT ![e] = Nil]
      /\ Waiting' = [Waiting EXCEPT ![to] = "no"]
  BY <1>1, WakeImplements DEF TrySend, SendEnds
<1>d. PICK d : d = [from |-> e, val |-> arg[e].val,
                    perm |-> WantsPage(e, to),
                    pg |-> IF env_ipc_dstva[to] # NoPage THEN arg[e].pg ELSE NoPage]
  OBVIOUS
<1>3. Received(to)' = d
  BY <1>1, <1>d, <1>2, DistinctAssumption DEF TrySend, Wake, WantsPage, Received, IpcInv, TypeOK
<1>4. ASSUME NEW x \in Env, x # to, pc[x] = "ipc_recv"
      PROVE  Received(x)' = Received(x)
  BY <1>1, <1>4 DEF TrySend, Wake, WantsPage, Received, IpcInv, TypeOK
<1>5. Inbox' = [Inbox EXCEPT ![to] = d]
  BY <1>1, <1>2, <1>3, <1>4 DEF TrySend, Wake, SendEnds, Inbox, IpcInv, TypeOK
<1>6. R!Exchange(e, to)
  BY <1>1, <1>d, <1>2, <1>5 DEF R!Exchange, TrySend, WantsPage, SendEnds
<1> QED BY <1>1, <1>6

(* The value arrives without its page, and with the permission that the    *)
(* message before it left in env_ipc_perm.                                 *)
LEMMA TrySendNoMemImplements ==
  ASSUME IpcInv, NEW e \in Env, TrySendNoMem(e)
  PROVE  \E r \in Env : R!Torn(e, r)
<1>1. PICK to \in Env : to = arg[e].to
  BY DEF TrySendNoMem, Wake, IpcInv, Placed, Args
<1>2. /\ e # to /\ arg[e] \in Args /\ pc[to] = "ipc_recv"
      /\ Sending[e] = arg[e] /\ Sending[e] # Nil
      /\ Waiting[to] = IF env_ipc_dstva[to] = NoPage THEN "value" ELSE "page"
      /\ Sending' = [Sending EXCEPT ![e] = Nil]
      /\ Waiting' = [Waiting EXCEPT ![to] = "no"]
  BY <1>1, WakeImplements DEF TrySendNoMem, SendEnds
<1>d. PICK d : d = [from |-> e, val |-> arg[e].val, perm |-> env_ipc_perm[to], pg |-> NoPage]
  OBVIOUS
<1>3. Received(to)' = d
  BY <1>1, <1>d, <1>2 DEF TrySendNoMem, Wake, Received, IpcInv, TypeOK
<1>4. ASSUME NEW x \in Env, x # to, pc[x] = "ipc_recv"
      PROVE  Received(x)' = Received(x)
  BY <1>1, <1>4 DEF TrySendNoMem, Wake, Received, IpcInv, TypeOK
<1>5. Inbox' = [Inbox EXCEPT ![to] = d]
  BY <1>1, <1>2, <1>3, <1>4 DEF TrySendNoMem, Wake, SendEnds, Inbox, IpcInv, TypeOK
<1>6. env_ipc_perm[to] \in BOOLEAN
  BY DEF IpcInv, TypeOK
<1>7. R!Torn(e, to)
  BY <1>1, <1>d, <1>2, <1>5, <1>6 DEF R!Torn, TrySendNoMem, WantsPage, SendEnds
<1> QED BY <1>1, <1>7

LEMMA IpcRecvImplements ==
  ASSUME IpcInv, NEW e \in Env, NEW b \in Buf \cup {NoPage}, IpcRecv(e, b)
  PROVE  \E w \in {"value", "page"} : R!BeginReceive(e, w)
<1> DEFINE w == IF b = NoPage THEN "value" ELSE "page"
<1> USE DEF IpcRecv
<1>1. Sending' = Sending
  BY DEF IpcInv, TypeOK, Sending
<1>2. Waiting' = [Waiting EXCEPT ![e] = w]
  BY DEF IpcInv, TypeOK, Waiting
<1>3. Inbox' = Inbox
  BY DEF IpcInv, TypeOK, Inbox, Received
<1>4. R!Idle(e)
  BY DEF R!Idle, Sending, Waiting, Inbox
<1> QED BY <1>1, <1>2, <1>3, <1>4 DEF R!BeginReceive

LEMMA IpcRecvReturnImplements ==
  ASSUME IpcInv, NEW e \in Env, IpcRecvReturn(e)
  PROVE  R!Take(e)
<1> USE DEF IpcRecvReturn, fields
<1>1. ~env_ipc_recving[e]
  BY DEF IpcInv, Placed
<1>2. Inbox[e] = Received(e) /\ Inbox[e] # Nil
  BY <1>1, ReceivedType, DistinctAssumption DEF Inbox
<1>3. Sending' = Sending
  BY DEF IpcInv, TypeOK, Sending
<1>4. Waiting' = Waiting
  BY <1>1 DEF IpcInv, TypeOK, Waiting
<1>5. Inbox' = [Inbox EXCEPT ![e] = Nil]
  BY DEF IpcInv, TypeOK, Inbox, Received
<1> QED BY <1>2, <1>3, <1>4, <1>5 DEF R!Take

LEMMA GoneImplements ==
  ASSUME IpcInv, NEW e \in Env, Gone(e)
  PROVE  R!Abandon(e)
<1> USE DEF Gone, fields
<1>1. Waiting' = [Waiting EXCEPT ![e] = "no"]
  BY DEF IpcInv, TypeOK, Waiting
<1>2. Inbox' = [Inbox EXCEPT ![e] = Nil]
  BY DEF IpcInv, TypeOK, Inbox, Received
<1>3. Sending' = [Sending EXCEPT ![e] = Nil]
  BY DEF IpcInv, TypeOK, Sending
<1> QED BY <1>1, <1>2, <1>3 DEF R!Abandon

(* Nothing changes: a failed check, a retry, or a stuttering step.         *)
LEMMA NothingImplements ==
  ASSUME UNCHANGED vars
  PROVE  UNCHANGED R!vars
BY DEF vars, fields, R!vars, Sending, Waiting, Inbox, Received

(* Every step but that of a page that finds no memory.                     *)
LEMMA NextImplements ==
  ASSUME IpcInv, [Next]_vars, UNCHANGED vars \/ MemoryLasts
  PROVE  [R!Next]_(R!vars)
<1>1. CASE UNCHANGED vars
  BY <1>1, NothingImplements
<1>2. ASSUME NEW e \in Env, NEW a \in Args, IpcSend(e, a) PROVE [R!Next]_(R!vars)
  BY <1>2, IpcSendImplements DEF R!Next
<1>3. ASSUME NEW e \in Env, TrySendNotRecv(e) \/ IpcRecvInval(e) PROVE [R!Next]_(R!vars)
  BY <1>3, NothingImplements DEF TrySendNotRecv, IpcRecvInval, vars
<1>4. ASSUME NEW e \in Env, TrySendBadEnv(e) \/ TrySendInval(e) \/ Gone(e)
      PROVE  [R!Next]_(R!vars)
  BY <1>4, SendFailsImplements, GoneImplements DEF R!Next
<1>5. ASSUME NEW e \in Env, TrySend(e) PROVE [R!Next]_(R!vars)
  BY <1>5, TrySendImplements DEF R!Next
<1>6. ASSUME NEW e \in Env, NEW b \in Buf \cup {NoPage}, IpcRecv(e, b)
      PROVE  [R!Next]_(R!vars)
  BY <1>6, IpcRecvImplements DEF R!Next
<1>7. ASSUME NEW e \in Env, IpcRecvReturn(e) PROVE [R!Next]_(R!vars)
  BY <1>7, IpcRecvReturnImplements DEF R!Next
<1> QED BY <1>1, <1>2, <1>3, <1>4, <1>5, <1>6, <1>7 DEF Next, MemoryLasts

(* sys_ipc_try_send, sys_ipc_recv and the loops of lib/ipc.c implement     *)
(* Rendezvous as long as page_insert finds memory: a message goes to one   *)
(* receiver, once and unmixed, whatever senders race for it and whoever    *)
(* ends in the middle of it; a send that fails delivered nothing, and the  *)
(* permission tells whether a page came.                                   *)
THEOREM IpcIsRendezvous == Spec /\ [][MemoryLasts]_vars => R!Spec
<1>1. IpcInv /\ [Next]_vars /\ [MemoryLasts]_vars => [R!Next]_(R!vars)
  BY NextImplements
<1> QED BY <1>1, InitImplements, IpcInvariance, PTL DEF Spec, R!Spec

(* Without that assumption they implement the rendezvous in which a        *)
(* message may also be torn: its sender is told that it failed, and its    *)
(* receiver gets the value, no page and a permission that says nothing.    *)
(* That is all that a lack of memory does.                                 *)
THEOREM IpcIsRendezvousOrTorn == Spec => RendezvousOrTorn
<1>1. IpcInv /\ [Next]_vars => [R!Next \/ \E s, r \in Env : R!Torn(s, r)]_(R!vars)
  <2>1. CASE UNCHANGED vars \/ MemoryLasts
    BY <2>1, NextImplements
  <2>2. CASE ~MemoryLasts
    BY <2>2, TrySendNoMemImplements DEF MemoryLasts
  <2> QED BY <2>1, <2>2
<1> QED BY <1>1, InitImplements, IpcInvariance, PTL DEF Spec, RendezvousOrTorn, R!TornSpec
=============================================================================
