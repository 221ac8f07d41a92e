----------------------------- MODULE Rendezvous -----------------------------
(* What JOS gives its users as message passing: a message goes from one    *)
(* sender to one waiting receiver in a single step and the receiver then   *)
(* gets exactly that message, once.  A send that ends in an error has not  *)
(* been delivered ("The ipc only happens when no errors occur", comment of *)
(* sys_ipc_try_send), and the permission that a receive returns is "nonzero*)
(* iff a page was successfully transferred" (comment of ipc_recv): Spec.   *)
(* TornSpec is what is left of this when the kernel has no memory for the  *)
(* page.                                                                   *)

CONSTANTS Env, Value, Page, NoPage, None

VARIABLES
  sending,  \* [Env -> Message \cup {None}]: what a sender wants to deliver
  waiting,  \* [Env -> {"no", "value", "page"}]: what a receiver waits for
  inbox,    \* [Env -> Delivery \cup {None}]: delivered, not yet returned
  got       \* [Env -> Delivery \cup {None}]: what the last receive returned

Message == [to : Env, val : Value, pg : Page \cup {NoPage}]
Delivery == [from : Env, val : Value, perm : BOOLEAN, pg : Page \cup {NoPage}]

vars == <<sending, waiting, inbox, got>>

Init ==
  /\ sending = [e \in Env |-> None]
  /\ waiting = [e \in Env |-> "no"]
  /\ inbox = [e \in Env |-> None]
  /\ got = [e \in Env |-> None]

Idle(e) == sending[e] = None /\ waiting[e] = "no" /\ inbox[e] = None

BeginSend(e, m) ==
  /\ Idle(e)
  /\ sending' = [sending EXCEPT ![e] = m]
  /\ UNCHANGED <<waiting, inbox, got>>

BeginReceive(e, w) ==
  /\ Idle(e)
  /\ waiting' = [waiting EXCEPT ![e] = w]
  /\ UNCHANGED <<sending, inbox, got>>

(* A receiver that asks for no page gets none, and is told so.             *)
Exchange(s, r) ==
  LET pg == IF waiting[r] = "page" THEN sending[s].pg ELSE NoPage IN
  /\ sending[s] # None
  /\ sending[s].to = r
  /\ waiting[r] # "no"
  /\ sending' = [sending EXCEPT ![s] = None]
  /\ waiting' = [waiting EXCEPT ![r] = "no"]
  /\ inbox' = [inbox EXCEPT ![r] =
       [from |-> s, val |-> sending[s].val, perm |-> pg # NoPage, pg |-> pg]]
  /\ UNCHANGED got

(* The sender is told that its message failed, but its value arrives, with *)
(* a permission that says nothing.                                         *)
Torn(s, r) ==
  /\ sending[s] # None
  /\ sending[s].to = r /\ sending[s].pg # NoPage
  /\ waiting[r] = "page"
  /\ sending' = [sending EXCEPT ![s] = None]
  /\ waiting' = [waiting EXCEPT ![r] = "no"]
  /\ \E perm \in BOOLEAN : inbox' = [inbox EXCEPT ![r] =
       [from |-> s, val |-> sending[s].val, perm |-> perm, pg |-> NoPage]]
  /\ UNCHANGED got

Take(e) ==
  /\ inbox[e] # None
  /\ got' = [got EXCEPT ![e] = inbox[e]]
  /\ inbox' = [inbox EXCEPT ![e] = None]
  /\ UNCHANGED <<sending, waiting>>

(* An error, or the end of the environment.                                *)
Abandon(e) ==
  /\ sending' = [sending EXCEPT ![e] = None]
  /\ waiting' = [waiting EXCEPT ![e] = "no"]
  /\ inbox' = [inbox EXCEPT ![e] = None]
  /\ UNCHANGED got

Next ==
  \E e \in Env :
    \/ \E m \in Message : BeginSend(e, m)
    \/ \E w \in {"value", "page"} : BeginReceive(e, w)
    \/ \E r \in Env : Exchange(e, r)
    \/ Take(e)
    \/ Abandon(e)

Spec == Init /\ [][Next]_vars

TornSpec == Init /\ [][Next \/ \E s, r \in Env : Torn(s, r)]_vars
=============================================================================
