--------------------------- MODULE PrivateMemory ----------------------------
(* What fork and sfork promise: every environment has its own memory.  A   *)
(* new one gets the pages of its parent as they are at some moment of the  *)
(* call, page by page; from then on nobody sees what another writes, but in*)
(* the pages that are shared.                                              *)

CONSTANTS Env, Page, Value, None

VARIABLES
  val,     \* [Env -> [Page -> Value \cup {None}]]: None where there is no page
  shared   \* SUBSET Page

vars == <<val, shared>>

Init ==
  /\ \E e \in Env : \A f \in Env \ {e}, p \in Page : val[f][p] = None
  /\ shared \in SUBSET Page

Write(e, p, v) ==
  /\ val[e][p] # None
  /\ val' = [f \in Env |-> [val[f] EXCEPT ![p] =
               IF f = e \/ (p \in shared /\ @ # None) THEN v ELSE @]]
  /\ UNCHANGED shared

Copy(e, child, p) ==
  /\ val[e][p] # None /\ val[child][p] = None
  /\ val' = [val EXCEPT ![child][p] = val[e][p]]
  /\ UNCHANGED shared

End(e) ==
  /\ val' = [val EXCEPT ![e] = [p \in Page |-> None]]
  /\ UNCHANGED shared

Next ==
  \/ \E e \in Env, p \in Page, v \in Value : Write(e, p, v)
  \/ \E e, child \in Env, p \in Page : Copy(e, child, p)
  \/ \E e \in Env : End(e)

Spec == Init /\ [][Next]_vars
=============================================================================
