---------------------------- MODULE BoundedQueue ----------------------------
(* What a descriptor ring is for: a first-in first-out queue of at most    *)
(* Capacity items, from which nothing is lost, repeated or overtaken.      *)
EXTENDS Naturals, Sequences

CONSTANTS Item, Capacity

VARIABLES
  queue,  \* Seq(Item)
  last    \* the item taken last

Init == queue = <<>> /\ last \notin Item

Put(x) ==
  /\ Len(queue) < Capacity
  /\ queue' = Append(queue, x)
  /\ UNCHANGED last

Take ==
  /\ queue # <<>>
  /\ last' = Head(queue)
  /\ queue' = Tail(queue)

Next == (\E x \in Item : Put(x)) \/ Take

Spec == Init /\ [][Next]_<<queue, last>>
=============================================================================
