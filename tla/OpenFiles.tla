----------------------------- MODULE OpenFiles ------------------------------
(* What the file system promises its clients: an opened file keeps its     *)
(* identity and its one position until the last descriptor that refers to  *)
(* it is gone, however the descriptors are passed on; reads through any of *)
(* them return the bytes of the file in order, each of them once.  The     *)
(* service may stop, and then it stops for good.                           *)
EXTENDS Integers

CONSTANTS Client, Fd, Handle, Name, Longest, None

VARIABLES
  tree,    \* [Name -> Nat \cup {None}]: the lengths; byte k of n is <<n, k>>
  fd,      \* [Client -> [Fd -> Handle \cup {None}]]
  file,    \* [Handle -> Name \cup {None}]: None if no descriptor refers to it
  pos,     \* [Handle -> Nat]
  result,  \* [Client -> bytes, or None]: read, and not yet returned
  over     \* BOOLEAN: the service has stopped

vars == <<tree, fd, file, pos, result, over>>

Held(h, table) == \E c \in Client, d \in Fd : table[c][d] = h

NoFiles ==
  /\ fd = [c \in Client |-> [d \in Fd |-> None]]
  /\ file = [h \in Handle |-> None]
  /\ pos = [h \in Handle |-> 0]
  /\ result = [c \in Client |-> None]

Init == tree = [n \in Name |-> None] /\ NoFiles /\ over = FALSE

(* A handle that nobody refers to any more is forgotten.                   *)
Forget(table) ==
  /\ fd' = table
  /\ file' = [h \in Handle |-> IF Held(h, table) THEN file[h] ELSE None]
  /\ pos' = [h \in Handle |-> IF Held(h, table) THEN pos[h] ELSE 0]

Create(n, length) ==
  /\ tree[n] = None
  /\ tree' = [tree EXCEPT ![n] = length]
  /\ UNCHANGED <<fd, file, pos, result>>

Open(c, d, h, n) ==
  /\ fd[c][d] = None
  /\ file[h] = None
  /\ tree[n] # None
  /\ fd' = [fd EXCEPT ![c][d] = h]
  /\ file' = [file EXCEPT ![h] = n]
  /\ UNCHANGED <<tree, pos, result>>

Read(c, d, k) ==
  LET h == fd[c][d]
      length == tree[file[h]] IN
  /\ h # None /\ result[c] = None
  /\ pos[h] + k <= length
  /\ k = 0 => pos[h] = length
  /\ pos' = [pos EXCEPT ![h] = @ + k]
  /\ result' = [result EXCEPT ![c] = [i \in 1 .. k |-> <<file[h], pos[h] + i - 1>>]]
  /\ UNCHANGED <<tree, fd, file>>

Return(c) ==
  /\ result[c] # None
  /\ result' = [result EXCEPT ![c] = None]
  /\ UNCHANGED <<tree, fd, file, pos>>

Close(c, d) ==
  /\ fd[c][d] # None
  /\ Forget([fd EXCEPT ![c][d] = None])
  /\ UNCHANGED <<tree, result>>

Fork(c, child) ==
  /\ \A d \in Fd : fd[child][d] = None
  /\ fd' = [fd EXCEPT ![child] = fd[c]]
  /\ UNCHANGED <<tree, file, pos, result>>

End(c) ==
  /\ Forget([fd EXCEPT ![c] = [d \in Fd |-> None]])
  /\ result' = [result EXCEPT ![c] = None]
  /\ UNCHANGED tree

Stop ==
  /\ over' = TRUE
  /\ NoFiles'
  /\ UNCHANGED tree

Working ==
  \/ \E n \in Name, k \in 0 .. Longest : Create(n, k)
  \/ \E c \in Client :
       \/ \E d \in Fd :
            \/ \E h \in Handle, n \in Name : Open(c, d, h, n)
            \/ \E k \in 0 .. Longest : Read(c, d, k)
            \/ Close(c, d)
       \/ Return(c)
       \/ \E child \in Client : Fork(c, child)
       \/ End(c)

Next == ~over /\ (Stop \/ (Working /\ UNCHANGED over))

Spec == Init /\ [][Next]_vars
=============================================================================
