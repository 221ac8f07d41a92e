----------------------------- MODULE PipeProofs ------------------------------
(* Proofs about Pipe, for any number of environments and descriptors and   *)
(* any size of the buffer: the counts of struct Fd and struct Pipe agree   *)
(* when they should, _pipeisclosed does not take an open pipe for closed   *)
(* on one CPU, and with one reader and one writer the pipe is a queue.     *)
EXTENDS Pipe, FiniteSetTheorems, SequenceTheorems, WellFoundedInduction, TLAPS

LEMMA MinIn ==
  ASSUME NEW S \in SUBSET Nat, S # {}
  PROVE  Min(S) \in S
<1> DEFINE R == {ss \in Nat \X Nat : ss[1] < ss[2]}
<1>1. IsWellFoundedOn(R, Nat)
  BY NatLessThanWellFounded DEF OpToRel
<1> HIDE DEF R
<1>2. PICK x \in S : \A y \in S : ~(<<y, x>> \in R)
  BY <1>1, WFMin
<1>3. ASSUME NEW y \in S PROVE x <= y
  <2>1. x \in Nat /\ y \in Nat
    OBVIOUS
  <2>2. y < x => <<y, x>> \in R
    BY <2>1 DEF R
  <2> QED BY <1>2, <2>1, <2>2
<1> QED BY <1>3 DEF Min

-----------------------------------------------------------------------------
(* Where an environment is in its call, without the bounds on numbers.     *)

Shape ==
  {Idle}
  \cup [at : {"close"}, fd : Fd, dup : Fd \cup {Nil}]
  \cup [at : {"dup_data", "dup_fd"}, fd : Fd, dup : Fd]
  \cup [at : {"exit"}] \cup [at : {"exit_close"}, fd : Fd]
  \cup [at : {"fork"}, child : Env]
  \cup [at : {"read", "write", "write_inc", "closed_read", "closed_write"}, fd : Fd, i : Nat]
  \cup [at : {"read_inc"}, fd : Fd, i : Nat, byte : Nat]
  \cup [at : {"closed2_read", "closed2_write"}, fd : Fd, i : Nat, ref : Nat, moved : BOOLEAN]

Reading == {"read", "read_inc", "closed_read", "closed2_read"}
Writing == {"write", "write_inc", "closed_write", "closed2_write"}

LEMMA ShapeCases ==
  ASSUME NEW o \in Shape
  PROVE  /\ o.at = "idle" => o = Idle
         /\ o.at = "close" => o \in [at : {"close"}, fd : Fd, dup : Fd \cup {Nil}]
         /\ o.at \in {"dup_data", "dup_fd"} => o \in [at : {"dup_data", "dup_fd"}, fd : Fd, dup : Fd]
         /\ o.at = "exit" => o \in [at : {"exit"}]
         /\ o.at = "exit_close" => o \in [at : {"exit_close"}, fd : Fd]
         /\ o.at = "fork" => o \in [at : {"fork"}, child : Env]
         /\ o.at \in {"read", "write", "write_inc", "closed_read", "closed_write"} =>
              o \in [at : {"read", "write", "write_inc", "closed_read", "closed_write"}, fd : Fd, i : Nat]
         /\ o.at = "read_inc" => o \in [at : {"read_inc"}, fd : Fd, i : Nat, byte : Nat]
         /\ o.at \in {"closed2_read", "closed2_write"} =>
              o \in [at : {"closed2_read", "closed2_write"}, fd : Fd, i : Nat, ref : Nat, moved : BOOLEAN]
BY DEF Shape, Idle

-----------------------------------------------------------------------------
(* An environment's own pages, and the call it is in.                      *)

(* The descriptor of which only one of the two pages may be mapped.        *)
Mid(o) == IF o.at \in {"close", "exit_close", "dup_fd"} THEN {o.fd} ELSE {}

(* For an environment in call o with struct Fd pages F and struct Pipe     *)
(* pages D: the two pages of a descriptor come and go together but in the  *)
(* middle of close and dup, which leave the struct Fd unmapped there.      *)
Fits(o, F, D) ==
  /\ \A i \in Fd \ Mid(o) : F[i] # Nil <=> i \in D
  /\ o.at \in {"close", "exit_close", "dup_data", "dup_fd"} => F[o.fd] = Nil
  /\ o.at = "dup_fd" => (o.fd \in D <=> F[o.dup] # Nil)
  /\ o.at \in Reading => F[o.fd] = "rd"
  /\ o.at \in Writing => F[o.fd] = "wr"

PipeTypes ==
  /\ fd \in [Env -> [Fd -> End \cup {Nil}]]
  /\ data \in [Env -> SUBSET Fd]
  /\ p_rpos \in Nat /\ p_wpos \in Nat /\ got \in Nat
  /\ p_buf \in [0 .. PIPEBUFSIZ - 1 -> Nat]
  /\ status \in [Env -> {"unborn", "embryo", "runnable", "gone"}]
  /\ running \in SUBSET Env
  /\ op \in [Env -> Shape]

(* Only a runnable environment is in a call or on a CPU.                   *)
ActiveIsRunnable ==
  \A e \in Env : e \in running \/ op[e].at # "idle" => status[e] = "runnable"

OthersFit == \A e \in Env : status[e] # "embryo" => Fits(op[e], fd[e], data[e])

UnbornIsEmpty == \A e \in Env : status[e] = "unborn" => \A i \in Fd : fd[e][i] = Nil

(* A child has no page that its parent, in the middle of fork, has not.    *)
ForksFit ==
  /\ \A e \in Env : op[e].at = "fork" =>
       /\ status[op[e].child] = "embryo"
       /\ \A i \in Fd : fd[op[e].child][i] # Nil => fd[e][i] # Nil
       /\ data[op[e].child] \subseteq data[e]
  /\ \A e, f \in Env : op[e].at = "fork" /\ op[f].at = "fork" /\ op[e].child = op[f].child => e = f
  /\ \A c \in Env : status[c] = "embryo" => \E e \in Env : op[e].at = "fork" /\ op[e].child = c

(* The inductive invariant about pages.                                    *)
PagesInv == PipeTypes /\ ActiveIsRunnable /\ OthersFit /\ UnbornIsEmpty /\ ForksFit

(* A step of e's own that is not part of a fork: only its pages, its call  *)
(* and the bytes of the pipe change.                                       *)
LEMMA OwnStep ==
  ASSUME PagesInv, NEW e \in Env, e \in running, op[e].at # "fork",
         NEW o \in Shape, o.at # "fork",
         NEW F \in [Fd -> End \cup {Nil}], NEW D \in SUBSET Fd, Fits(o, F, D),
         fd' = [fd EXCEPT ![e] = F], data' = [data EXCEPT ![e] = D],
         op' = [op EXCEPT ![e] = o], UNCHANGED sched,
         p_rpos' \in Nat, p_wpos' \in Nat, got' \in Nat,
         p_buf' \in [0 .. PIPEBUFSIZ - 1 -> Nat]
  PROVE  PagesInv'
<1> status' = status /\ running' = running
  BY DEF sched
<1>0. status[e] = "runnable"
  BY DEF PagesInv, ActiveIsRunnable
<1>e. fd'[e] = F /\ data'[e] = D /\ op'[e] = o
  BY DEF PagesInv, PipeTypes
<1>x. \A x \in Env : x # e => fd'[x] = fd[x] /\ data'[x] = data[x] /\ op'[x] = op[x]
  BY DEF PagesInv, PipeTypes
<1>1. PipeTypes'
  BY DEF PagesInv, PipeTypes
<1>2. ActiveIsRunnable'
  BY <1>0, <1>e, <1>x DEF PagesInv, ActiveIsRunnable
<1>3. OthersFit'
  BY <1>e, <1>x DEF PagesInv, OthersFit
<1>4. UnbornIsEmpty'
  BY <1>0, <1>e, <1>x DEF PagesInv, UnbornIsEmpty
<1>5. ForksFit'
  <2>1. ASSUME NEW x \in Env, op'[x].at = "fork"
        PROVE  /\ x # e /\ op'[x] = op[x] /\ fd'[x] = fd[x] /\ data'[x] = data[x]
               /\ op[x].child \in Env /\ op[x].child # e
               /\ fd'[op[x].child] = fd[op[x].child] /\ data'[op[x].child] = data[op[x].child]
    <3>1. x # e /\ op'[x] = op[x] /\ fd'[x] = fd[x] /\ data'[x] = data[x]
      BY <1>e, <1>x, <2>1
    <3>2. op[x].child \in Env /\ status[op[x].child] = "embryo"
      BY <3>1, <2>1, ShapeCases DEF PagesInv, PipeTypes, ForksFit
    <3> QED BY <3>1, <3>2, <1>0, <1>x
  <2>2. \A x \in Env : op[x].at = "fork" => op'[x] = op[x]
    BY <1>x
  <2> QED BY <2>1, <2>2 DEF PagesInv, ForksFit
<1> QED BY <1>1, <1>2, <1>3, <1>4, <1>5 DEF PagesInv

OwnTo(e, o, F, D) ==
  /\ e \in running /\ op[e].at # "fork" /\ o.at # "fork"
  /\ o \in Shape /\ F \in [Fd -> End \cup {Nil}] /\ D \in SUBSET Fd
  /\ Fits(o, F, D)
  /\ fd' = [fd EXCEPT ![e] = F] /\ data' = [data EXCEPT ![e] = D]
  /\ op' = [op EXCEPT ![e] = o] /\ UNCHANGED sched

BytesTyped == p_rpos \in Nat /\ p_wpos \in Nat /\ got \in Nat /\ p_buf \in [0 .. PIPEBUFSIZ - 1 -> Nat]

LEMMA OwnToStep ==
  ASSUME PagesInv, NEW e \in Env, NEW o, NEW F, NEW D, OwnTo(e, o, F, D), BytesTyped'
  PROVE  PagesInv'
BY OwnStep DEF OwnTo, BytesTyped

LEMMA Facts ==
  ASSUME PagesInv, NEW e \in Env, e \in running
  PROVE  /\ status[e] = "runnable" /\ op[e] \in Shape
         /\ fd[e] \in [Fd -> End \cup {Nil}] /\ data[e] \in SUBSET Fd
         /\ fd = [fd EXCEPT ![e] = fd[e]] /\ data = [data EXCEPT ![e] = data[e]]
         /\ Fits(op[e], fd[e], data[e])
         /\ BytesTyped
BY DEF PagesInv, PipeTypes, ActiveIsRunnable, OthersFit, BytesTyped

LEMMA BytesSame ==
  ASSUME PagesInv, UNCHANGED bytes
  PROVE  BytesTyped'
BY DEF bytes, PagesInv, PipeTypes, BytesTyped

LEMMA CloseOwn ==
  ASSUME PagesInv, NEW e \in Env, NEW i \in Fd, NEW dup \in Fd \cup {Nil}, Close(e, i, dup)
  PROVE  OwnTo(e, [at |-> "close", fd |-> i, dup |-> dup], [fd[e] EXCEPT ![i] = Nil], data[e])
<1> DEFINE o == [at |-> "close", fd |-> i, dup |-> dup]
           F == [fd[e] EXCEPT ![i] = Nil]
<1> At(e, "idle")
  BY DEF Close
<1>1. o \in Shape /\ o.at = "close" /\ o.fd = i
  BY DEF Shape
<1>2. F \in [Fd -> End \cup {Nil}] /\ F[i] = Nil /\ \A j \in Fd : j # i => F[j] = fd[e][j]
  BY Facts DEF At
<1>3. Fits(op[e], fd[e], data[e]) /\ op[e].at = "idle"
  BY Facts DEF At
<1>4. Fits(o, F, data[e])
  BY <1>1, <1>2, <1>3 DEF Fits, Mid, Reading, Writing
<1>5. fd' = [fd EXCEPT ![e] = F] /\ data' = data /\ op' = [op EXCEPT ![e] = o] /\ UNCHANGED sched
  BY DEF Close, UnmapFd, Goto
<1> QED BY <1>1, <1>2, <1>3, <1>4, <1>5, Facts DEF OwnTo, At

LEMMA CloseDataOwn ==
  ASSUME PagesInv, NEW e \in Env, CloseData(e)
  PROVE  OwnTo(e, IF op[e].dup = Nil THEN Idle
                  ELSE [at |-> "dup_data", fd |-> op[e].fd, dup |-> op[e].dup],
               fd[e], data[e] \ {op[e].fd})
<1> DEFINE o == IF op[e].dup = Nil THEN Idle
                ELSE [at |-> "dup_data", fd |-> op[e].fd, dup |-> op[e].dup]
           D == data[e] \ {op[e].fd}
<1>0. e \in running /\ op[e].at = "close"
  BY DEF CloseData, At
<1>1. op[e].fd \in Fd /\ op[e].dup \in Fd \cup {Nil}
  BY <1>0, Facts, ShapeCases
<1>2. o \in Shape /\ (o = Idle \/ (o.at = "dup_data" /\ o.fd = op[e].fd))
  BY <1>1 DEF Shape
<1>3. Fits(op[e], fd[e], data[e])
  BY <1>0, Facts
<1>4. Fits(o, fd[e], D)
  BY <1>0, <1>1, <1>2, <1>3 DEF Fits, Mid, Reading, Writing, Idle
<1>5. fd' = fd /\ data' = [data EXCEPT ![e] = D] /\ op' = [op EXCEPT ![e] = o] /\ UNCHANGED sched
  BY DEF CloseData, UnmapData, Goto
<1> HIDE DEF o, D
<1>6. D \in SUBSET Fd /\ o.at # "fork"
  BY <1>0, <1>2, Facts DEF D, Idle
<1>7. OwnTo(e, o, fd[e], D)
  BY <1>0, <1>2, <1>4, <1>5, <1>6, Facts DEF OwnTo
<1> QED BY <1>7 DEF o, D

LEMMA DupOwn ==
  ASSUME PagesInv, NEW e \in Env, NEW old \in Fd, NEW new \in Fd, Dup(e, old, new)
  PROVE  OwnTo(e, [at |-> "dup_data", fd |-> new, dup |-> old], fd[e], data[e])
<1> DEFINE o == [at |-> "dup_data", fd |-> new, dup |-> old]
<1>0. e \in running /\ op[e].at = "idle" /\ fd[e][new] = Nil
  BY DEF Dup, At
<1>2. o \in Shape /\ o.at = "dup_data" /\ o.fd = new
  BY DEF Shape
<1>3. Fits(op[e], fd[e], data[e])
  BY <1>0, Facts
<1>4. Fits(o, fd[e], data[e])
  BY <1>0, <1>2, <1>3 DEF Fits, Mid, Reading, Writing
<1>5. fd' = fd /\ data' = data /\ op' = [op EXCEPT ![e] = o] /\ UNCHANGED sched
  BY DEF Dup, Goto, pages
<1> QED BY <1>0, <1>2, <1>4, <1>5, Facts DEF OwnTo

LEMMA DupDataOwn ==
  ASSUME PagesInv, NEW e \in Env, DupData(e)
  PROVE  OwnTo(e, [op[e] EXCEPT !.at = "dup_fd"], fd[e],
               IF op[e].dup \in data[e] THEN data[e] \cup {op[e].fd} ELSE data[e])
<1> DEFINE o == [op[e] EXCEPT !.at = "dup_fd"]
           D == IF op[e].dup \in data[e] THEN data[e] \cup {op[e].fd} ELSE data[e]
<1>0. e \in running /\ op[e].at = "dup_data"
  BY DEF DupData, At
<1>1. op[e] \in [at : {"dup_data", "dup_fd"}, fd : Fd, dup : Fd]
  BY <1>0, Facts, ShapeCases
<1>2. o \in Shape /\ o.at = "dup_fd" /\ o.fd = op[e].fd /\ o.dup = op[e].dup
  BY <1>1 DEF Shape
<1>3. Fits(op[e], fd[e], data[e]) /\ D \in SUBSET Fd
  BY <1>0, <1>1, Facts
<1>4. Fits(o, fd[e], D)
  BY <1>0, <1>1, <1>2, <1>3 DEF Fits, Mid, Reading, Writing
<1>5. fd' = fd /\ data' = [data EXCEPT ![e] = D] /\ op' = [op EXCEPT ![e] = o] /\ UNCHANGED sched
  BY DEF DupData, Goto
<1> HIDE DEF o, D
<1>6. OwnTo(e, o, fd[e], D)
  BY <1>0, <1>2, <1>3, <1>4, <1>5, Facts DEF OwnTo
<1> QED BY <1>6 DEF o, D

LEMMA DupFdOwn ==
  ASSUME PagesInv, NEW e \in Env, DupFd(e)
  PROVE  OwnTo(e, Idle, [fd[e] EXCEPT ![op[e].fd] = fd[e][op[e].dup]], data[e])
<1> DEFINE F == [fd[e] EXCEPT ![op[e].fd] = fd[e][op[e].dup]]
<1>0. e \in running /\ op[e].at = "dup_fd"
  BY DEF DupFd, At
<1>1. op[e].fd \in Fd /\ op[e].dup \in Fd
  BY <1>0, Facts, ShapeCases
<1>2. Idle \in Shape /\ Idle.at = "idle"
  BY DEF Shape, Idle
<1>3. Fits(op[e], fd[e], data[e])
  BY <1>0, Facts
<1>4. /\ F \in [Fd -> End \cup {Nil}] /\ F[op[e].fd] = fd[e][op[e].dup]
      /\ \A j \in Fd : j # op[e].fd => F[j] = fd[e][j]
  BY <1>0, <1>1, Facts
<1>5. Fits(Idle, F, data[e])
  BY <1>0, <1>1, <1>2, <1>3, <1>4 DEF Fits, Mid, Reading, Writing
<1>6. fd' = [fd EXCEPT ![e] = F] /\ data' = data /\ op' = [op EXCEPT ![e] = Idle] /\ UNCHANGED sched
  BY DEF DupFd, Goto
<1> HIDE DEF F
<1>7. OwnTo(e, Idle, F, data[e])
  BY <1>0, <1>2, <1>4, <1>5, <1>6, Facts DEF OwnTo
<1> QED BY <1>7 DEF F

LEMMA ExitOwn ==
  ASSUME PagesInv, NEW e \in Env, Exit(e)
  PROVE  OwnTo(e, [at |-> "exit"], fd[e], data[e])
<1> DEFINE o == [at |-> "exit"]
<1>0. e \in running /\ op[e].at = "idle"
  BY DEF Exit, At
<1>2. o \in Shape /\ o.at = "exit"
  BY DEF Shape
<1>3. Fits(op[e], fd[e], data[e])
  BY <1>0, Facts
<1>4. Fits(o, fd[e], data[e])
  BY <1>0, <1>2, <1>3 DEF Fits, Mid, Reading, Writing
<1>5. fd' = fd /\ data' = data /\ op' = [op EXCEPT ![e] = o] /\ UNCHANGED sched
  BY DEF Exit, Goto, pages
<1> QED BY <1>0, <1>2, <1>4, <1>5, Facts DEF OwnTo

LEMMA OpenIn ==
  ASSUME NEW e \in Env, Open(e) # {}
  PROVE  Min(Open(e)) \in Fd
<1> Fd \subseteq Nat
  BY PipeAssumption DEF Fd
<1>1. Open(e) \subseteq Fd
  BY DEF Open
<1> QED BY <1>1, MinIn

LEMMA ExitCloseOwn ==
  ASSUME PagesInv, NEW e \in Env, ExitClose(e)
  PROVE  OwnTo(e, [at |-> "exit_close", fd |-> Min(Open(e))],
               [fd[e] EXCEPT ![Min(Open(e))] = Nil], data[e])
<1>i. PICK i \in Fd : i = Min(Open(e))
  BY OpenIn DEF ExitClose
<1> DEFINE o == [at |-> "exit_close", fd |-> i]
           F == [fd[e] EXCEPT ![i] = Nil]
<1>0. e \in running /\ op[e].at = "exit"
  BY DEF ExitClose, At
<1>1. o \in Shape /\ o.at = "exit_close" /\ o.fd = i
  BY DEF Shape
<1>2. F \in [Fd -> End \cup {Nil}] /\ F[i] = Nil /\ \A j \in Fd : j # i => F[j] = fd[e][j]
  BY <1>0, Facts
<1>3. Fits(op[e], fd[e], data[e])
  BY <1>0, Facts
<1>4. Fits(o, F, data[e])
  BY <1>0, <1>1, <1>2, <1>3 DEF Fits, Mid, Reading, Writing
<1>5. fd' = [fd EXCEPT ![e] = F] /\ data' = data /\ op' = [op EXCEPT ![e] = o] /\ UNCHANGED sched
  BY <1>i DEF ExitClose, UnmapFd, Goto
<1> HIDE DEF o, F
<1>6. OwnTo(e, o, F, data[e])
  BY <1>0, <1>1, <1>2, <1>4, <1>5, Facts DEF OwnTo
<1> QED BY <1>6, <1>i DEF o, F

LEMMA ExitCloseDataOwn ==
  ASSUME PagesInv, NEW e \in Env, ExitCloseData(e)
  PROVE  OwnTo(e, [at |-> "exit"], fd[e], data[e] \ {op[e].fd})
<1> DEFINE o == [at |-> "exit"]
           D == data[e] \ {op[e].fd}
<1>0. e \in running /\ op[e].at = "exit_close"
  BY DEF ExitCloseData, At
<1>1. op[e].fd \in Fd
  BY <1>0, Facts, ShapeCases
<1>2. o \in Shape /\ o.at = "exit"
  BY DEF Shape
<1>3. Fits(op[e], fd[e], data[e]) /\ D \in SUBSET Fd
  BY <1>0, Facts
<1>4. Fits(o, fd[e], D)
  BY <1>0, <1>1, <1>2, <1>3 DEF Fits, Mid, Reading, Writing
<1>5. fd' = fd /\ data' = [data EXCEPT ![e] = D] /\ op' = [op EXCEPT ![e] = o] /\ UNCHANGED sched
  BY DEF ExitCloseData, UnmapData, Goto
<1> HIDE DEF o, D
<1>6. OwnTo(e, o, fd[e], D)
  BY <1>0, <1>2, <1>3, <1>4, <1>5, Facts DEF OwnTo
<1> QED BY <1>6 DEF o, D

(* A step of read or write, or of what they call: the pages stay, and the  *)
(* call remains one on the same descriptor, or returns.                    *)
StaysOn(o, n) ==
  \/ n = Idle
  \/ /\ n \in Shape /\ n.fd = o.fd
     /\ o.at \in Reading => n.at \in Reading
     /\ o.at \in Writing => n.at \in Writing

InCall(o) == o.at \in Reading \cup Writing

LEMMA CallOwn ==
  ASSUME PagesInv, NEW e \in Env, e \in running, InCall(op[e]), NEW n, StaysOn(op[e], n),
         UNCHANGED <<pages, sched>>, op' = [op EXCEPT ![e] = n]
  PROVE  OwnTo(e, n, fd[e], data[e])
<1>1. Fits(op[e], fd[e], data[e])
  BY Facts
<1>2. n \in Shape /\ n.at # "fork"
  BY DEF StaysOn, InCall, Idle, Shape, Reading, Writing
<1>3. Fits(n, fd[e], data[e])
  BY <1>1 DEF StaysOn, InCall, Fits, Mid, Idle, Reading, Writing
<1>4. fd' = fd /\ data' = data
  BY DEF pages
<1> QED BY <1>2, <1>3, <1>4, Facts DEF OwnTo, InCall, Reading, Writing

LEMMA StartOwn ==
  ASSUME PagesInv, NEW e \in Env, NEW end \in End, NEW where \in {"read", "write"},
         where = "read" <=> end = "rd", Start(e, end, where)
  PROVE  \E n : OwnTo(e, n, fd[e], data[e])
<1>0. e \in running /\ op[e].at = "idle"
  BY DEF Start, At
<1>1. PICK i \in Fd : fd[e][i] = end /\ Goto(e, [at |-> where, fd |-> i, i |-> 0])
  BY DEF Start
<1> DEFINE o == [at |-> where, fd |-> i, i |-> 0]
<1>2. o \in Shape /\ o.at = where /\ o.fd = i
  BY DEF Shape
<1>3. Fits(op[e], fd[e], data[e])
  BY <1>0, Facts
<1>4. Fits(o, fd[e], data[e])
  BY <1>0, <1>1, <1>2, <1>3 DEF Fits, Mid, Reading, Writing, End
<1>5. fd' = fd /\ data' = data /\ op' = [op EXCEPT ![e] = o] /\ UNCHANGED sched
  BY <1>1 DEF Start, Goto, pages
<1> HIDE DEF o
<1>6. OwnTo(e, o, fd[e], data[e])
  BY <1>0, <1>2, <1>4, <1>5, Facts DEF OwnTo
<1> QED BY <1>6

-----------------------------------------------------------------------------
(* The counts.                                                             *)

FdPages(end) == {x \in Env \X Fd : fd[x[1]][x[2]] = end}
PipePages == {x \in Env \X Fd : x[2] \in data[x[1]]}

LEMMA CountsFinite ==
  /\ IsFiniteSet(Env \X Fd)
  /\ \A S \in SUBSET (Env \X Fd) : IsFiniteSet(S) /\ Cardinality(S) \in Nat
<1>1. IsFiniteSet(Fd)
  BY FS_Interval, PipeAssumption DEF Fd
<1>2. IsFiniteSet(Env \X Fd)
  BY <1>1, FS_Product, PipeAssumption
<1> QED BY <1>2, FS_Subset, FS_CardinalityType

LEMMA RefsAreCounts ==
  ASSUME NEW end
  PROVE  /\ FdRef(end) = Cardinality(FdPages(end)) /\ PipeRef = Cardinality(PipePages)
         /\ FdRef(end) \in Nat /\ PipeRef \in Nat
<1>1. FdPages(end) \in SUBSET (Env \X Fd) /\ PipePages \in SUBSET (Env \X Fd)
  BY DEF FdPages, PipePages
<1> QED BY <1>1, CountsFinite DEF FdRef, FdPages, PipeRef, PipePages

-----------------------------------------------------------------------------
(* The steps of read, write and _pipeisclosed.                             *)

LEMMA FirstRefOwn ==
  ASSUME PagesInv, NEW e \in Env, NEW from, NEW to, FirstRef(e, from, to),
         <<from, to>> \in {<<"closed_read", "closed2_read">>, <<"closed_write", "closed2_write">>}
  PROVE  OwnTo(e, [at |-> to, fd |-> op[e].fd, i |-> op[e].i,
                   ref |-> FdRef(fd[e][op[e].fd]), moved |-> FALSE], fd[e], data[e])
<1> DEFINE n == [at |-> to, fd |-> op[e].fd, i |-> op[e].i,
                 ref |-> FdRef(fd[e][op[e].fd]), moved |-> FALSE]
<1>0. e \in running /\ op[e].at = from /\ op' = [op EXCEPT ![e] = n] /\ UNCHANGED <<pages, sched>>
  BY DEF FirstRef, At, Goto
<1>1. op[e].fd \in Fd /\ op[e].i \in Nat
  BY <1>0, Facts, ShapeCases
<1>2. FdRef(fd[e][op[e].fd]) \in Nat
  BY RefsAreCounts
<1>3. n \in Shape /\ n.at = to /\ n.fd = op[e].fd
  BY <1>1, <1>2 DEF Shape
<1> HIDE DEF n
<1>4. StaysOn(op[e], n) /\ InCall(op[e])
  BY <1>0, <1>3 DEF StaysOn, InCall, Reading, Writing
<1>5. OwnTo(e, n, fd[e], data[e])
  BY <1>0, <1>4, CallOwn
<1> QED BY <1>5 DEF n

LEMMA SecondRefOwn ==
  ASSUME PagesInv, NEW e \in Env, NEW at, NEW first, NEW caller, SecondRef(e, at, first, caller),
         <<at, first, caller>> \in {<<"closed2_read", "closed_read", "read">>,
                                    <<"closed2_write", "closed_write", "write">>}
  PROVE  /\ \E n : OwnTo(e, n, fd[e], data[e]) /\ n.at \in {"idle", first, caller}
         /\ op[e].at = at /\ op'[e] = Idle => ~op[e].moved /\ op[e].ref = PipeRef
<1> DEFINE back(where) == [at |-> where, fd |-> op[e].fd, i |-> op[e].i]
           n == IF op[e].moved THEN back(first) ELSE IF op[e].ref = PipeRef THEN Idle ELSE back(caller)
<1>0. e \in running /\ op[e].at = at /\ op' = [op EXCEPT ![e] = n] /\ UNCHANGED <<pages, sched>>
  BY DEF SecondRef, At, Goto
<1>1. op[e].fd \in Fd /\ op[e].i \in Nat
  BY <1>0, Facts, ShapeCases
<1>2. /\ back(first) \in Shape /\ back(first).at = first /\ back(first).fd = op[e].fd
      /\ back(caller) \in Shape /\ back(caller).at = caller /\ back(caller).fd = op[e].fd
      /\ Idle.at = "idle"
  BY <1>1 DEF Shape, Idle
<1>3. op'[e] = n
  BY <1>0, Facts DEF PagesInv, PipeTypes
<1> HIDE DEF back
<1>4. StaysOn(op[e], n) /\ InCall(op[e]) /\ n.at \in {"idle", first, caller}
  BY <1>0, <1>2 DEF StaysOn, InCall, Reading, Writing
<1>5. op'[e] = Idle => ~op[e].moved /\ op[e].ref = PipeRef
  BY <1>2, <1>3
<1> HIDE DEF n
<1>6. OwnTo(e, n, fd[e], data[e])
  BY <1>0, <1>4, CallOwn
<1> QED BY <1>4, <1>5, <1>6

(* What read and write do themselves.                                      *)
Moving(e) ==
  \/ ReadReturn(e) \/ ReadEmpty(e) \/ ReadByte(e) \/ ReadInc(e)
  \/ WriteReturn(e) \/ WriteFull(e) \/ WriteByte(e) \/ WriteInc(e)

Looking == {"closed2_read", "closed2_write"}

LEMMA SlotIn ==
  ASSUME NEW p \in Nat
  PROVE  p % PIPEBUFSIZ \in 0 .. PIPEBUFSIZ - 1
BY PipeAssumption

LEMMA MovingOwn ==
  ASSUME PagesInv, NEW e \in Env, Moving(e)
  PROVE  /\ \E n : OwnTo(e, n, fd[e], data[e]) /\ n.at \notin Looking
         /\ op[e].at \notin Looking
         /\ BytesTyped'
<1>0. e \in running /\ UNCHANGED <<pages, sched>> /\ op[e].at \in {"read", "read_inc", "write", "write_inc"}
  BY DEF Moving, ReadReturn, ReadEmpty, ReadByte, ReadInc, WriteReturn, WriteFull, WriteByte, WriteInc, At
<1>1. op[e] \in Shape /\ op[e].fd \in Fd /\ op[e].i \in Nat /\ (op[e].at = "read_inc" => op[e].byte \in Nat)
  BY <1>0, Facts, ShapeCases
<1>2. p_buf[p_rpos % PIPEBUFSIZ] \in Nat
  BY SlotIn DEF PagesInv, PipeTypes
<1>3. BytesTyped'
  <2> BytesTyped
    BY <1>0, Facts
  <2>1. CASE ReadInc(e)
    BY <2>1, <1>1 DEF ReadInc, BytesTyped, At
  <2>2. CASE WriteByte(e)
    BY <2>2, SlotIn DEF WriteByte, BytesTyped
  <2>3. CASE WriteInc(e)
    BY <2>3 DEF WriteInc, BytesTyped
  <2>4. CASE UNCHANGED bytes
    BY <2>4, BytesSame
  <2> QED BY <2>1, <2>2, <2>3, <2>4 DEF Moving, ReadReturn, ReadEmpty, ReadByte, WriteReturn, WriteFull
<1>4. \E n : op' = [op EXCEPT ![e] = n] /\ StaysOn(op[e], n) /\ n.at \notin Looking
  <2>1. CASE ReadReturn(e) \/ WriteReturn(e)
    <3>1. op' = [op EXCEPT ![e] = Idle]
      BY <2>1 DEF ReadReturn, WriteReturn, Goto
    <3>2. StaysOn(op[e], Idle) /\ Idle.at \notin Looking
      BY DEF StaysOn, Idle, Looking
    <3> QED BY <3>1, <3>2
  <2>2. CASE ReadEmpty(e)
    <3> DEFINE n == [op[e] EXCEPT !.at = "closed_read"]
    <3>1. op' = [op EXCEPT ![e] = n] /\ op[e].at = "read"
      BY <2>2 DEF ReadEmpty, Goto, At
    <3>2. n \in Shape /\ n.at = "closed_read" /\ n.fd = op[e].fd
      BY <3>1, <1>1, ShapeCases DEF Shape
    <3> HIDE DEF n
    <3>3. StaysOn(op[e], n) /\ n.at \notin Looking
      BY <3>1, <3>2 DEF StaysOn, Reading, Writing, Looking
    <3> QED BY <3>1, <3>3
  <2>3. CASE ReadByte(e)
    <3> DEFINE n == [at |-> "read_inc", fd |-> op[e].fd, i |-> op[e].i, byte |-> p_buf[p_rpos % PIPEBUFSIZ]]
    <3>1. op' = [op EXCEPT ![e] = n] /\ op[e].at = "read"
      BY <2>3 DEF ReadByte, Goto, At
    <3>2. n \in Shape /\ n.at = "read_inc" /\ n.fd = op[e].fd
      BY <1>1, <1>2 DEF Shape
    <3> HIDE DEF n
    <3>3. StaysOn(op[e], n) /\ n.at \notin Looking
      BY <3>1, <3>2 DEF StaysOn, Reading, Writing, Looking
    <3> QED BY <3>1, <3>3
  <2>4. CASE ReadInc(e)
    <3> DEFINE n == [at |-> "read", fd |-> op[e].fd, i |-> op[e].i + 1]
    <3>1. op' = [op EXCEPT ![e] = n] /\ op[e].at = "read_inc"
      BY <2>4 DEF ReadInc, Goto, At
    <3>2. n \in Shape /\ n.at = "read" /\ n.fd = op[e].fd
      BY <1>1 DEF Shape
    <3> HIDE DEF n
    <3>3. StaysOn(op[e], n) /\ n.at \notin Looking
      BY <3>1, <3>2 DEF StaysOn, Reading, Writing, Looking
    <3> QED BY <3>1, <3>3
  <2>5. CASE WriteFull(e)
    <3> DEFINE n == [op[e] EXCEPT !.at = "closed_write"]
    <3>1. op' = [op EXCEPT ![e] = n] /\ op[e].at = "write"
      BY <2>5 DEF WriteFull, Goto, At
    <3>2. n \in Shape /\ n.at = "closed_write" /\ n.fd = op[e].fd
      BY <3>1, <1>1, ShapeCases DEF Shape
    <3> HIDE DEF n
    <3>3. StaysOn(op[e], n) /\ n.at \notin Looking
      BY <3>1, <3>2 DEF StaysOn, Reading, Writing, Looking
    <3> QED BY <3>1, <3>3
  <2>6. CASE WriteByte(e)
    <3> DEFINE n == [op[e] EXCEPT !.at = "write_inc"]
    <3>1. op' = [op EXCEPT ![e] = n] /\ op[e].at = "write"
      BY <2>6 DEF WriteByte, Goto, At
    <3>2. n \in Shape /\ n.at = "write_inc" /\ n.fd = op[e].fd
      BY <3>1, <1>1, ShapeCases DEF Shape
    <3> HIDE DEF n
    <3>3. StaysOn(op[e], n) /\ n.at \notin Looking
      BY <3>1, <3>2 DEF StaysOn, Reading, Writing, Looking
    <3> QED BY <3>1, <3>3
  <2>7. CASE WriteInc(e)
    <3> DEFINE n == [at |-> "write", fd |-> op[e].fd, i |-> op[e].i + 1]
    <3>1. op' = [op EXCEPT ![e] = n] /\ op[e].at = "write_inc"
      BY <2>7 DEF WriteInc, Goto, At
    <3>2. n \in Shape /\ n.at = "write" /\ n.fd = op[e].fd
      BY <1>1 DEF Shape
    <3> HIDE DEF n
    <3>3. StaysOn(op[e], n) /\ n.at \notin Looking
      BY <3>1, <3>2 DEF StaysOn, Reading, Writing, Looking
    <3> QED BY <3>1, <3>3
  <2> QED BY <2>1, <2>2, <2>3, <2>4, <2>5, <2>6, <2>7 DEF Moving
<1>5. InCall(op[e]) /\ op[e].at \notin Looking
  BY <1>0 DEF InCall, Reading, Writing, Looking
<1> QED BY <1>0, <1>3, <1>4, <1>5, CallOwn

-----------------------------------------------------------------------------
(* The steps that change the pages of another environment or the scheduler.*)

LEMMA ForkStep ==
  ASSUME PagesInv, NEW e \in Env, NEW child \in Env, Fork(e, child)
  PROVE  PagesInv'
<1> DEFINE o == [at |-> "fork", child |-> child]
<1>0. e \in running /\ op[e].at = "idle" /\ status[e] = "runnable" /\ status[child] = "unborn" /\ e # child
  BY Facts DEF Fork, At
<1>1. o \in Shape /\ o.at = "fork" /\ o.child = child
  BY DEF Shape
<1>2. fd' = fd /\ data' = data /\ UNCHANGED bytes /\ running' = running
  BY DEF Fork, pages
<1>3. op' = [op EXCEPT ![e] = o] /\ status' = [status EXCEPT ![child] = "embryo"]
  BY DEF Fork, Goto
<1> HIDE DEF o
<1>4. op'[e] = o /\ \A x \in Env : x # e => op'[x] = op[x]
  BY <1>3 DEF PagesInv, PipeTypes
<1>5. status'[child] = "embryo" /\ \A x \in Env : x # child => status'[x] = status[x]
  BY <1>3 DEF PagesInv, PipeTypes
<1>6. PipeTypes'
  BY <1>1, <1>2, <1>3, BytesSame DEF PagesInv, PipeTypes, BytesTyped
<1>7. ActiveIsRunnable'
  <2>1. op[child].at = "idle" /\ child \notin running
    BY <1>0 DEF PagesInv, ActiveIsRunnable
  <2> QED BY <1>0, <1>1, <1>2, <1>4, <1>5, <2>1 DEF PagesInv, ActiveIsRunnable
<1>8. Fits(o, fd[e], data[e])
  <2>1. Fits(op[e], fd[e], data[e])
    BY <1>0, Facts
  <2> QED BY <1>0, <1>1, <2>1 DEF Fits, Mid, Reading, Writing
<1>9. OthersFit'
  BY <1>2, <1>4, <1>5, <1>8 DEF PagesInv, OthersFit
<1>10. UnbornIsEmpty'
  BY <1>2, <1>5 DEF PagesInv, UnbornIsEmpty
<1>11. ForksFit'
  <2>1. (\A i \in Fd : fd[child][i] = Nil) /\ data[child] = {}
    <3>1. op[child].at = "idle" /\ Fits(op[child], fd[child], data[child]) /\ (\A i \in Fd : fd[child][i] = Nil)
      BY <1>0 DEF PagesInv, ActiveIsRunnable, OthersFit, UnbornIsEmpty
    <3>2. data[child] \in SUBSET Fd
      BY DEF PagesInv, PipeTypes
    <3> QED BY <3>1, <3>2 DEF Fits, Mid
  <2>2. \A x \in Env : op[x].at = "fork" => op[x].child # child
    BY <1>0 DEF PagesInv, ForksFit
  <2>3. \A x \in Env : op[x].at = "fork" => op[x].child \in Env
    BY ShapeCases DEF PagesInv, PipeTypes
  <2>4. ASSUME NEW x \in Env, op'[x].at = "fork"
        PROVE  /\ status'[op'[x].child] = "embryo"
               /\ \A i \in Fd : fd'[op'[x].child][i] # Nil => fd'[x][i] # Nil
               /\ data'[op'[x].child] \subseteq data'[x]
    <3>1. CASE x = e
      BY <3>1, <1>1, <1>2, <1>4, <1>5, <2>1
    <3>2. CASE x # e
      BY <3>2, <2>4, <1>2, <1>4, <1>5, <2>2, <2>3 DEF PagesInv, ForksFit
    <3> QED BY <3>1, <3>2
  <2>5. ASSUME NEW x \in Env, NEW y \in Env, op'[x].at = "fork", op'[y].at = "fork", op'[x].child = op'[y].child
        PROVE  x = y
    BY <2>5, <1>1, <1>4, <2>2 DEF PagesInv, ForksFit
  <2>6. ASSUME NEW c \in Env, status'[c] = "embryo"
        PROVE  \E x \in Env : op'[x].at = "fork" /\ op'[x].child = c
    <3>1. CASE c = child
      BY <3>1, <1>1, <1>4
    <3>2. CASE c # child
      BY <3>2, <2>6, <1>0, <1>4, <1>5 DEF PagesInv, ForksFit
    <3> QED BY <3>1, <3>2
  <2> QED BY <2>4, <2>5, <2>6 DEF ForksFit
<1> QED BY <1>6, <1>7, <1>9, <1>10, <1>11 DEF PagesInv

(* What a step of duppage leaves alone.                                    *)
LEMMA DupSame ==
  ASSUME PagesInv, NEW e \in Env, e \in running, op[e].at = "fork", UNCHANGED <<bytes, sched, op>>,
         fd' \in [Env -> [Fd -> End \cup {Nil}]], data' \in [Env -> SUBSET Fd],
         \A x \in Env : x # op[e].child => fd'[x] = fd[x] /\ data'[x] = data[x],
         \A i \in Fd : fd'[op[e].child][i] # Nil => fd[e][i] # Nil,
         data'[op[e].child] \subseteq data[e]
  PROVE  PagesInv'
<1> UNCHANGED <<status, running, op>>
  BY DEF sched
<1>0. op[e].child \in Env /\ status[op[e].child] = "embryo"
  BY ShapeCases DEF PagesInv, PipeTypes, ForksFit
<1>1. PipeTypes'
  BY BytesSame DEF PagesInv, PipeTypes, BytesTyped
<1>2. ActiveIsRunnable'
  BY DEF PagesInv, ActiveIsRunnable
<1>3. OthersFit'
  BY <1>0 DEF PagesInv, OthersFit
<1>4. UnbornIsEmpty'
  BY <1>0 DEF PagesInv, UnbornIsEmpty
<1>5. ForksFit'
  <2>1. ASSUME NEW x \in Env, op[x].at = "fork"
        PROVE  /\ \A i \in Fd : fd'[op[x].child][i] # Nil => fd'[x][i] # Nil
               /\ data'[op[x].child] \subseteq data'[x]
    <3>1. op[x].child \in Env /\ x # op[e].child
      BY <2>1, <1>0, ShapeCases DEF PagesInv, PipeTypes, ActiveIsRunnable
    <3>2. fd'[x] = fd[x] /\ data'[x] = data[x]
      BY <3>1
    <3>3. CASE x = e
      BY <3>2, <3>3
    <3>4. CASE x # e
      <4>1. op[x].child # op[e].child
        BY <3>4, <2>1 DEF PagesInv, ForksFit
      <4>2. fd'[op[x].child] = fd[op[x].child] /\ data'[op[x].child] = data[op[x].child]
        BY <4>1, <3>1
      <4> QED BY <4>2, <3>2, <2>1 DEF PagesInv, ForksFit
    <3> QED BY <3>3, <3>4
  <2> QED BY <2>1 DEF PagesInv, ForksFit
<1> QED BY <1>1, <1>2, <1>3, <1>4, <1>5 DEF PagesInv

LEMMA DuppageFdStep ==
  ASSUME PagesInv, NEW e \in Env, DuppageFd(e)
  PROVE  PagesInv'
<1>0. e \in running /\ op[e].at = "fork" /\ UNCHANGED <<data, bytes, sched, op>>
  BY DEF DuppageFd, At
<1>1. op[e].child \in Env
  BY <1>0, Facts, ShapeCases
<1>2. PICK c \in Env : c = op[e].child
  BY <1>1
<1>3. FdsLeft(e, c) # {} /\ FdsLeft(e, c) \in SUBSET Fd /\ FdsLeft(e, c) \in SUBSET Nat
  BY <1>2, PipeAssumption DEF DuppageFd, FdsLeft, Fd
<1>4. PICK i \in Fd : i = Min(FdsLeft(e, c)) /\ fd[e][i] # Nil
  BY <1>3, MinIn DEF FdsLeft
<1>5. fd' = [fd EXCEPT ![c][i] = fd[e][i]]
  BY <1>2, <1>4 DEF DuppageFd
<1>6. fd \in [Env -> [Fd -> End \cup {Nil}]] /\ data \in [Env -> SUBSET Fd]
  BY DEF PagesInv, PipeTypes
<1>7. /\ fd' \in [Env -> [Fd -> End \cup {Nil}]]
      /\ \A x \in Env : x # c => fd'[x] = fd[x]
      /\ fd'[c][i] = fd[e][i] /\ \A j \in Fd : j # i => fd'[c][j] = fd[c][j]
  BY <1>5, <1>6
<1>8. \A j \in Fd : fd'[c][j] # Nil => fd[e][j] # Nil
  BY <1>0, <1>2, <1>4, <1>7 DEF PagesInv, ForksFit
<1>9. data'[c] \subseteq data[e]
  BY <1>0, <1>2 DEF PagesInv, ForksFit
<1> QED BY <1>0, <1>2, <1>6, <1>7, <1>8, <1>9, DupSame

LEMMA DuppageDataStep ==
  ASSUME PagesInv, NEW e \in Env, DuppageData(e)
  PROVE  PagesInv'
<1>0. e \in running /\ op[e].at = "fork" /\ UNCHANGED <<fd, bytes, sched, op>>
  BY DEF DuppageData, At
<1>1. op[e].child \in Env
  BY <1>0, Facts, ShapeCases
<1>2. PICK c \in Env : c = op[e].child
  BY <1>1
<1>6. fd \in [Env -> [Fd -> End \cup {Nil}]] /\ data \in [Env -> SUBSET Fd]
  BY DEF PagesInv, PipeTypes
<1>3. data[e] \ data[c] # {} /\ data[e] \ data[c] \in SUBSET Nat
  BY <1>2, <1>6, PipeAssumption DEF DuppageData, Fd
<1>4. PICK i \in data[e] : i = Min(data[e] \ data[c])
  BY <1>3, MinIn
<1>5. data' = [data EXCEPT ![c] = @ \cup {i}]
  BY <1>2, <1>4 DEF DuppageData
<1>7. /\ data' \in [Env -> SUBSET Fd]
      /\ \A x \in Env : x # c => data'[x] = data[x]
      /\ data'[c] = data[c] \cup {i}
  BY <1>5, <1>6
<1>8. data'[c] \subseteq data[e]
  BY <1>0, <1>2, <1>4, <1>7 DEF PagesInv, ForksFit
<1>9. \A j \in Fd : fd'[c][j] # Nil => fd[e][j] # Nil
  BY <1>0, <1>2 DEF PagesInv, ForksFit
<1> QED BY <1>0, <1>2, <1>6, <1>7, <1>8, <1>9, DupSame

LEMMA ForkReturnStep ==
  ASSUME PagesInv, NEW e \in Env, ForkReturn(e)
  PROVE  PagesInv'
<1>0. e \in running /\ op[e].at = "fork" /\ UNCHANGED <<pages, bytes, running>>
  BY DEF ForkReturn, At
<1>1. op[e].child \in Env
  BY <1>0, Facts, ShapeCases
<1>2. PICK c \in Env : c = op[e].child
  BY <1>1
<1>3. /\ op' = [op EXCEPT ![e] = Idle] /\ status' = [status EXCEPT ![c] = "runnable"]
      /\ FdsLeft(e, c) = {} /\ data[e] \ data[c] = {}
  BY <1>2 DEF ForkReturn, Goto
<1>4. fd' = fd /\ data' = data /\ running' = running
  BY <1>0 DEF pages
<1>5. Idle.at = "idle" /\ Idle \in Shape
  BY DEF Idle, Shape
<1>6. op'[e] = Idle /\ \A x \in Env : x # e => op'[x] = op[x]
  BY <1>3 DEF PagesInv, PipeTypes
<1>7. status'[c] = "runnable" /\ \A x \in Env : x # c => status'[x] = status[x]
  BY <1>3 DEF PagesInv, PipeTypes
<1>8. status[c] = "embryo" /\ op[c].at = "idle" /\ e # c
  BY <1>0, <1>2 DEF PagesInv, ForksFit, ActiveIsRunnable
<1>9. Fits(Idle, fd[e], data[e])
  <2>1. Fits(op[e], fd[e], data[e])
    BY <1>0, Facts
  <2> QED BY <2>1, <1>0, <1>5 DEF Fits, Mid, Reading, Writing
<1>10. Fits(Idle, fd[c], data[c])
  <2>a. (\A i \in Fd : fd[c][i] # Nil => fd[e][i] # Nil) /\ data[c] \subseteq data[e]
    BY <1>0, <1>2 DEF PagesInv, ForksFit
  <2>b. \A i \in Fd : fd[e][i] # Nil => fd[c][i] # Nil
    BY <1>3 DEF FdsLeft
  <2>c. data[c] = data[e]
    BY <1>3, <2>a
  <2>1. (\A i \in Fd : fd[c][i] # Nil <=> fd[e][i] # Nil) /\ data[c] = data[e]
    BY <2>a, <2>b, <2>c
  <2> QED BY <2>1, <1>9, <1>5 DEF Fits, Mid, Reading, Writing
<1>11. op'[c] = Idle
  BY <1>6, <1>8, ShapeCases DEF PagesInv, PipeTypes
<1>12. PipeTypes'
  BY <1>0, <1>3, <1>4, <1>5, BytesSame DEF PagesInv, PipeTypes, BytesTyped
<1>13. ActiveIsRunnable'
  BY <1>4, <1>5, <1>6, <1>7 DEF PagesInv, ActiveIsRunnable
<1>14. OthersFit'
  BY <1>4, <1>6, <1>7, <1>9, <1>10, <1>11 DEF PagesInv, OthersFit
<1>15. UnbornIsEmpty'
  BY <1>4, <1>7 DEF PagesInv, UnbornIsEmpty
<1>16. ForksFit'
  <2>1. ASSUME NEW x \in Env, op'[x].at = "fork"
        PROVE  x # e /\ op'[x] = op[x] /\ op[x].child \in Env /\ op[x].child # c
    <3>1. x # e /\ op'[x] = op[x]
      BY <2>1, <1>5, <1>6
    <3> QED BY <3>1, <2>1, <1>0, <1>2, ShapeCases DEF PagesInv, PipeTypes, ForksFit
  <2>2. ASSUME NEW k \in Env, status'[k] = "embryo"
        PROVE  \E x \in Env : op'[x].at = "fork" /\ op'[x].child = k
    BY <2>2, <1>2, <1>6, <1>7 DEF PagesInv, ForksFit
  <2> QED BY <2>1, <2>2, <1>4, <1>7 DEF PagesInv, ForksFit
<1> QED BY <1>12, <1>13, <1>14, <1>15, <1>16 DEF PagesInv

LEMMA DestroyStep ==
  ASSUME PagesInv, NEW e \in Env, SysEnvDestroy(e)
  PROVE  PagesInv'
<1>0. e \in running /\ op[e].at = "exit" /\ UNCHANGED <<fd, bytes>> /\ Open(e) = {}
  BY DEF SysEnvDestroy, At
<1>1. /\ op' = [op EXCEPT ![e] = Idle] /\ status' = [status EXCEPT ![e] = "gone"]
      /\ data' = [data EXCEPT ![e] = {}] /\ running' = running \ {e}
  BY DEF SysEnvDestroy, Goto
<1>2. Idle.at = "idle" /\ Idle \in Shape
  BY DEF Idle, Shape
<1>3. /\ op'[e] = Idle /\ status'[e] = "gone" /\ data'[e] = {} /\ status[e] = "runnable"
      /\ \A x \in Env : x # e => op'[x] = op[x] /\ status'[x] = status[x] /\ data'[x] = data[x]
  BY <1>0, <1>1, Facts DEF PagesInv, PipeTypes
<1>4. PipeTypes'
  BY <1>0, <1>1, <1>2, BytesSame DEF PagesInv, PipeTypes, BytesTyped
<1>5. ActiveIsRunnable'
  BY <1>1, <1>2, <1>3 DEF PagesInv, ActiveIsRunnable
<1>6. Fits(Idle, fd[e], {})
  BY <1>0, <1>2 DEF Open, Fits, Mid, Reading, Writing
<1>7. OthersFit'
  BY <1>0, <1>3, <1>6 DEF PagesInv, OthersFit
<1>8. UnbornIsEmpty'
  BY <1>0, <1>3 DEF PagesInv, UnbornIsEmpty
<1>9. ForksFit'
  <2>1. ASSUME NEW x \in Env, op'[x].at = "fork"
        PROVE  x # e /\ op'[x] = op[x] /\ op[x].child \in Env /\ op[x].child # e
    <3>1. x # e /\ op'[x] = op[x]
      BY <2>1, <1>2, <1>3
    <3> QED BY <3>1, <2>1, <1>3, ShapeCases DEF PagesInv, PipeTypes, ForksFit
  <2>2. ASSUME NEW k \in Env, status'[k] = "embryo"
        PROVE  \E x \in Env : op'[x].at = "fork" /\ op'[x].child = k
    BY <2>2, <1>0, <1>3 DEF PagesInv, ForksFit
  <2> QED BY <2>1, <2>2, <1>0, <1>3 DEF PagesInv, ForksFit
<1> QED BY <1>4, <1>5, <1>7, <1>8, <1>9 DEF PagesInv

(* env_run changes the call at most in moved.                              *)
LEMMA DispatchedSame ==
  ASSUME PagesInv, NEW f \in Env
  PROVE  /\ Dispatched(f) \in Shape /\ Dispatched(f).at = op[f].at
         /\ op[f].at \notin Looking => Dispatched(f) = op[f]
         /\ op[f].at \in Looking => Dispatched(f).moved
         /\ InCall(op[f]) => Dispatched(f).fd = op[f].fd
<1>1. op[f] \in Shape
  BY DEF PagesInv, PipeTypes
<1>2. CASE op[f].at \in Looking
  <2>1. op[f] \in [at : Looking, fd : Fd, i : Nat, ref : Nat, moved : BOOLEAN]
    BY <1>1, <1>2, ShapeCases DEF Looking
  <2> QED BY <1>2, <2>1 DEF Dispatched, Looking, Shape
<1>3. CASE op[f].at \notin Looking
  BY <1>1, <1>3 DEF Dispatched, Looking
<1> QED BY <1>2, <1>3

LEMMA RunStep ==
  ASSUME PagesInv, NEW f \in Env, status[f] = "runnable", Goto(f, Dispatched(f)),
         UNCHANGED <<pages, bytes, status>>, running' \in SUBSET (running \cup {f})
  PROVE  PagesInv'
<1> DEFINE o == Dispatched(f)
<1>0. fd' = fd /\ data' = data /\ op' = [op EXCEPT ![f] = o]
  BY DEF pages, Goto
<1>1. o \in Shape /\ o.at = op[f].at /\ (op[f].at \notin Looking => o = op[f])
      /\ (InCall(op[f]) => o.fd = op[f].fd)
  BY DispatchedSame
<1> HIDE DEF o
<1>2. op'[f] = o /\ \A x \in Env : x # f => op'[x] = op[x]
  BY <1>0 DEF PagesInv, PipeTypes
<1>3. PipeTypes'
  BY <1>0, <1>1, BytesSame DEF PagesInv, PipeTypes, BytesTyped
<1>4. ActiveIsRunnable'
  BY <1>1, <1>2 DEF PagesInv, ActiveIsRunnable
<1>5. Fits(o, fd[f], data[f])
  <2>1. Fits(op[f], fd[f], data[f])
    BY DEF PagesInv, OthersFit
  <2>2. op[f].at \in Looking => InCall(op[f])
    BY DEF Looking, InCall, Reading, Writing
  <2> QED BY <1>1, <2>1, <2>2 DEF Fits, Mid, Looking
<1>6. OthersFit'
  BY <1>0, <1>2, <1>5 DEF PagesInv, OthersFit
<1>7. UnbornIsEmpty'
  BY <1>0 DEF PagesInv, UnbornIsEmpty
<1>8. ForksFit'
  <2>1. \A x \in Env : (op'[x].at = "fork" <=> op[x].at = "fork") /\ (op[x].at = "fork" => op'[x] = op[x])
    BY <1>1, <1>2 DEF Looking
  <2> QED BY <2>1, <1>0 DEF PagesInv, ForksFit
<1> QED BY <1>3, <1>4, <1>6, <1>7, <1>8 DEF PagesInv

-----------------------------------------------------------------------------
(* PagesInv is inductive.                                                  *)

LEMMA PagesInit ==
  ASSUME Init
  PROVE  PagesInv
<1> USE DEF Init
<1>0. Idle \in Shape /\ Idle.at = "idle"
  BY DEF Shape, Idle
<1>1. 0 \in Fd /\ 1 \in Fd /\ Creator \in Env /\ Nil \notin End
  BY PipeAssumption, NilAssumption DEF Fd
<1>2. PipeTypes
  BY <1>0, <1>1, PipeAssumption DEF PipeTypes, End
<1>3. ActiveIsRunnable
  BY <1>0 DEF ActiveIsRunnable
<1>4. OthersFit
  <2>1. ASSUME NEW e \in Env PROVE Fits(Idle, fd[e], data[e])
    BY <1>0, <1>1, NilAssumption DEF Fits, Mid, Reading, Writing, End
  <2> QED BY <2>1 DEF OthersFit
<1>5. UnbornIsEmpty
  BY <1>1 DEF UnbornIsEmpty
<1>6. ForksFit
  BY <1>0 DEF ForksFit
<1> QED BY <1>2, <1>3, <1>4, <1>5, <1>6 DEF PagesInv

(* A step of an environment that concerns its own pages only.              *)
Owns(e) ==
  \/ \E i \in Fd, dup \in Fd \cup {Nil} : Close(e, i, dup)
  \/ \E old, new \in Fd : Dup(e, old, new)
  \/ Exit(e)
  \/ <<e, "read">> \in May /\ Read(e)
  \/ <<e, "write">> \in May /\ Write(e)
  \/ CloseData(e) \/ DupData(e) \/ DupFd(e) \/ ExitClose(e) \/ ExitCloseData(e)
  \/ PipeIsClosed(e) \/ Moving(e)

(* Every step is one of these.                                             *)
LEMMA NextCases ==
  ASSUME Next
  PROVE  \E e \in Env :
           \/ Owns(e) \/ (\E c \in Env : Fork(e, c)) \/ DuppageFd(e) \/ DuppageData(e) \/ ForkReturn(e)
           \/ SysEnvDestroy(e) \/ (\E f \in Env : Switch(e, f)) \/ EnvRun(e)
<1>1. PICK e \in Env : Call(e) \/ Continue(e) \/ (\E f \in Env : Switch(e, f)) \/ EnvRun(e)
  BY DEF Next
<1>2. ASSUME Call(e) PROVE Owns(e) \/ \E c \in Env : Fork(e, c)
  BY <1>2 DEF Call, Owns
<1>3. ASSUME Continue(e)
      PROVE  Owns(e) \/ DuppageFd(e) \/ DuppageData(e) \/ ForkReturn(e) \/ SysEnvDestroy(e)
  BY <1>3 DEF Continue, Owns, Moving
<1> QED BY <1>1, <1>2, <1>3

LEMMA OwnsIsOwn ==
  ASSUME PagesInv, NEW e \in Env, Owns(e)
  PROVE  (\E o, F, D : OwnTo(e, o, F, D)) /\ BytesTyped'
<1>1. CASE \E i \in Fd, dup \in Fd \cup {Nil} : Close(e, i, dup)
  BY <1>1, CloseOwn, BytesSame DEF Close
<1>2. CASE \E old, new \in Fd : Dup(e, old, new)
  BY <1>2, DupOwn, BytesSame DEF Dup
<1>3. CASE Exit(e)
  BY <1>3, ExitOwn, BytesSame DEF Exit
<1>4. CASE Read(e)
  <2>1. Start(e, "rd", "read")
    BY <1>4 DEF Read
  <2> QED BY <2>1, StartOwn, BytesSame DEF Start, End
<1>5. CASE Write(e)
  <2>1. Start(e, "wr", "write")
    BY <1>5 DEF Write
  <2> QED BY <2>1, StartOwn, BytesSame DEF Start, End
<1>6. CASE CloseData(e)
  BY <1>6, CloseDataOwn, BytesSame DEF CloseData
<1>7. CASE DupData(e)
  BY <1>7, DupDataOwn, BytesSame DEF DupData
<1>8. CASE DupFd(e)
  BY <1>8, DupFdOwn, BytesSame DEF DupFd
<1>9. CASE ExitClose(e)
  BY <1>9, ExitCloseOwn, BytesSame DEF ExitClose
<1>10. CASE ExitCloseData(e)
  BY <1>10, ExitCloseDataOwn, BytesSame DEF ExitCloseData
<1>11. CASE PipeIsClosed(e)
  <2>1. UNCHANGED bytes
    BY <1>11 DEF PipeIsClosed, FirstRef, SecondRef
  <2>2. CASE FirstRef(e, "closed_read", "closed2_read")
    BY <2>1, <2>2, FirstRefOwn, BytesSame
  <2>3. CASE FirstRef(e, "closed_write", "closed2_write")
    BY <2>1, <2>3, FirstRefOwn, BytesSame
  <2>4. CASE SecondRef(e, "closed2_read", "closed_read", "read")
    BY <2>1, <2>4, SecondRefOwn, BytesSame
  <2>5. CASE SecondRef(e, "closed2_write", "closed_write", "write")
    BY <2>1, <2>5, SecondRefOwn, BytesSame
  <2> QED BY <1>11, <2>2, <2>3, <2>4, <2>5 DEF PipeIsClosed
<1>12. CASE Moving(e)
  BY <1>12, MovingOwn
<1> QED BY <1>1, <1>2, <1>3, <1>4, <1>5, <1>6, <1>7, <1>8, <1>9, <1>10, <1>11, <1>12 DEF Owns

LEMMA SwitchStep ==
  ASSUME PagesInv, NEW e \in Env, NEW f \in Env, Switch(e, f) \/ EnvRun(f)
  PROVE  PagesInv'
<1>1. status[f] = "runnable" /\ Goto(f, Dispatched(f)) /\ UNCHANGED <<pages, bytes, status>>
  BY DEF Switch, EnvRun
<1>2. running' \in SUBSET (running \cup {f})
  BY DEF Switch, EnvRun
<1> QED BY <1>1, <1>2, RunStep

LEMMA PagesNext ==
  ASSUME PagesInv, [Next]_vars
  PROVE  PagesInv'
<1>1. CASE Next
  <2>1. PICK e \in Env :
           \/ Owns(e) \/ (\E c \in Env : Fork(e, c)) \/ DuppageFd(e) \/ DuppageData(e) \/ ForkReturn(e)
           \/ SysEnvDestroy(e) \/ (\E f \in Env : Switch(e, f)) \/ EnvRun(e)
    BY <1>1, NextCases
  <2>2. CASE Owns(e)
    BY <2>2, OwnsIsOwn, OwnToStep
  <2>3. CASE \E c \in Env : Fork(e, c)
    BY <2>3, ForkStep
  <2>4. CASE DuppageFd(e) \/ DuppageData(e) \/ ForkReturn(e) \/ SysEnvDestroy(e)
    BY <2>4, DuppageFdStep, DuppageDataStep, ForkReturnStep, DestroyStep
  <2>5. CASE (\E f \in Env : Switch(e, f)) \/ EnvRun(e)
    BY <2>5, SwitchStep
  <2> QED BY <2>1, <2>2, <2>3, <2>4, <2>5
<1>2. CASE UNCHANGED vars
  BY <1>2 DEF vars, pages, bytes, sched, PagesInv, PipeTypes, ActiveIsRunnable, OthersFit, UnbornIsEmpty, ForksFit
<1> QED BY <1>1, <1>2

(* In every state of every environment the struct Fd and the struct Pipe   *)
(* of a descriptor are mapped together, but for the descriptor that a      *)
(* close or dup is in the middle of and for a child that fork is still     *)
(* copying to, which has no page its parent has not.                       *)
THEOREM PagesPaired == Spec => []PagesInv
BY PagesInit, PagesNext, PTL DEF Spec

-----------------------------------------------------------------------------
(* The counts agree when they should.                                      *)

LEMMA FdIsData ==
  ASSUME PagesInv, ~Forking
  PROVE  /\ \A x \in Env \X Fd : fd[x[1]][x[2]] # Nil => x[2] \in data[x[1]]
         /\ (\A e \in Env : op[e].at \notin {"close", "dup_fd", "exit_close", "fork"}) =>
              \A x \in Env \X Fd : fd[x[1]][x[2]] # Nil <=> x[2] \in data[x[1]]
<1>1. ASSUME NEW e \in Env PROVE Fits(op[e], fd[e], data[e])
  BY DEF PagesInv, OthersFit, ForksFit, Forking
<1>2. ASSUME NEW e \in Env, NEW i \in Fd, fd[e][i] # Nil PROVE i \in data[e]
  BY <1>1, <1>2 DEF Fits, Mid
<1>3. ASSUME NEW e \in Env, NEW i \in Fd, op[e].at \notin {"close", "dup_fd", "exit_close", "fork"}
      PROVE  fd[e][i] # Nil <=> i \in data[e]
  BY <1>1, <1>3 DEF Fits, Mid
<1> QED BY <1>2, <1>3

LEMMA LastOneOutInv ==
  ASSUME PagesInv
  PROVE  LastOneOut
<1> SUFFICES ASSUME \A e \in Env : op[e].at \notin {"close", "dup_fd", "exit_close", "fork"}
             PROVE  /\ ~HasEnd("wr") => FdRef("rd") = PipeRef
                    /\ ~HasEnd("rd") => FdRef("wr") = PipeRef
  BY DEF LastOneOut
<1>1. \A x \in Env \X Fd : fd[x[1]][x[2]] # Nil <=> x[2] \in data[x[1]]
  BY FdIsData DEF Forking
<1>2. \A x \in Env \X Fd : fd[x[1]][x[2]] \in {"rd", "wr", Nil}
  BY DEF PagesInv, PipeTypes, End
<1>3. Nil # "rd" /\ Nil # "wr"
  BY NilAssumption DEF End
<1>4. ASSUME ~HasEnd("wr") PROVE FdPages("rd") = PipePages
  BY <1>1, <1>2, <1>3, <1>4 DEF HasEnd, FdPages, PipePages
<1>5. ASSUME ~HasEnd("rd") PROVE FdPages("wr") = PipePages
  BY <1>1, <1>2, <1>3, <1>5 DEF HasEnd, FdPages, PipePages
<1> QED BY <1>4, <1>5, RefsAreCounts

(* Whatever any number of environments do, on any number of CPUs: once one *)
(* end is closed everywhere and nobody is between the two pages of a close,*)
(* dup or fork, pageref gives the same for both pages, so the other end    *)
(* sees that it is alone.                                                  *)
THEOREM NobodyWaitsForever == Spec => []LastOneOut
<1>1. PagesInv => LastOneOut
  BY LastOneOutInv
<1> QED BY <1>1, PagesPaired, PTL

-----------------------------------------------------------------------------
(* On one CPU the count that _pipeisclosed read first is still right when  *)
(* it reads the second, unless env_runs has told it otherwise.             *)

OneRunning == \A e, f \in running : e = f

FirstIsRight ==
  \A e \in running : op[e].at \in Looking /\ ~op[e].moved => op[e].ref = FdRef(fd[e][op[e].fd])

EofInv == PagesInv /\ OneRunning /\ FirstIsRight

(* Where a step of an environment's own leads.                             *)
LEMMA OwnsLooking ==
  ASSUME PagesInv, NEW e \in Env, Owns(e)
  PROVE  op'[e].at \in Looking =>
           /\ ~op'[e].moved => op'[e].ref = FdRef(fd[e][op'[e].fd])
           /\ UNCHANGED pages
<1>0. e \in running
  BY DEF Owns, Close, Dup, Exit, Read, Write, Start, CloseData, DupData, DupFd, ExitClose, ExitCloseData,
         PipeIsClosed, FirstRef, SecondRef, Moving, ReadReturn, ReadEmpty, ReadByte, ReadInc,
         WriteReturn, WriteFull, WriteByte, WriteInc, At
<1>1. ASSUME NEW o, NEW F, NEW D, OwnTo(e, o, F, D) PROVE op'[e] = o
  BY <1>1 DEF OwnTo, PagesInv, PipeTypes
<1>2. ASSUME NEW from, NEW to, FirstRef(e, from, to),
             <<from, to>> \in {<<"closed_read", "closed2_read">>, <<"closed_write", "closed2_write">>}
      PROVE  op'[e].ref = FdRef(fd[e][op'[e].fd]) /\ UNCHANGED pages
  <2> DEFINE n == [at |-> to, fd |-> op[e].fd, i |-> op[e].i,
                   ref |-> FdRef(fd[e][op[e].fd]), moved |-> FALSE]
  <2>1. op'[e] = n
    BY <1>2, <1>1, FirstRefOwn
  <2>2. n.ref = FdRef(fd[e][op[e].fd]) /\ n.fd = op[e].fd
    OBVIOUS
  <2> HIDE DEF n
  <2>3. n.ref = FdRef(fd[e][n.fd])
    BY <2>2
  <2>4. UNCHANGED pages
    BY <1>2 DEF FirstRef
  <2> QED BY <2>1, <2>3, <2>4
<1>3. ASSUME NEW at, NEW first, NEW caller, SecondRef(e, at, first, caller),
             <<at, first, caller>> \in {<<"closed2_read", "closed_read", "read">>,
                                        <<"closed2_write", "closed_write", "write">>}
      PROVE  op'[e].at \notin Looking
  BY <1>1, <1>3, SecondRefOwn DEF Looking
<1>4. ASSUME Moving(e) PROVE op'[e].at \notin Looking
  BY <1>1, <1>4, MovingOwn
<1>5. ASSUME Read(e) \/ Write(e) PROVE op'[e].at \notin Looking
  <2>1. PICK i \in Fd, where \in {"read", "write"} : op' = [op EXCEPT ![e] = [at |-> where, fd |-> i, i |-> 0]]
    BY <1>5 DEF Read, Write, Start, Goto
  <2> QED BY <2>1 DEF PagesInv, PipeTypes, Looking
<1>6. ASSUME \/ \E i \in Fd, dup \in Fd \cup {Nil} : Close(e, i, dup)
             \/ \E old, new \in Fd : Dup(e, old, new)
             \/ Exit(e) \/ ExitClose(e) \/ ExitCloseData(e)
      PROVE  op'[e].at \notin Looking
  BY <1>6 DEF Close, Dup, Exit, ExitClose, ExitCloseData, Goto, PagesInv, PipeTypes, Looking
<1>7. ASSUME CloseData(e) \/ DupFd(e) PROVE op'[e].at \notin Looking
  BY <1>7 DEF CloseData, DupFd, Goto, Idle, PagesInv, PipeTypes, Looking
<1>8. ASSUME DupData(e) PROVE op'[e].at \notin Looking
  <2>1. op[e].at = "dup_data" /\ op'[e] = [op[e] EXCEPT !.at = "dup_fd"]
    BY <1>8 DEF DupData, Goto, At, PagesInv, PipeTypes
  <2>2. op[e] \in [at : {"dup_data", "dup_fd"}, fd : Fd, dup : Fd]
    BY <1>0, <2>1, Facts, ShapeCases
  <2> QED BY <2>1, <2>2 DEF Looking
<1>9. ASSUME PipeIsClosed(e)
      PROVE  op'[e].at \in Looking => op'[e].ref = FdRef(fd[e][op'[e].fd]) /\ UNCHANGED pages
  BY <1>2, <1>3, <1>9 DEF PipeIsClosed
<1> QED BY <1>4, <1>5, <1>6, <1>7, <1>8, <1>9 DEF Owns

LEMMA OneRunningAfter ==
  ASSUME NCPU = 1, PagesInv, OneRunning, NEW f \in Env, EnvRun(f) \/ \E e \in Env : Switch(e, f)
  PROVE  running' = {f}
<1>1. CASE EnvRun(f)
  <2>1. IsFiniteSet(running)
    BY FS_Subset, PipeAssumption DEF PagesInv, PipeTypes
  <2>2. Cardinality(running) = 0
    BY <1>1, <2>1, FS_CardinalityType DEF EnvRun
  <2>3. running = {}
    BY <2>1, <2>2, FS_EmptySet
  <2> QED BY <1>1, <2>3 DEF EnvRun
<1>2. CASE \E e \in Env : Switch(e, f)
  BY <1>2 DEF Switch, OneRunning
<1> QED BY <1>1, <1>2

LEMMA EofNext ==
  ASSUME NCPU = 1, EofInv, [Next]_vars
  PROVE  EofInv'
<1>0. PagesInv /\ PagesInv' /\ OneRunning /\ FirstIsRight
  BY PagesNext DEF EofInv
<1>1. CASE UNCHANGED vars
  BY <1>0, <1>1 DEF EofInv, OneRunning, FirstIsRight, FdRef, vars, pages, sched
<1>2. CASE Next
  <2>1. PICK e \in Env :
           \/ Owns(e) \/ (\E c \in Env : Fork(e, c)) \/ DuppageFd(e) \/ DuppageData(e) \/ ForkReturn(e)
           \/ SysEnvDestroy(e) \/ (\E f \in Env : Switch(e, f)) \/ EnvRun(e)
    BY <1>2, NextCases
  <2>2. CASE Owns(e)
    <3>1. e \in running /\ running' = running
      <4>1. PICK o, F, D : OwnTo(e, o, F, D)
        BY <1>0, <2>2, OwnsIsOwn
      <4> QED BY <4>1 DEF OwnTo, sched
    <3>2. \A x \in running' : x = e
      BY <3>1, <1>0 DEF OneRunning
    <3>3. ASSUME op'[e].at \in Looking, ~op'[e].moved PROVE (op[e].ref = FdRef(fd[e][op[e].fd]))'
      <4>1. op'[e].ref = FdRef(fd[e][op'[e].fd]) /\ fd' = fd
        BY <1>0, <2>2, <3>3, OwnsLooking DEF pages
      <4> QED BY <4>1 DEF FdRef
    <3>4. OneRunning'
      BY <3>1, <1>0 DEF OneRunning
    <3>5. FirstIsRight'
      BY <3>2, <3>3 DEF FirstIsRight
    <3> QED BY <3>4, <3>5, <1>0 DEF EofInv
  <2>3. CASE (\E c \in Env : Fork(e, c)) \/ DuppageFd(e) \/ DuppageData(e) \/ ForkReturn(e) \/ SysEnvDestroy(e)
    <3>1. e \in running /\ running' \in SUBSET running
      BY <2>3 DEF Fork, DuppageFd, DuppageData, ForkReturn, SysEnvDestroy, At, sched
    <3>2. op'[e].at \notin Looking
      BY <2>3, <1>0 DEF Fork, DuppageFd, DuppageData, ForkReturn, SysEnvDestroy, At, Goto, Idle, Looking,
         PagesInv, PipeTypes
    <3> QED BY <3>1, <3>2, <1>0 DEF EofInv, OneRunning, FirstIsRight
  <2>4. CASE (\E f \in Env : Switch(e, f)) \/ EnvRun(e)
    <3>1. PICK f \in Env : EnvRun(f) \/ \E x \in Env : Switch(x, f)
      BY <2>4
    <3>2. running' = {f}
      BY <3>1, <1>0, OneRunningAfter
    <3>3. op'[f] = Dispatched(f)
      BY <3>1, <1>0 DEF Switch, EnvRun, Goto, PagesInv, PipeTypes
    <3>4. op'[f].at \in Looking => op'[f].moved
      BY <3>3, <1>0, DispatchedSame
    <3> QED BY <3>2, <3>4, <1>0 DEF EofInv, OneRunning, FirstIsRight
  <2> QED BY <2>1, <2>2, <2>3, <2>4
<1> QED BY <1>1, <1>2

(* When a call of _pipeisclosed can end with 1.                            *)
LEMMA WhoSaysClosed ==
  ASSUME PagesInv, [Next]_vars, NEW e \in Env, op[e].at \in Looking, op'[e] = Idle
  PROVE  e \in running /\ ~op[e].moved /\ op[e].ref = PipeRef
<1>1. op'[e] # op[e]
  BY DEF Idle, Looking
<1>2. Next
  BY <1>1 DEF vars
<1>3. PICK x \in Env :
         \/ Owns(x) \/ (\E c \in Env : Fork(x, c)) \/ DuppageFd(x) \/ DuppageData(x) \/ ForkReturn(x)
         \/ SysEnvDestroy(x) \/ (\E f \in Env : Switch(x, f)) \/ EnvRun(x)
  BY <1>2, NextCases
<1>4. CASE (\E f \in Env : Switch(x, f)) \/ EnvRun(x)
  <2>1. PICK f \in Env : Goto(f, Dispatched(f))
    BY <1>4 DEF Switch, EnvRun
  <2>2. f = e
    BY <2>1, <1>1 DEF Goto, PagesInv, PipeTypes
  <2>3. op'[e] = Dispatched(e)
    BY <2>1, <2>2 DEF Goto, PagesInv, PipeTypes
  <2>4. op'[e].at \in Looking
    BY <2>3, DispatchedSame
  <2> QED BY <2>4 DEF Idle, Looking
<1>5. CASE (\E c \in Env : Fork(x, c)) \/ DuppageFd(x) \/ DuppageData(x) \/ ForkReturn(x) \/ SysEnvDestroy(x)
  <2>1. op[x].at \notin Looking /\ \A y \in Env : y # x => op'[y] = op[y]
    BY <1>5 DEF Fork, DuppageFd, DuppageData, ForkReturn, SysEnvDestroy, At, Goto, Looking, PagesInv, PipeTypes
  <2> QED BY <2>1, <1>1
<1>6. CASE Owns(x)
  <2>1. PICK o, F, D : OwnTo(x, o, F, D)
    BY <1>6, OwnsIsOwn
  <2>2. x = e
    BY <2>1, <1>1 DEF OwnTo, PagesInv, PipeTypes
  <2>3. e \in running
    BY <2>1, <2>2 DEF OwnTo
  <2>4. SecondRef(e, "closed2_read", "closed_read", "read") \/ SecondRef(e, "closed2_write", "closed_write", "write")
    BY <1>6, <2>2, MovingOwn
       DEF Owns, Close, Dup, Exit, Read, Write, Start, CloseData, DupData, DupFd, ExitClose, ExitCloseData,
           PipeIsClosed, FirstRef, At, Looking
  <2>5. CASE SecondRef(e, "closed2_read", "closed_read", "read")
    BY <2>3, <2>5, SecondRefOwn DEF SecondRef, At
  <2>6. CASE SecondRef(e, "closed2_write", "closed_write", "write")
    BY <2>3, <2>6, SecondRefOwn DEF SecondRef, At
  <2> QED BY <2>4, <2>5, <2>6
<1> QED BY <1>3, <1>4, <1>5, <1>6

(* If the counts agree while nobody forks, there is only one end.          *)
LEMMA EqualMeansAlone ==
  ASSUME PagesInv, ~Forking, NEW end \in End, NEW other \in End, end # other, FdRef(end) = PipeRef
  PROVE  ~HasEnd(other)
<1>1. FdPages(end) \in SUBSET (Env \X Fd) /\ PipePages \in SUBSET (Env \X Fd)
  BY DEF FdPages, PipePages
<1>2. Nil \notin End
  BY NilAssumption
<1>3. \A x \in Env \X Fd : fd[x[1]][x[2]] # Nil => x[2] \in data[x[1]]
  BY FdIsData
<1>4. FdPages(end) \subseteq PipePages
  BY <1>2, <1>3 DEF FdPages, PipePages
<1>5. FdPages(end) = PipePages
  BY <1>1, <1>4, CountsFinite, RefsAreCounts, FS_Subset
<1>6. ASSUME NEW e \in Env, NEW i \in Fd, fd[e][i] = other PROVE FALSE
  <2>1. <<e, i>> \in Env \X Fd /\ <<e, i>> \in PipePages
    BY <1>2, <1>3, <1>6 DEF PipePages
  <2>2. fd[e][i] = end
    BY <2>1, <1>5 DEF FdPages
  <2> QED BY <2>2, <1>6
<1> QED BY <1>6 DEF HasEnd

(* On one CPU, with any number of environments that open, duplicate, close *)
(* and exit as they like, _pipeisclosed reports that the other end is gone *)
(* only when it is, as long as nobody forks at that moment: the check of   *)
(* env_runs is enough, although the two counts are read at two moments.    *)
THEOREM EofIsTrue ==
  ASSUME NCPU = 1
  PROVE  Spec => NoFalseEof
<1>1. Init => EofInv
  <2> SUFFICES ASSUME Init PROVE EofInv
    OBVIOUS
  <2>1. OneRunning /\ FirstIsRight
    BY PipeAssumption DEF Init, OneRunning, FirstIsRight, Idle, Looking
  <2> QED BY <2>1, PagesInit DEF EofInv
<1>2. EofInv /\ [Next]_vars => EofInv'
  BY EofNext
<1> DEFINE Honest == ~Forking => \A e \in Env :
                       /\ SaysClosed(e, "closed2_read") => ~HasEnd("wr")
                       /\ SaysClosed(e, "closed2_write") => ~HasEnd("rd")
<1>3. EofInv /\ [Next]_vars => [Honest]_vars
  <2> SUFFICES ASSUME EofInv, [Next]_vars, ~Forking, NEW e \in Env
               PROVE  /\ SaysClosed(e, "closed2_read") => ~HasEnd("wr")
                      /\ SaysClosed(e, "closed2_write") => ~HasEnd("rd")
    OBVIOUS
  <2>0. PagesInv /\ FirstIsRight
    BY DEF EofInv
  <2>1. ASSUME op[e].at \in Looking, op'[e] = Idle
        PROVE  FdRef(fd[e][op[e].fd]) = PipeRef /\ Fits(op[e], fd[e], data[e])
    <3>1. e \in running /\ ~op[e].moved /\ op[e].ref = PipeRef
      BY <2>0, <2>1, WhoSaysClosed
    <3> QED BY <2>0, <2>1, <3>1, Facts DEF FirstIsRight
  <2>2. ASSUME SaysClosed(e, "closed2_read") PROVE ~HasEnd("wr")
    <3>1. FdRef("rd") = PipeRef
      BY <2>1, <2>2 DEF SaysClosed, Looking, Fits, Reading
    <3> QED BY <2>0, <3>1, EqualMeansAlone DEF End
  <2>3. ASSUME SaysClosed(e, "closed2_write") PROVE ~HasEnd("rd")
    <3>1. FdRef("wr") = PipeRef
      BY <2>1, <2>3 DEF SaysClosed, Looking, Fits, Writing
    <3> QED BY <2>0, <3>1, EqualMeansAlone DEF End
  <2> QED BY <2>2, <2>3
<1> QED BY <1>1, <1>2, <1>3, PTL DEF Spec, NoFalseEof

-----------------------------------------------------------------------------
(* With one reader and one writer the pipe is a queue.  Nothing in the code*)
(* keeps two readers, or two writers, apart.                               *)

OneEach ==
  \A e, f \in Env : \A call \in {"read", "write"} :
    <<e, call>> \in May /\ <<f, call>> \in May => e = f

(* What a call knows of the positions and the buffer.                      *)
CallOK(e, o, r, w, buf) ==
  /\ o.at \in Reading => <<e, "read">> \in May
  /\ o.at \in Writing => <<e, "write">> \in May /\ w + (NByte - o.i) <= MaxBytes
  /\ InCall(o) => o.i <= NByte
  /\ o.at = "read_inc" => r < w /\ o.byte = r + 1 /\ o.i < NByte
  /\ o.at = "write_inc" => w < r + PIPEBUFSIZ /\ buf[w % PIPEBUFSIZ] = w + 1 /\ o.i < NByte
  /\ o.at \in Looking => o.ref <= Cardinality(Env) * MAXFD

(* The bytes between the positions, by their numbers.                      *)
Window(r, w, buf, g) ==
  /\ r <= w /\ w <= r + PIPEBUFSIZ /\ w <= MaxBytes /\ g <= r
  /\ \A k \in Nat : r <= k /\ k < w => buf[k % PIPEBUFSIZ] = k + 1
  /\ \A s \in 0 .. PIPEBUFSIZ - 1 : buf[s] <= MaxBytes

Calls == \A e \in Env : CallOK(e, op[e], p_rpos, p_wpos, p_buf)

StreamInv == PagesInv /\ Calls /\ Window(p_rpos, p_wpos, p_buf, got)

(* Two positions less than the size of the buffer apart have different     *)
(* slots.                                                                  *)
LEMMA SlotsDiffer ==
  ASSUME NEW B \in Nat, B > 0, NEW k \in Nat, NEW w \in Nat, k < w, w < k + B
  PROVE  k % B # w % B
<1>0. ASSUME NEW n \in Nat PROVE \E p \in Int, a \in 0 .. B - 1 : n = B * p + a /\ a = n % B
  <2>1. n % B = n - B * (n \div B)
    OBVIOUS
  <2>2. PICK p \in Int : p = n \div B
    OBVIOUS
  <2>3. PICK a \in 0 .. B - 1 : a = n % B
    OBVIOUS
  <2>4. a = n - B * p
    BY <2>1, <2>2, <2>3
  <2>5. n = B * p + a
    BY <2>4
  <2> QED BY <2>3, <2>5
<1>1. PICK p \in Int, a \in 0 .. B - 1 : k = B * p + a /\ a = k % B
  BY <1>0
<1>2. PICK q \in Int, b \in 0 .. B - 1 : w = B * q + b /\ b = w % B
  BY <1>0
<1>3. SUFFICES ASSUME a = b PROVE FALSE
  BY <1>1, <1>2
<1>4. PICK d \in Int : d = q - p
  OBVIOUS
<1>5. w - k = B * d
  BY <1>1, <1>2, <1>3, <1>4
<1>6. B * d > 0 /\ B * d < B
  BY <1>5
<1>7. d > 0
  BY <1>6
<1>8. B * d >= B
  BY <1>7
<1> QED BY <1>6, <1>8

LEMMA RefBound ==
  ASSUME NEW end
  PROVE  FdRef(end) <= Cardinality(Env) * MAXFD
<1>1. IsFiniteSet(Fd) /\ Cardinality(Fd) = MAXFD
  BY FS_Interval, PipeAssumption DEF Fd
<1>2. Cardinality(Env \X Fd) = Cardinality(Env) * MAXFD
  BY <1>1, FS_Product, PipeAssumption
<1>3. FdPages(end) \subseteq Env \X Fd
  BY DEF FdPages
<1>4. Cardinality(FdPages(end)) <= Cardinality(Env \X Fd)
  BY <1>3, CountsFinite, FS_Subset
<1> QED BY <1>2, <1>4, RefsAreCounts

(* A step that leaves the bytes of the pipe alone.                         *)
LEMMA QuietStep ==
  ASSUME StreamInv, PagesInv', UNCHANGED bytes, NEW e \in Env,
         CallOK(e, op'[e], p_rpos, p_wpos, p_buf), \A x \in Env : x # e => op'[x] = op[x]
  PROVE  StreamInv'
BY DEF StreamInv, Calls, bytes

LEMMA NotInCall ==
  ASSUME NEW e, NEW o, ~InCall(o), NEW r, NEW w, NEW buf
  PROVE  CallOK(e, o, r, w, buf)
BY DEF CallOK, InCall, Reading, Writing, Looking

(* The steps that have nothing to do with reading and writing.             *)
LEMMA OtherOwns ==
  ASSUME PagesInv, NEW e \in Env,
         \/ \E i \in Fd, dup \in Fd \cup {Nil} : Close(e, i, dup)
         \/ \E old, new \in Fd : Dup(e, old, new)
         \/ Exit(e) \/ CloseData(e) \/ DupData(e) \/ DupFd(e) \/ ExitClose(e) \/ ExitCloseData(e)
         \/ ReadReturn(e) \/ WriteReturn(e)
  PROVE  ~InCall(op'[e]) /\ UNCHANGED bytes
<1>1. UNCHANGED bytes
  BY DEF Close, Dup, Exit, CloseData, DupData, DupFd, ExitClose, ExitCloseData, ReadReturn, WriteReturn
<1>2. CASE DupData(e)
  <2>1. e \in running /\ op[e].at = "dup_data" /\ op'[e] = [op[e] EXCEPT !.at = "dup_fd"]
    BY <1>2 DEF DupData, Goto, At, PagesInv, PipeTypes
  <2>2. op[e] \in [at : {"dup_data", "dup_fd"}, fd : Fd, dup : Fd]
    BY <2>1, Facts, ShapeCases
  <2> QED BY <1>1, <2>1, <2>2 DEF InCall, Reading, Writing
<1>3. CASE CloseData(e) \/ DupFd(e) \/ ReadReturn(e) \/ WriteReturn(e)
  BY <1>1, <1>3 DEF CloseData, DupFd, ReadReturn, WriteReturn, Goto, Idle, PagesInv, PipeTypes, InCall, Reading, Writing
<1>4. CASE \/ \E i \in Fd, dup \in Fd \cup {Nil} : Close(e, i, dup)
           \/ \E old, new \in Fd : Dup(e, old, new)
           \/ Exit(e) \/ ExitClose(e) \/ ExitCloseData(e)
  BY <1>1, <1>4 DEF Close, Dup, Exit, ExitClose, ExitCloseData, Goto, PagesInv, PipeTypes, InCall, Reading, Writing
<1> QED BY <1>2, <1>3, <1>4

(* The steps of read, write and _pipeisclosed that leave the bytes alone.  *)
LEMMA QuietCalls ==
  ASSUME StreamInv, NEW e \in Env,
         \/ <<e, "read">> \in May /\ Read(e)
         \/ <<e, "write">> \in May /\ Write(e)
         \/ PipeIsClosed(e) \/ ReadEmpty(e) \/ ReadByte(e) \/ WriteFull(e)
  PROVE  CallOK(e, op'[e], p_rpos, p_wpos, p_buf) /\ UNCHANGED bytes
<1>0. PagesInv /\ CallOK(e, op[e], p_rpos, p_wpos, p_buf) /\ Window(p_rpos, p_wpos, p_buf, got)
  BY DEF StreamInv, Calls
<1>1. UNCHANGED bytes
  BY DEF Read, Write, Start, PipeIsClosed, FirstRef, SecondRef, ReadEmpty, ReadByte, WriteFull
<1>2. op \in [Env -> Shape] /\ p_rpos \in Nat /\ p_wpos \in Nat /\ NByte \in Nat /\ PIPEBUFSIZ \in Nat /\ MaxBytes \in Nat
  BY <1>0, PipeAssumption DEF PagesInv, PipeTypes
<1>3. CASE <<e, "read">> \in May /\ Read(e)
  <2>1. PICK i \in Fd : op'[e] = [at |-> "read", fd |-> i, i |-> 0]
    BY <1>2, <1>3 DEF Read, Start, Goto
  <2> QED BY <1>1, <1>2, <1>3, <2>1 DEF CallOK, InCall, Reading, Writing, Looking
<1>4. CASE <<e, "write">> \in May /\ Write(e)
  <2>1. PICK i \in Fd : op'[e] = [at |-> "write", fd |-> i, i |-> 0]
    BY <1>2, <1>4 DEF Write, Start, Goto
  <2>2. p_wpos + NByte <= MaxBytes
    BY <1>4 DEF Write
  <2> QED BY <1>1, <1>2, <1>4, <2>1, <2>2 DEF CallOK, InCall, Reading, Writing, Looking
<1>5. CASE ReadEmpty(e)
  <2>1. e \in running /\ op[e].at = "read" /\ op'[e] = [op[e] EXCEPT !.at = "closed_read"]
    BY <1>2, <1>5 DEF ReadEmpty, At, Goto
  <2>2. op[e] \in [at : {"read", "write", "write_inc", "closed_read", "closed_write"}, fd : Fd, i : Nat]
    BY <1>0, <2>1, Facts, ShapeCases
  <2>3. op'[e].at = "closed_read" /\ op'[e].i = op[e].i
    BY <2>1, <2>2
  <2> QED BY <1>0, <1>1, <1>2, <2>1, <2>3 DEF CallOK, InCall, Reading, Writing, Looking
<1>6. CASE WriteFull(e)
  <2>1. e \in running /\ op[e].at = "write" /\ op'[e] = [op[e] EXCEPT !.at = "closed_write"]
    BY <1>2, <1>6 DEF WriteFull, At, Goto
  <2>2. op[e] \in [at : {"read", "write", "write_inc", "closed_read", "closed_write"}, fd : Fd, i : Nat]
    BY <1>0, <2>1, Facts, ShapeCases
  <2>3. op'[e].at = "closed_write" /\ op'[e].i = op[e].i
    BY <2>1, <2>2
  <2> QED BY <1>0, <1>1, <1>2, <2>1, <2>3 DEF CallOK, InCall, Reading, Writing, Looking
<1>7. CASE ReadByte(e)
  <2>1. /\ op[e].at = "read" /\ op[e].i < NByte /\ p_rpos # p_wpos
        /\ op'[e] = [at |-> "read_inc", fd |-> op[e].fd, i |-> op[e].i, byte |-> p_buf[p_rpos % PIPEBUFSIZ]]
    BY <1>2, <1>7 DEF ReadByte, At, Goto
  <2>2. p_rpos < p_wpos /\ p_buf[p_rpos % PIPEBUFSIZ] = p_rpos + 1
    BY <1>0, <1>2, <2>1 DEF Window
  <2>3. op'[e].at = "read_inc" /\ op'[e].i = op[e].i /\ op'[e].byte = p_rpos + 1
    BY <2>1, <2>2
  <2> QED BY <1>0, <1>1, <1>2, <2>1, <2>2, <2>3 DEF CallOK, InCall, Reading, Writing, Looking
<1>8. CASE PipeIsClosed(e)
  <2>1. ASSUME NEW from, NEW to, FirstRef(e, from, to),
               <<from, to>> \in {<<"closed_read", "closed2_read">>, <<"closed_write", "closed2_write">>}
        PROVE  CallOK(e, op'[e], p_rpos, p_wpos, p_buf)
    <3>1. /\ op[e].at = from
          /\ op'[e] = [at |-> to, fd |-> op[e].fd, i |-> op[e].i, ref |-> FdRef(fd[e][op[e].fd]), moved |-> FALSE]
      BY <1>2, <2>1 DEF FirstRef, At, Goto
    <3>2. op'[e].at = to /\ op'[e].i = op[e].i /\ op'[e].ref <= Cardinality(Env) * MAXFD
      BY <3>1, RefBound
    <3> QED BY <1>0, <2>1, <3>1, <3>2 DEF CallOK, InCall, Reading, Writing, Looking
  <2>2. ASSUME NEW at, NEW first, NEW caller, SecondRef(e, at, first, caller),
               <<at, first, caller>> \in {<<"closed2_read", "closed_read", "read">>,
                                          <<"closed2_write", "closed_write", "write">>}
        PROVE  CallOK(e, op'[e], p_rpos, p_wpos, p_buf)
    <3>1. /\ op[e].at = at
          /\ \/ op'[e] = Idle
             \/ op'[e] = [at |-> first, fd |-> op[e].fd, i |-> op[e].i]
             \/ op'[e] = [at |-> caller, fd |-> op[e].fd, i |-> op[e].i]
      BY <1>2, <2>2 DEF SecondRef, At, Goto
    <3>2. op'[e].at = "idle" \/ (op'[e].at \in {first, caller} /\ op'[e].i = op[e].i)
      BY <3>1 DEF Idle
    <3> QED BY <1>0, <2>2, <3>1, <3>2 DEF CallOK, InCall, Reading, Writing, Looking
  <2> QED BY <1>1, <1>8, <2>1, <2>2 DEF PipeIsClosed
<1> QED BY <1>3, <1>4, <1>5, <1>6, <1>7, <1>8

LEMMA OneCall ==
  ASSUME OneEach, StreamInv, NEW e \in Env, NEW f \in Env, e # f
  PROVE  /\ op[e].at \in Reading => op[f].at \notin Reading
         /\ op[e].at \in Writing => op[f].at \notin Writing
BY DEF OneEach, StreamInv, Calls, CallOK

LEMMA ReadIncStream ==
  ASSUME OneEach, StreamInv, PagesInv', NEW e \in Env, ReadInc(e)
  PROVE  StreamInv' /\ p_rpos < p_wpos /\ p_rpos' = p_rpos + 1 /\ got' = p_rpos + 1 /\ p_wpos' = p_wpos
<1>0. PagesInv /\ CallOK(e, op[e], p_rpos, p_wpos, p_buf) /\ Window(p_rpos, p_wpos, p_buf, got)
  BY DEF StreamInv, Calls
<1>1. op \in [Env -> Shape] /\ p_rpos \in Nat /\ p_wpos \in Nat /\ NByte \in Nat /\ PIPEBUFSIZ \in Nat
      /\ MaxBytes \in Nat /\ got \in Nat
  BY <1>0, PipeAssumption DEF PagesInv, PipeTypes
<1>2. /\ e \in running /\ op[e].at = "read_inc" /\ p_rpos' = p_rpos + 1 /\ got' = op[e].byte /\ p_wpos' = p_wpos /\ p_buf' = p_buf
      /\ op'[e] = [at |-> "read", fd |-> op[e].fd, i |-> op[e].i + 1]
      /\ \A x \in Env : x # e => op'[x] = op[x]
  BY <1>1 DEF ReadInc, At, Goto
<1>3. p_rpos < p_wpos /\ op[e].byte = p_rpos + 1 /\ op[e].i < NByte /\ <<e, "read">> \in May
  BY <1>0, <1>2 DEF CallOK, Reading
<1>i. op[e].i \in Nat
  BY <1>0, <1>2, Facts, ShapeCases
<1>4. op'[e].at = "read" /\ op'[e].i = op[e].i + 1
  BY <1>2
<1>5. CallOK(e, op'[e], p_rpos + 1, p_wpos, p_buf)
  BY <1>1, <1>3, <1>4, <1>i DEF CallOK, InCall, Reading, Writing, Looking
<1>6. ASSUME NEW x \in Env, x # e PROVE CallOK(x, op[x], p_rpos + 1, p_wpos, p_buf)
  <2>1. op[x].at \notin Reading
    BY <1>2, <1>6, OneCall DEF Reading
  <2>2. CallOK(x, op[x], p_rpos, p_wpos, p_buf)
    BY DEF StreamInv, Calls
  <2> QED BY <1>1, <2>1, <2>2 DEF CallOK, InCall, Reading, Writing, Looking
<1>7. Calls'
  BY <1>2, <1>5, <1>6 DEF Calls
<1>8. Window(p_rpos + 1, p_wpos, p_buf, p_rpos + 1)
  <2>1. /\ p_rpos + 1 <= p_wpos /\ p_wpos <= p_rpos + 1 + PIPEBUFSIZ /\ p_wpos <= MaxBytes
        /\ p_rpos + 1 <= p_rpos + 1
    BY <1>0, <1>1, <1>3 DEF Window
  <2>2. \A k \in Nat : p_rpos + 1 <= k => p_rpos <= k
    BY <1>1
  <2>3. \A k \in Nat : p_rpos + 1 <= k /\ k < p_wpos => p_buf[k % PIPEBUFSIZ] = k + 1
    BY <1>0, <2>2 DEF Window
  <2> QED BY <1>0, <2>1, <2>3 DEF Window
<1> QED BY <1>2, <1>3, <1>7, <1>8 DEF StreamInv

LEMMA WriteByteStream ==
  ASSUME OneEach, StreamInv, PagesInv', NEW e \in Env, WriteByte(e)
  PROVE  StreamInv' /\ UNCHANGED <<p_rpos, p_wpos, got>>
<1>0. PagesInv /\ CallOK(e, op[e], p_rpos, p_wpos, p_buf) /\ Window(p_rpos, p_wpos, p_buf, got)
  BY DEF StreamInv, Calls
<1>1. op \in [Env -> Shape] /\ p_rpos \in Nat /\ p_wpos \in Nat /\ NByte \in Nat /\ PIPEBUFSIZ \in Nat /\ PIPEBUFSIZ > 0
      /\ MaxBytes \in Nat /\ got \in Nat /\ p_buf \in [0 .. PIPEBUFSIZ - 1 -> Nat]
  BY <1>0, PipeAssumption DEF PagesInv, PipeTypes
<1>2. /\ e \in running /\ op[e].at = "write" /\ op[e].i < NByte /\ ~Full
      /\ UNCHANGED <<p_rpos, p_wpos, got>>
      /\ p_buf' = [p_buf EXCEPT ![p_wpos % PIPEBUFSIZ] = p_wpos + 1]
      /\ op'[e] = [op[e] EXCEPT !.at = "write_inc"]
      /\ \A x \in Env : x # e => op'[x] = op[x]
  BY <1>1 DEF WriteByte, At, Goto
<1>3. op[e] \in [at : {"read", "write", "write_inc", "closed_read", "closed_write"}, fd : Fd, i : Nat]
  BY <1>0, <1>2, Facts, ShapeCases
<1>4. op'[e].at = "write_inc" /\ op'[e].i = op[e].i /\ op[e].i \in Nat
  BY <1>2, <1>3
<1>5. p_wpos < p_rpos + PIPEBUFSIZ /\ p_wpos + 1 <= MaxBytes
  BY <1>0, <1>1, <1>2, <1>4 DEF Full, CallOK, Writing
<1>6. PICK t \in 0 .. PIPEBUFSIZ - 1 : t = p_wpos % PIPEBUFSIZ
  BY <1>1, SlotIn
<1>7. p_buf'[t] = p_wpos + 1 /\ \A s \in 0 .. PIPEBUFSIZ - 1 : s # t => p_buf'[s] = p_buf[s]
  BY <1>1, <1>2, <1>6
<1>8. CallOK(e, op'[e], p_rpos, p_wpos, p_buf')
  BY <1>0, <1>2, <1>4, <1>5, <1>6, <1>7 DEF CallOK, InCall, Reading, Writing, Looking
<1>9. ASSUME NEW x \in Env, x # e PROVE CallOK(x, op[x], p_rpos, p_wpos, p_buf')
  <2>1. op[x].at \notin Writing
    BY <1>2, <1>9, OneCall DEF Writing
  <2>2. CallOK(x, op[x], p_rpos, p_wpos, p_buf)
    BY DEF StreamInv, Calls
  <2> QED BY <2>1, <2>2 DEF CallOK, InCall, Reading, Writing, Looking
<1>10. Calls'
  BY <1>2, <1>8, <1>9 DEF Calls
<1>11. ASSUME NEW k \in Nat, p_rpos <= k, k < p_wpos PROVE p_buf'[k % PIPEBUFSIZ] = k + 1
  <2>0. p_wpos < k + PIPEBUFSIZ
    BY <1>1, <1>5, <1>11
  <2>1. k % PIPEBUFSIZ # p_wpos % PIPEBUFSIZ
    BY <1>1, <1>11, <2>0, SlotsDiffer
  <2>2. PICK s \in 0 .. PIPEBUFSIZ - 1 : s = k % PIPEBUFSIZ
    BY SlotIn
  <2>3. p_buf[s] = k + 1
    BY <1>0, <1>11, <2>2 DEF Window
  <2> QED BY <1>6, <1>7, <2>1, <2>2, <2>3
<1>12. \A s \in 0 .. PIPEBUFSIZ - 1 : p_buf'[s] <= MaxBytes
  BY <1>0, <1>5, <1>7 DEF Window
<1>13. Window(p_rpos, p_wpos, p_buf', got)
  BY <1>0, <1>11, <1>12 DEF Window
<1> QED BY <1>2, <1>10, <1>13 DEF StreamInv

LEMMA WriteIncStream ==
  ASSUME OneEach, StreamInv, PagesInv', NEW e \in Env, WriteInc(e)
  PROVE  /\ StreamInv' /\ p_wpos' = p_wpos + 1 /\ UNCHANGED <<p_rpos, got>>
         /\ p_wpos < p_rpos + PIPEBUFSIZ /\ p_wpos + 1 <= MaxBytes
<1>0. PagesInv /\ CallOK(e, op[e], p_rpos, p_wpos, p_buf) /\ Window(p_rpos, p_wpos, p_buf, got)
  BY DEF StreamInv, Calls
<1>1. op \in [Env -> Shape] /\ p_rpos \in Nat /\ p_wpos \in Nat /\ NByte \in Nat /\ PIPEBUFSIZ \in Nat
      /\ MaxBytes \in Nat /\ got \in Nat
  BY <1>0, PipeAssumption DEF PagesInv, PipeTypes
<1>2. /\ e \in running /\ op[e].at = "write_inc" /\ p_wpos' = p_wpos + 1 /\ UNCHANGED <<p_rpos, p_buf, got>>
      /\ op'[e] = [at |-> "write", fd |-> op[e].fd, i |-> op[e].i + 1]
      /\ \A x \in Env : x # e => op'[x] = op[x]
  BY <1>1 DEF WriteInc, At, Goto
<1>i. op[e].i \in Nat
  BY <1>0, <1>2, Facts, ShapeCases
<1>3. /\ p_wpos < p_rpos + PIPEBUFSIZ /\ p_buf[p_wpos % PIPEBUFSIZ] = p_wpos + 1 /\ op[e].i < NByte
      /\ p_wpos + (NByte - op[e].i) <= MaxBytes /\ <<e, "write">> \in May
  BY <1>0, <1>2 DEF CallOK, Writing
<1>4. op'[e].at = "write" /\ op'[e].i = op[e].i + 1
  BY <1>2
<1>5. CallOK(e, op'[e], p_rpos, p_wpos + 1, p_buf)
  BY <1>1, <1>3, <1>4, <1>i DEF CallOK, InCall, Reading, Writing, Looking
<1>6. ASSUME NEW x \in Env, x # e PROVE CallOK(x, op[x], p_rpos, p_wpos + 1, p_buf)
  <2>1. op[x].at \notin Writing
    BY <1>2, <1>6, OneCall DEF Writing
  <2>2. CallOK(x, op[x], p_rpos, p_wpos, p_buf)
    BY DEF StreamInv, Calls
  <2> QED BY <1>1, <2>1, <2>2 DEF CallOK, InCall, Reading, Writing, Looking
<1>7. Calls'
  BY <1>2, <1>5, <1>6 DEF Calls
<1>8. p_wpos + 1 <= MaxBytes
  BY <1>1, <1>3, <1>i
<1>9. ASSUME NEW k \in Nat, p_rpos <= k, k < p_wpos + 1 PROVE p_buf[k % PIPEBUFSIZ] = k + 1
  <2>1. CASE k = p_wpos
    BY <2>1, <1>3
  <2>2. CASE k < p_wpos
    BY <2>2, <1>0, <1>9 DEF Window
  <2> QED BY <1>1, <1>9, <2>1, <2>2
<1>10. Window(p_rpos, p_wpos + 1, p_buf, got)
  BY <1>0, <1>1, <1>3, <1>8, <1>9 DEF Window
<1> QED BY <1>2, <1>3, <1>7, <1>8, <1>10 DEF StreamInv

(* Every step either leaves the bytes alone or is one of these three.      *)
LEMMA StreamNext ==
  ASSUME OneEach, StreamInv, [Next]_vars
  PROVE  /\ StreamInv'
         /\ \/ UNCHANGED <<p_rpos, p_wpos, got>>
            \/ p_rpos < p_wpos /\ p_rpos' = p_rpos + 1 /\ got' = p_rpos + 1 /\ p_wpos' = p_wpos
            \/ /\ p_wpos' = p_wpos + 1 /\ UNCHANGED <<p_rpos, got>>
               /\ p_wpos < p_rpos + PIPEBUFSIZ /\ p_wpos + 1 <= MaxBytes
<1>0. PagesInv /\ PagesInv'
  BY PagesNext DEF StreamInv
<1>1. CASE UNCHANGED vars
  BY <1>0, <1>1 DEF StreamInv, Calls, vars, bytes
<1>2. CASE Next
  <2>1. PICK e \in Env :
           \/ Owns(e) \/ (\E c \in Env : Fork(e, c)) \/ DuppageFd(e) \/ DuppageData(e) \/ ForkReturn(e)
           \/ SysEnvDestroy(e) \/ (\E f \in Env : Switch(e, f)) \/ EnvRun(e)
    BY <1>2, NextCases
  <2>2. CASE Owns(e)
    <3>1. \A x \in Env : x # e => op'[x] = op[x]
      BY <1>0, <2>2, OwnsIsOwn DEF OwnTo, PagesInv, PipeTypes
    <3>2. CASE ReadInc(e) \/ WriteByte(e) \/ WriteInc(e)
      BY <1>0, <3>2, ReadIncStream, WriteByteStream, WriteIncStream
    <3>3. CASE ~(ReadInc(e) \/ WriteByte(e) \/ WriteInc(e))
      <4>1. CallOK(e, op'[e], p_rpos, p_wpos, p_buf) /\ UNCHANGED bytes
        BY <1>0, <2>2, <3>3, OtherOwns, NotInCall, QuietCalls DEF Owns, Moving
      <4> QED BY <1>0, <3>1, <4>1, QuietStep DEF bytes
    <3> QED BY <3>2, <3>3
  <2>3. CASE (\E c \in Env : Fork(e, c)) \/ DuppageFd(e) \/ DuppageData(e) \/ ForkReturn(e) \/ SysEnvDestroy(e)
    <3>1. /\ UNCHANGED bytes /\ ~InCall(op'[e])
          /\ \A x \in Env : x # e => op'[x] = op[x]
      BY <2>3, <1>0 DEF Fork, DuppageFd, DuppageData, ForkReturn, SysEnvDestroy, At, Goto, Idle, InCall,
         Reading, Writing, PagesInv, PipeTypes
    <3> QED BY <1>0, <3>1, NotInCall, QuietStep DEF bytes
  <2>4. CASE (\E f \in Env : Switch(e, f)) \/ EnvRun(e)
    <3>1. PICK f \in Env : Goto(f, Dispatched(f)) /\ UNCHANGED bytes
      BY <2>4 DEF Switch, EnvRun
    <3>2. op'[f] = Dispatched(f) /\ \A x \in Env : x # f => op'[x] = op[x]
      BY <1>0, <3>1 DEF Goto, PagesInv, PipeTypes
    <3>3. CallOK(f, op[f], p_rpos, p_wpos, p_buf) /\ op[f] \in Shape
      BY <1>0 DEF StreamInv, Calls, PagesInv, PipeTypes
    <3>4. CASE op[f].at \in Looking
      <4>1. op[f] \in [at : Looking, fd : Fd, i : Nat, ref : Nat, moved : BOOLEAN]
        BY <3>3, <3>4, ShapeCases DEF Looking
      <4>2. op'[f].at = op[f].at /\ op'[f].i = op[f].i /\ op'[f].ref = op[f].ref
        BY <3>2, <3>4, <4>1 DEF Dispatched, Looking
      <4>3. CallOK(f, op'[f], p_rpos, p_wpos, p_buf)
        BY <3>3, <3>4, <4>2 DEF CallOK, InCall, Looking
      <4> QED BY <1>0, <3>1, <3>2, <4>3, QuietStep DEF bytes
    <3>5. CASE op[f].at \notin Looking
      <4>1. op'[f] = op[f]
        BY <1>0, <3>2, <3>5, DispatchedSame
      <4> QED BY <1>0, <3>1, <3>2, <3>3, <4>1, QuietStep DEF bytes
    <3> QED BY <3>4, <3>5
  <2> QED BY <2>1, <2>2, <2>3, <2>4
<1> QED BY <1>1, <1>2

LEMMA StreamInit ==
  ASSUME Init
  PROVE  StreamInv
<1>1. PagesInv
  BY PagesInit
<1>2. Calls
  BY DEF Init, Calls, CallOK, InCall, Reading, Writing, Looking, Idle
<1>3. Window(p_rpos, p_wpos, p_buf, got)
  BY PipeAssumption DEF Init, Window
<1> QED BY <1>1, <1>2, <1>3 DEF StreamInv

(* With one reader and one writer, p_rpos never passes p_wpos, p_wpos is   *)
(* never more than the buffer ahead, and every slot between them holds the *)
(* byte that was written for it: also between the access to p_buf and the  *)
(* increment of the position, in either call.                              *)
THEOREM StreamInvariance ==
  ASSUME OneEach
  PROVE  Spec => []StreamInv
<1>1. Init => StreamInv
  BY StreamInit
<1>2. StreamInv /\ [Next]_vars => StreamInv'
  BY StreamNext
<1> QED BY <1>1, <1>2, PTL DEF Spec

-----------------------------------------------------------------------------
(* The contents of the pipe.                                               *)

PipeQ == [k \in 1 .. p_wpos - p_rpos |-> p_buf[(p_rpos + k - 1) % PIPEBUFSIZ]]

Numbers(r, w) == [k \in 1 .. w - r |-> r + k]

LEMMA WindowIsNumbers ==
  ASSUME NEW r \in Nat, NEW w \in Nat, NEW buf, NEW g, Window(r, w, buf, g)
  PROVE  [k \in 1 .. w - r |-> buf[(r + k - 1) % PIPEBUFSIZ]] = Numbers(r, w)
<1>1. ASSUME NEW k \in 1 .. w - r PROVE buf[(r + k - 1) % PIPEBUFSIZ] = r + k
  <2>1. PICK j \in Nat : j = r + k - 1 /\ r <= j /\ j < w
    OBVIOUS
  <2>2. buf[j % PIPEBUFSIZ] = j + 1
    BY <2>1 DEF Window
  <2>3. j + 1 = r + k
    BY <2>1
  <2> QED BY <2>1, <2>2, <2>3
<1> QED BY <1>1 DEF Numbers

LEMMA NumbersSeq ==
  ASSUME NEW r \in Nat, NEW w \in Nat, r <= w
  PROVE  /\ Numbers(r, w) \in Seq(Nat) /\ Len(Numbers(r, w)) = w - r
         /\ Append(Numbers(r, w), w + 1) = Numbers(r, w + 1)
         /\ r < w => /\ Numbers(r, w) # <<>> /\ Head(Numbers(r, w)) = r + 1
                     /\ Tail(Numbers(r, w)) = Numbers(r + 1, w)
<1> DEFINE s == Numbers(r, w)
<1>1. s \in Seq(Nat) /\ Len(s) = w - r /\ \A k \in 1 .. w - r : s[k] = r + k
  <2>1. w - r \in Nat /\ \A k \in 1 .. w - r : r + k \in Nat
    OBVIOUS
  <2> QED BY <2>1 DEF Numbers
<1>2. Append(s, w + 1) = Numbers(r, w + 1)
  <2>1. /\ Append(s, w + 1) \in Seq(Nat) /\ Len(Append(s, w + 1)) = w - r + 1
        /\ \A k \in 1 .. w - r + 1 : Append(s, w + 1)[k] = r + k
    <3> HIDE DEF s
    <3> QED BY <1>1
  <2>2. /\ Numbers(r, w + 1) \in Seq(Nat) /\ Len(Numbers(r, w + 1)) = w - r + 1
        /\ \A k \in 1 .. w - r + 1 : Numbers(r, w + 1)[k] = r + k
    <3>1. w + 1 - r = w - r + 1 /\ w - r + 1 \in Nat
      OBVIOUS
    <3> QED BY <3>1 DEF Numbers
  <2> HIDE DEF s
  <2> QED BY <2>1, <2>2, SeqEqual
<1>3. ASSUME r < w PROVE s # <<>> /\ Head(s) = r + 1 /\ Tail(s) = Numbers(r + 1, w)
  <2> HIDE DEF s
  <2>1. s # <<>> /\ Head(s) = r + 1
    BY <1>1, <1>3
  <2>2. /\ Tail(s) \in Seq(Nat) /\ Len(Tail(s)) = w - r - 1
        /\ \A k \in 1 .. w - r - 1 : Tail(s)[k] = r + 1 + k
    BY <1>1, <1>3, <2>1
  <2>3. /\ Numbers(r + 1, w) \in Seq(Nat) /\ Len(Numbers(r + 1, w)) = w - r - 1
        /\ \A k \in 1 .. w - r - 1 : Numbers(r + 1, w)[k] = r + 1 + k
    <3>1. w - (r + 1) = w - r - 1 /\ w - r - 1 \in Nat
      BY <1>3
    <3> QED BY <3>1 DEF Numbers
  <2> QED BY <2>1, <2>2, <2>3, SeqEqual
<1> QED BY <1>1, <1>2, <1>3

(* With one reader and one writer, and whatever the other environments do  *)
(* with their descriptors, the pipe is a queue of PIPEBUFSIZ bytes: every  *)
(* byte that devpipe_write stores is returned by devpipe_read once and in  *)
(* order, although neither takes a lock.                                   *)
THEOREM PipeImplementsStream ==
  ASSUME OneEach
  PROVE  Spec => PipeIsStream
<1>1. Init => Stream!Init
  <2> SUFFICES ASSUME Init PROVE Stream!Init
    OBVIOUS
  <2>1. p_wpos - p_rpos = 0 /\ got = 0
    BY DEF Init
  <2>2. got \notin 1 .. MaxBytes
    BY <2>1, PipeAssumption
  <2>3. PipeQ = <<>>
    BY <2>1 DEF PipeQ
  <2> QED BY <2>2, <2>3 DEF Stream!Init, PipeQ
<1>2. StreamInv /\ [Next]_vars => [Stream!Next]_<<PipeQ, got>>
  <2> SUFFICES ASSUME StreamInv, [Next]_vars PROVE [Stream!Next]_<<PipeQ, got>>
    OBVIOUS
  <2>1. StreamInv'
    BY StreamNext
  <2>2. PipeQ = Numbers(p_rpos, p_wpos) /\ PipeQ' = Numbers(p_rpos', p_wpos')
    <3>1. /\ p_rpos \in Nat /\ p_wpos \in Nat /\ Window(p_rpos, p_wpos, p_buf, got)
          /\ p_rpos' \in Nat /\ p_wpos' \in Nat /\ Window(p_rpos', p_wpos', p_buf', got')
      BY <2>1 DEF StreamInv, PagesInv, PipeTypes
    <3>2. PipeQ = Numbers(p_rpos, p_wpos)
      BY <3>1, WindowIsNumbers DEF PipeQ
    <3>3. PipeQ' = Numbers(p_rpos', p_wpos')
      BY <3>1, WindowIsNumbers DEF PipeQ
    <3> QED BY <3>2, <3>3
  <2>3. /\ p_rpos \in Nat /\ p_wpos \in Nat /\ p_rpos <= p_wpos /\ got \in Nat
        /\ PIPEBUFSIZ \in Nat /\ MaxBytes \in Nat
    BY PipeAssumption DEF StreamInv, PagesInv, PipeTypes, Window
  <2>4. CASE UNCHANGED <<p_rpos, p_wpos, got>>
    BY <2>2, <2>4
  <2>5. CASE p_rpos < p_wpos /\ p_rpos' = p_rpos + 1 /\ got' = p_rpos + 1 /\ p_wpos' = p_wpos
    <3>1. PipeQ # <<>> /\ got' = Head(PipeQ) /\ PipeQ' = Tail(PipeQ)
      BY <2>2, <2>3, <2>5, NumbersSeq
    <3> QED BY <3>1 DEF Stream!Next, Stream!Take, PipeQ
  <2>6. CASE /\ p_wpos' = p_wpos + 1 /\ UNCHANGED <<p_rpos, got>>
             /\ p_wpos < p_rpos + PIPEBUFSIZ /\ p_wpos + 1 <= MaxBytes
    <3>1. Len(PipeQ) < PIPEBUFSIZ /\ PipeQ' = Append(PipeQ, p_wpos + 1) /\ UNCHANGED got
      <4>1. Len(PipeQ) = p_wpos - p_rpos /\ PipeQ' = Append(PipeQ, p_wpos + 1)
        BY <2>2, <2>3, <2>6, NumbersSeq
      <4> QED BY <2>3, <2>6, <4>1
    <3>2. PICK x \in 1 .. MaxBytes : x = p_wpos + 1
      BY <2>3, <2>6
    <3>3. Stream!Put(x)
      BY <3>1, <3>2 DEF Stream!Put, PipeQ
    <3> QED BY <3>3 DEF Stream!Next
  <2> QED BY <2>4, <2>5, <2>6, StreamNext
<1> QED BY <1>1, <1>2, StreamInvariance, PTL DEF Spec, PipeIsStream, Stream!Spec, PipeQ

(* With one reader and one writer the positions, the counts and the calls  *)
(* stay in their bounds, and no end waits for one that is gone.            *)
THEOREM DescriptorsAreSound ==
  ASSUME OneEach
  PROVE  Spec => []DescriptorsSound
<1>1. StreamInv => DescriptorsSound
  <2> SUFFICES ASSUME StreamInv PROVE DescriptorsSound
    OBVIOUS
  <2>0. PagesInv /\ Window(p_rpos, p_wpos, p_buf, got) /\ MaxBytes \in Nat /\ NByte \in Nat /\ MAXFD \in Nat
    BY PipeAssumption DEF StreamInv
  <2>1. p_rpos \in 0 .. MaxBytes /\ p_wpos \in 0 .. MaxBytes /\ got \in 0 .. MaxBytes
    BY <2>0 DEF PagesInv, PipeTypes, Window
  <2>2. p_buf \in [0 .. PIPEBUFSIZ - 1 -> 0 .. MaxBytes]
    <3>1. \A s \in 0 .. PIPEBUFSIZ - 1 : p_buf[s] \in 0 .. MaxBytes
      BY <2>0 DEF PagesInv, PipeTypes, Window
    <3> QED BY <2>0, <3>1 DEF PagesInv, PipeTypes
  <2>3. ASSUME NEW e \in Env PROVE op[e] \in Op
    <3>1. op[e] \in Shape /\ CallOK(e, op[e], p_rpos, p_wpos, p_buf)
      BY DEF StreamInv, Calls, PagesInv, PipeTypes
    <3>n. Cardinality(Env) * MAXFD \in Nat
      <4>1. Cardinality(Env) \in Nat
        BY FS_CardinalityType, PipeAssumption
      <4> QED BY <4>1, <2>0
    <3>2. CASE InCall(op[e])
      <4>1. op[e].i <= NByte
        BY <3>1, <3>2 DEF CallOK
      <4>2. CASE op[e].at \in {"read", "write", "write_inc", "closed_read", "closed_write"}
        <5>1. op[e] \in [at : {"read", "write", "write_inc", "closed_read", "closed_write"}, fd : Fd, i : Nat]
          BY <3>1, <4>2, ShapeCases
        <5>2. op[e] \in [at : {"read", "write", "write_inc", "closed_read", "closed_write"}, fd : Fd, i : 0 .. NByte]
          BY <5>1, <4>1, <2>0
        <5> QED BY <5>2 DEF Op
      <4>3. CASE op[e].at = "read_inc"
        <5>1. op[e] \in [at : {"read_inc"}, fd : Fd, i : Nat, byte : Nat]
          BY <3>1, <4>3, ShapeCases
        <5>2. op[e].byte <= MaxBytes
          BY <3>1, <4>3, <2>1, <2>0 DEF CallOK
        <5>3. op[e] \in [at : {"read_inc"}, fd : Fd, i : 0 .. NByte, byte : 0 .. MaxBytes]
          BY <5>1, <5>2, <4>1, <2>0
        <5> QED BY <5>3 DEF Op
      <4>4. CASE op[e].at \in Looking
        <5>1. op[e] \in [at : {"closed2_read", "closed2_write"}, fd : Fd, i : Nat, ref : Nat, moved : BOOLEAN]
          BY <3>1, <4>4, ShapeCases DEF Looking
        <5>2. op[e].ref <= Cardinality(Env) * MAXFD
          BY <3>1, <4>4 DEF CallOK
        <5>3. op[e] \in [at : {"closed2_read", "closed2_write"}, fd : Fd, i : 0 .. NByte,
                         ref : 0 .. Cardinality(Env) * MAXFD, moved : BOOLEAN]
          BY <5>1, <5>2, <4>1, <2>0, <3>n
        <5> QED BY <5>3 DEF Op
      <4> QED BY <3>2, <4>2, <4>3, <4>4 DEF InCall, Reading, Writing, Looking
    <3>3. CASE ~InCall(op[e])
      BY <3>1, <3>3 DEF Shape, Op, InCall, Reading, Writing
    <3> QED BY <3>2, <3>3
  <2>4. TypeOK
    BY <2>0, <2>1, <2>2, <2>3 DEF TypeOK, PagesInv, PipeTypes
  <2> QED BY <2>0, <2>4, LastOneOutInv DEF DescriptorsSound
<1> QED BY <1>1, StreamInvariance, PTL
=============================================================================
