------------------------------ MODULE CowProofs ------------------------------
(* Proofs about Cow, for any number of environments, pages and frames and  *)
(* any depth of fork in fork: a copy-on-write frame is writable nowhere,   *)
(* whoever can meet one can take the fault, and every environment has a    *)
(* memory of its own.                                                      *)
EXTENDS Cow, WellFoundedInduction, TLAPS

W == {"PTE_W"}
C == {"PTE_COW"}

(* The bits a page may have when the program uses k, fork or sfork.  Only  *)
(* private pages become copy-on-write.                                     *)
DupOf(k, p) == k = "fork" \/ p = Stack
Private(k, p) == p \in Page /\ p \notin Text \cup Share /\ DupOf(k, p)
Allowed(k, p) ==
  IF p \in Text THEN {{}}
  ELSE IF p \in Share THEN {{"PTE_W", "PTE_SHARE"}}
  ELSE IF DupOf(k, p) THEN {W, C}
  ELSE {W, {"PTE_W", "PTE_SHARE"}}

BitsAllowed ==
  /\ \A e \in Env, p \in Page : Mapped(e, p) => pt[e][p].bits \in Allowed(kind, p)
  /\ \A e \in Env : op[e].at \in {"map", "remap"} =>
       op[e].page \in Page /\ op[e].bits \in Allowed(kind, op[e].page)
  /\ \A e \in Env : op[e].at = "remap" => Private(kind, op[e].page)

(* Who is there: only an environment that runs, or has stopped in a panic, *)
(* is in a fork or a fault, and it has all pages.                          *)
Alive(e) == status[e] \in {"runnable", "panicked"}
Living ==
  \A e \in Env :
    /\ op[e] # Idle \/ fault[e] # Nil => Alive(e)
    /\ Alive(e) => \A p \in Page : Mapped(e, p)
    /\ status[e] \in {"unborn", "gone"} => \A p \in Place : ~Mapped(e, p)

(* A child under construction has the pages up to where the scan is.       *)
Scanning == {"scan", "map", "remap"}
Finishing == {"xstack", "upcall", "runnable"}
Done(o, p) == o.at \in Finishing \/ p < o.page \/ (o.at = "remap" /\ p = o.page)

Building ==
  /\ \A e \in Env : op[e].at \in Scanning \cup Finishing =>
       /\ status[op[e].child] = "embryo"
       /\ \A p \in Page : Mapped(op[e].child, p) <=> Done(op[e], p)
  /\ \A e, f \in Env : /\ op[e].at \in Scanning \cup Finishing
                       /\ op[f].at \in Scanning \cup Finishing
                       /\ op[e].child = op[f].child
                       => e = f

(* Frames are shared between the same page of several environments only,   *)
(* but while pgfault has its new frame in two places.                      *)
SameFrame(e, p, f, q) == Mapped(e, p) /\ Mapped(f, q) /\ pt[e][p].frame = pt[f][q].frame
InUnmap(e, p, q) == fault[e] # Nil /\ fault[e].at = "unmap" /\ p = PFTEMP /\ q = fault[e].page
FramesApart ==
  \A e, f \in Env : \A p, q \in Place : SameFrame(e, p, f, q) =>
    \/ p = q /\ (p \in Page \/ e = f)
    \/ e = f /\ (InUnmap(e, p, q) \/ InUnmap(e, q, p))

(* A private page that is writable is in nobody else's memory, but between *)
(* the two system calls of duppage in the child's.                         *)
WritableIsPrivate ==
  \A e, f \in Env : \A p \in Page :
    Private(kind, p) /\ SameFrame(e, p, f, p) /\ pt[e][p].bits = W /\ e # f =>
      op[e].at = "remap" /\ op[e].page = p /\ op[e].child = f

(* Where pgfault is.                                                       *)
Copying(e) == fault[e] # Nil /\ fault[e].at \in {"copy", "map", "unmap"}
Faulting ==
  \A e \in Env :
    /\ Mapped(e, PFTEMP) <=> Copying(e)
    /\ Copying(e) /\ fault[e].at # "unmap" => pt[e][fault[e].page].bits = C
    /\ Copying(e) /\ fault[e].at = "unmap" =>
         pt[e][fault[e].page].bits = W /\ pt[e][fault[e].page].frame = pt[e][PFTEMP].frame

(* Who has an exception stack.                                             *)
HasXStack(e) == Mapped(e, XStack) /\ "PTE_W" \in pt[e][XStack].bits
Upcalls ==
  \A e \in Env :
    /\ status[e] = "runnable" /\ upcall[e] => HasXStack(e)
    /\ status[e] = "runnable" /\ op[e] # Idle => upcall[e]
    /\ status[e] = "runnable" /\ (\E p \in Page : pt[e][p].bits = C) => upcall[e]
    /\ op[e].at \in {"upcall", "runnable"} => HasXStack(op[e].child)
    /\ op[e].at = "runnable" => upcall[op[e].child]

(* The inductive invariant.                                                *)
CowInv ==
  /\ TypeOK /\ BitsAllowed /\ Living /\ Building /\ FramesApart /\ WritableIsPrivate
  /\ Faulting /\ Upcalls

LEMMA MinIn ==
  ASSUME NEW S \in SUBSET Nat, S # {}
  PROVE  Min(S) \in S /\ \A y \in S : Min(S) <= y
<1> DEFINE R == {ss \in Nat \X Nat : ss[1] < ss[2]}
<1>1. IsWellFoundedOn(R, Nat)
  BY NatLessThanWellFounded DEF OpToRel
<1> HIDE DEF R
<1>2. PICK x \in S : \A y \in S : ~(<<y, x>> \in R)
  BY <1>1, WFMin
<1>3. ASSUME NEW y \in S PROVE x <= y
  <2>1. x \in Nat /\ y \in Nat
    OBVIOUS
  <2>2. y < x => <<y, x>> \in R
    BY <2>1 DEF R
  <2> QED BY <1>2, <2>1, <2>2
<1> QED BY <1>3 DEF Min

-----------------------------------------------------------------------------
(* Places, bits and calls.                                                 *)

LEMMA Places ==
  /\ Page \subseteq Place /\ XStack \in Place /\ PFTEMP \in Place
  /\ XStack \notin Page /\ PFTEMP \notin Page /\ XStack # PFTEMP
  /\ Page \subseteq Nat /\ Page \subseteq Frame /\ Stack \in Page /\ XStack \in Nat
  /\ \A p \in Page : p \in 0 .. XStack /\ p + 1 \in 0 .. XStack
<1>1. /\ Page \subseteq Nat /\ Page \subseteq Frame /\ XStack \in Nat /\ \A p \in Page : p < XStack
  BY CowAssumption
<1>2. \A p \in Page : p \in 0 .. XStack /\ p + 1 \in 0 .. XStack
  BY <1>1
<1>3. XStack \notin Page
  BY <1>1
<1> QED BY <1>1, <1>2, <1>3, CowAssumption DEF Place, Page

LEMMA BitFacts ==
  /\ W \in Bits /\ C \in Bits /\ W # C /\ "PTE_W" \in W /\ "PTE_W" \notin C /\ "PTE_COW" \in C /\ "PTE_COW" \notin W
  /\ {"PTE_W", "PTE_COW", "PTE_SHARE"} \in Bits /\ {} \in Bits
BY DEF W, C, Bits

LEMMA AllowedFacts ==
  ASSUME NEW k, NEW p \in Page, NEW b \in Allowed(k, p)
  PROVE  /\ b \in Bits
         /\ "PTE_COW" \in b => Private(k, p) /\ b = C
         /\ Private(k, p) => b \in {W, C}
BY DEF Allowed, Private, Bits, W, C

LEMMA PermFacts ==
  ASSUME NEW p \in Page, NEW b \in Allowed(kind, p)
  PROVE  /\ Perm(p, b) \in Allowed(kind, p)
         /\ Dup(p) /\ "PTE_COW" \in Perm(p, b) <=> Private(kind, p)
         /\ Private(kind, p) => Perm(p, b) = C
<1>1. CASE p \in Text
  BY <1>1 DEF Allowed, Private, Perm, Dup, DupOf
<1>2. CASE p \notin Text /\ p \in Share
  BY <1>2 DEF Allowed, Private, Perm, Dup, DupOf
<1>3. CASE p \notin Text \cup Share /\ DupOf(kind, p)
  <2>1. b = W \/ b = C
    BY <1>3 DEF Allowed
  <2>2. Perm(p, b) = C /\ Dup(p)
    BY <1>3, <2>1 DEF Perm, Dup, DupOf, W, C
  <2> QED BY <1>3, <2>2, BitFacts DEF Allowed, Private
<1>4. CASE p \notin Text \cup Share /\ ~DupOf(kind, p)
  <2>1. b = W \/ b = {"PTE_W", "PTE_SHARE"}
    BY <1>4 DEF Allowed
  <2>2. Perm(p, b) = {"PTE_W", "PTE_SHARE"} /\ ~Dup(p)
    BY <1>4, <2>1 DEF Perm, Dup, DupOf, W
  <2> QED BY <1>4, <2>2 DEF Allowed, Private
<1> QED BY <1>1, <1>2, <1>3, <1>4

LEMMA OpCases ==
  ASSUME NEW o \in Op
  PROVE  /\ o.at \in {"idle", "exofork"} \cup Scanning \cup Finishing
         /\ o.at = "idle" <=> o = Idle
         /\ o.at \in Scanning => o \in [at : Scanning, child : Env, page : 0 .. XStack, bits : Bits]
         /\ o.at \in Finishing => o \in [at : Finishing, child : Env]
BY DEF Op, Idle, Scanning, Finishing

LEMMA ScanFacts ==
  ASSUME NEW where \in Scanning, NEW c \in Env, NEW p \in 0 .. XStack, NEW b \in Bits
  PROVE  /\ Scan(where, c, p, b) \in Op
         /\ Scan(where, c, p, b).at = where /\ Scan(where, c, p, b).child = c
         /\ Scan(where, c, p, b).page = p /\ Scan(where, c, p, b).bits = b
BY DEF Scan, Op, Scanning

-----------------------------------------------------------------------------
(* Changes of the page tables.                                             *)

(* The place r of x becomes n, and no other.                               *)
CellSet(x, r, n) ==
  /\ pt'[x][r] = n
  /\ \A e \in Env, p \in Place : e # x \/ p # r => pt'[e][p] = pt[e][p]

LEMMA CellTypes ==
  ASSUME TypeOK, NEW x \in Env, NEW r \in Place, NEW n \in Pte \cup {Nil},
         SetPt([pt EXCEPT ![x][r] = n])
  PROVE  /\ CellSet(x, r, n)
         /\ pt' \in [Env -> [Place -> Pte \cup {Nil}]] /\ mem' \in [Frame -> Value]
<1>1. pt \in [Env -> [Place -> Pte \cup {Nil}]] /\ mem \in [Frame -> Value] /\ Zero \in Value
  BY CowAssumption DEF TypeOK
<1>2. pt' = [pt EXCEPT ![x][r] = n]
  BY DEF SetPt
<1>3. CellSet(x, r, n) /\ pt' \in [Env -> [Place -> Pte \cup {Nil}]]
  BY <1>1, <1>2 DEF CellSet
<1>4. mem' \in [Frame -> Value]
  BY <1>1 DEF SetPt
<1> QED BY <1>3, <1>4

(* n is in a frame that nobody maps.                                       *)
Unused(n) == \A e \in Env, p \in Place : Mapped(e, p) => pt[e][p].frame # n.frame

LEMMA AllocCell ==
  ASSUME TypeOK, NEW x \in Env, NEW r \in Place, NEW b \in Bits, Alloc(x, r, b)
  PROVE  /\ \E n \in Pte : CellSet(x, r, n) /\ n.bits = b /\ Unused(n)
         /\ pt' \in [Env -> [Place -> Pte \cup {Nil}]] /\ mem' \in [Frame -> Value]
<1>1. Free # {} /\ Free \subseteq Frame /\ Frame \subseteq Nat
  BY CowAssumption DEF Alloc, Free
<1>2. PICK m \in Free : m = Min(Free)
  BY <1>1, MinIn
<1> DEFINE n == [frame |-> m, bits |-> b]
<1>3. n \in Pte /\ n.bits = b /\ n.frame = m
  BY <1>1 DEF Pte
<1>4. SetPt([pt EXCEPT ![x][r] = n])
  BY <1>2 DEF Alloc
<1>5. Unused(n)
  <2>1. ASSUME NEW e \in Env, NEW p \in Place, Mapped(e, p) PROVE pt[e][p].frame \in Used(pt)
    <3>1. <<e, p>> \in {y \in Env \X Place : pt[y[1]][y[2]] # Nil}
      BY <2>1 DEF Mapped
    <3> QED BY <3>1 DEF Used
  <2> QED BY <2>1, <1>3 DEF Unused, Free
<1> HIDE DEF n
<1> QED BY <1>3, <1>4, <1>5, CellTypes

(* What somebody still maps is not cleared.                                *)
Kept == \A e \in Env, p \in Place : pt'[e][p] # Nil => mem'[pt'[e][p].frame] = mem[pt'[e][p].frame]

LEMMA SetPtKeeps ==
  ASSUME NEW new, SetPt(new), pt' \in [Env -> [Place -> Pte \cup {Nil}]]
  PROVE  Kept
<1> SUFFICES ASSUME NEW e \in Env, NEW p \in Place, pt'[e][p] # Nil
             PROVE  mem'[pt'[e][p].frame] = mem[pt'[e][p].frame]
  BY DEF Kept
<1>1. pt' = new /\ mem' = [f \in Frame |-> IF f \in Used(new) THEN mem[f] ELSE Zero]
  BY DEF SetPt
<1>2. pt'[e][p].frame \in Frame
  BY DEF Pte
<1>3. <<e, p>> \in {y \in Env \X Place : new[y[1]][y[2]] # Nil}
  BY <1>1
<1>4. new[e][p].frame \in Used(new)
  BY <1>3 DEF Used
<1> QED BY <1>1, <1>2, <1>4

-----------------------------------------------------------------------------
(* Steps that leave the page tables alone.                                 *)

LEMMA TypeFacts ==
  ASSUME TypeOK, NEW e \in Env
  PROVE  /\ op[e] \in Op /\ fault[e] \in Fault \cup {Nil} /\ Nil \notin Fault /\ Nil \notin Pte /\ Idle \in Op
         /\ Idle.at = "idle" /\ pt[e] \in [Place -> Pte \cup {Nil}]
         /\ \A p \in Place : Mapped(e, p) => pt[e][p] \in Pte
BY NilAssumption DEF TypeOK, Op, Idle, Mapped

(* op[e] becomes o; nothing else changes.                                  *)
LEMMA OnlyOp ==
  ASSUME CowInv, NEW e \in Env, NEW o \in Op, Goto(e, o), UNCHANGED <<kind, pt, status, fault>>,
         mem' \in [Frame -> Value], upcall' \in [Env -> BOOLEAN],
         Alive(e), op[e].at # "remap",
         o.at \in {"map", "remap"} => o.page \in Page /\ o.bits \in Allowed(kind, o.page),
         o.at # "remap",
         o.at \in Scanning \cup Finishing =>
           /\ op[e].at \in Scanning \cup Finishing /\ o.child = op[e].child
           /\ \A p \in Page : Mapped(o.child, p) <=> Done(o, p),
         \A x \in Env : upcall[x] => upcall'[x],
         \A x \in Env : upcall'[x] => upcall[x] \/ (op[e].at = "upcall" /\ x = op[e].child),
         upcall'[e],
         o.at \in {"upcall", "runnable"} => op[e].at = "upcall",
         o.at = "runnable" => upcall'[o.child]
  PROVE  CowInv'
<1>0. UNCHANGED <<kind, pt, status, fault>>
  OBVIOUS
<1>1. op' \in [Env -> Op] /\ op'[e] = o /\ \A x \in Env : x # e => op'[x] = op[x]
  BY DEF Goto, CowInv, TypeOK
<1>2. TypeOK'
  BY <1>1 DEF CowInv, TypeOK
<1>3. BitsAllowed'
  BY <1>1 DEF CowInv, BitsAllowed, Mapped
<1>4. Living'
  BY <1>1 DEF CowInv, Living, Mapped, Alive
<1>5. Building'
  BY <1>1 DEF CowInv, Building, Mapped
<1>6. FramesApart'
  BY <1>0 DEF CowInv, FramesApart, SameFrame, Mapped, InUnmap
<1>7. WritableIsPrivate'
  BY <1>1 DEF CowInv, WritableIsPrivate, SameFrame, Mapped
<1>8. Faulting'
  BY <1>0 DEF CowInv, Faulting, Copying, Mapped
<1>9. Upcalls'
  <2>0. ASSUME NEW x \in Env PROVE HasXStack(x)' <=> HasXStack(x)
    BY <1>0 DEF HasXStack, Mapped
  <2>1. ASSUME NEW x \in Env, op'[x].at \in {"upcall", "runnable"}
        PROVE  (HasXStack(op[x].child))' /\ (op'[x].at = "runnable" => upcall'[op'[x].child])
    <3>1. op[x].at \in {"upcall", "runnable"} /\ op'[x].child = op[x].child
      BY <1>1, <2>1 DEF Scanning, Finishing
    <3>2. op[x].child \in Env
      BY <3>1, OpCases DEF CowInv, TypeOK, Finishing
    <3>3. HasXStack(op[x].child)
      BY <3>1 DEF CowInv, Upcalls
    <3> QED BY <1>0, <1>1, <3>1, <3>2, <3>3 DEF CowInv, Upcalls, HasXStack, Mapped
  <2>2. ASSUME NEW x \in Env, status[x] = "runnable", upcall'[x] PROVE HasXStack(x)
    <3>1. upcall[x] \/ x = op[e].child
      BY <2>2
    <3>2. x # op[e].child \/ op[e].at # "upcall"
      BY <2>2 DEF CowInv, Building, Finishing
    <3> QED BY <2>2, <3>2 DEF CowInv, Upcalls
  <2>3. ASSUME NEW x \in Env, op'[x] # Idle, status[x] = "runnable" PROVE upcall'[x]
    BY <1>1, <2>3 DEF CowInv, Upcalls
  <2> QED BY <1>0, <2>0, <2>1, <2>2, <2>3 DEF CowInv, Upcalls
<1> QED BY <1>2, <1>3, <1>4, <1>5, <1>6, <1>7, <1>8, <1>9 DEF CowInv

LEMMA SetUpcallStep ==
  ASSUME CowInv, NEW e \in Env, SetUpcall(e)
  PROVE  CowInv'
<1>0. op[e].at = "upcall" /\ status[e] = "runnable" /\ UNCHANGED <<kind, pt, mem, status, fault>>
  BY DEF SetUpcall, At
<1>1. op[e] \in [at : Finishing, child : Env]
  BY <1>0, OpCases DEF CowInv, TypeOK, Finishing
<1>2. PICK c \in Env : c = op[e].child
  BY <1>1
<1> DEFINE o == [op[e] EXCEPT !.at = "runnable"]
<1>3. Goto(e, o) /\ upcall' = [upcall EXCEPT ![c] = TRUE]
  BY <1>2 DEF SetUpcall
<1>4. o \in Op /\ o.at = "runnable" /\ o.child = c
  BY <1>1, <1>2 DEF Op, Finishing
<1> HIDE DEF o
<1>5. upcall \in [Env -> BOOLEAN] /\ mem \in [Frame -> Value] /\ upcall[e] /\ Alive(e)
  BY <1>0, TypeFacts DEF CowInv, TypeOK, Upcalls, Alive
<1>6. /\ upcall' \in [Env -> BOOLEAN] /\ upcall'[c] /\ upcall'[e]
      /\ \A x \in Env : upcall[x] => upcall'[x]
      /\ \A x \in Env : upcall'[x] => upcall[x] \/ x = c
  BY <1>3, <1>5
<1>7. \A p \in Page : Mapped(c, p) <=> Done(o, p)
  BY <1>0, <1>2, <1>4 DEF CowInv, Building, Done, Finishing
<1> QED BY <1>0, <1>2, <1>3, <1>4, <1>5, <1>6, <1>7, OnlyOp DEF Finishing

LEMMA ReadUvptStep ==
  ASSUME CowInv, NEW e \in Env, ReadUvpt(e)
  PROVE  CowInv'
<1>0. op[e].at = "scan" /\ status[e] = "runnable" /\ UNCHANGED <<kind, pt, mem, status, upcall, fault>>
  BY DEF ReadUvpt, At
<1>1. op[e] \in [at : Scanning, child : Env, page : 0 .. XStack, bits : Bits] /\ op[e] # Idle
  BY <1>0, OpCases DEF CowInv, TypeOK, Scanning, Idle
<1>2. PICK c \in Env : c = op[e].child
  BY <1>1
<1>3. upcall \in [Env -> BOOLEAN] /\ mem \in [Frame -> Value] /\ upcall[e] /\ Alive(e)
  BY <1>0, <1>1 DEF CowInv, TypeOK, Upcalls, Alive
<1>4. \A p \in Page : Mapped(c, p) <=> p < op[e].page
  BY <1>0, <1>2 DEF CowInv, Building, Done, Scanning, Finishing
<1>5. \A p \in Page : Mapped(e, p)
  BY <1>3 DEF CowInv, Living
<1>6. CASE PagesLeft(e) = {}
  <2> DEFINE o == [at |-> "xstack", child |-> c]
  <2>1. Goto(e, o)
    BY <1>2, <1>6 DEF ReadUvpt
  <2>2. o \in Op /\ o.at = "xstack" /\ o.child = c
    BY DEF Op
  <2> HIDE DEF o
  <2>3. \A p \in Page : Mapped(c, p) <=> Done(o, p)
    <3>1. \A p \in Page : ~(p >= op[e].page)
      BY <1>5, <1>6 DEF PagesLeft
    <3>2. \A p \in Page : p < op[e].page
      BY <3>1, <1>1, Places
    <3> QED BY <1>4, <2>2, <3>2 DEF Done, Finishing
  <2> QED BY <1>0, <1>2, <1>3, <2>1, <2>2, <2>3, OnlyOp DEF Scanning, Finishing
<1>7. CASE PagesLeft(e) # {}
  <2>1. PagesLeft(e) \subseteq Page /\ PagesLeft(e) \subseteq Nat
    BY Places DEF PagesLeft
  <2>2. PICK m \in PagesLeft(e) : m = Min(PagesLeft(e)) /\ \A q \in PagesLeft(e) : m <= q
    BY <1>7, <2>1, MinIn
  <2>3. m \in Page /\ m \in 0 .. XStack /\ pt[e][m] \in Pte /\ pt[e][m].bits \in Bits
        /\ pt[e][m].bits \in Allowed(kind, m)
    BY <2>1, <2>2, <1>5, Places, TypeFacts DEF CowInv, BitsAllowed, Pte
  <2> DEFINE o == Scan("map", c, m, pt[e][m].bits)
  <2>4. Goto(e, o)
    BY <1>2, <1>7, <2>2 DEF ReadUvpt
  <2>5. o \in Op /\ o.at = "map" /\ o.child = c /\ o.page = m /\ o.bits = pt[e][m].bits
    BY <2>3, ScanFacts DEF Scanning
  <2> HIDE DEF o
  <2>6. \A p \in Page : Mapped(c, p) <=> Done(o, p)
    <3>1. \A p \in Page : p \in Nat /\ (p < m => ~(p >= op[e].page))
      BY <1>5, <2>1, <2>2, <2>3, Places DEF PagesLeft
    <3>2. m >= op[e].page
      BY <2>2 DEF PagesLeft
    <3>3. \A p \in Page : p < m <=> p < op[e].page
      BY <3>1, <3>2, <1>1, <2>3
    <3> QED BY <1>4, <2>5, <3>3 DEF Done, Finishing
  <2> QED BY <1>0, <1>2, <1>3, <2>3, <2>4, <2>5, <2>6, OnlyOp DEF Scanning, Finishing
<1> QED BY <1>6, <1>7

LEMMA HandlerSetStep ==
  ASSUME CowInv, NEW e \in Env, SetPgfaultHandler(e), upcall[e]
  PROVE  CowInv'
<1> DEFINE o == [at |-> "exofork"]
<1>0. /\ status[e] = "runnable" /\ op[e].at = "idle" /\ Goto(e, o)
      /\ UNCHANGED <<kind, pt, mem, status, upcall, fault>>
  BY DEF SetPgfaultHandler, At
<1>1. o \in Op /\ o.at = "exofork"
  BY DEF Op
<1>2. upcall \in [Env -> BOOLEAN] /\ mem \in [Frame -> Value] /\ Alive(e)
  BY <1>0 DEF CowInv, TypeOK, Alive
<1> HIDE DEF o
<1> QED BY <1>0, <1>1, <1>2, OnlyOp DEF Scanning, Finishing

LEMMA SysExoforkStep ==
  ASSUME CowInv, NEW e \in Env, NEW c \in Env, SysExofork(e, c)
  PROVE  CowInv'
<1> DEFINE o == Scan("scan", c, 0, {})
<1>0. /\ status[e] = "runnable" /\ op[e].at = "exofork" /\ status[c] = "unborn" /\ e # c
      /\ status' = [status EXCEPT ![c] = "embryo"] /\ op' = [op EXCEPT ![e] = o]
      /\ UNCHANGED <<kind, pt, mem, upcall, fault>>
  BY DEF SysExofork, At, Goto
<1>1. o \in Op /\ o.at = "scan" /\ o.child = c /\ o.page = 0
  BY ScanFacts, Places, BitFacts DEF Scanning
<1> HIDE DEF o
<1>2. /\ op' \in [Env -> Op] /\ op'[e] = o /\ \A x \in Env : x # e => op'[x] = op[x]
      /\ status' \in [Env -> {"unborn", "embryo", "runnable", "panicked", "gone"}]
      /\ status'[c] = "embryo" /\ \A x \in Env : x # c => status'[x] = status[x]
  BY <1>0, <1>1 DEF CowInv, TypeOK
<1>3. /\ \A p \in Place : ~Mapped(c, p)
      /\ op[c] = Idle /\ fault[c] = Nil
  BY <1>0 DEF CowInv, Living, Alive
<1>i. Idle.at = "idle" /\ op[e] # Idle
  BY <1>0 DEF Idle
<1>4. TypeOK'
  BY <1>0, <1>2 DEF CowInv, TypeOK
<1>5. BitsAllowed'
  BY <1>0, <1>1, <1>2 DEF CowInv, BitsAllowed, Mapped
<1>6. Living'
  BY <1>0, <1>2, <1>3, <1>i DEF CowInv, Living, Mapped, Alive
<1>7. Building'
  <2>1. ASSUME NEW x \in Env, x # e, op[x].at \in Scanning \cup Finishing PROVE op[x].child # c
    BY <2>1, <1>0 DEF CowInv, Building
  <2>2. \A p \in Page : ~Done(o, p)
    BY <1>1, Places DEF Done, Finishing
  <2>3. \A x \in Env : op[x].at \in Scanning \cup Finishing => op[x].child \in Env
    BY OpCases DEF CowInv, TypeOK
  <2>4. ASSUME NEW x \in Env, op'[x].at \in Scanning \cup Finishing
        PROVE  /\ status'[op'[x].child] = "embryo"
               /\ \A p \in Page : pt'[op'[x].child][p] # Nil <=> Done(op'[x], p)
    <3>1. CASE x = e
      BY <3>1, <1>0, <1>1, <1>2, <1>3, <2>2, Places DEF Mapped
    <3>2. CASE x # e
      BY <3>2, <2>4, <1>0, <1>2, <2>1, <2>3 DEF CowInv, Building, Mapped
    <3> QED BY <3>1, <3>2
  <2>5. ASSUME NEW x \in Env, NEW y \in Env, op'[x].at \in Scanning \cup Finishing,
               op'[y].at \in Scanning \cup Finishing, op'[x].child = op'[y].child
        PROVE  x = y
    BY <2>5, <1>1, <1>2, <2>1 DEF CowInv, Building
  <2> QED BY <2>4, <2>5 DEF Building, Mapped
<1>8. FramesApart'
  BY <1>0 DEF CowInv, FramesApart, SameFrame, Mapped, InUnmap
<1>9. WritableIsPrivate'
  BY <1>0, <1>2 DEF CowInv, WritableIsPrivate, SameFrame, Mapped
<1>10. Faulting'
  BY <1>0 DEF CowInv, Faulting, Copying, Mapped
<1>11. Upcalls'
  <2>1. upcall[e]
    BY <1>0, <1>i DEF CowInv, Upcalls
  <2> QED BY <2>1, <1>0, <1>1, <1>2 DEF CowInv, Upcalls, HasXStack, Mapped
<1> QED BY <1>4, <1>5, <1>6, <1>7, <1>8, <1>9, <1>10, <1>11 DEF CowInv

LEMMA SetStatusStep ==
  ASSUME CowInv, NEW e \in Env, SetStatus(e)
  PROVE  CowInv'
<1>0. /\ status[e] = "runnable" /\ op[e].at = "runnable" /\ op' = [op EXCEPT ![e] = Idle]
      /\ UNCHANGED <<kind, pt, mem, upcall, fault>>
  BY DEF SetStatus, At, Goto
<1>1. op[e].child \in Env
  BY <1>0, OpCases DEF CowInv, TypeOK, Finishing
<1>2. PICK c \in Env : c = op[e].child
  BY <1>1
<1>i. Idle.at = "idle" /\ Idle \in Op
  BY DEF Idle, Op
<1>3. status' = [status EXCEPT ![c] = "runnable"] /\ status[c] = "embryo" /\ e # c
  BY <1>0, <1>2 DEF SetStatus, CowInv, Building, Finishing
<1>4. /\ op' \in [Env -> Op] /\ op'[e] = Idle /\ \A x \in Env : x # e => op'[x] = op[x]
      /\ status' \in [Env -> {"unborn", "embryo", "runnable", "panicked", "gone"}]
      /\ status'[c] = "runnable" /\ \A x \in Env : x # c => status'[x] = status[x]
  BY <1>0, <1>3, <1>i DEF CowInv, TypeOK
<1>5. /\ \A p \in Page : Mapped(c, p)
      /\ op[c] = Idle /\ fault[c] = Nil /\ HasXStack(c) /\ upcall[c]
  BY <1>0, <1>2, <1>3 DEF CowInv, Living, Alive, Building, Done, Upcalls, Finishing
<1>6. TypeOK'
  BY <1>0, <1>4 DEF CowInv, TypeOK
<1>7. BitsAllowed'
  BY <1>0, <1>4, <1>i DEF CowInv, BitsAllowed, Mapped
<1>8. Living'
  BY <1>0, <1>4, <1>5 DEF CowInv, Living, Mapped, Alive
<1>9. Building'
  <2>1. \A x \in Env : x # e /\ op[x].at \in Scanning \cup Finishing => op[x].child # c /\ op[x].child \in Env
    BY <1>0, <1>2, OpCases DEF CowInv, Building, TypeOK, Finishing
  <2>2. \A x \in Env : op'[x].at \in Scanning \cup Finishing => x # e
    BY <1>4, <1>i DEF Scanning, Finishing
  <2> QED BY <2>1, <2>2, <1>0, <1>4 DEF CowInv, Building, Mapped
<1>10. FramesApart'
  BY <1>0 DEF CowInv, FramesApart, SameFrame, Mapped, InUnmap
<1>11. WritableIsPrivate'
  BY <1>0, <1>4 DEF CowInv, WritableIsPrivate, SameFrame, Mapped
<1>12. Faulting'
  BY <1>0 DEF CowInv, Faulting, Copying, Mapped
<1>13. Upcalls'
  BY <1>0, <1>4, <1>5, <1>i DEF CowInv, Upcalls, HasXStack, Mapped
<1> QED BY <1>6, <1>7, <1>8, <1>9, <1>10, <1>11, <1>12, <1>13 DEF CowInv

LEMMA PanicStep ==
  ASSUME CowInv, NEW e \in Env, status[e] = "runnable", Panic(e)
  PROVE  CowInv'
<1>0. status' = [status EXCEPT ![e] = "panicked"] /\ UNCHANGED <<kind, pt, mem, upcall, op, fault>>
  BY DEF Panic
<1>1. /\ status' \in [Env -> {"unborn", "embryo", "runnable", "panicked", "gone"}]
      /\ status'[e] = "panicked" /\ \A x \in Env : x # e => status'[x] = status[x]
  BY <1>0 DEF CowInv, TypeOK
<1>2. TypeOK'
  BY <1>0, <1>1 DEF CowInv, TypeOK
<1>3. BitsAllowed'
  BY <1>0 DEF CowInv, BitsAllowed, Mapped
<1>4. Living'
  BY <1>0, <1>1 DEF CowInv, Living, Mapped, Alive
<1>5. Building'
  <2>1. \A x \in Env : op[x].at \in Scanning \cup Finishing => op[x].child # e /\ op[x].child \in Env
    BY OpCases DEF CowInv, Building, TypeOK
  <2> QED BY <1>0, <1>1, <2>1 DEF CowInv, Building, Mapped
<1>6. FramesApart' /\ WritableIsPrivate' /\ Faulting'
  BY <1>0 DEF CowInv, FramesApart, WritableIsPrivate, Faulting, Copying, SameFrame, Mapped, InUnmap
<1>7. Upcalls'
  BY <1>0, <1>1 DEF CowInv, Upcalls, HasXStack, Mapped
<1> QED BY <1>2, <1>3, <1>4, <1>5, <1>6, <1>7 DEF CowInv

(* Only fault[e] changes, and not to or from the state of two mappings.    *)
LEMMA OnlyFault ==
  ASSUME CowInv, NEW e \in Env, Alive(e), NEW g \in Fault \cup {Nil},
         fault' = [fault EXCEPT ![e] = g], UNCHANGED <<kind, pt, status, upcall, op>>,
         mem' \in [Frame -> Value],
         fault[e] # Nil => fault[e].at # "unmap",
         g # Nil => g.at # "unmap",
         fault[e] # Nil /\ fault[e].at \in {"copy", "map"} <=> g # Nil /\ g.at \in {"copy", "map"},
         g # Nil /\ g.at \in {"copy", "map"} => g.page = fault[e].page
  PROVE  CowInv'
<1>0. UNCHANGED <<kind, pt, status, upcall, op>>
  OBVIOUS
<1>1. fault' \in [Env -> Fault \cup {Nil}] /\ fault'[e] = g /\ \A x \in Env : x # e => fault'[x] = fault[x]
  BY DEF CowInv, TypeOK
<1>2. TypeOK'
  BY <1>1 DEF CowInv, TypeOK
<1>3. BitsAllowed' /\ Building' /\ WritableIsPrivate' /\ Upcalls'
  BY <1>0 DEF CowInv, BitsAllowed, Building, WritableIsPrivate, Upcalls, SameFrame, HasXStack, Mapped
<1>4. Living'
  BY <1>0, <1>1 DEF CowInv, Living, Mapped, Alive
<1>5. FramesApart'
  BY <1>0, <1>1 DEF CowInv, FramesApart, SameFrame, Mapped, InUnmap
<1>6. Faulting'
  <2>1. ASSUME NEW x \in Env PROVE Copying(x)' <=> Copying(x)
    BY <1>1 DEF Copying
  <2>2. ASSUME NEW x \in Env, Copying(x) PROVE fault'[x].page = fault[x].page /\ (fault'[x].at = "unmap" <=> fault[x].at = "unmap")
    BY <1>1, <2>2 DEF Copying
  <2> QED BY <1>0, <2>1, <2>2 DEF CowInv, Faulting, Mapped
<1> QED BY <1>2, <1>3, <1>4, <1>5, <1>6 DEF CowInv

LEMMA FrameIn ==
  ASSUME TypeOK, NEW e \in Env, NEW p \in Place, Mapped(e, p)
  PROVE  pt[e][p] \in Pte /\ pt[e][p].frame \in Frame /\ pt[e][p].bits \in Bits
BY TypeFacts DEF Pte

LEMMA StoreStep ==
  ASSUME CowInv, NEW e \in Env, NEW p \in Page, NEW v \in Written, Store(e, p, v)
  PROVE  CowInv'
<1>0. status[e] = "runnable" /\ fault[e] = Nil /\ UNCHANGED <<kind, pt, status, upcall, op, fault>>
      /\ mem' = [mem EXCEPT ![pt[e][p].frame] = v]
  BY DEF Store
<1>1. fault' = [fault EXCEPT ![e] = Nil] /\ Alive(e)
  BY <1>0 DEF CowInv, TypeOK, Alive
<1>2. mem' \in [Frame -> Value]
  BY <1>0, CowAssumption DEF CowInv, TypeOK
<1> QED BY <1>0, <1>1, <1>2, OnlyFault

LEMMA StoreFaultsStep ==
  ASSUME CowInv, NEW e \in Env, NEW p \in Page, NEW v \in Written, StoreFaults(e, p, v)
  PROVE  CowInv'
<1> DEFINE g == [at |-> "alloc", page |-> p, val |-> v]
<1>0. status[e] = "runnable" /\ fault[e] = Nil /\ UNCHANGED <<kind, pt, mem, status, upcall, op>>
      /\ fault' = [fault EXCEPT ![e] = g]
  BY DEF StoreFaults
<1>1. g \in Fault /\ g.at = "alloc"
  BY CowAssumption DEF Fault
<1>2. Alive(e) /\ mem \in [Frame -> Value]
  BY <1>0 DEF CowInv, TypeOK, Alive
<1> HIDE DEF g
<1> QED BY <1>0, <1>1, <1>2, OnlyFault

LEMMA StackFaultsStep ==
  ASSUME CowInv, NEW e \in Env, StackFaults(e)
  PROVE  CowInv'
<1> DEFINE g == [at |-> "alloc", page |-> Stack, val |-> Nil]
<1>0. status[e] = "runnable" /\ fault[e] # Nil /\ fault[e].at = "retry"
      /\ UNCHANGED <<kind, pt, mem, status, upcall, op>>
      /\ fault' = [fault EXCEPT ![e] = g]
  BY DEF StackFaults, InFault
<1>2. g \in Fault /\ g.at = "alloc"
  BY Places DEF Fault
<1>3. Alive(e) /\ mem \in [Frame -> Value]
  BY <1>0 DEF CowInv, TypeOK, Alive
<1> HIDE DEF g
<1> QED BY <1>0, <1>2, <1>3, OnlyFault

LEMMA RetryStep ==
  ASSUME CowInv, NEW e \in Env, Retry(e)
  PROVE  CowInv'
<1>0. status[e] = "runnable" /\ fault[e] # Nil /\ fault[e].at = "retry"
      /\ UNCHANGED <<kind, pt, status, upcall, op>>
      /\ fault' = [fault EXCEPT ![e] = Nil]
      /\ fault[e].val # Nil
      /\ mem' = [mem EXCEPT ![pt[e][fault[e].page].frame] = fault[e].val]
  BY DEF Retry, InFault
<1>1. fault[e] \in Fault /\ fault[e].val \in Value
  BY <1>0, TypeFacts DEF CowInv, Fault
<1>2. Alive(e) /\ mem' \in [Frame -> Value]
  BY <1>0, <1>1 DEF CowInv, TypeOK, Alive
<1> QED BY <1>0, <1>2, OnlyFault

LEMMA RetryLostStep ==
  ASSUME CowInv, NEW e \in Env, RetryLost(e)
  PROVE  CowInv'
<1>0. status[e] = "runnable" /\ fault[e] # Nil /\ fault[e].at = "retry"
      /\ UNCHANGED <<kind, pt, mem, status, upcall, op>>
      /\ fault' = [fault EXCEPT ![e] = Nil]
  BY DEF RetryLost, InFault
<1>1. Alive(e) /\ mem' \in [Frame -> Value]
  BY <1>0 DEF CowInv, TypeOK, Alive
<1> QED BY <1>0, <1>1, OnlyFault

LEMMA PgfaultCopyStep ==
  ASSUME CowInv, NEW e \in Env, PgfaultCopy(e)
  PROVE  CowInv'
<1> DEFINE g == [fault[e] EXCEPT !.at = "map"]
<1>0. status[e] = "runnable" /\ fault[e] # Nil /\ fault[e].at = "copy"
      /\ UNCHANGED <<kind, pt, status, upcall, op>>
      /\ fault' = [fault EXCEPT ![e] = g]
      /\ mem' = [mem EXCEPT ![pt[e][PFTEMP].frame] = mem[pt[e][fault[e].page].frame]]
  BY DEF PgfaultCopy, InFault, FaultGoto
<1>1. fault[e] \in Fault /\ fault[e].page \in Page
  BY <1>0, TypeFacts DEF CowInv, Fault
<1>2. g \in Fault /\ g.at = "map" /\ g.page = fault[e].page
  BY <1>1 DEF Fault
<1>3. Alive(e) /\ Mapped(e, fault[e].page)
  BY <1>0, <1>1 DEF CowInv, Living, Alive
<1>4. pt[e][fault[e].page].frame \in Frame
  BY <1>1, <1>3, FrameIn, Places DEF CowInv
<1>5. mem' \in [Frame -> Value]
  BY <1>0, <1>4 DEF CowInv, TypeOK
<1> HIDE DEF g
<1>6. g # Nil /\ g.at # "unmap" /\ fault[e].at # "unmap" /\ fault[e].at \in {"copy", "map"} /\ g.at \in {"copy", "map"}
  BY <1>0, <1>2, NilAssumption
<1>7. g \in Fault \cup {Nil}
  BY <1>2
<1> QED BY <1>0, <1>2, <1>3, <1>5, <1>6, <1>7, OnlyFault

-----------------------------------------------------------------------------
(* Steps that map or unmap a page.                                         *)

(* A frame that nobody maps gets one mapping, outside of the pages.        *)
LEMMA FreshApart ==
  ASSUME FramesApart, NEW x \in Env, NEW r \in Place, NEW n, CellSet(x, r, n), Unused(n),
         \A e \in Env : \A p, q \in Place : InUnmap(e, p, q) => InUnmap(e, p, q)' /\ p = PFTEMP /\ q # PFTEMP,
         Mapped(x, r) => ~\E q \in Place : InUnmap(x, r, q) \/ InUnmap(x, q, r)
  PROVE  FramesApart'
<1> SUFFICES ASSUME NEW e \in Env, NEW f \in Env, NEW p \in Place, NEW q \in Place, SameFrame(e, p, f, q)'
             PROVE  \/ p = q /\ (p \in Page \/ e = f)
                    \/ e = f /\ (InUnmap(e, p, q)' \/ InUnmap(e, q, p)')
  BY DEF FramesApart
<1>1. CASE (e = x /\ p = r) /\ (f = x /\ q = r)
  BY <1>1
<1>2. CASE (e = x /\ p = r) /\ ~(f = x /\ q = r)
  BY <1>2 DEF SameFrame, CellSet, Unused, Mapped
<1>3. CASE ~(e = x /\ p = r) /\ (f = x /\ q = r)
  BY <1>3 DEF SameFrame, CellSet, Unused, Mapped
<1>4. CASE ~(e = x /\ p = r) /\ ~(f = x /\ q = r)
  <2>1. SameFrame(e, p, f, q)
    BY <1>4 DEF SameFrame, CellSet, Mapped
  <2> QED BY <2>1 DEF FramesApart
<1> QED BY <1>1, <1>2, <1>3, <1>4

(* An exception stack for x, and the call of e goes on.                    *)
LEMMA XStackStep ==
  ASSUME CowInv, NEW e \in Env, NEW x \in Env, NEW o \in Op, NEW n \in Pte,
         CellSet(x, XStack, n), "PTE_W" \in n.bits, Unused(n), Goto(e, o), Alive(e),
         UNCHANGED <<kind, status, fault>>, upcall' \in [Env -> BOOLEAN],
         pt' \in [Env -> [Place -> Pte \cup {Nil}]], mem' \in [Frame -> Value],
         \/ o.at = "exofork" /\ op[e].at = "idle" /\ x = e
         \/ o.at = "upcall" /\ op[e].at = "xstack" /\ x = op[e].child /\ o.child = x,
         upcall'[e], \A y \in Env : upcall[y] => upcall'[y],
         \A y \in Env : upcall'[y] => upcall[y] \/ y = x
  PROVE  CowInv'
<1>0. UNCHANGED <<kind, status, fault>> /\ Nil \notin Pte
  BY NilAssumption
<1>1. op' \in [Env -> Op] /\ op'[e] = o /\ \A y \in Env : y # e => op'[y] = op[y]
  BY DEF Goto, CowInv, TypeOK
<1>2. /\ \A y \in Env, p \in Page : pt'[y][p] = pt[y][p]
      /\ \A y \in Env : pt'[y][PFTEMP] = pt[y][PFTEMP]
      /\ \A y \in Env : y # x => pt'[y][XStack] = pt[y][XStack]
      /\ pt'[x][XStack] = n
  BY Places DEF CellSet
<1>3. TypeOK'
  BY <1>1 DEF CowInv, TypeOK
<1>4. BitsAllowed'
  <2>1. ASSUME NEW y \in Env, NEW p \in Page, pt'[y][p] # Nil PROVE pt'[y][p].bits \in Allowed(kind, p)
    BY <2>1, <1>2 DEF CowInv, BitsAllowed, Mapped
  <2>2. ASSUME NEW y \in Env, op'[y].at \in {"map", "remap"} PROVE op'[y] = op[y]
    BY <2>2, <1>1
  <2> QED BY <1>0, <2>1, <2>2 DEF CowInv, BitsAllowed, Mapped, Allowed, Private, DupOf
<1>5. Living'
  <2>1. status[x] \notin {"unborn", "gone"}
    BY DEF CowInv, Building, Alive, Finishing
  <2>2. \A y \in Env : status[y] \in {"unborn", "gone"} => \A p \in Place : pt'[y][p] = pt[y][p]
    BY <2>1 DEF CellSet
  <2>3. ASSUME NEW y \in Env, op'[y] # Idle \/ fault'[y] # Nil PROVE Alive(y)'
    BY <1>0, <1>1, <2>3 DEF CowInv, Living, Alive
  <2>4. ASSUME NEW y \in Env, Alive(y)', NEW p \in Page PROVE pt'[y][p] # Nil
    BY <1>0, <1>2, <2>4 DEF CowInv, Living, Alive, Mapped
  <2>5. ASSUME NEW y \in Env, status'[y] \in {"unborn", "gone"}, NEW p \in Place PROVE pt'[y][p] = Nil
    BY <1>0, <2>2, <2>5 DEF CowInv, Living, Mapped
  <2> QED BY <2>3, <2>4, <2>5 DEF Living, Mapped
<1>6. Building'
  <2>1. \A y \in Env : op[y].at \in Scanning \cup Finishing => op[y].child \in Env
    BY OpCases DEF CowInv, TypeOK
  <2>2. \A p \in Page : (Done(o, p) /\ Done(op[e], p)) \/ o.at = "exofork"
    BY DEF Done, Finishing
  <2>3. ASSUME NEW y \in Env, op'[y].at \in Scanning \cup Finishing
        PROVE  /\ op[y].at \in Scanning \cup Finishing /\ op'[y].child = op[y].child
               /\ \A p \in Page : Done(op'[y], p) <=> Done(op[y], p)
    <3>1. CASE y = e
      BY <3>1, <1>1, <2>2, <2>3 DEF Scanning, Finishing
    <3>2. CASE y # e
      BY <3>2, <1>1, <2>3
    <3> QED BY <3>1, <3>2
  <2>4. ASSUME NEW y \in Env, op'[y].at \in Scanning \cup Finishing
        PROVE  /\ status'[op'[y].child] = "embryo"
               /\ \A p \in Page : pt'[op'[y].child][p] # Nil <=> Done(op'[y], p)
    <3>1. PICK c \in Env : c = op[y].child /\ c = op'[y].child /\ op[y].at \in Scanning \cup Finishing
      BY <2>1, <2>3, <2>4
    <3>2. status[c] = "embryo" /\ \A p \in Page : pt[c][p] # Nil <=> Done(op[y], p)
      BY <3>1 DEF CowInv, Building, Mapped
    <3>3. \A p \in Page : pt'[c][p] # Nil <=> Done(op'[y], p)
      BY <1>2, <2>3, <2>4, <3>2
    <3> QED BY <1>0, <3>1, <3>2, <3>3
  <2> QED BY <2>3, <2>4 DEF CowInv, Building, Mapped
<1>7. FramesApart'
  <2>1. \A y \in Env : \A p, q \in Place : InUnmap(y, p, q) =>
          InUnmap(y, p, q)' /\ p = PFTEMP /\ q # PFTEMP /\ p # XStack /\ q # XStack
    BY <1>0, Places, TypeFacts DEF InUnmap, CowInv, Fault
  <2> QED BY <2>1, FreshApart, Places DEF CowInv
<1>8. WritableIsPrivate'
  BY <1>0, <1>1, <1>2 DEF CowInv, WritableIsPrivate, SameFrame, Mapped
<1>9. Faulting'
  <2>1. \A y \in Env : Copying(y) => fault[y].page \in Page
    BY TypeFacts DEF CowInv, Copying, Fault
  <2> QED BY <1>0, <1>2, <2>1 DEF CowInv, Faulting, Copying, Mapped
<1>10. Upcalls'
  <2>0. HasXStack(x)' /\ \A y \in Env : HasXStack(y) => HasXStack(y)'
    BY <1>0, <1>2 DEF HasXStack, Mapped
  <2>1. ASSUME NEW y \in Env, op'[y].at \in {"upcall", "runnable"}
        PROVE  (HasXStack(op[y].child))' /\ (op'[y].at = "runnable" => upcall'[op'[y].child])
    <3>1. CASE y = e
      BY <3>1, <1>0, <1>1, <1>2, <2>1 DEF HasXStack, Mapped
    <3>2. CASE y # e
      <4>1. op[y].child \in Env
        BY <3>2, <2>1, <1>1, OpCases DEF CowInv, TypeOK, Finishing
      <4>2. pt[op[y].child][XStack] # Nil /\ "PTE_W" \in pt[op[y].child][XStack].bits
            /\ (op[y].at = "runnable" => upcall[op[y].child])
        BY <3>2, <2>1, <1>1 DEF CowInv, Upcalls, HasXStack, Mapped
      <4>3. pt'[op[y].child][XStack] # Nil /\ "PTE_W" \in pt'[op[y].child][XStack].bits
        BY <4>1, <4>2, <1>0, <1>2
      <4> QED BY <3>2, <1>1, <4>1, <4>2, <4>3 DEF HasXStack, Mapped
    <3> QED BY <3>1, <3>2
  <2>2. ASSUME NEW y \in Env, status[y] = "runnable", upcall'[y] PROVE HasXStack(y)'
    BY <2>0, <2>2 DEF CowInv, Upcalls
  <2>3. ASSUME NEW y \in Env, status[y] = "runnable", op'[y] # Idle PROVE upcall'[y]
    BY <1>1, <2>3 DEF CowInv, Upcalls
  <2>4. ASSUME NEW y \in Env, status[y] = "runnable", NEW p \in Page, pt'[y][p].bits = C PROVE upcall'[y]
    BY <1>2, <2>4 DEF CowInv, Upcalls
  <2> QED BY <1>0, <2>1, <2>2, <2>3, <2>4 DEF Upcalls
<1> QED BY <1>3, <1>4, <1>5, <1>6, <1>7, <1>8, <1>9, <1>10 DEF CowInv

LEMMA SetPgfaultHandlerStep ==
  ASSUME CowInv, NEW e \in Env, SetPgfaultHandler(e)
  PROVE  CowInv'
<1> DEFINE o == [at |-> "exofork"]
<1>0. /\ status[e] = "runnable" /\ op[e].at = "idle" /\ Goto(e, o)
      /\ UNCHANGED <<kind, status, fault>>
  BY DEF SetPgfaultHandler, At
<1>1. o \in Op /\ o.at = "exofork"
  BY DEF Op
<1> HIDE DEF o
<1>2. TypeOK /\ upcall \in [Env -> BOOLEAN] /\ Alive(e)
  BY <1>0 DEF CowInv, TypeOK, Alive
<1>3. CASE upcall[e] /\ UNCHANGED <<pt, mem, upcall>>
  BY <1>0, <1>3, HandlerSetStep DEF o
<1>4. CASE /\ Alloc(e, XStack, {"PTE_W", "PTE_COW", "PTE_SHARE"})
           /\ upcall' = [upcall EXCEPT ![e] = TRUE]
  <2>1. PICK n \in Pte : CellSet(e, XStack, n) /\ n.bits = {"PTE_W", "PTE_COW", "PTE_SHARE"} /\ Unused(n)
    BY <1>2, <1>4, AllocCell, Places, BitFacts
  <2>2. pt' \in [Env -> [Place -> Pte \cup {Nil}]] /\ mem' \in [Frame -> Value]
    BY <1>2, <1>4, AllocCell, Places, BitFacts
  <2>3. upcall' \in [Env -> BOOLEAN] /\ upcall'[e] /\ \A y \in Env : y # e => upcall'[y] = upcall[y]
    BY <1>2, <1>4
  <2> QED BY <1>0, <1>1, <1>2, <2>1, <2>2, <2>3, XStackStep
<1> QED BY <1>3, <1>4 DEF SetPgfaultHandler

LEMMA AllocXStackStep ==
  ASSUME CowInv, NEW e \in Env, AllocXStack(e)
  PROVE  CowInv'
<1>0. /\ status[e] = "runnable" /\ op[e].at = "xstack"
      /\ UNCHANGED <<kind, status, upcall, fault>>
  BY DEF AllocXStack, At
<1>1. op[e] \in [at : Finishing, child : Env] /\ op[e] # Idle
  BY <1>0, OpCases DEF CowInv, TypeOK, Finishing, Idle
<1>2. PICK c \in Env : c = op[e].child
  BY <1>1
<1> DEFINE o == [op[e] EXCEPT !.at = "upcall"]
<1>3. o \in Op /\ o.at = "upcall" /\ o.child = c
  BY <1>1, <1>2 DEF Op, Finishing
<1>4. Goto(e, o) /\ Alloc(c, XStack, W)
  BY <1>2 DEF AllocXStack, W
<1> HIDE DEF o
<1>5. TypeOK /\ upcall \in [Env -> BOOLEAN] /\ Alive(e) /\ upcall[e]
  BY <1>0, <1>1 DEF CowInv, TypeOK, Alive, Upcalls
<1>6. PICK n \in Pte : CellSet(c, XStack, n) /\ n.bits = W /\ Unused(n)
  BY <1>4, <1>5, AllocCell, Places, BitFacts
<1>7. pt' \in [Env -> [Place -> Pte \cup {Nil}]] /\ mem' \in [Frame -> Value]
  BY <1>4, <1>5, AllocCell, Places, BitFacts
<1> QED BY <1>0, <1>2, <1>3, <1>4, <1>5, <1>6, <1>7, XStackStep, BitFacts

(* fault[e] goes on to another place.                                      *)
FaultAt(e, where) ==
  /\ fault' \in [Env -> Fault \cup {Nil}] /\ fault'[e] \in Fault /\ fault'[e] # Nil
  /\ fault'[e].at = where /\ fault'[e].page = fault[e].page
  /\ \A x \in Env : x # e => fault'[x] = fault[x]

LEMMA FaultGotoFacts ==
  ASSUME TypeOK, NEW e \in Env, fault[e] # Nil, NEW where \in {"copy", "map", "unmap", "retry"},
         FaultGoto(e, where)
  PROVE  FaultAt(e, where)
<1>1. fault \in [Env -> Fault \cup {Nil}] /\ fault[e] \in Fault
  BY TypeFacts DEF TypeOK
<1> DEFINE g == [fault[e] EXCEPT !.at = where]
<1>2. g \in Fault /\ g.at = where /\ g.page = fault[e].page
  BY <1>1 DEF Fault
<1>3. fault' = [fault EXCEPT ![e] = g]
  BY DEF FaultGoto
<1> HIDE DEF g
<1> QED BY <1>1, <1>2, <1>3, NilAssumption DEF FaultAt

LEMMA PgfaultAllocStep ==
  ASSUME CowInv, NEW e \in Env, PgfaultAlloc(e)
  PROVE  CowInv'
<1>0. /\ status[e] = "runnable" /\ fault[e] # Nil /\ fault[e].at = "alloc" /\ TypeOK
      /\ "PTE_COW" \in pt[e][fault[e].page].bits /\ UNCHANGED <<kind, status, upcall, op>>
  BY DEF PgfaultAlloc, InFault, CowInv
<1>1. FaultAt(e, "copy")
  BY <1>0, FaultGotoFacts DEF PgfaultAlloc
<1>2. PICK n \in Pte : CellSet(e, PFTEMP, n) /\ n.bits = W /\ Unused(n)
  BY <1>0, AllocCell, Places, BitFacts DEF PgfaultAlloc, W
<1>3. pt' \in [Env -> [Place -> Pte \cup {Nil}]] /\ mem' \in [Frame -> Value]
  BY <1>0, AllocCell, Places, BitFacts DEF PgfaultAlloc, W
<1>4. /\ \A y \in Env, p \in Page : pt'[y][p] = pt[y][p]
      /\ \A y \in Env : pt'[y][XStack] = pt[y][XStack]
      /\ \A y \in Env : y # e => pt'[y][PFTEMP] = pt[y][PFTEMP]
      /\ pt'[e][PFTEMP] = n /\ n # Nil
  BY <1>2, Places, NilAssumption DEF CellSet
<1>5. fault[e].page \in Page /\ \A y \in Env : fault[y] # Nil => fault[y].page \in Page
  BY <1>0, TypeFacts DEF CowInv, Fault
<1>6. TypeOK'
  BY <1>0, <1>1, <1>3 DEF CowInv, TypeOK, FaultAt
<1>7. BitsAllowed' /\ Building'
  <2>1. BitsAllowed'
    BY <1>0, <1>4 DEF CowInv, BitsAllowed, Mapped
  <2>2. \A y \in Env : op[y].at \in Scanning \cup Finishing => op[y].child \in Env
    BY OpCases DEF CowInv, TypeOK
  <2>3. Building'
    BY <1>0, <1>4, <2>2 DEF CowInv, Building, Mapped
  <2> QED BY <2>1, <2>3
<1>8. Living'
  <2>1. ASSUME NEW y \in Env, status'[y] \in {"unborn", "gone"}, NEW p \in Place PROVE pt'[y][p] = Nil
    BY <1>0, <1>2, <2>1 DEF CowInv, Living, Mapped, CellSet
  <2>2. ASSUME NEW y \in Env, op'[y] # Idle \/ fault'[y] # Nil PROVE Alive(y)'
    BY <1>0, <1>1, <2>2 DEF CowInv, Living, Alive, FaultAt
  <2>3. ASSUME NEW y \in Env, Alive(y)', NEW p \in Page PROVE pt'[y][p] # Nil
    BY <1>0, <1>4, <2>3 DEF CowInv, Living, Alive, Mapped
  <2> QED BY <2>1, <2>2, <2>3 DEF Living, Mapped
<1>9. FramesApart'
  <2>1. \A y \in Env : \A p, q \in Place : InUnmap(y, p, q) =>
          InUnmap(y, p, q)' /\ p = PFTEMP /\ q # PFTEMP /\ y # e
    BY <1>0, <1>1, <1>5, Places DEF InUnmap, FaultAt
  <2> QED BY <1>2, <2>1, FreshApart, Places DEF CowInv
<1>10. WritableIsPrivate'
  BY <1>0, <1>4 DEF CowInv, WritableIsPrivate, SameFrame, Mapped
<1>11. pt[e][fault[e].page].bits = C
  <2>1. Mapped(e, fault[e].page)
    BY <1>0, <1>5 DEF CowInv, Living, Alive
  <2>2. pt[e][fault[e].page].bits \in Allowed(kind, fault[e].page)
    BY <1>5, <2>1 DEF CowInv, BitsAllowed
  <2> QED BY <1>0, <1>5, <2>2, AllowedFacts
<1>12. Faulting'
  <2>1. ASSUME NEW y \in Env, y # e
        PROVE  /\ (pt'[y][PFTEMP] # Nil <=> Copying(y)')
               /\ Copying(y)' /\ fault'[y].at # "unmap" => pt'[y][fault'[y].page].bits = C
               /\ Copying(y)' /\ fault'[y].at = "unmap" =>
                    /\ pt'[y][fault'[y].page].bits = W
                    /\ pt'[y][fault'[y].page].frame = pt'[y][PFTEMP].frame
    BY <2>1, <1>1, <1>4, <1>5 DEF CowInv, Faulting, Copying, Mapped, FaultAt
  <2>2. /\ Copying(e)' /\ fault'[e].at # "unmap" /\ pt'[e][fault'[e].page].bits = C /\ pt'[e][PFTEMP] # Nil
    BY <1>1, <1>4, <1>5, <1>11 DEF Copying, FaultAt
  <2> QED BY <2>1, <2>2 DEF Faulting, Mapped
<1>13. Upcalls'
  <2>1. \A y \in Env : op[y].at \in {"upcall", "runnable"} => op[y].child \in Env
    BY OpCases DEF CowInv, TypeOK, Finishing
  <2> QED BY <1>0, <1>4, <2>1 DEF CowInv, Upcalls, HasXStack, Mapped
<1> QED BY <1>6, <1>7, <1>8, <1>9, <1>10, <1>12, <1>13 DEF CowInv

(* The page r that faulted gets the new frame.                             *)
CopyEffect(e, r, n) ==
  /\ r = fault[e].page /\ Mapped(e, PFTEMP) /\ Mapped(e, r) /\ pt[e][r].bits = C
  /\ n.frame = pt[e][PFTEMP].frame /\ n.bits = W
  /\ CellSet(e, r, n) /\ Kept
  /\ pt' \in [Env -> [Place -> Pte \cup {Nil}]] /\ mem' \in [Frame -> Value]

LEMMA PgfaultMapEffect ==
  ASSUME CowInv, NEW e \in Env, PgfaultMap(e)
  PROVE  \E r \in Page, n \in Pte : CopyEffect(e, r, n)
<1>0. /\ status[e] = "runnable" /\ fault[e] # Nil /\ fault[e].at = "map" /\ TypeOK
      /\ UNCHANGED <<kind, status, upcall, op>> /\ Copying(e)
  BY DEF PgfaultMap, InFault, CowInv, Copying
<1>2. \A y \in Env : fault[y] # Nil => fault[y].page \in Page
  BY <1>0, TypeFacts DEF CowInv, Fault
<1>3. PICK r \in Page : r = fault[e].page
  BY <1>0, <1>2
<1>4. Mapped(e, PFTEMP) /\ pt[e][r].bits = C /\ Mapped(e, r)
  BY <1>0, <1>3 DEF CowInv, Faulting, Living, Alive
<1>5. PICK n \in Pte : n = [frame |-> pt[e][PFTEMP].frame, bits |-> W]
  BY <1>0, <1>4, FrameIn, Places, BitFacts DEF Pte
<1>6. n # Nil /\ n.frame = pt[e][PFTEMP].frame /\ n.bits = W
  BY <1>5, NilAssumption
<1>7. SetPt([pt EXCEPT ![e][r] = n])
  BY <1>3, <1>5 DEF PgfaultMap, W
<1>8. CellSet(e, r, n) /\ pt' \in [Env -> [Place -> Pte \cup {Nil}]] /\ mem' \in [Frame -> Value]
  BY <1>0, <1>7, CellTypes, Places
<1>9. Kept
  BY <1>7, <1>8, SetPtKeeps
<1> QED BY <1>3, <1>4, <1>6, <1>8, <1>9 DEF CopyEffect

LEMMA PgfaultMapStep ==
  ASSUME CowInv, NEW e \in Env, PgfaultMap(e)
  PROVE  CowInv'
<1>0. /\ status[e] = "runnable" /\ fault[e] # Nil /\ fault[e].at = "map" /\ TypeOK
      /\ UNCHANGED <<kind, status, upcall, op>> /\ Copying(e)
  BY DEF PgfaultMap, InFault, CowInv, Copying
<1>1. FaultAt(e, "unmap")
  BY <1>0, FaultGotoFacts DEF PgfaultMap
<1>2. \A y \in Env : fault[y] # Nil => fault[y].page \in Page
  BY <1>0, TypeFacts DEF CowInv, Fault
<1>a. PICK r \in Page, n \in Pte : CopyEffect(e, r, n)
  BY PgfaultMapEffect
<1>3. r = fault[e].page
  BY <1>a DEF CopyEffect
<1>4. Mapped(e, PFTEMP) /\ pt[e][r].bits = C /\ Mapped(e, r)
  BY <1>a DEF CopyEffect
<1>6. n # Nil /\ n.frame = pt[e][PFTEMP].frame /\ n.bits = W
  BY <1>a, NilAssumption DEF CopyEffect
<1>8. CellSet(e, r, n) /\ pt' \in [Env -> [Place -> Pte \cup {Nil}]] /\ mem' \in [Frame -> Value]
  BY <1>a DEF CopyEffect
<1>9. /\ pt'[e][r] = n
      /\ \A y \in Env, p \in Page : y # e \/ p # r => pt'[y][p] = pt[y][p]
      /\ \A y \in Env : pt'[y][XStack] = pt[y][XStack] /\ pt'[y][PFTEMP] = pt[y][PFTEMP]
      /\ \A y \in Env, p \in Place : pt'[y][p] # Nil <=> pt[y][p] # Nil
  BY <1>4, <1>6, <1>8, Places DEF CellSet, Mapped
<1>10. TypeOK'
  BY <1>0, <1>1, <1>8 DEF CowInv, TypeOK, FaultAt
<1>11. BitsAllowed'
  <2>1. W \in Allowed(kind, r)
    <3>1. C \in Allowed(kind, r)
      BY <1>4 DEF CowInv, BitsAllowed
    <3> QED BY <3>1, AllowedFacts, BitFacts DEF Private, Allowed
  <2>2. ASSUME NEW y \in Env, NEW p \in Page, pt'[y][p] # Nil PROVE pt'[y][p].bits \in Allowed(kind, p)
    BY <2>1, <2>2, <1>6, <1>9 DEF CowInv, BitsAllowed, Mapped
  <2> QED BY <1>0, <2>2 DEF CowInv, BitsAllowed, Mapped, Allowed, Private, DupOf
<1>12. Living'
  <2>1. ASSUME NEW y \in Env, op'[y] # Idle \/ fault'[y] # Nil PROVE Alive(y)'
    BY <1>0, <1>1, <2>1 DEF CowInv, Living, Alive, FaultAt
  <2> QED BY <1>0, <1>9, <2>1, Places DEF CowInv, Living, Mapped, Alive
<1>13. Building'
  <2>1. \A y \in Env : op[y].at \in Scanning \cup Finishing => op[y].child \in Env
    BY OpCases DEF CowInv, TypeOK
  <2> QED BY <1>0, <1>9, <2>1, Places DEF CowInv, Building, Mapped
<1>14. ASSUME NEW f \in Env, NEW q \in Place, f # e \/ q # r, SameFrame(e, r, f, q)'
       PROVE  f = e /\ q = PFTEMP
  <2>1. SameFrame(e, PFTEMP, f, q)
    BY <1>14, <1>4, <1>6, <1>8 DEF SameFrame, CellSet, Mapped
  <2>2. \A p \in Place : ~InUnmap(e, PFTEMP, p) /\ ~InUnmap(e, p, PFTEMP)
    BY <1>0 DEF InUnmap
  <2> QED BY <2>1, <2>2, Places DEF CowInv, FramesApart
<1>15. FramesApart'
  <2> SUFFICES ASSUME NEW x \in Env, NEW f \in Env, NEW p \in Place, NEW q \in Place, SameFrame(x, p, f, q)'
               PROVE  \/ p = q /\ (p \in Page \/ x = f)
                      \/ x = f /\ (InUnmap(x, p, q)' \/ InUnmap(x, q, p)')
    BY DEF FramesApart
  <2>0. InUnmap(e, PFTEMP, r)'
    BY <1>1, <1>3 DEF InUnmap, FaultAt
  <2>1. CASE x = e /\ p = r /\ (f # e \/ q # r)
    BY <2>0, <2>1, <1>14
  <2>2. CASE f = e /\ q = r /\ (x # e \/ p # r)
    <3>1. SameFrame(e, r, x, p)'
      BY <2>2 DEF SameFrame
    <3> QED BY <2>0, <2>2, <3>1, <1>14
  <2>3. CASE ~(x = e /\ p = r) /\ ~(f = e /\ q = r)
    <3>1. SameFrame(x, p, f, q)
      BY <2>3, <1>8 DEF SameFrame, CellSet, Mapped
    <3>2. \A y \in Env : InUnmap(y, p, q) \/ InUnmap(y, q, p) => y # e
      BY <1>0 DEF InUnmap
    <3>3. \A y \in Env : y # e => (InUnmap(y, p, q)' <=> InUnmap(y, p, q)) /\ (InUnmap(y, q, p)' <=> InUnmap(y, q, p))
      BY <1>1 DEF InUnmap, FaultAt
    <3> QED BY <3>1, <3>2, <3>3 DEF CowInv, FramesApart
  <2>4. CASE x = e /\ p = r /\ f = e /\ q = r
    BY <2>4
  <2> QED BY <2>1, <2>2, <2>3, <2>4
<1>16. WritableIsPrivate'
  <2> SUFFICES ASSUME NEW x \in Env, NEW f \in Env, NEW p \in Page, Private(kind, p), SameFrame(x, p, f, p)',
                      pt'[x][p].bits = W, x # f
               PROVE  op[x].at = "remap" /\ op[x].page = p /\ op[x].child = f
    BY <1>0 DEF WritableIsPrivate, Private, DupOf
  <2>1. ~(x = e /\ p = r)
    BY <1>14, Places
  <2>2. ~(f = e /\ p = r)
    <3>1. SameFrame(f, p, x, p)'
      BY DEF SameFrame
    <3> QED BY <3>1, <1>14, Places
  <2>3. SameFrame(x, p, f, p) /\ pt[x][p].bits = W
    BY <2>1, <2>2, <1>9 DEF SameFrame, Mapped
  <2> QED BY <2>3 DEF CowInv, WritableIsPrivate
<1>17. Faulting'
  <2>1. ASSUME NEW y \in Env, y # e
        PROVE  /\ (pt'[y][PFTEMP] # Nil <=> Copying(y)')
               /\ Copying(y)' /\ fault'[y].at # "unmap" => pt'[y][fault'[y].page].bits = C
               /\ Copying(y)' /\ fault'[y].at = "unmap" =>
                    /\ pt'[y][fault'[y].page].bits = W
                    /\ pt'[y][fault'[y].page].frame = pt'[y][PFTEMP].frame
    BY <2>1, <1>1, <1>2, <1>9 DEF CowInv, Faulting, Copying, Mapped, FaultAt
  <2>2. /\ Copying(e)' /\ fault'[e].at = "unmap" /\ pt'[e][PFTEMP] # Nil
        /\ pt'[e][fault'[e].page].bits = W /\ pt'[e][fault'[e].page].frame = pt'[e][PFTEMP].frame
    BY <1>1, <1>3, <1>4, <1>6, <1>9 DEF Copying, FaultAt, Mapped
  <2> QED BY <2>1, <2>2 DEF Faulting, Mapped
<1>18. Upcalls'
  <2>1. \A y \in Env : op[y].at \in {"upcall", "runnable"} => op[y].child \in Env
    BY OpCases DEF CowInv, TypeOK, Finishing
  <2>2. \A y \in Env, p \in Page : pt'[y][p].bits = C => pt[y][p].bits = C
    BY <1>4, <1>9
  <2> QED BY <1>0, <1>9, <2>1, <2>2 DEF CowInv, Upcalls, HasXStack, Mapped
<1> QED BY <1>10, <1>11, <1>12, <1>13, <1>15, <1>16, <1>17, <1>18 DEF CowInv

LEMMA PgfaultUnmapStep ==
  ASSUME CowInv, NEW e \in Env, PgfaultUnmap(e)
  PROVE  CowInv'
<1>0. /\ status[e] = "runnable" /\ fault[e] # Nil /\ fault[e].at = "unmap" /\ TypeOK
      /\ UNCHANGED <<kind, status, upcall, op>> /\ SetPt([pt EXCEPT ![e][PFTEMP] = Nil])
  BY DEF PgfaultUnmap, InFault, CowInv
<1>1. FaultAt(e, "retry")
  BY <1>0, FaultGotoFacts DEF PgfaultUnmap
<1>2. \A y \in Env : fault[y] # Nil => fault[y].page \in Page
  BY <1>0, TypeFacts DEF CowInv, Fault
<1>3. CellSet(e, PFTEMP, Nil) /\ pt' \in [Env -> [Place -> Pte \cup {Nil}]] /\ mem' \in [Frame -> Value]
  BY <1>0, CellTypes, Places
<1>4. /\ pt'[e][PFTEMP] = Nil
      /\ \A y \in Env, p \in Page : pt'[y][p] = pt[y][p]
      /\ \A y \in Env : pt'[y][XStack] = pt[y][XStack]
      /\ \A y \in Env : y # e => pt'[y][PFTEMP] = pt[y][PFTEMP]
      /\ \A y \in Env, p \in Place : pt'[y][p] # Nil => pt'[y][p] = pt[y][p] /\ (y # e \/ p # PFTEMP)
  BY <1>3, Places DEF CellSet
<1>5. TypeOK'
  BY <1>0, <1>1, <1>3 DEF CowInv, TypeOK, FaultAt
<1>6. BitsAllowed'
  BY <1>0, <1>4 DEF CowInv, BitsAllowed, Mapped
<1>7. Living'
  <2>1. ASSUME NEW y \in Env, op'[y] # Idle \/ fault'[y] # Nil PROVE Alive(y)'
    BY <1>0, <1>1, <2>1 DEF CowInv, Living, Alive, FaultAt
  <2>2. ASSUME NEW y \in Env, status'[y] \in {"unborn", "gone"}, NEW p \in Place PROVE pt'[y][p] = Nil
    BY <1>0, <1>4, <2>2 DEF CowInv, Living, Mapped
  <2>3. ASSUME NEW y \in Env, Alive(y)', NEW p \in Page PROVE pt'[y][p] # Nil
    BY <1>0, <1>4, <2>3 DEF CowInv, Living, Alive, Mapped
  <2> QED BY <2>1, <2>2, <2>3 DEF Living, Mapped
<1>8. Building'
  <2>1. \A y \in Env : op[y].at \in Scanning \cup Finishing => op[y].child \in Env
    BY OpCases DEF CowInv, TypeOK
  <2> QED BY <1>0, <1>4, <2>1, Places DEF CowInv, Building, Mapped
<1>9. FramesApart'
  <2> SUFFICES ASSUME NEW x \in Env, NEW f \in Env, NEW p \in Place, NEW q \in Place, SameFrame(x, p, f, q)'
               PROVE  \/ p = q /\ (p \in Page \/ x = f)
                      \/ x = f /\ (InUnmap(x, p, q)' \/ InUnmap(x, q, p)')
    BY DEF FramesApart
  <2>1. SameFrame(x, p, f, q) /\ (x # e \/ p # PFTEMP) /\ (f # e \/ q # PFTEMP)
    BY <1>4 DEF SameFrame, Mapped
  <2>2. CASE p = q /\ (p \in Page \/ x = f)
    BY <2>2
  <2>3. CASE x = f /\ (InUnmap(x, p, q) \/ InUnmap(x, q, p))
    <3>1. x # e
      BY <2>1, <2>3 DEF InUnmap
    <3>2. InUnmap(x, p, q)' \/ InUnmap(x, q, p)'
      BY <1>1, <2>3, <3>1 DEF InUnmap, FaultAt
    <3> QED BY <2>3, <3>2
  <2> QED BY <2>1, <2>2, <2>3 DEF CowInv, FramesApart
<1>10. WritableIsPrivate'
  BY <1>0, <1>4 DEF CowInv, WritableIsPrivate, SameFrame, Mapped
<1>11. Faulting'
  <2>1. ASSUME NEW y \in Env, y # e
        PROVE  /\ (pt'[y][PFTEMP] # Nil <=> Copying(y)')
               /\ Copying(y)' /\ fault'[y].at # "unmap" => pt'[y][fault'[y].page].bits = C
               /\ Copying(y)' /\ fault'[y].at = "unmap" =>
                    /\ pt'[y][fault'[y].page].bits = W
                    /\ pt'[y][fault'[y].page].frame = pt'[y][PFTEMP].frame
    BY <2>1, <1>1, <1>2, <1>4 DEF CowInv, Faulting, Copying, Mapped, FaultAt
  <2>2. ~Copying(e)'
    BY <1>1 DEF Copying, FaultAt
  <2> QED BY <2>1, <2>2, <1>4 DEF Faulting, Mapped
<1>12. Upcalls'
  <2>1. \A y \in Env : op[y].at \in {"upcall", "runnable"} => op[y].child \in Env
    BY OpCases DEF CowInv, TypeOK, Finishing
  <2> QED BY <1>0, <1>4, <2>1 DEF CowInv, Upcalls, HasXStack, Mapped
<1> QED BY <1>5, <1>6, <1>7, <1>8, <1>9, <1>10, <1>11, <1>12 DEF CowInv

(* What e is about to map: its call, and the page it read.                 *)
LEMMA ScanAt ==
  ASSUME CowInv, NEW e \in Env, op[e].at \in {"map", "remap"}
  PROVE  /\ op[e] \in [at : Scanning, child : Env, page : 0 .. XStack, bits : Bits] /\ op[e] # Idle
         /\ op[e].page \in Page /\ op[e].bits \in Allowed(kind, op[e].page)
         /\ Alive(e) /\ op[e].child # e /\ Mapped(e, op[e].page)
<1>1. op[e] \in [at : Scanning, child : Env, page : 0 .. XStack, bits : Bits] /\ op[e] # Idle
  BY OpCases DEF CowInv, TypeOK, Scanning, Idle
<1>2. op[e].page \in Page /\ op[e].bits \in Allowed(kind, op[e].page)
  BY DEF CowInv, BitsAllowed
<1>3. Alive(e)
  BY <1>1 DEF CowInv, Living
<1>4. status[op[e].child] = "embryo"
  BY DEF CowInv, Building, Scanning
<1> QED BY <1>1, <1>2, <1>3, <1>4 DEF CowInv, Living, Alive

(* The page r of e is mapped in the child c as n, and the scan goes on.    *)
MapEffect(e, c, r, n, o) ==
  /\ c = op[e].child /\ r = op[e].page /\ c # e /\ Mapped(e, r)
  /\ n.frame = pt[e][r].frame /\ n.bits \in Allowed(kind, r) /\ (Private(kind, r) => n.bits = C)
  /\ CellSet(c, r, n) /\ Kept
  /\ pt' \in [Env -> [Place -> Pte \cup {Nil}]] /\ mem' \in [Frame -> Value]
  /\ Goto(e, o) /\ o.child = c /\ o.at \in {"scan", "remap"}
  /\ o.at = "remap" <=> Private(kind, r)
  /\ o.at = "remap" => o.page = r /\ o.bits = op[e].bits
  /\ o.at = "scan" => o.page = r + 1

LEMMA MapInChildEffect ==
  ASSUME CowInv, NEW e \in Env, MapInChild(e)
  PROVE  \E c \in Env, r \in Page, n \in Pte, o \in Op : MapEffect(e, c, r, n, o)
<1>0. /\ status[e] = "runnable" /\ fault[e] = Nil /\ op[e].at = "map" /\ TypeOK
      /\ UNCHANGED <<kind, status, upcall, fault>>
  BY DEF MapInChild, At, CowInv
<1>1. /\ op[e] \in [at : Scanning, child : Env, page : 0 .. XStack, bits : Bits] /\ op[e] # Idle
      /\ op[e].page \in Page /\ op[e].bits \in Allowed(kind, op[e].page)
      /\ Alive(e) /\ op[e].child # e /\ Mapped(e, op[e].page)
  BY <1>0, ScanAt
<1>2. PICK c \in Env, r \in Page, b \in Bits :
        c = op[e].child /\ r = op[e].page /\ b = op[e].bits /\ b \in Allowed(kind, r) /\ c # e
  BY <1>1
<1>3. PICK perm \in Allowed(kind, r) :
        /\ perm = Perm(r, b) /\ (Private(kind, r) => perm = C)
        /\ Dup(r) /\ "PTE_COW" \in perm <=> Private(kind, r)
  BY <1>2, PermFacts
<1>4. PICK n \in Pte : n = [frame |-> pt[e][r].frame, bits |-> perm]
  BY <1>0, <1>1, <1>2, <1>3, AllowedFacts, FrameIn, Places DEF Pte
<1>5. n # Nil /\ n.frame = pt[e][r].frame /\ n.bits = perm
  BY <1>4, NilAssumption
<1>6. SetPt([pt EXCEPT ![c][r] = n])
  BY <1>2, <1>3, <1>4 DEF MapInChild
<1>7. CellSet(c, r, n) /\ pt' \in [Env -> [Place -> Pte \cup {Nil}]] /\ mem' \in [Frame -> Value]
  BY <1>0, <1>6, CellTypes, Places
<1>8. Kept
  BY <1>6, <1>7, SetPtKeeps
<1>9. PICK o \in Op :
        /\ Goto(e, o) /\ o.child = c /\ o.at \in {"scan", "remap"}
        /\ o.at = "remap" <=> Private(kind, r)
        /\ o.at = "remap" => o.page = r /\ o.bits = b
        /\ o.at = "scan" => o.page = r + 1
  <2> DEFINE o1 == [op[e] EXCEPT !.at = "remap"]
             o2 == Scan("scan", c, r + 1, {})
  <2>1. /\ o1 \in Op /\ o1.at = "remap" /\ o1.child = c /\ o1.page = r /\ o1.bits = b
    BY <1>1, <1>2 DEF Op, Scanning
  <2>2. o2 \in Op /\ o2.at = "scan" /\ o2.child = c /\ o2.page = r + 1
    BY ScanFacts, Places, BitFacts DEF Scanning
  <2>3. Goto(e, IF Dup(r) /\ "PTE_COW" \in perm THEN o1 ELSE o2)
    BY <1>2, <1>3 DEF MapInChild
  <2> HIDE DEF o1, o2
  <2>4. CASE Private(kind, r)
    BY <2>4, <2>1, <2>3, <1>3
  <2>5. CASE ~Private(kind, r)
    BY <2>5, <2>2, <2>3, <1>3
  <2> QED BY <2>4, <2>5
<1> QED BY <1>1, <1>2, <1>3, <1>5, <1>7, <1>8, <1>9 DEF MapEffect

LEMMA MapInChildStep ==
  ASSUME CowInv, NEW e \in Env, MapInChild(e)
  PROVE  CowInv'
<1>0. /\ status[e] = "runnable" /\ fault[e] = Nil /\ op[e].at = "map" /\ TypeOK
      /\ UNCHANGED <<kind, status, upcall, fault>>
  BY DEF MapInChild, At, CowInv
<1>1. /\ op[e] \in [at : Scanning, child : Env, page : 0 .. XStack, bits : Bits] /\ op[e] # Idle
      /\ op[e].page \in Page /\ op[e].bits \in Allowed(kind, op[e].page)
      /\ Alive(e) /\ op[e].child # e /\ Mapped(e, op[e].page)
  BY <1>0, ScanAt
<1>2. PICK c \in Env, r \in Page, n \in Pte, o \in Op : MapEffect(e, c, r, n, o)
  BY MapInChildEffect
<1>3. c = op[e].child /\ r = op[e].page /\ c # e /\ op[e].bits \in Allowed(kind, r)
  BY <1>1, <1>2 DEF MapEffect
<1>5. /\ n # Nil /\ n.frame = pt[e][r].frame /\ n.bits \in Allowed(kind, r)
      /\ Private(kind, r) => n.bits = C
  BY <1>2, NilAssumption DEF MapEffect
<1>7. CellSet(c, r, n) /\ pt' \in [Env -> [Place -> Pte \cup {Nil}]] /\ mem' \in [Frame -> Value]
  BY <1>2 DEF MapEffect
<1>8. /\ pt'[c][r] = n
      /\ \A y \in Env, p \in Page : y # c \/ p # r => pt'[y][p] = pt[y][p]
      /\ \A y \in Env : pt'[y][XStack] = pt[y][XStack] /\ pt'[y][PFTEMP] = pt[y][PFTEMP]
      /\ \A y \in Env, p \in Place : y # c => pt'[y][p] = pt[y][p]
  BY <1>7, Places DEF CellSet
<1>9. /\ Goto(e, o) /\ o.child = c /\ o.at \in {"scan", "remap"}
      /\ o.at = "remap" <=> Private(kind, r)
      /\ o.at = "remap" => o.page = r /\ o.bits = op[e].bits
      /\ o.at = "scan" => o.page = r + 1
  BY <1>2 DEF MapEffect
<1>10. op' \in [Env -> Op] /\ op'[e] = o /\ \A x \in Env : x # e => op'[x] = op[x]
  BY <1>9 DEF Goto, CowInv, TypeOK
<1>11. status[c] = "embryo" /\ ~Alive(c) /\ op[c] = Idle /\ fault[c] = Nil
  BY <1>0, <1>3 DEF CowInv, Building, Living, Alive, Scanning
<1>12. TypeOK'
  BY <1>0, <1>7, <1>10 DEF CowInv, TypeOK
<1>13. BitsAllowed'
  <2>1. ASSUME NEW y \in Env, NEW p \in Page, pt'[y][p] # Nil PROVE pt'[y][p].bits \in Allowed(kind, p)
    BY <2>1, <1>3, <1>5, <1>8 DEF CowInv, BitsAllowed, Mapped
  <2>2. ASSUME NEW y \in Env, op'[y].at \in {"map", "remap"}
        PROVE  op'[y].page \in Page /\ op'[y].bits \in Allowed(kind, op'[y].page)
               /\ (op'[y].at = "remap" => Private(kind, op'[y].page))
    BY <2>2, <1>3, <1>9, <1>10 DEF CowInv, BitsAllowed
  <2> QED BY <1>0, <2>1, <2>2 DEF BitsAllowed, Mapped, Allowed, Private, DupOf
<1>14. Living'
  <2>1. ASSUME NEW y \in Env, op'[y] # Idle \/ fault'[y] # Nil PROVE Alive(y)'
    BY <1>0, <1>1, <1>10, <2>1 DEF CowInv, Living, Alive
  <2>2. ASSUME NEW y \in Env, status'[y] \in {"unborn", "gone"}, NEW p \in Place PROVE pt'[y][p] = Nil
    BY <1>0, <1>8, <1>11, <2>2 DEF CowInv, Living, Mapped
  <2>3. ASSUME NEW y \in Env, Alive(y)', NEW p \in Page PROVE pt'[y][p] # Nil
    BY <1>0, <1>8, <1>11, <2>3 DEF CowInv, Living, Alive, Mapped
  <2> QED BY <2>1, <2>2, <2>3 DEF Living, Mapped
<1>15. Building'
  <2>1. \A y \in Env : op[y].at \in Scanning \cup Finishing => op[y].child \in Env
    BY OpCases DEF CowInv, TypeOK
  <2>2. \A y \in Env : y # e /\ op[y].at \in Scanning \cup Finishing => op[y].child # c
    BY <1>0, <1>3 DEF CowInv, Building, Scanning
  <2>3. \A p \in Page : pt'[c][p] # Nil <=> Done(o, p)
    <3>1. \A p \in Page : pt[c][p] # Nil <=> p < r
      BY <1>0, <1>3 DEF CowInv, Building, Done, Scanning, Finishing, Mapped
    <3>2. \A p \in Page : pt'[c][p] # Nil <=> p < r \/ p = r
      BY <1>5, <1>8, <3>1
    <3>3. \A p \in Page : Done(o, p) <=> p < r \/ p = r
      <4>1. \A p \in Page : p < r + 1 <=> p < r \/ p = r
        BY Places
      <4> QED BY <1>9, <4>1 DEF Done, Finishing
    <3> QED BY <3>2, <3>3
  <2>4. ASSUME NEW y \in Env, op'[y].at \in Scanning \cup Finishing
        PROVE  /\ status'[op'[y].child] = "embryo"
               /\ \A p \in Page : pt'[op'[y].child][p] # Nil <=> Done(op'[y], p)
    <3>1. CASE y = e
      BY <3>1, <1>0, <1>9, <1>10, <1>11, <2>3
    <3>2. CASE y # e
      BY <3>2, <2>4, <1>0, <1>8, <1>10, <2>1, <2>2 DEF CowInv, Building, Mapped
    <3> QED BY <3>1, <3>2
  <2>5. ASSUME NEW x \in Env, NEW y \in Env, op'[x].at \in Scanning \cup Finishing,
               op'[y].at \in Scanning \cup Finishing, op'[x].child = op'[y].child
        PROVE  x = y
    BY <2>5, <2>2, <1>9, <1>10 DEF CowInv, Building
  <2> QED BY <2>4, <2>5 DEF Building, Mapped
<1>16. ASSUME NEW f \in Env, NEW q \in Place, f # c \/ q # r, SameFrame(c, r, f, q)'
       PROVE  q = r /\ SameFrame(e, r, f, r)
  <2>1. SameFrame(e, r, f, q)
    BY <1>16, <1>1, <1>3, <1>5, <1>7 DEF SameFrame, CellSet, Mapped
  <2>2. ~InUnmap(e, r, q) /\ ~InUnmap(e, q, r)
    BY <1>0 DEF InUnmap
  <2>3. q = r
    BY <2>1, <2>2, Places DEF CowInv, FramesApart
  <2> QED BY <2>1, <2>3
<1>17. FramesApart'
  <2> SUFFICES ASSUME NEW x \in Env, NEW f \in Env, NEW p \in Place, NEW q \in Place, SameFrame(x, p, f, q)'
               PROVE  \/ p = q /\ (p \in Page \/ x = f)
                      \/ x = f /\ (InUnmap(x, p, q)' \/ InUnmap(x, q, p)')
    BY DEF FramesApart
  <2>1. CASE x = c /\ p = r
    BY <2>1, <1>16
  <2>2. CASE f = c /\ q = r
    <3>1. SameFrame(c, r, x, p)'
      BY <2>2 DEF SameFrame
    <3> QED BY <2>2, <3>1, <1>16
  <2>3. CASE ~(x = c /\ p = r) /\ ~(f = c /\ q = r)
    <3>1. SameFrame(x, p, f, q)
      BY <2>3, <1>7 DEF SameFrame, CellSet, Mapped
    <3>2. \A y \in Env : (InUnmap(y, p, q)' <=> InUnmap(y, p, q)) /\ (InUnmap(y, q, p)' <=> InUnmap(y, q, p))
      BY <1>0 DEF InUnmap
    <3> QED BY <3>1, <3>2 DEF CowInv, FramesApart
  <2> QED BY <2>1, <2>2, <2>3
<1>18. WritableIsPrivate'
  <2> SUFFICES ASSUME NEW x \in Env, NEW f \in Env, NEW p \in Page, Private(kind, p), SameFrame(x, p, f, p)',
                      pt'[x][p].bits = W, x # f
               PROVE  op'[x].at = "remap" /\ op'[x].page = p /\ op'[x].child = f
    BY <1>0 DEF WritableIsPrivate, Private, DupOf
  <2>1. ~(x = c /\ p = r)
    BY <1>3, <1>5, <1>8, BitFacts
  <2>2. CASE f = c /\ p = r
    <3>1. SameFrame(c, r, x, r)'
      BY <2>2 DEF SameFrame
    <3>2. SameFrame(x, r, e, r) /\ pt[x][r].bits = W
      BY <2>1, <2>2, <3>1, <1>8, <1>16, Places DEF SameFrame
    <3>3. CASE x = e
      BY <2>2, <3>3, <1>9, <1>10
    <3>4. CASE x # e
      <4>1. op[x].at = "remap" /\ op[x].child = e
        BY <2>2, <3>2, <3>4 DEF CowInv, WritableIsPrivate
      <4> QED BY <4>1, <1>0 DEF CowInv, Building, Scanning
    <3> QED BY <3>3, <3>4
  <2>3. CASE ~(f = c /\ p = r)
    <3>1. SameFrame(x, p, f, p) /\ pt[x][p].bits = W
      BY <2>1, <2>3, <1>8 DEF SameFrame, Mapped
    <3>2. op[x].at = "remap" /\ op[x].page = p /\ op[x].child = f
      BY <3>1 DEF CowInv, WritableIsPrivate
    <3> QED BY <3>2, <1>0, <1>10
  <2> QED BY <2>2, <2>3
<1>19. Faulting'
  <2>1. \A y \in Env : Copying(y) => y # c /\ fault[y].page \in Page
    BY <1>11, TypeFacts DEF CowInv, Copying, Fault
  <2>2. \A y \in Env : Copying(y)' <=> Copying(y)
    BY <1>0 DEF Copying
  <2>3. \A y \in Env : Copying(y) => pt'[y][fault[y].page] = pt[y][fault[y].page]
    BY <1>8, <2>1, Places
  <2> QED BY <1>0, <1>8, <2>2, <2>3 DEF CowInv, Faulting, Mapped
<1>20. Upcalls'
  <2>1. \A y \in Env : op'[y].at \in {"upcall", "runnable"} => op'[y] = op[y] /\ op[y].child \in Env
    BY <1>9, <1>10, OpCases DEF CowInv, TypeOK, Finishing
  <2>2. \A y \in Env : op'[y] # Idle => op[y] # Idle
    BY <1>1, <1>10
  <2>3. \A y \in Env, p \in Page : status[y] = "runnable" => pt'[y][p] = pt[y][p]
    BY <1>8, <1>11, Places
  <2>4. \A y \in Env : HasXStack(y)' <=> HasXStack(y)
    BY <1>8 DEF HasXStack, Mapped
  <2>5. ASSUME NEW y \in Env, op'[y].at \in {"upcall", "runnable"}
        PROVE  (HasXStack(op[y].child))' /\ (op'[y].at = "runnable" => upcall[op[y].child])
    <3>1. HasXStack(op[y].child) /\ (op'[y].at = "runnable" => upcall[op[y].child]) /\ op[y].child \in Env
      BY <2>1, <2>5 DEF CowInv, Upcalls
    <3>2. PICK d \in Env : d = op[y].child
      BY <3>1
    <3>3. pt'[d][XStack] # Nil /\ "PTE_W" \in pt'[d][XStack].bits
      BY <3>1, <3>2, <1>8 DEF HasXStack, Mapped
    <3> QED BY <2>1, <2>5, <3>1, <3>2, <3>3 DEF HasXStack, Mapped
  <2>6. \A y \in Env : status[y] = "runnable" /\ upcall[y] => HasXStack(y)'
    BY <2>4 DEF CowInv, Upcalls
  <2>7. \A y \in Env : status[y] = "runnable" /\ (op'[y] # Idle \/ \E p \in Page : pt'[y][p].bits = C) => upcall[y]
    BY <2>2, <2>3 DEF CowInv, Upcalls
  <2> QED BY <1>0, <2>1, <2>5, <2>6, <2>7 DEF Upcalls
<1> QED BY <1>12, <1>13, <1>14, <1>15, <1>17, <1>18, <1>19, <1>20 DEF CowInv

(* The page r of e becomes copy-on-write, and the scan goes on.            *)
RemapEffect(e, c, r, n, o) ==
  /\ c = op[e].child /\ r = op[e].page /\ c # e /\ Mapped(e, r) /\ Private(kind, r) /\ C \in Allowed(kind, r)
  /\ n.frame = pt[e][r].frame /\ n.bits = C
  /\ CellSet(e, r, n) /\ Kept
  /\ pt' \in [Env -> [Place -> Pte \cup {Nil}]] /\ mem' \in [Frame -> Value]
  /\ Goto(e, o) /\ o.child = c /\ o.at = "scan" /\ o.page = r + 1

LEMMA RemapEffects ==
  ASSUME CowInv, NEW e \in Env, Remap(e)
  PROVE  \E c \in Env, r \in Page, n \in Pte, o \in Op : RemapEffect(e, c, r, n, o)
<1>0. /\ status[e] = "runnable" /\ fault[e] = Nil /\ op[e].at = "remap" /\ TypeOK
      /\ UNCHANGED <<kind, status, upcall, fault>>
  BY DEF Remap, At, CowInv
<1>1. /\ op[e] \in [at : Scanning, child : Env, page : 0 .. XStack, bits : Bits] /\ op[e] # Idle
      /\ op[e].page \in Page /\ op[e].bits \in Allowed(kind, op[e].page)
      /\ Alive(e) /\ op[e].child # e /\ Mapped(e, op[e].page)
  BY <1>0, ScanAt
<1>2. PICK c \in Env, r \in Page : c = op[e].child /\ r = op[e].page /\ c # e
  BY <1>1
<1>3. Private(kind, r) /\ Perm(r, op[e].bits) = C /\ C \in Allowed(kind, r)
  <2>1. Private(kind, r)
    BY <1>0, <1>2 DEF CowInv, BitsAllowed
  <2> QED BY <2>1, <1>1, <1>2, PermFacts
<1>4. PICK n \in Pte : n = [frame |-> pt[e][r].frame, bits |-> C]
  BY <1>0, <1>1, <1>2, FrameIn, Places, BitFacts DEF Pte
<1>5. n # Nil /\ n.frame = pt[e][r].frame /\ n.bits = C
  BY <1>4, NilAssumption
<1>6. SetPt([pt EXCEPT ![e][r] = n])
  <2>1. SetPt([pt EXCEPT ![e][r] = [frame |-> @.frame, bits |-> C]])
    BY <1>2, <1>3 DEF Remap
  <2>2. [pt EXCEPT ![e][r] = [frame |-> @.frame, bits |-> C]] = [pt EXCEPT ![e][r] = n]
    BY <1>4
  <2> QED BY <2>1, <2>2
<1>7. CellSet(e, r, n) /\ pt' \in [Env -> [Place -> Pte \cup {Nil}]] /\ mem' \in [Frame -> Value]
  BY <1>0, <1>6, CellTypes, Places
<1>8. Kept
  BY <1>6, <1>7, SetPtKeeps
<1> DEFINE o == Scan("scan", c, r + 1, {})
<1>9. o \in Op /\ o.at = "scan" /\ o.child = c /\ o.page = r + 1 /\ Goto(e, o)
  BY <1>2, ScanFacts, Places, BitFacts DEF Scanning, Remap
<1> HIDE DEF o
<1> QED BY <1>1, <1>2, <1>3, <1>5, <1>7, <1>8, <1>9 DEF RemapEffect

LEMMA RemapStep ==
  ASSUME CowInv, NEW e \in Env, Remap(e)
  PROVE  CowInv'
<1>0. /\ status[e] = "runnable" /\ fault[e] = Nil /\ op[e].at = "remap" /\ TypeOK
      /\ UNCHANGED <<kind, status, upcall, fault>>
  BY DEF Remap, At, CowInv
<1>1. /\ op[e] \in [at : Scanning, child : Env, page : 0 .. XStack, bits : Bits] /\ op[e] # Idle
      /\ op[e].page \in Page /\ op[e].bits \in Allowed(kind, op[e].page)
      /\ Alive(e) /\ op[e].child # e /\ Mapped(e, op[e].page)
  BY <1>0, ScanAt
<1>a. PICK c \in Env, r \in Page, n \in Pte, o \in Op : RemapEffect(e, c, r, n, o)
  BY RemapEffects
<1>2. c = op[e].child /\ r = op[e].page /\ c # e
  BY <1>a DEF RemapEffect
<1>3. Private(kind, r) /\ C \in Allowed(kind, r)
  BY <1>a DEF RemapEffect
<1>5. n # Nil /\ n.frame = pt[e][r].frame /\ n.bits = C
  BY <1>a, NilAssumption DEF RemapEffect
<1>7. CellSet(e, r, n) /\ pt' \in [Env -> [Place -> Pte \cup {Nil}]] /\ mem' \in [Frame -> Value]
  BY <1>a DEF RemapEffect
<1>8. /\ pt'[e][r] = n
      /\ \A y \in Env, p \in Page : y # e \/ p # r => pt'[y][p] = pt[y][p]
      /\ \A y \in Env : pt'[y][XStack] = pt[y][XStack] /\ pt'[y][PFTEMP] = pt[y][PFTEMP]
      /\ \A y \in Env, p \in Place : y # e => pt'[y][p] = pt[y][p]
      /\ \A y \in Env, p \in Place : pt'[y][p] # Nil <=> pt[y][p] # Nil
      /\ \A y \in Env, p \in Place : pt[y][p] # Nil => pt'[y][p].frame = pt[y][p].frame
  BY <1>1, <1>2, <1>5, <1>7, Places DEF CellSet, Mapped
<1>9. o.at = "scan" /\ o.child = c /\ o.page = r + 1 /\ Goto(e, o)
  BY <1>a DEF RemapEffect
<1>10. op' \in [Env -> Op] /\ op'[e] = o /\ \A x \in Env : x # e => op'[x] = op[x]
  BY <1>9 DEF Goto, CowInv, TypeOK
<1>12. TypeOK'
  BY <1>0, <1>7, <1>10 DEF CowInv, TypeOK
<1>13. BitsAllowed'
  <2>1. ASSUME NEW y \in Env, NEW p \in Page, pt'[y][p] # Nil PROVE pt'[y][p].bits \in Allowed(kind, p)
    BY <2>1, <1>3, <1>5, <1>8, Places DEF CowInv, BitsAllowed, Mapped
  <2>2. ASSUME NEW y \in Env, op'[y].at \in {"map", "remap"} PROVE op'[y] = op[y]
    BY <2>2, <1>9, <1>10
  <2> QED BY <1>0, <2>1, <2>2 DEF CowInv, BitsAllowed, Mapped, Allowed, Private, DupOf
<1>14. Living'
  <2>1. ASSUME NEW y \in Env, op'[y] # Idle \/ fault'[y] # Nil PROVE Alive(y)'
    BY <1>0, <1>1, <1>10, <2>1 DEF CowInv, Living, Alive
  <2> QED BY <1>0, <1>8, <2>1, Places DEF CowInv, Living, Mapped, Alive
<1>15. Building'
  <2>1. ASSUME NEW y \in Env, op'[y].at \in Scanning \cup Finishing
        PROVE  /\ op[y].at \in Scanning \cup Finishing /\ op'[y].child = op[y].child /\ op[y].child \in Env
               /\ \A p \in Page : Done(op'[y], p) <=> Done(op[y], p)
    <3>1. CASE y = e
      <4>1. \A p \in Page : p < r + 1 <=> p < r \/ p = r
        BY Places
      <4> QED BY <3>1, <4>1, <1>0, <1>2, <1>9, <1>10 DEF Done, Scanning, Finishing
    <3>2. CASE y # e
      BY <3>2, <2>1, <1>10, OpCases DEF CowInv, TypeOK
    <3> QED BY <3>1, <3>2
  <2>2. ASSUME NEW y \in Env, op'[y].at \in Scanning \cup Finishing
        PROVE  /\ status'[op'[y].child] = "embryo"
               /\ \A p \in Page : pt'[op'[y].child][p] # Nil <=> Done(op'[y], p)
    BY <2>1, <2>2, <1>0, <1>8, Places DEF CowInv, Building, Mapped
  <2> QED BY <2>1, <2>2 DEF CowInv, Building, Mapped
<1>16. FramesApart'
  <2>1. \A x, f \in Env : \A p, q \in Place : SameFrame(x, p, f, q)' <=> SameFrame(x, p, f, q)
    BY <1>8 DEF SameFrame, Mapped
  <2>2. \A y \in Env : \A p, q \in Place : InUnmap(y, p, q)' <=> InUnmap(y, p, q)
    BY <1>0 DEF InUnmap
  <2> QED BY <2>1, <2>2 DEF CowInv, FramesApart
<1>17. WritableIsPrivate'
  <2> SUFFICES ASSUME NEW x \in Env, NEW f \in Env, NEW p \in Page, Private(kind, p), SameFrame(x, p, f, p)',
                      pt'[x][p].bits = W, x # f
               PROVE  op'[x].at = "remap" /\ op'[x].page = p /\ op'[x].child = f
    BY <1>0 DEF WritableIsPrivate, Private, DupOf
  <2>1. ~(x = e /\ p = r)
    BY <1>5, <1>8, BitFacts
  <2>2. SameFrame(x, p, f, p) /\ pt[x][p].bits = W
    BY <2>1, <1>8, Places DEF SameFrame, Mapped
  <2>3. op[x].at = "remap" /\ op[x].page = p /\ op[x].child = f
    BY <2>2 DEF CowInv, WritableIsPrivate
  <2> QED BY <2>1, <2>3, <1>2, <1>10
<1>18. Faulting'
  <2>1. \A y \in Env : Copying(y) => y # e /\ fault[y].page \in Page
    BY <1>0, TypeFacts DEF CowInv, Copying, Fault
  <2>2. \A y \in Env : Copying(y)' <=> Copying(y)
    BY <1>0 DEF Copying
  <2>3. \A y \in Env : Copying(y) => pt'[y][fault[y].page] = pt[y][fault[y].page]
    BY <1>8, <2>1, Places
  <2> QED BY <1>0, <1>8, <2>2, <2>3 DEF CowInv, Faulting, Mapped
<1>19. Upcalls'
  <2>1. \A y \in Env : op'[y].at \in {"upcall", "runnable"} => op'[y] = op[y] /\ op[y].child \in Env
    BY <1>9, <1>10, OpCases DEF CowInv, TypeOK, Finishing
  <2>2. \A y \in Env : op'[y] # Idle => op[y] # Idle
    BY <1>1, <1>10
  <2>3. upcall[e]
    BY <1>0, <1>1 DEF CowInv, Upcalls
  <2>4. \A y \in Env : HasXStack(y)' <=> HasXStack(y)
    BY <1>8 DEF HasXStack, Mapped
  <2>5. ASSUME NEW y \in Env, op'[y].at \in {"upcall", "runnable"}
        PROVE  (HasXStack(op[y].child))' /\ (op'[y].at = "runnable" => upcall[op[y].child])
    <3>1. HasXStack(op[y].child) /\ (op'[y].at = "runnable" => upcall[op[y].child]) /\ op[y].child \in Env
      BY <2>1, <2>5 DEF CowInv, Upcalls
    <3>2. PICK d \in Env : d = op[y].child
      BY <3>1
    <3>3. pt'[d][XStack] # Nil /\ "PTE_W" \in pt'[d][XStack].bits
      BY <3>1, <3>2, <1>8 DEF HasXStack, Mapped
    <3> QED BY <2>1, <2>5, <3>1, <3>2, <3>3 DEF HasXStack, Mapped
  <2>6. \A y \in Env : status[y] = "runnable" /\ upcall[y] => HasXStack(y)'
    BY <2>4 DEF CowInv, Upcalls
  <2>7. ASSUME NEW y \in Env, status[y] = "runnable", op'[y] # Idle \/ \E p \in Page : pt'[y][p].bits = C
        PROVE  upcall[y]
    <3>1. CASE y = e
      BY <2>3, <3>1
    <3>2. CASE y # e
      BY <2>2, <2>7, <3>2, <1>8 DEF CowInv, Upcalls
    <3> QED BY <3>1, <3>2
  <2> QED BY <1>0, <2>1, <2>5, <2>6, <2>7 DEF Upcalls
<1> QED BY <1>12, <1>13, <1>14, <1>15, <1>16, <1>17, <1>18, <1>19 DEF CowInv

LEMMA DestroyStep ==
  ASSUME CowInv, NEW e \in Env, status[e] = "runnable", Destroy(e)
  PROVE  CowInv'
<1>0. /\ UNCHANGED <<kind, upcall>> /\ pt' = [pt EXCEPT ![e] = [p \in DOMAIN @ |-> Nil]]
      /\ status' = [status EXCEPT ![e] = "gone"] /\ op' = [op EXCEPT ![e] = Idle]
      /\ fault' = [fault EXCEPT ![e] = Nil]
  BY DEF Destroy, SetPt, Goto
<1>1. mem' \in [Frame -> Value]
  BY CowAssumption DEF Destroy, SetPt, CowInv, TypeOK
<1>2. /\ pt' \in [Env -> [Place -> Pte \cup {Nil}]]
      /\ \A p \in Place : pt'[e][p] = Nil
      /\ \A y \in Env : y # e => pt'[y] = pt[y]
  BY <1>0 DEF CowInv, TypeOK
<1>i. Idle.at = "idle" /\ Idle \in Op
  BY DEF Idle, Op
<1>3. /\ status' \in [Env -> {"unborn", "embryo", "runnable", "panicked", "gone"}]
      /\ op' \in [Env -> Op] /\ fault' \in [Env -> Fault \cup {Nil}]
      /\ status'[e] = "gone" /\ op'[e] = Idle /\ fault'[e] = Nil
      /\ \A y \in Env : y # e => status'[y] = status[y] /\ op'[y] = op[y] /\ fault'[y] = fault[y]
  BY <1>0, <1>i DEF CowInv, TypeOK
<1>4. TypeOK'
  BY <1>0, <1>1, <1>2, <1>3 DEF CowInv, TypeOK
<1>5. BitsAllowed'
  <2>1. ASSUME NEW y \in Env, NEW p \in Page, pt'[y][p] # Nil PROVE pt'[y][p].bits \in Allowed(kind, p)
    BY <2>1, <1>2, Places DEF CowInv, BitsAllowed, Mapped
  <2>2. ASSUME NEW y \in Env, op'[y].at \in {"map", "remap"} PROVE op'[y] = op[y]
    BY <2>2, <1>3, <1>i
  <2> QED BY <1>0, <2>1, <2>2 DEF CowInv, BitsAllowed, Mapped, Allowed, Private, DupOf
<1>6. Living'
  BY <1>2, <1>3 DEF CowInv, Living, Mapped, Alive
<1>7. \A y \in Env : op'[y].at \in Scanning \cup Finishing =>
        y # e /\ op[y].at \in Scanning \cup Finishing /\ op[y].child \in Env /\ op[y].child # e
  BY <1>3, <1>i, OpCases DEF CowInv, Building, TypeOK, Scanning, Finishing
<1>8. Building'
  <2>1. ASSUME NEW y \in Env, op'[y].at \in Scanning \cup Finishing
        PROVE  /\ op'[y] = op[y] /\ status'[op[y].child] = "embryo"
               /\ \A p \in Page : pt'[op[y].child][p] # Nil <=> Done(op[y], p)
    <3>1. op'[y] = op[y] /\ op[y].at \in Scanning \cup Finishing
      BY <1>3, <1>7, <2>1
    <3>2. PICK c \in Env : c = op[y].child /\ c # e
      BY <1>7, <2>1
    <3>3. status[c] = "embryo" /\ \A p \in Page : pt[c][p] # Nil <=> Done(op[y], p)
      BY <3>1, <3>2 DEF CowInv, Building, Mapped
    <3> QED BY <1>2, <1>3, <3>1, <3>2, <3>3
  <2> QED BY <1>7, <2>1 DEF CowInv, Building, Mapped
<1>9. FramesApart'
  <2>1. \A x, f \in Env : \A p, q \in Place : SameFrame(x, p, f, q)' => SameFrame(x, p, f, q) /\ x # e /\ f # e
    BY <1>2 DEF SameFrame, Mapped
  <2>2. \A y \in Env : \A p, q \in Place : y # e => (InUnmap(y, p, q)' <=> InUnmap(y, p, q))
    BY <1>3 DEF InUnmap
  <2> QED BY <2>1, <2>2 DEF CowInv, FramesApart
<1>10. WritableIsPrivate'
  <2>1. ASSUME NEW x \in Env, NEW f \in Env, NEW p \in Page, SameFrame(x, p, f, p)'
        PROVE  SameFrame(x, p, f, p) /\ x # e /\ op'[x] = op[x] /\ pt'[x][p] = pt[x][p]
    BY <2>1, <1>2, <1>3, Places DEF SameFrame, Mapped
  <2> QED BY <1>0, <2>1 DEF CowInv, WritableIsPrivate, Private, DupOf
<1>11. Faulting'
  <2>1. ~Copying(e)' /\ \A y \in Env : y # e => (Copying(y)' <=> Copying(y))
    BY <1>3 DEF Copying
  <2> QED BY <1>2, <1>3, <2>1, Places DEF CowInv, Faulting, Mapped
<1>12. Upcalls'
  <2>1. \A y \in Env : op'[y].at \in {"upcall", "runnable"} =>
          y # e /\ op'[y] = op[y] /\ op[y].child \in Env /\ op[y].child # e
    BY <1>3, <1>7 DEF Finishing
  <2>2. \A y \in Env : y # e => (HasXStack(y)' <=> HasXStack(y))
    BY <1>2 DEF HasXStack, Mapped
  <2>5. ASSUME NEW y \in Env, op'[y].at \in {"upcall", "runnable"}
        PROVE  (HasXStack(op[y].child))' /\ (op'[y].at = "runnable" => upcall[op[y].child])
    <3>1. HasXStack(op[y].child) /\ (op'[y].at = "runnable" => upcall[op[y].child])
      BY <2>1, <2>5 DEF CowInv, Upcalls
    <3>2. pt'[op[y].child] = pt[op[y].child]
      BY <2>1, <2>5, <1>2
    <3> QED BY <2>1, <2>5, <3>1, <3>2 DEF HasXStack, Mapped
  <2>6. \A y \in Env : status'[y] = "runnable" => y # e
    BY <1>3
  <2> QED BY <1>0, <1>2, <1>3, <2>1, <2>2, <2>5, <2>6 DEF CowInv, Upcalls
<1> QED BY <1>4, <1>5, <1>6, <1>8, <1>9, <1>10, <1>11, <1>12 DEF CowInv

-----------------------------------------------------------------------------

LEMMA CowInit == Init => CowInv
<1> SUFFICES ASSUME Init PROVE CowInv
  OBVIOUS
<1>i. Idle.at = "idle" /\ Idle \in Op
  BY DEF Idle, Op
<1>1. ASSUME NEW e \in Env, NEW p \in Place
      PROVE  /\ pt[e][p] # Nil <=> e = Root /\ p \in Page
             /\ e = Root /\ p \in Page => pt[e][p].frame = p /\ pt[e][p].bits \in Allowed(kind, p) /\ pt[e][p].bits # C
             /\ pt[e][p] \in Pte \cup {Nil}
  <2>1. CASE e = Root /\ p \in Page
    <3> DEFINE b == IF p \in Text THEN {} ELSE IF p \in Share THEN {"PTE_W", "PTE_SHARE"} ELSE {"PTE_W"}
    <3>1. pt[e][p] = [frame |-> p, bits |-> b]
      BY <2>1 DEF Init
    <3>2. b \in Allowed(kind, p) /\ b \in Bits /\ b # C
      BY DEF Allowed, Bits, W, C
    <3> HIDE DEF b
    <3>3. pt[e][p] \in Pte
      BY <2>1, <3>1, <3>2, Places DEF Pte
    <3> QED BY <2>1, <3>1, <3>2, <3>3, NilAssumption
  <2>2. CASE ~(e = Root /\ p \in Page)
    BY <2>2 DEF Init
  <2> QED BY <2>1, <2>2
<1>2. pt \in [Env -> [Place -> Pte \cup {Nil}]]
  <2>1. pt = [e \in Env |-> [p \in Place |-> pt[e][p]]]
    BY DEF Init
  <2> QED BY <1>1, <2>1
<1>3. /\ kind \in {"fork", "sfork"} /\ mem = [f \in Frame |-> Zero]
      /\ status = [e \in Env |-> IF e = Root THEN "runnable" ELSE "unborn"]
      /\ \A e \in Env : upcall[e] = FALSE /\ op[e] = Idle /\ fault[e] = Nil
      /\ upcall \in [Env -> BOOLEAN] /\ op \in [Env -> Op] /\ fault \in [Env -> Fault \cup {Nil}]
  BY <1>i DEF Init
<1>4. TypeOK
  BY <1>2, <1>3, CowAssumption DEF TypeOK
<1>5. BitsAllowed
  BY <1>1, <1>3, <1>i, Places DEF BitsAllowed, Mapped
<1>6. Living
  BY <1>1, <1>3, Places DEF Living, Mapped, Alive
<1>7. Building
  BY <1>3, <1>i DEF Building, Scanning, Finishing
<1>8. FramesApart /\ WritableIsPrivate
  BY <1>1, <1>3, Places DEF FramesApart, WritableIsPrivate, SameFrame, Mapped
<1>9. Faulting
  BY <1>1, <1>3, Places DEF Faulting, Copying, Mapped
<1>10. Upcalls
  <2>1. \A e \in Env, p \in Page : status[e] = "runnable" => pt[e][p].bits # C
    BY <1>1, <1>3, Places
  <2> QED BY <1>3, <1>i, <2>1 DEF Upcalls
<1> QED BY <1>4, <1>5, <1>6, <1>7, <1>8, <1>9, <1>10 DEF CowInv

LEMMA CowNext == CowInv /\ [Next]_vars => CowInv'
<1> SUFFICES ASSUME CowInv, [Next]_vars PROVE CowInv'
  OBVIOUS
<1>1. ASSUME NEW e \in Env, SetPgfaultHandler(e) PROVE CowInv'
  BY <1>1, SetPgfaultHandlerStep
<1>2. ASSUME NEW e \in Env, ForkStep(e) PROVE CowInv'
  BY <1>2, SysExoforkStep, ReadUvptStep, MapInChildStep, RemapStep, AllocXStackStep, SetUpcallStep,
     SetStatusStep DEF ForkStep
<1>3. ASSUME NEW e \in Env, ForkPanics(e) PROVE CowInv'
  BY <1>3, PanicStep DEF ForkPanics, At
<1>4. ASSUME NEW e \in Env, NEW p \in Page, NEW v \in Written, Store(e, p, v) \/ StoreFaults(e, p, v) PROVE CowInv'
  BY <1>4, StoreStep, StoreFaultsStep
<1>5. ASSUME NEW e \in Env, NEW p \in Page, StoreKills(e, p) PROVE CowInv'
  BY <1>5, DestroyStep DEF StoreKills
<1>6. ASSUME NEW e \in Env, Pgfault(e) PROVE CowInv'
  <2>1. CASE PgfaultPanics(e)
    BY <2>1, PanicStep DEF PgfaultPanics, InFault
  <2> QED BY <1>6, <2>1, PgfaultAllocStep, PgfaultCopyStep, PgfaultMapStep, PgfaultUnmapStep, StackFaultsStep,
       RetryStep, RetryLostStep DEF Pgfault
<1>7. ASSUME NEW e \in Env, Exit(e) PROVE CowInv'
  BY <1>7, DestroyStep DEF Exit, At
<1>8. CASE UNCHANGED vars
  BY <1>8 DEF vars, CowInv, TypeOK, BitsAllowed, Living, Building, FramesApart, WritableIsPrivate, Faulting, Upcalls,
     Alive, Mapped, SameFrame, InUnmap, Copying, HasXStack
<1> QED BY <1>1, <1>2, <1>3, <1>4, <1>5, <1>6, <1>7, <1>8 DEF Next

(* Through any number of forks of forks, page faults in the middle of them,*)
(* panics and exits, the page tables agree with where every environment is *)
(* in the code (fork, sfork, duppage, sharepage, pgfault).                 *)
THEOREM CowInvariance == Spec => []CowInv
<1>1. Init => CowInv
  BY CowInit
<1>2. CowInv /\ [Next]_vars => CowInv'
  BY CowNext
<1> QED BY <1>1, <1>2, PTL DEF Spec

LEMMA BuilderAt ==
  ASSUME TypeOK, NEW x \in Env, NEW c \in Env, BuiltBy(x, c)
  PROVE  op[x].at \in Scanning \cup Finishing /\ op[x].child = c
BY OpCases DEF TypeOK, BuiltBy

LEMMA FrozenFacts == CowInv => CowIsFrozen
<1> SUFFICES ASSUME CowInv, NEW e \in Env, NEW f \in Env, NEW p \in Page, NEW q \in Page,
                    Visible(e, p), pt[e][p].bits \cap {"PTE_W", "PTE_COW"} = {"PTE_COW"},
                    Mapped(f, q), pt[f][q].frame = pt[e][p].frame, "PTE_W" \in pt[f][q].bits
             PROVE  FALSE
  BY DEF CowIsFrozen
<1>1. Mapped(e, p) /\ SameFrame(e, p, f, q)
  BY DEF Visible, SameFrame
<1>2. p = q
  <2>1. ~InUnmap(e, p, q) /\ ~InUnmap(e, q, p)
    BY Places DEF InUnmap
  <2> QED BY <1>1, <2>1, Places DEF CowInv, FramesApart
<1>3. Private(kind, p) /\ pt[e][p].bits = C /\ pt[f][p].bits \in {W, C}
  <2>1. pt[e][p].bits \in Allowed(kind, p) /\ pt[f][p].bits \in Allowed(kind, p)
    BY <1>1, <1>2 DEF CowInv, BitsAllowed
  <2>2. "PTE_COW" \in pt[e][p].bits
    OBVIOUS
  <2> QED BY <2>1, <2>2, AllowedFacts
<1>4. pt[f][p].bits = W /\ e # f
  BY <1>2, <1>3, BitFacts
<1>5. op[f].at = "remap" /\ op[f].page = p /\ op[f].child = e
  BY <1>1, <1>2, <1>3, <1>4 DEF CowInv, WritableIsPrivate, SameFrame
<1>6. status[e] = "embryo"
  BY <1>5 DEF CowInv, Building, Scanning
<1>7. PICK parent \in Env :
        BuiltBy(parent, e) /\ ~(op[parent].at = "remap" /\ op[parent].page = p
                                  /\ pt[parent][p].frame = pt[e][p].frame)
  BY <1>6 DEF Visible
<1>8. parent = f
  BY <1>5, <1>7, BuilderAt DEF CowInv, Building, Scanning
<1> QED BY <1>2, <1>5, <1>7, <1>8

LEMMA FaultFacts == CowInv => CanTakeFault
<1> SUFFICES ASSUME CowInv, NEW e \in Env, status[e] = "runnable", NEW p \in Page, Mapped(e, p),
                    "PTE_COW" \in pt[e][p].bits
             PROVE  /\ upcall[e] /\ Mapped(e, XStack) /\ "PTE_W" \in pt[e][XStack].bits
                    /\ \A f \in Env \ {e} : Mapped(f, XStack) => pt[f][XStack].frame # pt[e][XStack].frame
  BY DEF CanTakeFault
<1>1. pt[e][p].bits = C
  BY AllowedFacts DEF CowInv, BitsAllowed
<1>2. upcall[e] /\ HasXStack(e)
  BY <1>1 DEF CowInv, Upcalls
<1>3. ASSUME NEW f \in Env \ {e}, Mapped(f, XStack) PROVE pt[f][XStack].frame # pt[e][XStack].frame
  BY <1>2, <1>3, Places DEF CowInv, FramesApart, SameFrame, HasXStack
<1> QED BY <1>2, <1>3 DEF HasXStack

(* A frame that somebody still reads through a copy-on-write mapping is    *)
(* writable nowhere, so pgfault copies it without a lock; and whoever meets*)
(* such a page has its upcall and an exception stack of its own.           *)
THEOREM CowIsSound == Spec => []CowSound
<1>1. CowInv => CowSound
  BY FrozenFacts, FaultFacts DEF CowInv, CowSound
<1> QED BY <1>1, CowInvariance, PTL

-----------------------------------------------------------------------------
(* Every environment has a memory of its own.                              *)

(* A page that is never copied is one frame for all who have it.           *)
OneFrame ==
  \A e, f \in Env : \A p \in Page :
    ~Private(kind, p) /\ Mapped(e, p) /\ Mapped(f, p) => pt[e][p].frame = pt[f][p].frame

(* pgfault maps a frame with the contents of the page.                     *)
Ready(e) == fault[e] # Nil /\ fault[e].at = "map"
CopyMade == \A e \in Env : Ready(e) => mem[pt[e][PFTEMP].frame] = mem[pt[e][fault[e].page].frame]

MemInv == CowInv /\ OneFrame /\ CopyMade

(* What e sees at p, and the pages that the program means to share.        *)
Sees(e, p) == IF Visible(e, p) THEN mem[pt[e][p].frame] ELSE Nil
SharedPages == IF kind = "fork" THEN Share ELSE Page \ {Stack}

MemStep == [M!Next]_(M!vars)

LEMMA SeesStutter ==
  ASSUME kind' = kind, \A e \in Env, p \in Page : Sees(e, p)' = Sees(e, p)
  PROVE  MemStep
BY DEF MemStep, M!vars, Sees

LEMMA SeesWrite ==
  ASSUME kind' = kind, NEW e \in Env, NEW p \in Page, NEW v \in Value, Sees(e, p) # Nil,
         \A f \in Env, q \in Page :
           Sees(f, q)' = IF q = p /\ (f = e \/ (p \in SharedPages /\ Sees(f, p) # Nil)) THEN v ELSE Sees(f, q)
  PROVE  MemStep
<1>1. M!Write(e, p, v)
  BY DEF M!Write, Sees, SharedPages
<1> QED BY <1>1 DEF MemStep, M!Next

LEMMA SeesCopy ==
  ASSUME kind' = kind, NEW e \in Env, NEW c \in Env, NEW p \in Page, Sees(e, p) # Nil, Sees(c, p) = Nil,
         \A f \in Env, q \in Page :
           Sees(f, q)' = IF f = c /\ q = p THEN Sees(e, p) ELSE Sees(f, q)
  PROVE  MemStep
<1>1. M!Copy(e, c, p)
  BY DEF M!Copy, Sees
<1> QED BY <1>1 DEF MemStep, M!Next

LEMMA SeesEnd ==
  ASSUME kind' = kind, NEW e \in Env,
         \A f \in Env, q \in Page : Sees(f, q)' = IF f = e THEN Nil ELSE Sees(f, q)
  PROVE  MemStep
<1>1. M!End(e)
  BY DEF M!End, Sees
<1> QED BY <1>1 DEF MemStep, M!Next

(* The pages, and who is there, stay the same.                             *)
PagesSame == \A y \in Env, p \in Page : pt'[y][p] = pt[y][p]
VisibleSame == \A y \in Env, p \in Page : Visible(y, p)' <=> Visible(y, p)
BuildersSame ==
  /\ \A x, y \in Env : BuiltBy(x, y)' <=> BuiltBy(x, y)
  /\ \A x \in Env : op'[x].at = "remap" <=> op[x].at = "remap"
  /\ \A x \in Env : op[x].at = "remap" => op'[x].page = op[x].page

LEMMA VisibleKept ==
  ASSUME PagesSame, BuildersSame, \A y \in Env : Alive(y)' <=> Alive(y)
  PROVE  VisibleSame
<1> SUFFICES ASSUME NEW y \in Env, NEW p \in Page PROVE Visible(y, p)' <=> Visible(y, p)
  BY DEF VisibleSame
<1>1. ASSUME NEW x \in Env
      PROVE  (BuiltBy(x, y) /\ ~(op[x].at = "remap" /\ op[x].page = p /\ pt[x][p].frame = pt[y][p].frame))' <=>
             (BuiltBy(x, y) /\ ~(op[x].at = "remap" /\ op[x].page = p /\ pt[x][p].frame = pt[y][p].frame))
  BY DEF PagesSame, BuildersSame
<1>2. Mapped(y, p)' <=> Mapped(y, p)
  BY DEF PagesSame, Mapped
<1> QED BY <1>1, <1>2 DEF Visible, Alive

LEMMA OpMoves ==
  ASSUME TypeOK, NEW e \in Env, NEW o \in Op, Goto(e, o), op[e].at # "remap", o.at # "remap",
         \/ op[e].at \in {"idle", "exofork"} /\ o.at \in {"idle", "exofork"}
         \/ op[e].at \notin {"idle", "exofork"} /\ o.at \notin {"idle", "exofork"} /\ o.child = op[e].child
  PROVE  BuildersSame
<1>1. op'[e] = o /\ \A x \in Env : x # e => op'[x] = op[x]
  BY DEF Goto, TypeOK
<1> QED BY <1>1 DEF BuildersSame, BuiltBy

LEMMA OpStays ==
  ASSUME op' = op
  PROVE  BuildersSame
BY DEF BuildersSame, BuiltBy

LEMMA VisibleFrame ==
  ASSUME CowInv, NEW e \in Env, NEW p \in Page, Visible(e, p)
  PROVE  Mapped(e, p) /\ pt[e][p].frame \in Frame /\ mem[pt[e][p].frame] \in Value /\ Sees(e, p) # Nil
<1>1. Mapped(e, p)
  BY DEF Visible
<1>2. pt[e][p].frame \in Frame
  BY <1>1, FrameIn, Places DEF CowInv
<1> QED BY <1>1, <1>2, NilAssumption DEF CowInv, TypeOK, Sees

LEMMA ReadyFacts ==
  ASSUME CowInv, NEW e \in Env, fault[e] # Nil
  PROVE  /\ fault[e].page \in Page /\ Alive(e) /\ Mapped(e, fault[e].page)
         /\ fault[e].at \in {"copy", "map", "unmap"} => Mapped(e, PFTEMP)
<1>1. fault[e].page \in Page
  BY TypeFacts DEF CowInv, Fault
<1>2. Alive(e)
  BY DEF CowInv, Living
<1> QED BY <1>1, <1>2 DEF CowInv, Living, Faulting, Copying

(* The copies that are made stay as they are.                              *)
ReadySame ==
  \A x \in Env : Ready(x)' =>
    /\ Ready(x) /\ fault'[x].page = fault[x].page /\ pt'[x][PFTEMP] = pt[x][PFTEMP]
    /\ pt'[x][fault[x].page] = pt[x][fault[x].page]

LEMMA CopyKept ==
  ASSUME CowInv, CopyMade, Kept, ReadySame
  PROVE  CopyMade'
<1> SUFFICES ASSUME NEW x \in Env, Ready(x)'
             PROVE  mem'[pt'[x][PFTEMP].frame] = mem'[pt'[x][fault'[x].page].frame]
  BY DEF CopyMade
<1>1. /\ Ready(x) /\ fault'[x].page = fault[x].page /\ pt'[x][PFTEMP] = pt[x][PFTEMP]
      /\ pt'[x][fault[x].page] = pt[x][fault[x].page]
  BY DEF ReadySame
<1>2. fault[x].page \in Page /\ pt[x][fault[x].page] # Nil /\ pt[x][PFTEMP] # Nil
  BY <1>1, ReadyFacts DEF Ready, Mapped
<1>3. mem[pt[x][PFTEMP].frame] = mem[pt[x][fault[x].page].frame]
  BY <1>1 DEF CopyMade
<1> QED BY <1>1, <1>2, <1>3, Places DEF Kept

LEMMA QuietStep ==
  ASSUME MemInv, kind' = kind, PagesSame, VisibleSame, Kept,
         \A x \in Env : Ready(x)' => Ready(x) /\ fault'[x].page = fault[x].page /\ pt'[x][PFTEMP] = pt[x][PFTEMP]
  PROVE  OneFrame' /\ CopyMade' /\ MemStep
<1>1. OneFrame'
  BY DEF MemInv, OneFrame, PagesSame, Mapped, Private, DupOf
<1>2. CopyMade'
  <2>1. ReadySame
    BY ReadyFacts DEF ReadySame, PagesSame, Ready, MemInv
  <2> QED BY <2>1, CopyKept DEF MemInv
<1>3. ASSUME NEW e \in Env, NEW p \in Page PROVE Sees(e, p)' = Sees(e, p)
  <2>1. Visible(e, p)' <=> Visible(e, p)
    BY DEF VisibleSame
  <2>2. CASE Visible(e, p)
    <3>1. pt[e][p] # Nil /\ pt'[e][p] = pt[e][p]
      BY <2>2, VisibleFrame DEF MemInv, Mapped, PagesSame
    <3>2. mem'[pt'[e][p].frame] = mem[pt[e][p].frame]
      BY <3>1, Places DEF Kept
    <3> QED BY <2>1, <2>2, <3>2 DEF Sees
  <2>3. CASE ~Visible(e, p)
    BY <2>1, <2>3 DEF Sees
  <2> QED BY <2>2, <2>3
<1> QED BY <1>1, <1>2, <1>3, SeesStutter

LEMMA CellKept ==
  ASSUME TypeOK, NEW x \in Env, NEW r \in Place, NEW b \in Bits, Alloc(x, r, b)
  PROVE  Kept /\ \A y \in Env, p \in Place : y # x \/ p # r => pt'[y][p] = pt[y][p]
<1>1. pt' \in [Env -> [Place -> Pte \cup {Nil}]] /\ \E n \in Pte : CellSet(x, r, n)
  BY AllocCell
<1>2. SetPt([pt EXCEPT ![x][r] = [frame |-> Min(Free), bits |-> b]])
  BY DEF Alloc
<1>3. Kept
  BY <1>1, <1>2, SetPtKeeps
<1> QED BY <1>1, <1>3 DEF CellSet

(* Calls that change no page.                                              *)
LEMMA QuietHandler ==
  ASSUME MemInv, NEW e \in Env, SetPgfaultHandler(e)
  PROVE  OneFrame' /\ CopyMade' /\ MemStep
<1> DEFINE o == [at |-> "exofork"]
<1>0. /\ status[e] = "runnable" /\ op[e].at = "idle" /\ Goto(e, o) /\ TypeOK
      /\ UNCHANGED <<kind, status, fault>>
  BY DEF SetPgfaultHandler, At, MemInv, CowInv
<1>1. o \in Op /\ o.at = "exofork"
  BY DEF Op
<1> HIDE DEF o
<1>2. BuildersSame
  BY <1>0, <1>1, OpMoves
<1>3. PagesSame /\ Kept /\ \A x \in Env : pt'[x][PFTEMP] = pt[x][PFTEMP]
  <2>1. CASE UNCHANGED <<pt, mem>>
    BY <2>1 DEF PagesSame, Kept
  <2>2. CASE Alloc(e, XStack, {"PTE_W", "PTE_COW", "PTE_SHARE"})
    BY <2>2, <1>0, CellKept, Places, BitFacts DEF PagesSame
  <2> QED BY <2>1, <2>2 DEF SetPgfaultHandler
<1>4. VisibleSame
  BY <1>0, <1>2, <1>3, VisibleKept DEF Alive
<1> QED BY <1>0, <1>3, <1>4, QuietStep DEF Ready

LEMMA QuietReadUvpt ==
  ASSUME MemInv, NEW e \in Env, ReadUvpt(e)
  PROVE  OneFrame' /\ CopyMade' /\ MemStep
<1>0. op[e].at = "scan" /\ UNCHANGED <<kind, pt, mem, status, upcall, fault>> /\ TypeOK
  BY DEF ReadUvpt, At, MemInv, CowInv
<1>1. op[e].child \in Env
  BY <1>0, OpCases DEF TypeOK, Scanning
<1>2. BuildersSame
  <2>1. \E b, q : op' = [op EXCEPT ![e] = Scan("map", op[e].child, q, b)] \/ op' = [op EXCEPT ![e] = [at |-> "xstack", child |-> op[e].child]]
    BY DEF ReadUvpt, Goto
  <2>2. op'[e].at # "remap" /\ op'[e].at \notin {"idle", "exofork"} /\ op'[e].child = op[e].child
        /\ \A x \in Env : x # e => op'[x] = op[x]
    BY <2>1, <1>0 DEF Scan, TypeOK
  <2> QED BY <1>0, <2>2 DEF BuildersSame, BuiltBy
<1>3. PagesSame /\ Kept
  BY <1>0 DEF PagesSame, Kept
<1>4. VisibleSame
  BY <1>0, <1>2, <1>3, VisibleKept DEF Alive
<1> QED BY <1>0, <1>3, <1>4, QuietStep DEF Ready

LEMMA QuietFinish ==
  ASSUME MemInv, NEW e \in Env, AllocXStack(e) \/ SetUpcall(e)
  PROVE  OneFrame' /\ CopyMade' /\ MemStep
<1>0. op[e].at \in {"xstack", "upcall"} /\ UNCHANGED <<kind, status, fault>> /\ TypeOK
  BY DEF AllocXStack, SetUpcall, At, MemInv, CowInv
<1>1. op[e] \in [at : Finishing, child : Env]
  BY <1>0, OpCases DEF TypeOK, Finishing
<1>2. BuildersSame
  <2>1. PICK w \in {"upcall", "runnable"} : op' = [op EXCEPT ![e] = [op[e] EXCEPT !.at = w]]
    BY DEF AllocXStack, SetUpcall, Goto
  <2>2. op'[e].at = w /\ op'[e].child = op[e].child /\ \A x \in Env : x # e => op'[x] = op[x]
    BY <1>0, <1>1, <2>1 DEF TypeOK
  <2> QED BY <1>0, <2>2 DEF BuildersSame, BuiltBy
<1>3. PagesSame /\ Kept /\ \A x \in Env : pt'[x][PFTEMP] = pt[x][PFTEMP]
  <2>1. CASE UNCHANGED <<pt, mem>>
    BY <2>1 DEF PagesSame, Kept
  <2>2. CASE Alloc(op[e].child, XStack, {"PTE_W"})
    BY <2>2, <1>0, <1>1, CellKept, Places, BitFacts DEF PagesSame, W
  <2> QED BY <2>1, <2>2 DEF AllocXStack, SetUpcall
<1>4. VisibleSame
  BY <1>0, <1>2, <1>3, VisibleKept DEF Alive
<1> QED BY <1>0, <1>3, <1>4, QuietStep DEF Ready

LEMMA QuietPanic ==
  ASSUME MemInv, NEW e \in Env, status[e] = "runnable", Panic(e)
  PROVE  OneFrame' /\ CopyMade' /\ MemStep
<1>0. status' = [status EXCEPT ![e] = "panicked"] /\ UNCHANGED <<kind, pt, mem, upcall, op, fault>>
  BY DEF Panic
<1>1. \A y \in Env : Alive(y)' <=> Alive(y)
  BY <1>0 DEF MemInv, CowInv, TypeOK, Alive
<1>2. PagesSame /\ Kept /\ BuildersSame
  BY <1>0, OpStays DEF PagesSame, Kept
<1> QED BY <1>0, <1>1, <1>2, VisibleKept, QuietStep DEF Ready

LEMMA QuietFault ==
  ASSUME MemInv, NEW e \in Env,
         \/ PgfaultAlloc(e) \/ PgfaultUnmap(e) \/ StackFaults(e) \/ RetryLost(e)
         \/ \E p \in Page, v \in Written : StoreFaults(e, p, v)
  PROVE  OneFrame' /\ CopyMade' /\ MemStep
<1>0. UNCHANGED <<kind, status, op>> /\ TypeOK
  BY DEF PgfaultAlloc, PgfaultUnmap, StackFaults, RetryLost, StoreFaults, MemInv, CowInv
<1>1. PagesSame /\ Kept /\ \A x \in Env : x # e => pt'[x][PFTEMP] = pt[x][PFTEMP]
  <2>1. CASE UNCHANGED <<pt, mem>>
    BY <2>1 DEF PagesSame, Kept
  <2>2. CASE Alloc(e, PFTEMP, {"PTE_W"})
    <3>1. PFTEMP \in Place /\ {"PTE_W"} \in Bits
      BY Places DEF Bits
    <3>2. Kept /\ \A y \in Env, p \in Place : y # e \/ p # PFTEMP => pt'[y][p] = pt[y][p]
      BY <2>2, <3>1, <1>0, CellKept
    <3> QED BY <3>2, Places DEF PagesSame
  <2>3. CASE SetPt([pt EXCEPT ![e][PFTEMP] = Nil])
    <3>1. CellSet(e, PFTEMP, Nil) /\ pt' \in [Env -> [Place -> Pte \cup {Nil}]]
      BY <2>3, <1>0, CellTypes, Places
    <3>2. Kept
      BY <2>3, <3>1, SetPtKeeps
    <3> QED BY <3>1, <3>2, Places DEF PagesSame, CellSet
  <2> QED BY <2>1, <2>2, <2>3 DEF PgfaultAlloc, PgfaultUnmap, StackFaults, RetryLost, StoreFaults
<1>2. ~Ready(e)' /\ \A x \in Env : x # e => fault'[x] = fault[x]
  <2>1. CASE PgfaultAlloc(e)
    <3>1. FaultAt(e, "copy")
      BY <2>1, <1>0, FaultGotoFacts DEF PgfaultAlloc, InFault
    <3> QED BY <3>1 DEF FaultAt, Ready
  <2>2. CASE PgfaultUnmap(e)
    <3>1. FaultAt(e, "retry")
      BY <2>2, <1>0, FaultGotoFacts DEF PgfaultUnmap, InFault
    <3> QED BY <3>1 DEF FaultAt, Ready
  <2>3. CASE StackFaults(e) \/ RetryLost(e)
    BY <2>3, <1>0 DEF StackFaults, RetryLost, TypeOK, Ready
  <2>4. CASE \E p \in Page, v \in Written : StoreFaults(e, p, v)
    BY <2>4, <1>0 DEF StoreFaults, TypeOK, Ready
  <2> QED BY <2>1, <2>2, <2>3, <2>4
<1>3. VisibleSame
  BY <1>0, <1>1, OpStays, VisibleKept DEF Alive
<1>4. \A x \in Env : Ready(x)' => Ready(x) /\ fault'[x].page = fault[x].page /\ pt'[x][PFTEMP] = pt[x][PFTEMP]
  BY <1>1, <1>2 DEF Ready
<1> QED BY <1>0, <1>1, <1>3, <1>4, QuietStep

LEMMA QuietExofork ==
  ASSUME MemInv, NEW e \in Env, NEW c \in Env, SysExofork(e, c)
  PROVE  OneFrame' /\ CopyMade' /\ MemStep
<1> DEFINE o == Scan("scan", c, 0, {})
<1>0. /\ status[e] = "runnable" /\ op[e].at = "exofork" /\ status[c] = "unborn" /\ TypeOK
      /\ status' = [status EXCEPT ![c] = "embryo"] /\ op' = [op EXCEPT ![e] = o]
      /\ UNCHANGED <<kind, pt, mem, upcall, fault>>
  BY DEF SysExofork, At, Goto, MemInv, CowInv
<1>1. o.at = "scan" /\ o.child = c
  BY DEF Scan
<1> HIDE DEF o
<1>2. op'[e] = o /\ \A x \in Env : x # e => op'[x] = op[x]
  BY <1>0 DEF TypeOK
<1>3. \A y \in Env : Alive(y)' <=> Alive(y)
  BY <1>0 DEF TypeOK, Alive
<1>4. \A p \in Page : pt[c][p] = Nil
  BY <1>0, Places DEF MemInv, CowInv, Living, Mapped
<1>5. ASSUME NEW y \in Env, NEW p \in Page PROVE Visible(y, p)' <=> Visible(y, p)
  <2>1. CASE y = c
    BY <2>1, <1>0, <1>4 DEF Visible, Mapped
  <2>2. CASE y # c
    <3>1. \A x \in Env : BuiltBy(x, y)' <=> BuiltBy(x, y)
      BY <1>0, <1>1, <1>2, <2>2 DEF BuiltBy
    <3>2. \A x \in Env : BuiltBy(x, y) => op'[x] = op[x]
      BY <1>0, <1>2 DEF BuiltBy
    <3>3. (\E x \in Env : /\ BuiltBy(x, y)
                          /\ ~(op[x].at = "remap" /\ op[x].page = p /\ pt[x][p].frame = pt[y][p].frame))' <=>
          (\E x \in Env : /\ BuiltBy(x, y)
                          /\ ~(op[x].at = "remap" /\ op[x].page = p /\ pt[x][p].frame = pt[y][p].frame))
      BY <1>0, <3>1, <3>2
    <3> QED BY <1>0, <1>3, <3>3 DEF Visible, Alive, Mapped
  <2> QED BY <2>1, <2>2
<1>6. PagesSame /\ Kept /\ VisibleSame
  BY <1>0, <1>5 DEF PagesSame, Kept, VisibleSame
<1> QED BY <1>0, <1>6, QuietStep DEF Ready

LEMMA QuietSetStatus ==
  ASSUME MemInv, NEW e \in Env, SetStatus(e)
  PROVE  OneFrame' /\ CopyMade' /\ MemStep
<1>0. /\ op[e].at = "runnable" /\ op' = [op EXCEPT ![e] = Idle] /\ TypeOK /\ CowInv
      /\ UNCHANGED <<kind, pt, mem, upcall, fault>>
  BY DEF SetStatus, At, Goto, MemInv, CowInv
<1>1. PICK c \in Env : c = op[e].child
  BY <1>0, OpCases DEF TypeOK, Finishing
<1>2. status' = [status EXCEPT ![c] = "runnable"] /\ BuiltBy(e, c)
  BY <1>0, <1>1 DEF SetStatus, BuiltBy
<1>3. /\ op'[e] = Idle /\ Idle.at = "idle" /\ \A x \in Env : x # e => op'[x] = op[x]
      /\ Alive(c)' /\ \A y \in Env : y # c => (Alive(y)' <=> Alive(y))
  BY <1>0, <1>2 DEF TypeOK, Idle, Alive
<1>4. ASSUME NEW y \in Env, NEW p \in Page PROVE Visible(y, p)' <=> Visible(y, p)
  <2>1. CASE y = c
    BY <2>1, <1>0, <1>2, <1>3 DEF Visible, Mapped, Alive
  <2>2. CASE y # c
    <3>1. \A x \in Env : BuiltBy(x, y)' <=> BuiltBy(x, y)
      BY <1>0, <1>1, <1>3, <2>2 DEF BuiltBy
    <3>2. \A x \in Env : BuiltBy(x, y) => op'[x] = op[x]
      BY <1>1, <1>3, <2>2 DEF BuiltBy
    <3>3. (\E x \in Env : /\ BuiltBy(x, y)
                          /\ ~(op[x].at = "remap" /\ op[x].page = p /\ pt[x][p].frame = pt[y][p].frame))' <=>
          (\E x \in Env : /\ BuiltBy(x, y)
                          /\ ~(op[x].at = "remap" /\ op[x].page = p /\ pt[x][p].frame = pt[y][p].frame))
      BY <1>0, <3>1, <3>2
    <3> QED BY <1>0, <1>3, <2>2, <3>3 DEF Visible, Alive, Mapped
  <2> QED BY <2>1, <2>2
<1>5. PagesSame /\ Kept /\ VisibleSame
  BY <1>0, <1>4 DEF PagesSame, Kept, VisibleSame
<1> QED BY <1>0, <1>5, QuietStep DEF Ready

(* The frame of pgfault's copy is nowhere else until it is mapped.         *)
LEMMA CopyApart ==
  ASSUME CowInv, NEW e \in Env, fault[e] # Nil, fault[e].at \in {"copy", "map"}, NEW f \in Env, NEW q \in Place,
         Mapped(f, q), f # e \/ q # PFTEMP
  PROVE  pt[f][q].frame # pt[e][PFTEMP].frame
<1>1. Mapped(e, PFTEMP)
  BY ReadyFacts
<1>2. ~InUnmap(e, PFTEMP, q) /\ ~InUnmap(e, q, PFTEMP)
  BY DEF InUnmap
<1> QED BY <1>1, <1>2, Places DEF CowInv, FramesApart, SameFrame

(* A write through a writable mapping reaches those who share the page.    *)
LEMMA WriteStep ==
  ASSUME MemInv, NEW e \in Env, NEW p \in Page, NEW v \in Value, status[e] = "runnable", "PTE_W" \in pt[e][p].bits,
         mem' = [mem EXCEPT ![pt[e][p].frame] = v], UNCHANGED <<kind, pt, status, op>>,
         \A x \in Env : Ready(x)' => fault'[x] = fault[x]
  PROVE  OneFrame' /\ CopyMade' /\ MemStep
<1>0. CowInv /\ TypeOK /\ Mapped(e, p) /\ Visible(e, p)
  BY DEF MemInv, CowInv, Living, Alive, Visible
<1>1. pt[e][p].bits \in Allowed(kind, p)
  BY <1>0 DEF CowInv, BitsAllowed
<1>2. OneFrame'
  BY DEF MemInv, OneFrame, Mapped, Private, DupOf
<1>3. \A f \in Frame : mem'[f] = IF f = pt[e][p].frame THEN v ELSE mem[f]
  BY <1>0 DEF TypeOK
<1>4. ASSUME NEW f \in Env, NEW q \in Page, Mapped(f, q), pt[f][q].frame = pt[e][p].frame
      PROVE  q = p
  <2>1. ~InUnmap(e, p, q) /\ ~InUnmap(e, q, p)
    BY Places DEF InUnmap
  <2> QED BY <1>0, <1>4, <2>1, Places DEF CowInv, FramesApart, SameFrame
<1>5. Private(kind, p) => pt[e][p].bits = W
  BY <1>1, AllowedFacts, BitFacts
<1>6. ASSUME NEW f \in Env, Private(kind, p), f # e, Mapped(f, p), pt[f][p].frame = pt[e][p].frame
      PROVE  ~Visible(f, p) /\ ~Alive(f)
  <2>1. op[e].at = "remap" /\ op[e].page = p /\ op[e].child = f
    BY <1>0, <1>5, <1>6 DEF CowInv, WritableIsPrivate, SameFrame
  <2>2. status[f] = "embryo"
    BY <2>1, <1>0 DEF CowInv, Building, Scanning
  <2>3. ASSUME NEW x \in Env, BuiltBy(x, f) PROVE x = e
    BY <1>0, <2>1, <2>3, BuilderAt DEF CowInv, Building, Scanning
  <2> QED BY <1>6, <2>1, <2>2, <2>3 DEF Visible, Alive
<1>7. CopyMade'
  <2> SUFFICES ASSUME NEW x \in Env, Ready(x)'
               PROVE  mem'[pt[x][PFTEMP].frame] = mem'[pt[x][fault[x].page].frame]
    BY DEF CopyMade
  <2>1. Ready(x) /\ mem[pt[x][PFTEMP].frame] = mem[pt[x][fault[x].page].frame]
    BY DEF MemInv, CopyMade, Ready
  <2>2. fault[x].page \in Page /\ Alive(x) /\ Mapped(x, fault[x].page) /\ Mapped(x, PFTEMP)
    BY <1>0, <2>1, ReadyFacts DEF Ready
  <2>3. pt[e][p].frame # pt[x][PFTEMP].frame
    BY <1>0, <2>1, CopyApart, Places DEF Ready
  <2>4. pt[x][fault[x].page].frame # pt[e][p].frame
    <3> SUFFICES ASSUME pt[x][fault[x].page].frame = pt[e][p].frame PROVE FALSE
      OBVIOUS
    <3>1. fault[x].page = p
      BY <1>4, <2>2
    <3>2. pt[x][p].bits = C
      BY <1>0, <2>1, <3>1 DEF CowInv, Faulting, Copying, Ready
    <3>3. Private(kind, p) /\ x # e
      <4>1. C \in Allowed(kind, p)
        BY <1>0, <2>2, <3>1, <3>2 DEF CowInv, BitsAllowed
      <4> QED BY <3>2, <4>1, AllowedFacts, BitFacts
    <3> QED BY <1>6, <2>2, <3>1, <3>3
  <2>5. pt[x][PFTEMP].frame \in Frame /\ pt[x][fault[x].page].frame \in Frame
    BY <1>0, <2>2, FrameIn, Places
  <2> QED BY <1>3, <2>1, <2>3, <2>4, <2>5
<1>8. p \in SharedPages <=> ~Private(kind, p)
  <2>1. p \notin Text
    BY <1>1 DEF Allowed
  <2> QED BY <1>0, <2>1, CowAssumption DEF SharedPages, Private, DupOf, TypeOK
<1>9. \A f \in Env, q \in Page : Visible(f, q)' <=> Visible(f, q)
  BY DEF Visible, Mapped, BuiltBy
<1>10. ASSUME NEW f \in Env, NEW q \in Page
       PROVE  Sees(f, q)' = IF q = p /\ (f = e \/ (p \in SharedPages /\ Sees(f, p) # Nil)) THEN v ELSE Sees(f, q)
  <2>1. CASE ~Visible(f, q)
    <3>1. ~(q = p /\ (f = e \/ (p \in SharedPages /\ Sees(f, p) # Nil)))
      BY <1>0, <2>1 DEF Sees
    <3> QED BY <1>9, <2>1, <3>1 DEF Sees
  <2>2. CASE Visible(f, q)
    <3>1. Mapped(f, q) /\ pt[f][q].frame \in Frame /\ Sees(f, q) # Nil
      BY <1>0, <2>2, VisibleFrame
    <3>2. Sees(f, q)' = IF pt[f][q].frame = pt[e][p].frame THEN v ELSE Sees(f, q)
      BY <1>3, <1>9, <2>2, <3>1 DEF Sees
    <3>3. CASE q = p /\ (f = e \/ p \in SharedPages)
      <4>1. pt[f][q].frame = pt[e][p].frame
        BY <1>0, <1>8, <3>1, <3>3 DEF MemInv, OneFrame
      <4> QED BY <3>1, <3>2, <3>3, <4>1
    <3>4. CASE ~(q = p /\ (f = e \/ p \in SharedPages))
      <4>1. pt[f][q].frame # pt[e][p].frame
        BY <1>4, <1>6, <1>8, <2>2, <3>1, <3>4
      <4> QED BY <3>2, <3>4, <4>1
    <3> QED BY <3>3, <3>4
  <2> QED BY <2>1, <2>2
<1>11. Sees(e, p) # Nil
  BY <1>0, VisibleFrame
<1> QED BY <1>2, <1>7, <1>10, <1>11, SeesWrite

LEMMA CopyStep ==
  ASSUME MemInv, NEW e \in Env, PgfaultCopy(e)
  PROVE  OneFrame' /\ CopyMade' /\ MemStep
<1>0. status[e] = "runnable" /\ fault[e] # Nil /\ fault[e].at = "copy" /\ CowInv /\ TypeOK
      /\ UNCHANGED <<kind, pt, status, upcall, op>>
      /\ mem' = [mem EXCEPT ![pt[e][PFTEMP].frame] = mem[pt[e][fault[e].page].frame]]
  BY DEF PgfaultCopy, InFault, MemInv, CowInv
<1>1. FaultAt(e, "map")
  BY <1>0, FaultGotoFacts DEF PgfaultCopy
<1>2. fault[e].page \in Page /\ Mapped(e, fault[e].page) /\ Mapped(e, PFTEMP)
  BY <1>0, ReadyFacts
<1>3. \A f \in Frame : mem'[f] = IF f = pt[e][PFTEMP].frame THEN mem[pt[e][fault[e].page].frame] ELSE mem[f]
  BY <1>0 DEF TypeOK
<1>4. ASSUME NEW f \in Env, NEW q \in Place, Mapped(f, q), f # e \/ q # PFTEMP
      PROVE  mem'[pt[f][q].frame] = mem[pt[f][q].frame]
  BY <1>0, <1>3, <1>4, CopyApart, FrameIn
<1>5. OneFrame'
  BY <1>0 DEF MemInv, OneFrame, Mapped, Private, DupOf
<1>6. CopyMade'
  <2> SUFFICES ASSUME NEW x \in Env, Ready(x)'
               PROVE  mem'[pt[x][PFTEMP].frame] = mem'[pt[x][fault'[x].page].frame]
    BY <1>0 DEF CopyMade
  <2>1. CASE x = e
    BY <2>1, <1>0, <1>1, <1>2, <1>3, <1>4, FrameIn, Places DEF FaultAt
  <2>2. CASE x # e
    <3>1. Ready(x) /\ fault'[x] = fault[x] /\ mem[pt[x][PFTEMP].frame] = mem[pt[x][fault[x].page].frame]
      BY <2>2, <1>1 DEF MemInv, CopyMade, Ready, FaultAt
    <3>2. fault[x].page \in Page /\ Mapped(x, fault[x].page) /\ Mapped(x, PFTEMP)
      BY <1>0, <3>1, ReadyFacts DEF Ready
    <3> QED BY <2>2, <3>1, <3>2, <1>4, Places
  <2> QED BY <2>1, <2>2
<1>7. ASSUME NEW f \in Env, NEW q \in Page PROVE Sees(f, q)' = Sees(f, q)
  <2>1. Visible(f, q)' <=> Visible(f, q)
    BY <1>0 DEF Visible, Mapped, BuiltBy
  <2>2. Visible(f, q) => mem'[pt[f][q].frame] = mem[pt[f][q].frame]
    BY <1>0, <1>4, VisibleFrame, Places
  <2> QED BY <1>0, <2>1, <2>2 DEF Sees
<1> QED BY <1>0, <1>5, <1>6, <1>7, SeesStutter

(* What is visible of a child: all it has, but the page of a duppage.      *)
ChildSees ==
  \A e, c \in Env : \A p \in Page :
    op[e].at \in Scanning \cup Finishing /\ op[e].child = c =>
      (Visible(c, p) <=>
         Mapped(c, p) /\ ~(op[e].at = "remap" /\ op[e].page = p /\ pt[e][p].frame = pt[c][p].frame))

LEMMA ChildVisible == CowInv => ChildSees
<1> SUFFICES ASSUME CowInv, NEW e \in Env, NEW c \in Env, NEW p \in Page,
                    op[e].at \in Scanning \cup Finishing, op[e].child = c
             PROVE  Visible(c, p) <=>
                      Mapped(c, p) /\ ~(op[e].at = "remap" /\ op[e].page = p /\ pt[e][p].frame = pt[c][p].frame)
  BY DEF ChildSees
<1>1. status[c] = "embryo"
  BY DEF CowInv, Building
<1>2. BuiltBy(e, c) /\ \A x \in Env : BuiltBy(x, c) => x = e
  <2>1. BuiltBy(e, c)
    BY DEF BuiltBy, Scanning, Finishing
  <2>2. ASSUME NEW x \in Env, BuiltBy(x, c) PROVE x = e
    BY <2>2, BuilderAt DEF CowInv, Building
  <2> QED BY <2>1, <2>2
<1> QED BY <1>1, <1>2 DEF Visible

LEMMA ChildVisibleNext == CowInv' => ChildSees'
BY ChildVisible, PTL

(* Whom a step of e or of its fork does not concern sees what it saw.      *)
LEMMA OthersSee ==
  ASSUME CowInv, Kept, NEW e \in Env, NEW f \in Env, NEW q \in Page, pt'[f][q] = pt[f][q],
         Alive(f)' <=> Alive(f),
         ~Alive(f) => ~BuiltBy(e, f) /\ ~BuiltBy(e, f)',
         \A x \in Env : x # e => op'[x] = op[x],
         \A x \in Env : x # e /\ Alive(x) => pt'[x][q] = pt[x][q]
  PROVE  Sees(f, q)' = Sees(f, q)
<1>1. ASSUME NEW x \in Env, x # e
      PROVE  (BuiltBy(x, f) /\ ~(op[x].at = "remap" /\ op[x].page = q /\ pt[x][q].frame = pt[f][q].frame))' <=>
             (BuiltBy(x, f) /\ ~(op[x].at = "remap" /\ op[x].page = q /\ pt[x][q].frame = pt[f][q].frame))
  <2>1. op'[x] = op[x] /\ (BuiltBy(x, f)' <=> BuiltBy(x, f))
    BY <1>1 DEF BuiltBy
  <2>2. BuiltBy(x, f) => Alive(x)
    <3>1. BuiltBy(x, f) => op[x] # Idle
      BY DEF BuiltBy, Idle
    <3> QED BY <3>1 DEF CowInv, Living
  <2> QED BY <1>1, <2>1, <2>2
<1>2. Visible(f, q)' <=> Visible(f, q)
  <2>1. CASE Alive(f)
    BY <2>1 DEF Visible, Mapped, Alive
  <2>2. CASE ~Alive(f)
    <3>1. Visible(f, q) <=> /\ Mapped(f, q)
                            /\ \E x \in Env \ {e} : BuiltBy(x, f) /\ ~(op[x].at = "remap" /\ op[x].page = q
                                                                        /\ pt[x][q].frame = pt[f][q].frame)
      BY <2>2 DEF Visible, Alive
    <3>2. Visible(f, q)' <=>
            (/\ Mapped(f, q)
             /\ \E x \in Env \ {e} : BuiltBy(x, f) /\ ~(op[x].at = "remap" /\ op[x].page = q
                                                         /\ pt[x][q].frame = pt[f][q].frame))'
      BY <2>2 DEF Visible, Alive
    <3>3. Mapped(f, q)' <=> Mapped(f, q)
      BY DEF Mapped
    <3> QED BY <1>1, <3>1, <3>2, <3>3
  <2> QED BY <2>1, <2>2
<1>3. Visible(f, q) => mem'[pt'[f][q].frame] = mem[pt[f][q].frame]
  BY Places DEF Visible, Mapped, Kept
<1> QED BY <1>2, <1>3 DEF Sees

LEMMA MapStep ==
  ASSUME MemInv, CowInv', NEW e \in Env, MapInChild(e)
  PROVE  OneFrame' /\ CopyMade' /\ MemStep
<1>0. /\ status[e] = "runnable" /\ fault[e] = Nil /\ op[e].at = "map" /\ CowInv /\ TypeOK
      /\ UNCHANGED <<kind, status, upcall, fault>>
  BY DEF MapInChild, At, MemInv, CowInv
<1>1. PICK c \in Env, r \in Page, n \in Pte, o \in Op : MapEffect(e, c, r, n, o)
  BY <1>0, MapInChildEffect
<1>2. /\ c = op[e].child /\ r = op[e].page /\ c # e /\ Mapped(e, r) /\ n.frame = pt[e][r].frame /\ n # Nil
      /\ Kept /\ o.child = c /\ o.at \in {"scan", "remap"} /\ (o.at = "remap" <=> Private(kind, r))
      /\ (o.at = "remap" => o.page = r)
  BY <1>1, NilAssumption DEF MapEffect
<1>3. op'[e] = o /\ \A x \in Env : x # e => op'[x] = op[x]
  BY <1>0, <1>1 DEF MapEffect, Goto, TypeOK
<1>4. pt'[c][r] = n /\ \A y \in Env, p \in Place : y # c \/ p # r => pt'[y][p] = pt[y][p]
  BY <1>1 DEF MapEffect, CellSet
<1>5. status[c] = "embryo" /\ ~Alive(c) /\ fault[c] = Nil /\ Alive(e)
  BY <1>0, <1>2 DEF CowInv, Building, Living, Alive, Scanning
<1>6. pt[c][r] = Nil
  <2>1. ~Done(op[e], r)
    BY <1>0, <1>2, Places DEF Done, Finishing
  <2> QED BY <1>0, <1>2, <2>1 DEF CowInv, Building, Scanning, Mapped
<1>7. OneFrame'
  <2> SUFFICES ASSUME NEW x \in Env, NEW y \in Env, NEW p \in Page, ~Private(kind, p), pt'[x][p] # Nil, pt'[y][p] # Nil
               PROVE  pt'[x][p].frame = pt'[y][p].frame
    BY <1>0 DEF OneFrame, Mapped, Private, DupOf
  <2>1. \A z \in Env : pt'[z][p] # Nil => \E w \in Env : pt[w][p] # Nil /\ pt'[z][p].frame = pt[w][p].frame
    BY <1>2, <1>4, Places DEF Mapped
  <2> QED BY <2>1 DEF MemInv, OneFrame, Mapped
<1>8. CopyMade'
  <2>1. ReadySame
    BY <1>0, <1>4, <1>5, ReadyFacts, Places DEF ReadySame, Ready
  <2> QED BY <1>2, <2>1, CopyKept DEF MemInv
<1>9. ChildSees /\ ChildSees'
  BY <1>0, ChildVisible, ChildVisibleNext
<1>10. ASSUME NEW f \in Env, NEW q \in Page, f # c \/ q # r PROVE Sees(f, q)' = Sees(f, q)
  <2>1. pt'[f][q] = pt[f][q]
    BY <1>4, <1>10, Places
  <2>2. CASE f # c
    <3>1. ~BuiltBy(e, f) /\ ~BuiltBy(e, f)'
      BY <1>2, <1>3, <2>2 DEF BuiltBy
    <3>2. \A x \in Env : x # e /\ Alive(x) => pt'[x][q] = pt[x][q]
      BY <1>4, <1>5, Places
    <3>3. Alive(f)' <=> Alive(f)
      BY <1>0 DEF Alive
    <3> QED BY <1>0, <1>2, <1>3, <2>1, <3>1, <3>2, <3>3, OthersSee
  <2>3. CASE f = c
    <3>1. Visible(c, q) <=> Mapped(c, q)
      BY <1>0, <1>2, <1>9 DEF ChildSees, Scanning
    <3>2. Visible(c, q)' <=> Mapped(c, q)'
      <4>1. op'[e].at \in Scanning /\ op'[e].child = c /\ ~(op'[e].at = "remap" /\ op'[e].page = q)
        BY <1>2, <1>3, <1>10, <2>3 DEF Scanning
      <4> QED BY <1>9, <4>1 DEF ChildSees
    <3>3. pt[c][q] # Nil => mem'[pt[c][q].frame] = mem[pt[c][q].frame]
      BY <1>2, <2>1, <2>3, Places DEF Kept
    <3> QED BY <2>1, <2>3, <3>1, <3>2, <3>3 DEF Sees, Mapped
  <2> QED BY <2>2, <2>3
<1>11. Visible(e, r) /\ Sees(e, r) # Nil /\ Sees(e, r) = mem[n.frame] /\ Sees(c, r) = Nil
  <2>1. Visible(e, r)
    BY <1>2, <1>5 DEF Visible, Alive
  <2>2. ~Visible(c, r)
    BY <1>6 DEF Visible, Mapped
  <2> QED BY <1>0, <1>2, <2>1, <2>2, VisibleFrame DEF Sees
<1>12. op'[e].at \in Scanning /\ op'[e].child = c
  BY <1>2, <1>3 DEF Scanning
<1>13. CASE Private(kind, r)
  <2>1. pt'[e][r].frame = pt'[c][r].frame
    BY <1>2, <1>4, Places
  <2>2. ~Visible(c, r)'
    BY <1>2, <1>3, <1>9, <1>12, <1>13, <2>1 DEF ChildSees
  <2>3. Sees(c, r)' = Sees(c, r)
    BY <2>2, <1>11 DEF Sees
  <2> QED BY <1>0, <1>7, <1>8, <1>10, <2>3, SeesStutter
<1>14. CASE ~Private(kind, r)
  <2>1. Visible(c, r)'
    BY <1>2, <1>3, <1>4, <1>9, <1>12, <1>14 DEF ChildSees, Mapped
  <2>2. mem'[n.frame] = mem[n.frame]
    BY <1>2, <1>4, Places DEF Kept
  <2>3. Sees(c, r)' = Sees(e, r)
    BY <1>4, <1>11, <2>1, <2>2 DEF Sees
  <2> QED BY <1>0, <1>7, <1>8, <1>10, <1>11, <2>3, SeesCopy
<1> QED BY <1>13, <1>14

LEMMA RemapMemStep ==
  ASSUME MemInv, CowInv', NEW e \in Env, Remap(e)
  PROVE  OneFrame' /\ CopyMade' /\ MemStep
<1>0. /\ status[e] = "runnable" /\ fault[e] = Nil /\ op[e].at = "remap" /\ CowInv /\ TypeOK
      /\ UNCHANGED <<kind, status, upcall, fault>>
  BY DEF Remap, At, MemInv, CowInv
<1>1. PICK c \in Env, r \in Page, n \in Pte, o \in Op : RemapEffect(e, c, r, n, o)
  BY <1>0, RemapEffects
<1>2. /\ c = op[e].child /\ r = op[e].page /\ c # e /\ Mapped(e, r) /\ n.frame = pt[e][r].frame /\ n # Nil
      /\ Kept /\ o.child = c /\ o.at = "scan" /\ Private(kind, r)
  BY <1>1, NilAssumption DEF RemapEffect
<1>3. op'[e] = o /\ \A x \in Env : x # e => op'[x] = op[x]
  BY <1>0, <1>1 DEF RemapEffect, Goto, TypeOK
<1>4. pt'[e][r] = n /\ \A y \in Env, p \in Place : y # e \/ p # r => pt'[y][p] = pt[y][p]
  BY <1>1 DEF RemapEffect, CellSet
<1>5. Alive(e) /\ Alive(e)' /\ \A f \in Env : Alive(f)' <=> Alive(f)
  BY <1>0 DEF Alive
<1>6. OneFrame'
  <2> SUFFICES ASSUME NEW x \in Env, NEW y \in Env, NEW p \in Page, ~Private(kind, p), pt'[x][p] # Nil, pt'[y][p] # Nil
               PROVE  pt'[x][p].frame = pt'[y][p].frame
    BY <1>0 DEF OneFrame, Mapped, Private, DupOf
  <2>1. \A z \in Env : pt'[z][p] = pt[z][p]
    BY <1>2, <1>4, Places
  <2> QED BY <2>1 DEF MemInv, OneFrame, Mapped
<1>7. CopyMade'
  <2>1. ReadySame
    BY <1>0, <1>4, ReadyFacts, Places DEF ReadySame, Ready
  <2> QED BY <1>2, <2>1, CopyKept DEF MemInv
<1>8. ChildSees /\ ChildSees'
  BY <1>0, ChildVisible, ChildVisibleNext
<1>9. ASSUME NEW q \in Page PROVE Sees(e, q)' = Sees(e, q)
  <2>1. pt[e][q] # Nil /\ pt'[e][q] # Nil /\ pt'[e][q].frame = pt[e][q].frame
    BY <1>0, <1>2, <1>4, <1>5, Places DEF CowInv, Living, Mapped
  <2>2. Visible(e, q) /\ Visible(e, q)'
    BY <1>5, <2>1 DEF Visible, Mapped, Alive
  <2>3. mem'[pt'[e][q].frame] = mem[pt[e][q].frame]
    BY <1>2, <2>1, Places DEF Kept
  <2> QED BY <2>2, <2>3 DEF Sees
<1>10. ASSUME NEW f \in Env, NEW q \in Page, f # c, f # e PROVE Sees(f, q)' = Sees(f, q)
  <2>1. ~BuiltBy(e, f) /\ ~BuiltBy(e, f)'
    BY <1>2, <1>3, <1>10 DEF BuiltBy
  <2>2. pt'[f][q] = pt[f][q] /\ \A x \in Env : x # e /\ Alive(x) => pt'[x][q] = pt[x][q]
    BY <1>4, <1>10, Places
  <2> QED BY <1>0, <1>2, <1>3, <1>5, <2>1, <2>2, OthersSee
<1>11. ASSUME NEW q \in Page
       PROVE  /\ Visible(c, q)' <=> pt[c][q] # Nil
              /\ Visible(c, q) <=> pt[c][q] # Nil /\ ~(q = r /\ pt[e][r].frame = pt[c][r].frame)
              /\ pt'[c][q] = pt[c][q] /\ (pt[c][q] # Nil => mem'[pt[c][q].frame] = mem[pt[c][q].frame])
  <2>1. pt'[c][q] = pt[c][q]
    BY <1>2, <1>4, Places
  <2>2. Visible(c, q)' <=> pt[c][q] # Nil
    <3>1. op'[e].at \in Scanning /\ op'[e].child = c /\ op'[e].at # "remap"
      BY <1>2, <1>3 DEF Scanning
    <3> QED BY <1>8, <2>1, <3>1 DEF ChildSees, Mapped
  <2>3. Visible(c, q) <=> pt[c][q] # Nil /\ ~(q = r /\ pt[e][r].frame = pt[c][r].frame)
    BY <1>0, <1>2, <1>8 DEF ChildSees, Mapped, Scanning
  <2> QED BY <1>2, <2>1, <2>2, <2>3, Places DEF Kept
<1>12. pt[c][r] # Nil
  BY <1>0, <1>2 DEF CowInv, Building, Done, Mapped, Scanning
<1>13. ASSUME NEW q \in Page, q # r \/ pt[e][r].frame # pt[c][r].frame PROVE Sees(c, q)' = Sees(c, q)
  BY <1>11, <1>13 DEF Sees
<1>14. CASE pt[e][r].frame # pt[c][r].frame
  BY <1>0, <1>6, <1>7, <1>9, <1>10, <1>13, <1>14, SeesStutter
<1>15. CASE pt[e][r].frame = pt[c][r].frame
  <2>1. Visible(e, r)
    BY <1>2, <1>5 DEF Visible, Alive
  <2>2. Sees(e, r) # Nil /\ Sees(e, r) = mem[pt[c][r].frame]
    BY <1>0, <1>15, <2>1, VisibleFrame DEF Sees
  <2>3. Sees(c, r) = Nil /\ Sees(c, r)' = Sees(e, r)
    BY <1>11, <1>12, <1>15, <2>2 DEF Sees
  <2> QED BY <1>0, <1>2, <1>6, <1>7, <1>9, <1>10, <1>13, <2>2, <2>3, SeesCopy
<1> QED BY <1>14, <1>15

LEMMA PgfaultMapMemStep ==
  ASSUME MemInv, CowInv', NEW e \in Env, PgfaultMap(e)
  PROVE  OneFrame' /\ CopyMade' /\ MemStep
<1>0. /\ status[e] = "runnable" /\ fault[e] # Nil /\ fault[e].at = "map" /\ CowInv /\ TypeOK
      /\ UNCHANGED <<kind, status, upcall, op>>
  BY DEF PgfaultMap, InFault, MemInv, CowInv
<1>1. FaultAt(e, "unmap")
  BY <1>0, FaultGotoFacts DEF PgfaultMap
<1>2. PICK r \in Page, n \in Pte : CopyEffect(e, r, n)
  BY <1>0, PgfaultMapEffect
<1>3. /\ r = fault[e].page /\ Mapped(e, PFTEMP) /\ Mapped(e, r) /\ pt[e][r].bits = C
      /\ n.frame = pt[e][PFTEMP].frame /\ n # Nil /\ Kept
  BY <1>2, NilAssumption DEF CopyEffect
<1>4. pt'[e][r] = n /\ \A y \in Env, p \in Place : y # e \/ p # r => pt'[y][p] = pt[y][p]
  BY <1>2 DEF CopyEffect, CellSet
<1>5. Alive(e) /\ Alive(e)' /\ \A f \in Env : Alive(f)' <=> Alive(f)
  BY <1>0 DEF Alive
<1>6. Private(kind, r)
  <2>1. C \in Allowed(kind, r)
    BY <1>0, <1>3 DEF CowInv, BitsAllowed
  <2> QED BY <2>1, AllowedFacts, BitFacts
<1>7. OneFrame'
  <2> SUFFICES ASSUME NEW x \in Env, NEW y \in Env, NEW p \in Page, ~Private(kind, p), pt'[x][p] # Nil, pt'[y][p] # Nil
               PROVE  pt'[x][p].frame = pt'[y][p].frame
    BY <1>0 DEF OneFrame, Mapped, Private, DupOf
  <2>1. \A z \in Env : pt'[z][p] = pt[z][p]
    BY <1>4, <1>6, Places
  <2> QED BY <2>1 DEF MemInv, OneFrame, Mapped
<1>8. CopyMade'
  <2>1. ReadySame
    <3> SUFFICES ASSUME NEW x \in Env, Ready(x)'
                 PROVE  /\ Ready(x) /\ fault'[x].page = fault[x].page /\ pt'[x][PFTEMP] = pt[x][PFTEMP]
                        /\ pt'[x][fault[x].page] = pt[x][fault[x].page]
      BY DEF ReadySame
    <3>1. x # e
      BY <1>1 DEF Ready, FaultAt
    <3>2. Ready(x) /\ fault'[x] = fault[x]
      BY <1>1, <3>1 DEF Ready, FaultAt
    <3>3. fault[x].page \in Page
      BY <1>0, <3>2, ReadyFacts DEF Ready
    <3> QED BY <1>4, <3>1, <3>2, <3>3, Places
  <2> QED BY <1>3, <2>1, CopyKept DEF MemInv
<1>9. ChildSees /\ ChildSees'
  BY <1>0, ChildVisible, ChildVisibleNext
<1>10. mem'[n.frame] = mem[pt[e][r].frame]
  <2>1. mem[n.frame] = mem[pt[e][r].frame]
    BY <1>0, <1>3 DEF MemInv, CopyMade, Ready
  <2>2. mem'[n.frame] = mem[n.frame]
    BY <1>3, <1>4, Places DEF Kept
  <2> QED BY <2>1, <2>2
<1>11. ASSUME NEW q \in Page PROVE Sees(e, q)' = Sees(e, q)
  <2>1. pt[e][q] # Nil /\ pt'[e][q] # Nil
    BY <1>0, <1>3, <1>4, <1>5, Places DEF CowInv, Living, Mapped
  <2>2. Visible(e, q) /\ Visible(e, q)'
    BY <1>5, <2>1 DEF Visible, Mapped, Alive
  <2>3. mem'[pt'[e][q].frame] = mem[pt[e][q].frame]
    <3>1. CASE q = r
      BY <3>1, <1>4, <1>10
    <3>2. CASE q # r
      BY <3>2, <1>3, <1>4, <2>1, Places DEF Kept
    <3> QED BY <3>1, <3>2
  <2> QED BY <2>2, <2>3 DEF Sees
<1>12. ASSUME NEW f \in Env, NEW q \in Page, f # e, ~BuiltBy(e, f) PROVE Sees(f, q)' = Sees(f, q)
  <2>1. ~BuiltBy(e, f)'
    BY <1>0, <1>12 DEF BuiltBy
  <2>2. pt'[f][q] = pt[f][q] /\ \A x \in Env : x # e /\ Alive(x) => pt'[x][q] = pt[x][q]
    BY <1>4, <1>12, Places
  <2>3. \A x \in Env : x # e => op'[x] = op[x]
    BY <1>0
  <2> QED BY <1>0, <1>3, <1>5, <1>12, <2>1, <2>2, <2>3, OthersSee
<1>13. ASSUME NEW c \in Env, BuiltBy(e, c)
       PROVE  MemStep
  <2>1. op[e].at \in Scanning \cup Finishing /\ op[e].child = c
    BY <1>0, <1>13, BuilderAt
  <2>2. c # e /\ \A f \in Env : f # c => ~BuiltBy(e, f)
    BY <1>0, <2>1 DEF CowInv, Building, BuiltBy
  <2>3. \A q \in Page : pt'[c][q] = pt[c][q] /\ (pt[c][q] # Nil => mem'[pt[c][q].frame] = mem[pt[c][q].frame])
    BY <1>3, <1>4, <2>2, Places DEF Kept
  <2>4. \A q \in Page : Visible(c, q) <=>
          pt[c][q] # Nil /\ ~(op[e].at = "remap" /\ op[e].page = q /\ pt[e][q].frame = pt[c][q].frame)
    BY <1>9, <2>1 DEF ChildSees, Mapped
  <2>5. \A q \in Page : Visible(c, q)' <=>
          pt[c][q] # Nil /\ ~(op[e].at = "remap" /\ op[e].page = q /\ pt'[e][q].frame = pt[c][q].frame)
    BY <1>0, <1>9, <2>1, <2>3 DEF ChildSees, Mapped
  <2>6. ASSUME NEW q \in Page, q # r PROVE Sees(c, q)' = Sees(c, q)
    <3>1. pt'[e][q] = pt[e][q]
      BY <1>4, <2>6, Places
    <3> QED BY <2>3, <2>4, <2>5, <2>6, <3>1 DEF Sees
  <2>7. Visible(c, r)' <=> pt[c][r] # Nil
    <3>1. pt[c][r] # Nil => pt[c][r].frame # n.frame
      BY <1>0, <1>3, <2>2, CopyApart, Places DEF Mapped
    <3> QED BY <2>5, <1>4, <3>1
  <2>8. CASE pt[c][r] # Nil /\ op[e].at = "remap" /\ op[e].page = r /\ pt[e][r].frame = pt[c][r].frame
    <3>1. Visible(e, r)
      BY <1>3, <1>5 DEF Visible, Alive
    <3>2. Sees(e, r) # Nil /\ Sees(e, r) = mem[pt[c][r].frame]
      BY <1>0, <2>8, <3>1, VisibleFrame DEF Sees
    <3>3. Sees(c, r) = Nil
      BY <2>4, <2>8 DEF Sees
    <3>4. Sees(c, r)' = Sees(e, r)
      BY <2>3, <2>7, <2>8, <3>2 DEF Sees
    <3> QED BY <1>0, <1>11, <1>12, <2>2, <2>6, <3>2, <3>3, <3>4, SeesCopy
  <2>9. CASE ~(pt[c][r] # Nil /\ op[e].at = "remap" /\ op[e].page = r /\ pt[e][r].frame = pt[c][r].frame)
    <3>1. Visible(c, r)' <=> Visible(c, r)
      BY <2>4, <2>7, <2>9
    <3>2. Visible(c, r) => mem'[pt'[c][r].frame] = mem[pt[c][r].frame]
      BY <2>3, <2>4
    <3>3. Sees(c, r)' = Sees(c, r)
      BY <3>1, <3>2 DEF Sees
    <3> QED BY <1>0, <1>11, <1>12, <2>2, <2>6, <3>3, SeesStutter
  <2> QED BY <2>8, <2>9
<1>14. CASE \A c \in Env : ~BuiltBy(e, c)
  BY <1>0, <1>7, <1>8, <1>11, <1>12, <1>14, SeesStutter
<1> QED BY <1>7, <1>8, <1>13, <1>14

LEMMA EndStep ==
  ASSUME MemInv, NEW e \in Env, status[e] = "runnable", op[e].at = "idle", Destroy(e)
  PROVE  OneFrame' /\ CopyMade' /\ MemStep
<1>0. /\ UNCHANGED <<kind, upcall>> /\ SetPt([pt EXCEPT ![e] = [p \in DOMAIN @ |-> Nil]])
      /\ pt' = [pt EXCEPT ![e] = [p \in DOMAIN @ |-> Nil]]
      /\ status' = [status EXCEPT ![e] = "gone"] /\ op' = [op EXCEPT ![e] = Idle]
      /\ fault' = [fault EXCEPT ![e] = Nil] /\ CowInv /\ TypeOK
  BY DEF Destroy, SetPt, Goto, MemInv, CowInv
<1>1. /\ pt' \in [Env -> [Place -> Pte \cup {Nil}]]
      /\ \A p \in Place : pt'[e][p] = Nil
      /\ \A y \in Env : y # e => pt'[y] = pt[y]
  BY <1>0 DEF TypeOK
<1>2. Kept
  BY <1>0, <1>1, SetPtKeeps
<1>3. /\ op'[e] = Idle /\ fault'[e] = Nil
      /\ \A y \in Env : y # e => op'[y] = op[y] /\ fault'[y] = fault[y] /\ (Alive(y)' <=> Alive(y))
  BY <1>0 DEF TypeOK, Alive
<1>4. OneFrame'
  <2> SUFFICES ASSUME NEW x \in Env, NEW y \in Env, NEW p \in Page, ~Private(kind, p), pt'[x][p] # Nil, pt'[y][p] # Nil
               PROVE  pt'[x][p].frame = pt'[y][p].frame
    BY <1>0 DEF OneFrame, Mapped, Private, DupOf
  <2>1. pt'[x] = pt[x] /\ pt'[y] = pt[y]
    BY <1>1, Places
  <2> QED BY <2>1 DEF MemInv, OneFrame, Mapped
<1>5. CopyMade'
  <2>1. ReadySame
    BY <1>1, <1>3 DEF ReadySame, Ready
  <2> QED BY <1>0, <1>2, <2>1, CopyKept DEF MemInv
<1>6. ASSUME NEW f \in Env, NEW q \in Page PROVE Sees(f, q)' = IF f = e THEN Nil ELSE Sees(f, q)
  <2>1. CASE f = e
    BY <2>1, <1>1, Places DEF Sees, Visible, Mapped
  <2>2. CASE f # e
    <3>1. ~BuiltBy(e, f) /\ ~BuiltBy(e, f)'
      BY <1>3 DEF BuiltBy, Idle
    <3>2. pt'[f][q] = pt[f][q] /\ \A x \in Env : x # e /\ Alive(x) => pt'[x][q] = pt[x][q]
      BY <1>1, <2>2
    <3>3. Sees(f, q)' = Sees(f, q)
      BY <1>0, <1>2, <1>3, <2>2, <3>1, <3>2, OthersSee
    <3> QED BY <2>2, <3>3
  <2> QED BY <2>1, <2>2
<1> QED BY <1>0, <1>4, <1>5, <1>6, SeesEnd

LEMMA MemNext ==
  ASSUME MemInv, [Next]_vars
  PROVE  MemInv' /\ MemStep
<1>0. CowInv /\ CowInv'
  BY CowNext DEF MemInv
<1> SUFFICES OneFrame' /\ CopyMade' /\ MemStep
  BY <1>0 DEF MemInv
<1>1. ASSUME NEW e \in Env, SetPgfaultHandler(e) PROVE OneFrame' /\ CopyMade' /\ MemStep
  BY <1>1, QuietHandler
<1>2. ASSUME NEW e \in Env, ForkStep(e) PROVE OneFrame' /\ CopyMade' /\ MemStep
  BY <1>0, <1>2, QuietExofork, QuietReadUvpt, MapStep, RemapMemStep, QuietFinish, QuietSetStatus DEF ForkStep
<1>3. ASSUME NEW e \in Env, ForkPanics(e) PROVE OneFrame' /\ CopyMade' /\ MemStep
  BY <1>3, QuietPanic DEF ForkPanics, At
<1>4. ASSUME NEW e \in Env, NEW p \in Page, NEW v \in Written, Store(e, p, v)
      PROVE  OneFrame' /\ CopyMade' /\ MemStep
  <2>1. /\ status[e] = "runnable" /\ "PTE_W" \in pt[e][p].bits /\ mem' = [mem EXCEPT ![pt[e][p].frame] = v]
        /\ UNCHANGED <<kind, pt, status, op, fault>> /\ v \in Value
    BY <1>4, CowAssumption DEF Store
  <2> QED BY <2>1, WriteStep
<1>5. ASSUME NEW e \in Env, NEW p \in Page, StoreKills(e, p) PROVE OneFrame' /\ CopyMade' /\ MemStep
  <2>1. status[e] = "runnable" /\ ~(upcall[e] /\ HasXStack(e)) /\ Destroy(e)
    BY <1>5 DEF StoreKills, HasXStack
  <2>2. op[e] = Idle
    BY <1>0, <2>1 DEF CowInv, Upcalls
  <2> QED BY <2>1, <2>2, EndStep DEF Idle
<1>6. ASSUME NEW e \in Env, Pgfault(e) PROVE OneFrame' /\ CopyMade' /\ MemStep
  <2>1. CASE PgfaultPanics(e)
    BY <2>1, QuietPanic DEF PgfaultPanics, InFault
  <2>2. CASE Retry(e)
    <3>1. /\ status[e] = "runnable" /\ fault[e] # Nil /\ fault[e].val # Nil /\ "PTE_W" \in pt[e][fault[e].page].bits
          /\ mem' = [mem EXCEPT ![pt[e][fault[e].page].frame] = fault[e].val]
          /\ UNCHANGED <<kind, pt, status, op>> /\ fault' = [fault EXCEPT ![e] = Nil]
      BY <2>2 DEF Retry, InFault
    <3>2. fault[e].page \in Page /\ fault[e].val \in Value
      BY <1>0, <3>1, TypeFacts DEF CowInv, Fault
    <3>3. \A x \in Env : Ready(x)' => fault'[x] = fault[x]
      BY <1>0, <3>1 DEF CowInv, TypeOK, Ready
    <3> QED BY <3>1, <3>2, <3>3, WriteStep
  <2> QED BY <1>0, <1>6, <2>1, <2>2, QuietFault, CopyStep, PgfaultMapMemStep DEF Pgfault
<1>7. ASSUME NEW e \in Env, Exit(e) PROVE OneFrame' /\ CopyMade' /\ MemStep
  BY <1>7, EndStep DEF Exit, At
<1>8. ASSUME NEW e \in Env, NEW p \in Page, NEW v \in Written, StoreFaults(e, p, v)
      PROVE  OneFrame' /\ CopyMade' /\ MemStep
  BY <1>8, QuietFault
<1>9. CASE UNCHANGED vars
  <2>1. PagesSame /\ Kept /\ kind' = kind /\ BuildersSame
    BY <1>9, OpStays DEF vars, PagesSame, Kept
  <2>2. VisibleSame
    BY <1>9, <2>1, VisibleKept DEF vars, Alive
  <2> QED BY <1>9, <2>1, <2>2, QuietStep DEF vars, Ready
<1> QED BY <1>1, <1>2, <1>3, <1>4, <1>5, <1>6, <1>7, <1>8, <1>9 DEF Next

LEMMA MemInit == Init => MemInv /\ M!Init
<1> SUFFICES ASSUME Init PROVE MemInv /\ M!Init
  OBVIOUS
<1>1. CowInv
  BY CowInit
<1>2. \A e \in Env, p \in Page : e # Root => pt[e][p] = Nil
  BY Places DEF Init
<1>3. OneFrame
  BY <1>2 DEF OneFrame, Mapped
<1>4. CopyMade
  BY DEF CopyMade, Ready, Init
<1>5. M!Init
  <2>1. \A f \in Env \ {Root}, p \in Page : ~Visible(f, p)
    BY <1>2 DEF Visible, Mapped
  <2>2. SharedPages \in SUBSET Page
    BY DEF SharedPages, Page
  <2> QED BY <2>1, <2>2, CowAssumption DEF M!Init, SharedPages
<1> QED BY <1>1, <1>3, <1>4, <1>5 DEF MemInv

(* fork and sfork give every environment a memory of its own, whatever     *)
(* anybody writes at whatever moment of a fork or of a page fault: a child *)
(* has each page as it was at one moment of the call, and nobody sees what *)
(* another writes but in the pages that the program shares.                *)
THEOREM ForkIsPrivateMemory == Spec => ImplementsPrivateMemory
<1>1. Init => MemInv /\ M!Init
  BY MemInit
<1>2. MemInv /\ [Next]_vars => MemInv' /\ [M!Next]_(M!vars)
  BY MemNext DEF MemStep
<1> QED BY <1>1, <1>2, PTL DEF Spec, ImplementsPrivateMemory, M!Spec
=============================================================================
