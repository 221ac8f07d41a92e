---------------------------- MODULE MallocProofs -----------------------------
(* Proofs about Malloc, for pages and a heap of any size, any mapped pages *)
(* below it and any sizes that the program asks for: blocks stay intact,   *)
(* pages get lost in one way only, and the heap is left in one way only.   *)
EXTENDS Malloc, FiniteSetTheorems, WellFoundedInduction, TLAPS

-----------------------------------------------------------------------------
(* Words and pages.                                                        *)

(* The first word of page p.                                               *)
Base(p) == p * PGSIZE

LEMMA BaseType == \A p \in Nat : Base(p) \in Nat
BY HeapAssumption DEF Base

LEMMA BaseNext == \A p \in Int : Base(p + 1) = Base(p) + PGSIZE
BY HeapAssumption DEF Base

LEMMA BaseMonotone ==
  ASSUME NEW p \in Nat, NEW q \in Nat, p < q
  PROVE  Base(p) + PGSIZE <= Base(q)
<1>1. q - p - 1 \in Nat /\ PGSIZE \in Nat
  BY HeapAssumption
<1>2. (q - p - 1) * PGSIZE >= 0
  BY <1>1
<1>3. q * PGSIZE = p * PGSIZE + PGSIZE + (q - p - 1) * PGSIZE
  BY <1>1
<1> QED BY <1>1, <1>2, <1>3 DEF Base

(* A word lies in its page, and in no other.                               *)
LEMMA PageOfWord ==
  ASSUME NEW a \in Nat
  PROVE  /\ PageOf(a) \in Nat
         /\ Base(PageOf(a)) <= a /\ a < Base(PageOf(a)) + PGSIZE
         /\ a % PGSIZE = a - Base(PageOf(a))
<1>1. PGSIZE \in Nat \ {0}
  BY HeapAssumption
<1>2. /\ a \div PGSIZE \in Nat
      /\ a = (a \div PGSIZE) * PGSIZE + (a % PGSIZE)
      /\ a % PGSIZE \in 0 .. PGSIZE - 1
  BY <1>1
<1> QED BY <1>1, <1>2 DEF PageOf, Base

LEMMA PageOfUnique ==
  ASSUME NEW a \in Nat, NEW q \in Nat, Base(q) <= a, a < Base(q) + PGSIZE
  PROVE  PageOf(a) = q
<1>1. PGSIZE \in Nat /\ Base(q) \in Nat /\ PageOf(a) \in Nat /\ Base(PageOf(a)) \in Nat
  BY HeapAssumption, BaseType, PageOfWord
<1>2. ~(PageOf(a) < q)
  BY <1>1, BaseMonotone, PageOfWord
<1>3. ~(q < PageOf(a))
  BY <1>1, BaseMonotone, PageOfWord
<1> QED BY <1>1, <1>2, <1>3

LEMMA PageOfMonotone ==
  ASSUME NEW a \in Nat, NEW b \in Nat, a <= b
  PROVE  PageOf(a) <= PageOf(b)
<1>1. PGSIZE \in Nat /\ \A x \in {a, b} : PageOf(x) \in Nat /\ Base(PageOf(x)) \in Nat
  BY HeapAssumption, BaseType, PageOfWord
<1> QED BY <1>1, BaseMonotone, PageOfWord

LEMMA PageOfBase ==
  ASSUME NEW p \in Nat
  PROVE  PageOf(Base(p)) = p /\ Base(p) % PGSIZE = 0
<1>1. PGSIZE \in Nat /\ PGSIZE > 0 /\ Base(p) \in Nat
  BY HeapAssumption, BaseType
<1>2. PageOf(Base(p)) = p
  BY <1>1, PageOfUnique
<1> QED BY <1>1, <1>2, PageOfWord

-----------------------------------------------------------------------------
(* The inductive invariant, of a heap h = [heap, cont, ref], the blocks B  *)
(* of the program and a value m of mptr.                                   *)

TypesGood(h, B, m) ==
  /\ h.cont \subseteq h.heap /\ h.heap \subseteq 0 .. End - 1
  /\ h.ref \in [h.heap \ h.cont -> Nat \ {0}]
  /\ IsFiniteSet(B) /\ B \subseteq [v : Nat, n : Nat \ {0}]
  /\ m \in 0 .. MaxPage * PGSIZE

(* The pages of a block that are its own.                                  *)
Own(b) == PageOf(b.v) .. EndPage(b) - 1

(* A block begins with pages of its own, all marked PTE_CONTINUED, and     *)
(* ends in a page with a count, which free finds behind the marks.         *)
RunsGood(h, B) ==
  \A b \in B : /\ Own(b) \subseteq h.cont
               /\ EndPage(b) \in h.heap \ h.cont

(* Blocks meet at most in the page where both end, and not in a word.      *)
BlocksApart(B) ==
  \A b, c \in B : b # c =>
    /\ Own(b) \cap (PageOf(c.v) .. EndPage(c)) = {}
    /\ Words(b) \cap Words(c) = {}

(* The open page has a count, and everything from mptr on is unused.       *)
OpenGood(h, B, m) ==
  m % PGSIZE # 0 =>
    /\ PageOf(m) \in h.heap \ h.cont
    /\ \A b \in B : EndPage(b) = PageOf(m) => b.v + b.n <= m

EndIn(B, p) == {b \in B : EndPage(b) = p}
UsedBy(B, m, p) ==
  Cardinality(EndIn(B, p)) + (IF m % PGSIZE # 0 /\ PageOf(m) = p THEN 1 ELSE 0)

(* Every page has a reference for each of its users.                       *)
CountsGood(h, B, m) == \A p \in h.heap \ h.cont : h.ref[p] >= UsedBy(B, m, p)

Good(h, B, m) ==
  /\ TypesGood(h, B, m)
  /\ RunsGood(h, B)
  /\ BlocksApart(B)
  /\ OpenGood(h, B, m)
  /\ CountsGood(h, B, m)

HeapInv == Good(Now, blocks, mptr) /\ dead \in BOOLEAN

-----------------------------------------------------------------------------
(* Blocks, and who ends in a page.                                         *)

LEMMA BlockShape ==
  ASSUME NEW b \in [v : Nat, n : Nat \ {0}]
  PROVE  /\ PageOf(b.v) \in Nat /\ EndPage(b) \in Nat /\ PageOf(b.v) <= EndPage(b)
         /\ \A w \in Words(b) : w \in Nat /\ w < b.v + b.n /\ PageOf(w) \in PageOf(b.v) .. EndPage(b)
<1>1. b.v \in Nat /\ b.n \in Nat \ {0} /\ b.v + b.n \in Nat
  OBVIOUS
<1>2. PageOf(b.v) \in Nat /\ EndPage(b) \in Nat /\ PageOf(b.v) <= EndPage(b)
  BY <1>1, PageOfWord, PageOfMonotone DEF EndPage
<1>3. ASSUME NEW w \in Words(b)
      PROVE  w \in Nat /\ w < b.v + b.n /\ PageOf(w) \in PageOf(b.v) .. EndPage(b)
  <2>1. w \in Nat /\ b.v <= w /\ w < b.v + b.n /\ w <= b.v + b.n
    BY <1>1, <1>3 DEF Words
  <2>2. PageOf(w) \in Nat /\ PageOf(b.v) <= PageOf(w) /\ PageOf(w) <= EndPage(b)
    BY <1>1, <2>1, PageOfWord, PageOfMonotone DEF EndPage
  <2> QED BY <1>2, <2>1, <2>2
<1> QED BY <1>2, <1>3

(* The pages of a block are those of its own and the one it ends in.       *)
LEMMA BlockPages ==
  ASSUME NEW b \in [v : Nat, n : Nat \ {0}], NEW q \in PageOf(b.v) .. EndPage(b)
  PROVE  q \in Own(b) \/ q = EndPage(b)
BY BlockShape DEF Own

(* A page with a count belongs to no block but those that end in it.       *)
LEMMA CountedPage ==
  ASSUME NEW h, NEW B, B \subseteq [v : Nat, n : Nat \ {0}], RunsGood(h, B), NEW b \in B,
         NEW q \in PageOf(b.v) .. EndPage(b), q \notin h.cont
  PROVE  q = EndPage(b)
BY BlockPages DEF RunsGood

LEMMA EndInFinite ==
  ASSUME NEW B, IsFiniteSet(B), NEW p
  PROVE  IsFiniteSet(EndIn(B, p)) /\ Cardinality(EndIn(B, p)) \in Nat
<1>1. IsFiniteSet(EndIn(B, p))
  BY FS_Subset DEF EndIn
<1> QED BY <1>1, FS_CardinalityType

LEMMA EndInAdd ==
  ASSUME NEW B, IsFiniteSet(B), NEW b, b \notin B, NEW p
  PROVE  Cardinality(EndIn(B \cup {b}, p)) =
           Cardinality(EndIn(B, p)) + (IF EndPage(b) = p THEN 1 ELSE 0)
<1>1. CASE EndPage(b) = p
  <2>1. EndIn(B \cup {b}, p) = EndIn(B, p) \cup {b} /\ b \notin EndIn(B, p)
    BY <1>1 DEF EndIn
  <2> QED BY <1>1, <2>1, EndInFinite, FS_AddElement
<1>2. CASE EndPage(b) # p
  <2>1. EndIn(B \cup {b}, p) = EndIn(B, p)
    BY <1>2 DEF EndIn
  <2> QED BY <1>2, <2>1, EndInFinite
<1> QED BY <1>1, <1>2

LEMMA EndInRemove ==
  ASSUME NEW B, IsFiniteSet(B), NEW b \in B, NEW p
  PROVE  Cardinality(EndIn(B \ {b}, p)) =
           Cardinality(EndIn(B, p)) - (IF EndPage(b) = p THEN 1 ELSE 0)
<1>1. CASE EndPage(b) = p
  <2>1. EndIn(B \ {b}, p) = EndIn(B, p) \ {b} /\ b \in EndIn(B, p)
    BY <1>1 DEF EndIn
  <2> QED BY <1>1, <2>1, EndInFinite, FS_RemoveElement
<1>2. CASE EndPage(b) # p
  <2>1. EndIn(B \ {b}, p) = EndIn(B, p)
    BY <1>2 DEF EndIn
  <2> QED BY <1>2, <2>1, EndInFinite
<1> QED BY <1>1, <1>2

LEMMA NoUsers ==
  ASSUME NEW B, IsFiniteSet(B), NEW m, NEW p, UsedBy(B, m, p) <= 0
  PROVE  (\A b \in B : EndPage(b) # p) /\ ~(m % PGSIZE # 0 /\ PageOf(m) = p)
<1>1. IsFiniteSet(EndIn(B, p)) /\ Cardinality(EndIn(B, p)) \in Nat
  BY EndInFinite
<1>2. Cardinality(EndIn(B, p)) = 0 /\ ~(m % PGSIZE # 0 /\ PageOf(m) = p)
  BY <1>1 DEF UsedBy
<1>3. EndIn(B, p) = {}
  BY <1>1, <1>2, FS_EmptySet
<1> QED BY <1>2, <1>3 DEF EndIn

-----------------------------------------------------------------------------
(* free                                                                    *)

(* The heap after a run P .. L has lost its first pages P .. L - 1 and one *)
(* of the references of its last page.                                     *)
Dropped(h, P, L) == (P .. L - 1) \cup (IF h.ref[L] = 1 THEN {L} ELSE {})
Freed(h, P, L) ==
  [heap |-> h.heap \ Dropped(h, P, L),
   cont |-> h.cont \ Dropped(h, P, L),
   ref  |-> [p \in DOMAIN h.ref \ Dropped(h, P, L) |-> IF p = L THEN h.ref[p] - 1 ELSE h.ref[p]]]

LEMMA LastOfRun ==
  ASSUME NEW h, NEW P \in Nat, NEW L \in Nat, P <= L, L <= MaxPage,
         P .. L - 1 \subseteq h.cont, L \notin h.cont
  PROVE  LastOf(P, h) = L
<1> DEFINE S == {q \in P .. MaxPage : q \notin h.cont}
<1>0. MaxPage \in Nat
  BY HeapAssumption
<1>1. L \in S /\ \A q \in S : L <= q
  BY <1>0
<1>2. \A x \in S : (\A q \in S : x <= q) => x = L
  BY <1>0, <1>1
<1> HIDE DEF S
<1>3. Min(S) = L
  BY <1>1, <1>2 DEF Min
<1> QED BY <1>3 DEF LastOf, S

LEMMA NewRef ==
  ASSUME NEW H, NEW C, NEW r, NEW x
  PROVE  [[heap |-> H, cont |-> C, ref |-> r] EXCEPT !.ref = x] = [heap |-> H, cont |-> C, ref |-> x]
OBVIOUS

LEMMA FreeEffect ==
  ASSUME NEW h, NEW v \in Nat, NEW L \in h.heap \ h.cont,
         h.cont \subseteq h.heap, h.heap \subseteq 0 .. End - 1,
         h.ref \in [h.heap \ h.cont -> Nat \ {0}],
         PageOf(v) <= L, PageOf(v) .. L - 1 \subseteq h.cont
  PROVE  free(v, h) = Freed(h, PageOf(v), L)
<1>0. PageOf(v) \in Nat /\ L \in Nat /\ L <= MaxPage
  BY PageOfWord, HeapAssumption
<1> DEFINE P == PageOf(v)
           S == P .. L - 1
           left == Unmap(S, h)
<1>1. LastOf(P, h) = L
  BY <1>0, LastOfRun
<1>2. free(v, h) = IF left.ref[L] = 1 THEN Unmap({L}, left)
                   ELSE [left EXCEPT !.ref = [left.ref EXCEPT ![L] = @ - 1]]
  BY <1>1 DEF free
<1>3. L \notin S /\ L \in DOMAIN h.ref /\ left.ref[L] = h.ref[L]
  BY <1>0 DEF Unmap
<1>4. CASE h.ref[L] = 1
  <2>1. Dropped(h, P, L) = S \cup {L}
    BY <1>4 DEF Dropped
  <2> HIDE DEF S, P
  <2>2. h.heap \ (S \cup {L}) = (h.heap \ S) \ {L} /\ h.cont \ (S \cup {L}) = (h.cont \ S) \ {L}
        /\ DOMAIN h.ref \ (S \cup {L}) = (DOMAIN h.ref \ S) \ {L}
    OBVIOUS
  <2>3. Unmap({L}, left) = [heap |-> (h.heap \ S) \ {L}, cont |-> (h.cont \ S) \ {L},
          ref |-> [p \in (DOMAIN h.ref \ S) \ {L} |-> h.ref[p]]]
    BY DEF Unmap
  <2>4. Freed(h, P, L) = [heap |-> (h.heap \ S) \ {L}, cont |-> (h.cont \ S) \ {L},
          ref |-> [p \in (DOMAIN h.ref \ S) \ {L} |-> h.ref[p]]]
    BY <2>1, <2>2 DEF Freed
  <2> QED BY <1>2, <1>3, <1>4, <2>3, <2>4 DEF P
<1>5. CASE h.ref[L] # 1
  <2>1. Dropped(h, P, L) = S
    BY <1>5 DEF Dropped
  <2> HIDE DEF S, P
  <2>2. [left EXCEPT !.ref = [left.ref EXCEPT ![L] = @ - 1]] =
          [heap |-> h.heap \ S, cont |-> h.cont \ S,
           ref |-> [p \in DOMAIN h.ref \ S |-> IF p = L THEN h.ref[p] - 1 ELSE h.ref[p]]]
    <3> DEFINE r == [p \in DOMAIN h.ref \ S |-> h.ref[p]]
               x == [r EXCEPT ![L] = r[L] - 1]
    <3>1. left = [heap |-> h.heap \ S, cont |-> h.cont \ S, ref |-> r]
      BY DEF Unmap
    <3>2. x = [p \in DOMAIN h.ref \ S |-> IF p = L THEN h.ref[p] - 1 ELSE h.ref[p]]
      BY <1>3
    <3>3. [left.ref EXCEPT ![L] = @ - 1] = x
      BY <3>1
    <3> HIDE DEF x, r, left
    <3>4. [left EXCEPT !.ref = x] = [heap |-> h.heap \ S, cont |-> h.cont \ S, ref |-> x]
      BY <3>1, NewRef, Zenon
    <3> QED BY <3>2, <3>3, <3>4
  <2> QED BY <1>2, <1>3, <1>5, <2>1, <2>2 DEF Freed, P
<1> QED BY <1>4, <1>5

(* Freeing a run keeps the heap good if it had one user, in its last page, *)
(* more than it has now, and its other pages had no user but that one.     *)
LEMMA FreedGood ==
  ASSUME NEW h, NEW B, NEW m, Good(h, B, m),
         NEW P \in Nat, NEW L \in h.heap \ h.cont, P <= L, P .. L - 1 \subseteq h.cont,
         NEW B2 \in SUBSET B, NEW m2 \in 0 .. MaxPage * PGSIZE,
         \A c \in B2 : (P .. L - 1) \cap (PageOf(c.v) .. EndPage(c)) = {},
         OpenGood(h, B2, m2),
         UsedBy(B2, m2, L) = UsedBy(B, m, L) - 1,
         \A p \in h.heap \ h.cont : p # L => UsedBy(B2, m2, p) <= UsedBy(B, m, p)
  PROVE  Good(Freed(h, P, L), B2, m2)
<1> DEFINE g == Freed(h, P, L)
           D == Dropped(h, P, L)
<1>1. /\ h.cont \subseteq h.heap /\ h.heap \subseteq 0 .. End - 1
      /\ h.ref \in [h.heap \ h.cont -> Nat \ {0}]
      /\ IsFiniteSet(B) /\ B \subseteq [v : Nat, n : Nat \ {0}]
  BY DEF Good, TypesGood
<1>2. g.heap = h.heap \ D /\ g.cont = h.cont \ D
      /\ g.ref = [p \in DOMAIN h.ref \ D |-> IF p = L THEN h.ref[p] - 1 ELSE h.ref[p]]
  BY DEF Freed
<1>3. g.heap \ g.cont = (h.heap \ h.cont) \ D
  BY <1>2
<1>4. IsFiniteSet(B2) /\ B2 \subseteq [v : Nat, n : Nat \ {0}]
  BY <1>1, FS_Subset
<1>5. L \in Nat /\ L \in DOMAIN h.ref /\ h.ref[L] \in Nat \ {0}
  BY <1>1
<1>6. L \in D <=> h.ref[L] = 1
  BY <1>5 DEF Dropped
<1>7. \A q : q \in D <=> q \in P .. L - 1 \/ (q = L /\ h.ref[L] = 1)
  BY DEF Dropped
<1>8. h.ref[L] >= UsedBy(B, m, L)
  BY DEF Good, CountsGood
<1>9. \A p : UsedBy(B, m, p) \in Nat /\ UsedBy(B2, m2, p) \in Nat
  BY <1>1, <1>4, EndInFinite DEF UsedBy
<1>10. h.ref[L] = 1 => UsedBy(B2, m2, L) <= 0
  BY <1>8, <1>9
<1>11. h.ref[L] = 1 => (\A b \in B2 : EndPage(b) # L) /\ ~(m2 % PGSIZE # 0 /\ PageOf(m2) = L)
  BY <1>4, <1>10, NoUsers
<1> HIDE DEF g, D
<1>12. TypesGood(g, B2, m2)
  <2>1. g.cont \subseteq g.heap /\ g.heap \subseteq 0 .. End - 1
    BY <1>1, <1>2
  <2>2. DOMAIN h.ref \ D = g.heap \ g.cont
    BY <1>1, <1>3
  <2>3. ASSUME NEW p \in DOMAIN h.ref \ D
        PROVE  (IF p = L THEN h.ref[p] - 1 ELSE h.ref[p]) \in Nat \ {0}
    BY <1>1, <1>5, <1>6, <2>3
  <2>4. g.ref \in [g.heap \ g.cont -> Nat \ {0}]
    BY <1>2, <2>2, <2>3
  <2> QED BY <1>4, <2>1, <2>4 DEF TypesGood
<1>13. RunsGood(g, B2)
  <2> SUFFICES ASSUME NEW b \in B2 PROVE Own(b) \subseteq g.cont /\ EndPage(b) \in g.heap \ g.cont
    BY DEF RunsGood
  <2>1. Own(b) \subseteq h.cont /\ EndPage(b) \in h.heap \ h.cont
    BY DEF Good, RunsGood
  <2>2. Own(b) \subseteq PageOf(b.v) .. EndPage(b) /\ EndPage(b) \in PageOf(b.v) .. EndPage(b)
    BY <1>4, BlockShape DEF Own
  <2>3. \A q \in Own(b) : q \notin D
    BY <1>7, <2>1, <2>2
  <2>4. EndPage(b) \notin D
    BY <1>7, <1>11, <2>2
  <2> QED BY <1>2, <2>1, <2>3, <2>4
<1>14. BlocksApart(B2)
  BY DEF Good, BlocksApart
<1>15. OpenGood(g, B2, m2)
  <2> SUFFICES ASSUME m2 % PGSIZE # 0 PROVE PageOf(m2) \in g.heap \ g.cont
    BY DEF OpenGood
  <2>1. PageOf(m2) \in h.heap \ h.cont
    BY DEF OpenGood
  <2>2. PageOf(m2) \notin D
    BY <1>7, <1>11, <2>1
  <2> QED BY <1>3, <2>1, <2>2
<1>16. CountsGood(g, B2, m2)
  <2> SUFFICES ASSUME NEW p \in g.heap \ g.cont PROVE g.ref[p] >= UsedBy(B2, m2, p)
    BY DEF CountsGood
  <2>1. /\ p \in h.heap \ h.cont /\ p \in DOMAIN h.ref \ D /\ h.ref[p] \in Nat
        /\ h.ref[p] >= UsedBy(B, m, p)
    BY <1>1, <1>3 DEF Good, CountsGood
  <2>2. g.ref[p] = IF p = L THEN h.ref[p] - 1 ELSE h.ref[p]
    BY <1>2, <2>1
  <2> QED BY <1>9, <2>1, <2>2
<1> QED BY <1>12, <1>13, <1>14, <1>15, <1>16 DEF Good, g

(* free of a block that the program holds.                                 *)
LEMMA FreeBlockGood ==
  ASSUME NEW h, NEW B, NEW m, Good(h, B, m), NEW b \in B
  PROVE  /\ free(b.v, h) = Freed(h, PageOf(b.v), EndPage(b))
         /\ Good(free(b.v, h), B \ {b}, m)
         /\ EndPage(b) \in h.heap \ h.cont
<1> DEFINE P == PageOf(b.v)
           L == EndPage(b)
<1>1. /\ h.cont \subseteq h.heap /\ h.heap \subseteq 0 .. End - 1
      /\ h.ref \in [h.heap \ h.cont -> Nat \ {0}]
      /\ IsFiniteSet(B) /\ B \subseteq [v : Nat, n : Nat \ {0}]
      /\ m \in 0 .. MaxPage * PGSIZE
  BY DEF Good, TypesGood
<1>2. P \in Nat /\ L \in Nat /\ P <= L /\ b.v \in Nat
  BY <1>1, BlockShape
<1>3. L \in h.heap \ h.cont /\ P .. L - 1 \subseteq h.cont
  BY DEF Good, RunsGood, Own
<1>4. \A c \in B \ {b} : (P .. L - 1) \cap (PageOf(c.v) .. EndPage(c)) = {}
  BY DEF Good, BlocksApart, Own
<1>5. OpenGood(h, B \ {b}, m)
  BY DEF Good, OpenGood
<1>6. \A p : Cardinality(EndIn(B, p)) \in Nat
             /\ Cardinality(EndIn(B \ {b}, p)) =
                  Cardinality(EndIn(B, p)) - (IF EndPage(b) = p THEN 1 ELSE 0)
  BY <1>1, EndInFinite, EndInRemove
<1>7. UsedBy(B \ {b}, m, L) = UsedBy(B, m, L) - 1
  BY <1>6 DEF UsedBy
<1>8. \A p \in h.heap \ h.cont : p # L => UsedBy(B \ {b}, m, p) <= UsedBy(B, m, p)
  <2> SUFFICES ASSUME NEW p, p # L PROVE UsedBy(B \ {b}, m, p) <= UsedBy(B, m, p)
    OBVIOUS
  <2>1. /\ Cardinality(EndIn(B, p)) \in Nat
        /\ Cardinality(EndIn(B \ {b}, p)) = Cardinality(EndIn(B, p))
    BY <1>6
  <2> QED BY <2>1 DEF UsedBy
<1>9. free(b.v, h) = Freed(h, P, L)
  BY <1>1, <1>2, <1>3, FreeEffect
<1> HIDE DEF P, L
<1>10. Good(Freed(h, P, L), B \ {b}, m)
  BY <1>1, <1>2, <1>3, <1>4, <1>5, <1>7, <1>8, FreedGood
<1> QED BY <1>3, <1>9, <1>10 DEF P, L

(* malloc gives up the open page, and mptr goes elsewhere, to the start of *)
(* some page.                                                              *)
LEMMA CloseGood ==
  ASSUME NEW h, NEW B, NEW m, Good(h, B, m), m % PGSIZE # 0,
         NEW m2 \in 0 .. MaxPage * PGSIZE, m2 % PGSIZE = 0
  PROVE  /\ free(m, h) = Freed(h, PageOf(m), PageOf(m))
         /\ Good(free(m, h), B, m2)
         /\ PageOf(m) \in h.heap \ h.cont
<1> DEFINE L == PageOf(m)
<1>1. /\ h.cont \subseteq h.heap /\ h.heap \subseteq 0 .. End - 1
      /\ h.ref \in [h.heap \ h.cont -> Nat \ {0}]
      /\ IsFiniteSet(B) /\ B \subseteq [v : Nat, n : Nat \ {0}]
      /\ m \in 0 .. MaxPage * PGSIZE
  BY DEF Good, TypesGood
<1>2. m \in Nat /\ L \in Nat
  BY <1>1, PageOfWord
<1>3. L \in h.heap \ h.cont /\ L .. L - 1 = {}
  BY <1>2 DEF Good, OpenGood
<1>5. OpenGood(h, B, m2)
  BY DEF OpenGood
<1>6. \A p : Cardinality(EndIn(B, p)) \in Nat
  BY <1>1, EndInFinite
<1>7. UsedBy(B, m2, L) = UsedBy(B, m, L) - 1
  BY <1>6 DEF UsedBy
<1>8. \A p \in h.heap \ h.cont : p # L => UsedBy(B, m2, p) <= UsedBy(B, m, p)
  BY <1>6 DEF UsedBy
<1>9. free(m, h) = Freed(h, L, L)
  BY <1>1, <1>2, <1>3, FreeEffect
<1> HIDE DEF L
<1>10. Good(Freed(h, L, L), B, m2)
  BY <1>1, <1>2, <1>3, <1>5, <1>7, <1>8, FreedGood
<1> QED BY <1>3, <1>9, <1>10 DEF L

-----------------------------------------------------------------------------
(* malloc                                                                  *)

LEMMA FewerGood ==
  ASSUME NEW h, NEW B, NEW m, Good(h, B, m), NEW B2 \in SUBSET B
  PROVE  Good(h, B2, m)
<1>1. IsFiniteSet(B) /\ IsFiniteSet(B2)
  BY FS_Subset DEF Good, TypesGood
<1>2. \A p : /\ Cardinality(EndIn(B2, p)) <= Cardinality(EndIn(B, p))
             /\ Cardinality(EndIn(B2, p)) \in Nat /\ Cardinality(EndIn(B, p)) \in Nat
  <2> TAKE p
  <2>1. EndIn(B2, p) \in SUBSET EndIn(B, p)
    BY DEF EndIn
  <2> QED BY <1>1, <2>1, EndInFinite, FS_Subset
<1>3. CountsGood(h, B2, m)
  <2> SUFFICES ASSUME NEW p \in h.heap \ h.cont PROVE h.ref[p] >= UsedBy(B2, m, p)
    BY DEF CountsGood
  <2>1. h.ref[p] \in Nat /\ h.ref[p] >= UsedBy(B, m, p)
    BY DEF Good, TypesGood, CountsGood
  <2>2. UsedBy(B2, m, p) <= UsedBy(B, m, p) /\ UsedBy(B2, m, p) \in Nat /\ UsedBy(B, m, p) \in Nat
    BY <1>2 DEF UsedBy
  <2> QED BY <2>1, <2>2
<1> QED BY <1>1, <1>3 DEF Good, TypesGood, RunsGood, BlocksApart, OpenGood

(* Without an open page it does not matter where mptr is.                  *)
LEMMA ElsewhereGood ==
  ASSUME NEW h, NEW B, NEW m, Good(h, B, m), m % PGSIZE = 0,
         NEW m2 \in 0 .. MaxPage * PGSIZE, m2 % PGSIZE = 0
  PROVE  Good(h, B, m2)
<1>1. \A p : UsedBy(B, m2, p) = UsedBy(B, m, p)
  BY DEF UsedBy
<1>2. CountsGood(h, B, m2)
  BY <1>1 DEF Good, CountsGood
<1> QED BY <1>2 DEF Good, TypesGood, OpenGood

LEMMA PageEnd ==
  ASSUME NEW q \in 0 .. End - 1, NEW a \in Nat, PageOf(a) = q
  PROVE  a \in 0 .. MaxPage * PGSIZE
<1>1. q \in Nat /\ MaxPage \in Nat /\ q < MaxPage /\ PGSIZE \in Nat
  BY HeapAssumption
<1>2. Base(q) + PGSIZE <= Base(MaxPage) /\ Base(q) \in Nat /\ Base(MaxPage) \in Nat
  BY <1>1, BaseMonotone, BaseType
<1>3. a < Base(q) + PGSIZE
  BY PageOfWord
<1>4. a <= Base(MaxPage)
  BY <1>1, <1>2, <1>3
<1> QED BY <1>2, <1>4 DEF Base

(* A chunk behind mptr is one more user of the open page.                  *)
OneMoreUser(B, m, n) ==
  \A p : UsedBy(B \cup {[v |-> m, n |-> n]}, m + n, p) =
           UsedBy(B, m, p) + (IF p = PageOf(m) THEN 1 ELSE 0)

(* A chunk that fits in the open page, and leaves room for the count.      *)
LEMMA ExtendGood ==
  ASSUME NEW h, NEW B, NEW m, Good(h, B, m), m % PGSIZE # 0, NEW n \in Nat \ {0},
         PageOf(m) = PageOf(m + n), NEW g, g.heap = h.heap, g.cont = h.cont,
         g.ref = [h.ref EXCEPT ![PageOf(m)] = @ + 1]
  PROVE  /\ Good(g, B \cup {[v |-> m, n |-> n]}, m + n)
         /\ OneMoreUser(B, m, n)
<1> DEFINE q == PageOf(m)
           b == [v |-> m, n |-> n]
           B2 == B \cup {b}
<1>1. /\ h.cont \subseteq h.heap /\ h.heap \subseteq 0 .. End - 1
      /\ h.ref \in [h.heap \ h.cont -> Nat \ {0}]
      /\ IsFiniteSet(B) /\ B \subseteq [v : Nat, n : Nat \ {0}]
      /\ m \in Nat
  BY DEF Good, TypesGood
<1>2. /\ q \in h.heap \ h.cont /\ q \in 0 .. End - 1 /\ q \in Nat
      /\ \A c \in B : EndPage(c) = q => c.v + c.n <= m
  BY <1>1 DEF Good, OpenGood
<1>3. m + n \in Nat /\ PageOf(m + n) = q /\ EndPage(b) = q /\ b.v = m /\ b.n = n
      /\ b \in [v : Nat, n : Nat \ {0}]
  BY <1>1 DEF EndPage
<1>4. m + n \in 0 .. MaxPage * PGSIZE
  BY <1>2, <1>3, PageEnd
<1>5. (m + n) % PGSIZE # 0
  <2>1. Base(q) \in Nat /\ m - Base(q) # 0 /\ m >= Base(q) /\ (m + n) % PGSIZE = m + n - Base(q)
    BY <1>1, <1>2, <1>3, PageOfWord, BaseType
  <2> QED BY <1>1, <2>1
<1>6. b \notin B
  BY <1>1, <1>2, <1>3
<1>7. \A p : Cardinality(EndIn(B, p)) \in Nat
             /\ Cardinality(EndIn(B2, p)) = Cardinality(EndIn(B, p)) + (IF q = p THEN 1 ELSE 0)
  BY <1>1, <1>3, <1>6, EndInFinite, EndInAdd
<1>8. IsFiniteSet(B2)
  BY <1>1, FS_AddElement
<1> HIDE DEF b, q
<1>9. \A p : UsedBy(B2, m + n, p) = UsedBy(B, m, p) + (IF p = q THEN 1 ELSE 0)
             /\ UsedBy(B, m, p) \in Nat
  <2> TAKE p
  <2>1. Cardinality(EndIn(B, p)) \in Nat
        /\ Cardinality(EndIn(B2, p)) = Cardinality(EndIn(B, p)) + (IF q = p THEN 1 ELSE 0)
    BY <1>7
  <2>2. (m + n) % PGSIZE # 0 /\ m % PGSIZE # 0 /\ PageOf(m + n) = q /\ PageOf(m) = q
    BY <1>3, <1>5 DEF q
  <2> QED BY <2>1, <2>2 DEF UsedBy
<1> HIDE DEF B2
<1>10. TypesGood(g, B2, m + n)
  <2>1. g.ref \in [g.heap \ g.cont -> Nat \ {0}]
    BY <1>1, <1>2 DEF q
  <2> QED BY <1>1, <1>3, <1>4, <1>8, <2>1 DEF TypesGood, B2
<1>11. Own(b) = {} /\ PageOf(b.v) .. EndPage(b) = {q}
  BY <1>2, <1>3 DEF Own, q
<1>12. RunsGood(g, B2)
  BY <1>2, <1>3, <1>11 DEF Good, RunsGood, B2
<1>13. \A c \in B : Own(c) \cap {q} = {} /\ Words(b) \cap Words(c) = {}
  <2> SUFFICES ASSUME NEW c \in B PROVE q \notin Own(c) /\ \A w \in Words(b) : w \notin Words(c)
    OBVIOUS
  <2>1. q \notin Own(c)
    BY <1>2 DEF Good, RunsGood
  <2>2. ASSUME NEW w \in Words(b), w \in Words(c) PROVE FALSE
    <3>1. PageOf(w) = q /\ w >= m
      BY <1>1, <1>2, <1>3, <1>11, BlockShape DEF Words
    <3>2. w < c.v + c.n /\ q \in PageOf(c.v) .. EndPage(c) /\ w \in Nat
      BY <1>1, <2>2, <3>1, BlockShape
    <3>3. RunsGood(h, B)
      BY DEF Good
    <3>4. q = EndPage(c)
      BY <1>1, <1>2, <3>2, <3>3, CountedPage
    <3> QED BY <1>1, <1>2, <3>1, <3>2, <3>4
  <2> QED BY <2>1, <2>2
<1>14. BlocksApart(B2)
  BY <1>11, <1>13 DEF Good, BlocksApart, B2
<1>15. OpenGood(g, B2, m + n)
  <2>1. \A c \in B2 : EndPage(c) = q => c.v + c.n <= m + n
    BY <1>1, <1>2, <1>3 DEF B2
  <2> QED BY <1>2, <1>3, <2>1 DEF OpenGood
<1>16. CountsGood(g, B2, m + n)
  <2> SUFFICES ASSUME NEW p \in g.heap \ g.cont PROVE g.ref[p] >= UsedBy(B2, m + n, p)
    BY DEF CountsGood
  <2>1. h.ref[p] \in Nat /\ h.ref[p] >= UsedBy(B, m, p)
    BY <1>1 DEF Good, CountsGood
  <2>2. g.ref[p] = IF p = q THEN h.ref[p] + 1 ELSE h.ref[p]
    BY <1>1 DEF q
  <2> QED BY <1>9, <2>1, <2>2
<1>17. Good(g, B2, m + n)
  BY <1>10, <1>12, <1>14, <1>15, <1>16 DEF Good
<1> QED BY <1>9, <1>17 DEF B2, b, q, OneMoreUser

(* New pages, all of them free before.                                     *)
FreeRun(h, p, n) == \A q \in p .. PageOf(Base(p) + n) : q < End /\ q \notin h.heap

RunIs(g, h, p, last) ==
  /\ last \in Nat /\ p <= last
  /\ g.heap = h.heap \cup (p .. last)
  /\ g.cont = h.cont \cup (p .. last - 1)
  /\ g.ref = [q \in DOMAIN h.ref \cup {last} |-> IF q = last THEN 2 ELSE h.ref[q]]

LEMMA RunEffect ==
  ASSUME NEW h, NEW p \in Nat, NEW n \in Nat \ {0}, NEW last, last = PageOf(Base(p) + n)
  PROVE  /\ RunIs(Run(p, n, h), h, p, last)
         /\ Pages(p * PGSIZE, n + 1) = p .. last
<1>1. Base(p) \in Nat /\ PageOf(Base(p)) = p /\ Base(p) + n \in Nat /\ Base(p) <= Base(p) + n
  BY BaseType, PageOfBase
<1>2. last \in Nat /\ p <= last
  BY <1>1, PageOfWord, PageOfMonotone
<1>3. p * PGSIZE = Base(p)
  BY DEF Base
<1>4. Base(p) + (n + 1) - 1 = Base(p) + n
  BY <1>1
<1>5. Pages(Base(p), n + 1) = p .. last
  BY <1>1, <1>4 DEF Pages
<1>6. (p .. last) \ {last} = p .. last - 1
  BY <1>2
<1>7. Run(p, n, h) =
        [heap |-> h.heap \cup (p .. last), cont |-> h.cont \cup ((p .. last) \ {last}),
         ref |-> [q \in DOMAIN h.ref \cup {last} |-> IF q = last THEN 2 ELSE h.ref[q]]]
  BY <1>3, <1>5, Zenon DEF Run
<1> QED BY <1>2, <1>3, <1>5, <1>6, <1>7 DEF RunIs

(* The users of a new run are the block and, if there is room behind it,   *)
(* mptr; the old pages keep theirs.                                        *)
RunUsers(h, B, m, B2, m2) ==
  /\ \A q \in h.heap \ h.cont : UsedBy(B2, m2, q) = UsedBy(B, m, q)
  /\ UsedBy(B2, m2, PageOf(m2)) = 1 + (IF m2 % PGSIZE # 0 THEN 1 ELSE 0)

LEMMA RunGood ==
  ASSUME NEW h, NEW B, NEW m, Good(h, B, m), m % PGSIZE = 0,
         NEW p \in Nat, NEW n \in Nat \ {0}, FreeRun(h, p, n)
  PROVE  /\ Good(Run(p, n, h), B \cup {[v |-> Base(p), n |-> n]}, Base(p) + n)
         /\ RunUsers(h, B, m, B \cup {[v |-> Base(p), n |-> n]}, Base(p) + n)
<1> DEFINE g == Run(p, n, h)
           m2 == Base(p) + n
           b == [v |-> Base(p), n |-> n]
           B2 == B \cup {b}
           last == PageOf(m2)
<1>1. /\ h.cont \subseteq h.heap /\ h.heap \subseteq 0 .. End - 1
      /\ h.ref \in [h.heap \ h.cont -> Nat \ {0}]
      /\ IsFiniteSet(B) /\ B \subseteq [v : Nat, n : Nat \ {0}]
      /\ RunsGood(h, B)
  BY DEF Good, TypesGood
<1>2. Base(p) \in Nat /\ PageOf(Base(p)) = p /\ m2 \in Nat
  BY BaseType, PageOfBase
<1>3. /\ last \in Nat /\ p <= last
      /\ g.heap = h.heap \cup (p .. last)
      /\ g.cont = h.cont \cup (p .. last - 1)
      /\ g.ref = [q \in DOMAIN h.ref \cup {last} |-> IF q = last THEN 2 ELSE h.ref[q]]
  <2> HIDE DEF g, last
  <2>1. last = PageOf(Base(p) + n) /\ g = Run(p, n, h)
    BY DEF last, g
  <2>2. RunIs(g, h, p, last)
    BY <2>1, RunEffect
  <2> QED BY <2>2 DEF RunIs
<1>4. \A q \in p .. last : q \in 0 .. End - 1 /\ q \notin h.heap
  BY <1>3, HeapAssumption DEF FreeRun
<1>5. last \in p .. last /\ last \notin p .. last - 1
  BY <1>3
<1>6. g.heap \ g.cont = (h.heap \ h.cont) \cup {last}
  BY <1>1, <1>3, <1>4, <1>5
<1>7. /\ b \in [v : Nat, n : Nat \ {0}] /\ b.v = Base(p) /\ b.n = n
      /\ EndPage(b) = last /\ Own(b) = p .. last - 1 /\ PageOf(b.v) .. EndPage(b) = p .. last
  BY <1>2 DEF EndPage, Own
<1> HIDE DEF g, m2, b, B2, last
<1>8. \A c \in B : \A q \in PageOf(c.v) .. EndPage(c) : q \in h.heap
  <2> SUFFICES ASSUME NEW c \in B, NEW q \in PageOf(c.v) .. EndPage(c) PROVE q \in h.heap
    OBVIOUS
  <2>1. q \in Own(c) \/ q = EndPage(c)
    BY <1>1, BlockPages
  <2> QED BY <1>1, <2>1 DEF RunsGood
<1>9. \A c \in B : EndPage(c) \in PageOf(c.v) .. EndPage(c) /\ Own(c) \subseteq PageOf(c.v) .. EndPage(c)
  BY <1>1, BlockShape DEF Own
<1>10. \A c \in B : EndPage(c) # last
  BY <1>4, <1>5, <1>8, <1>9
<1>11. b \notin B
  BY <1>7, <1>10
<1>12. \A q : Cardinality(EndIn(B, q)) \in Nat
             /\ Cardinality(EndIn(B2, q)) = Cardinality(EndIn(B, q)) + (IF last = q THEN 1 ELSE 0)
  BY <1>1, <1>7, <1>11, EndInFinite, EndInAdd DEF B2
<1>13. Cardinality(EndIn(B, last)) = 0
  <2>1. EndIn(B, last) = {}
    BY <1>10 DEF EndIn
  <2> QED BY <2>1, FS_EmptySet
<1>14. UsedBy(B2, m2, last) = 1 + (IF m2 % PGSIZE # 0 THEN 1 ELSE 0)
  <2>1. Cardinality(EndIn(B2, last)) = 1
    BY <1>12, <1>13
  <2> QED BY <2>1 DEF UsedBy, last
<1>15. \A q \in h.heap \ h.cont : UsedBy(B2, m2, q) = UsedBy(B, m, q)
  <2> SUFFICES ASSUME NEW q \in h.heap \ h.cont PROVE UsedBy(B2, m2, q) = UsedBy(B, m, q)
    OBVIOUS
  <2>1. q # last
    BY <1>4, <1>5
  <2>2. Cardinality(EndIn(B2, q)) = Cardinality(EndIn(B, q)) /\ Cardinality(EndIn(B, q)) \in Nat
    BY <1>12, <2>1
  <2> QED BY <2>1, <2>2 DEF UsedBy, last
<1>16. TypesGood(g, B2, m2)
  <2>1. g.cont \subseteq g.heap /\ g.heap \subseteq 0 .. End - 1
    BY <1>1, <1>3, <1>4
  <2>2. g.ref \in [g.heap \ g.cont -> Nat \ {0}]
    <3>1. DOMAIN h.ref \cup {last} = g.heap \ g.cont
      BY <1>1, <1>6
    <3>2. \A q \in DOMAIN h.ref \cup {last} : (IF q = last THEN 2 ELSE h.ref[q]) \in Nat \ {0}
      BY <1>1
    <3> QED BY <1>3, <3>1, <3>2
  <2>3. IsFiniteSet(B2) /\ B2 \subseteq [v : Nat, n : Nat \ {0}]
    BY <1>1, <1>7, FS_AddElement DEF B2
  <2>4. m2 \in 0 .. MaxPage * PGSIZE
    BY <1>2, <1>4, <1>5, PageEnd DEF last
  <2> QED BY <2>1, <2>2, <2>3, <2>4 DEF TypesGood
<1>17. RunsGood(g, B2)
  <2>1. Own(b) \subseteq g.cont /\ EndPage(b) \in g.heap \ g.cont
    BY <1>3, <1>6, <1>7
  <2>2. \A c \in B : Own(c) \subseteq g.cont /\ EndPage(c) \in g.heap \ g.cont
    BY <1>1, <1>3, <1>6 DEF RunsGood
  <2> QED BY <2>1, <2>2 DEF RunsGood, B2
<1>18. ASSUME NEW c \in B
       PROVE  /\ Own(b) \cap (PageOf(c.v) .. EndPage(c)) = {}
              /\ Own(c) \cap (PageOf(b.v) .. EndPage(b)) = {}
              /\ Words(b) \cap Words(c) = {}
  <2>1. \A q \in PageOf(b.v) .. EndPage(b) : q \notin PageOf(c.v) .. EndPage(c)
    BY <1>4, <1>7, <1>8
  <2>2. Own(b) \subseteq PageOf(b.v) .. EndPage(b)
    BY <1>7, BlockShape DEF Own
  <2>3. \A w \in Words(b) : w \notin Words(c)
    BY <1>1, <1>7, <2>1, BlockShape
  <2> QED BY <1>9, <2>1, <2>2, <2>3
<1>19. BlocksApart(B2)
  BY <1>18 DEF Good, BlocksApart, B2
<1>20. OpenGood(g, B2, m2)
  <2>1. \A c \in B2 : EndPage(c) = last => c.v + c.n <= m2
    BY <1>2, <1>7, <1>10 DEF B2, m2
  <2>2. last \in g.heap \ g.cont
    BY <1>6
  <2> QED BY <2>1, <2>2 DEF OpenGood, last
<1>21. CountsGood(g, B2, m2)
  <2> SUFFICES ASSUME NEW q \in g.heap \ g.cont PROVE g.ref[q] >= UsedBy(B2, m2, q)
    BY DEF CountsGood
  <2>1. CASE q = last
    BY <1>3, <1>14, <2>1
  <2>2. CASE q # last
    <3>1. q \in h.heap \ h.cont /\ q \in DOMAIN h.ref
      BY <1>1, <1>6, <2>2
    <3>2. g.ref[q] = h.ref[q] /\ h.ref[q] >= UsedBy(B, m, q)
      BY <1>3, <2>2, <3>1 DEF Good, CountsGood
    <3> QED BY <1>15, <3>1, <3>2
  <2> QED BY <2>1, <2>2
<1>22. Good(g, B2, m2)
  BY <1>16, <1>17, <1>19, <1>20, <1>21 DEF Good
<1>23. RunUsers(h, B, m, B2, m2)
  BY <1>14, <1>15 DEF RunUsers, last
<1> QED BY <1>22, <1>23 DEF g, m2, b, B2

LEMMA MinIn ==
  ASSUME NEW S \in SUBSET Nat, S # {}
  PROVE  Min(S) \in S /\ \A y \in S : Min(S) <= y
<1> DEFINE R == {ss \in Nat \X Nat : ss[1] < ss[2]}
<1>1. IsWellFoundedOn(R, Nat)
  BY NatLessThanWellFounded DEF OpToRel
<1> HIDE DEF R
<1>2. PICK x \in S : \A y \in S : ~(<<y, x>> \in R)
  BY <1>1, WFMin
<1>3. ASSUME NEW y \in S PROVE x <= y
  <2>1. x \in Nat /\ y \in Nat
    OBVIOUS
  <2>2. y < x => <<y, x>> \in R
    BY <2>1 DEF R
  <2> QED BY <1>2, <2>1, <2>2
<1> QED BY <1>3 DEF Min

-----------------------------------------------------------------------------
(* The search for free pages.                                              *)

LEMMA SmallMod == ASSUME NEW x \in Nat, NEW k \in Nat, x < k PROVE x % k = x
OBVIOUS

LEMMA AnyMod == ASSUME NEW x \in Nat, NEW k \in Nat \ {0} PROVE x % k \in 0 .. k - 1
OBVIOUS

(* Where malloc starts: mptr, or mbegin in the first call.                 *)
StartsAt(a) ==
  /\ a \in Nat /\ a <= Base(MaxPage)
  /\ a % PGSIZE # 0 <=> mptr % PGSIZE # 0
  /\ a % PGSIZE # 0 => a = mptr
  /\ a % PGSIZE = 0 => a = Base(PageOf(a))

LEMMA AtFacts ==
  ASSUME Good(Now, blocks, mptr)
  PROVE  StartsAt(At)
<1>1. /\ mptr \in Nat /\ mptr <= Base(MaxPage) /\ Base(Begin) \in Nat /\ Begin \in Nat
      /\ Base(MaxPage) \in Nat /\ PGSIZE \in Nat \ {0}
  BY BaseType, HeapAssumption DEF Good, TypesGood, Base
<1>2. CASE mptr = 0
  <2>1. At = Base(Begin)
    BY <1>2 DEF At, mbegin, Base
  <2>2. Base(Begin) + PGSIZE <= Base(MaxPage)
    BY HeapAssumption, BaseMonotone
  <2>3. Base(Begin) % PGSIZE = 0 /\ PageOf(Base(Begin)) = Begin
    BY <1>1, PageOfBase
  <2>4. mptr % PGSIZE = 0
    BY <1>1, <1>2, SmallMod
  <2> QED BY <1>1, <2>1, <2>2, <2>3, <2>4 DEF StartsAt
<1>3. CASE mptr # 0
  <2>1. At = mptr
    BY <1>3 DEF At
  <2>2. mptr % PGSIZE = 0 => mptr = Base(PageOf(mptr))
    <3>1. PageOf(mptr) \in Nat /\ mptr % PGSIZE = mptr - Base(PageOf(mptr))
      BY <1>1, PageOfWord
    <3>2. Base(PageOf(mptr)) \in Nat
      BY <3>1, BaseType
    <3> QED BY <1>1, <3>1, <3>2
  <2> QED BY <1>1, <2>1, <2>2 DEF StartsAt
<1> QED BY <1>2, <1>3

LEMMA FromFacts ==
  ASSUME Good(Now, blocks, mptr)
  PROVE  From \in 0 .. MaxPage
<1>1. StartsAt(At)
  BY AtFacts
<1>2. /\ At \in Nat /\ PageOf(At) \in Nat /\ At <= Base(MaxPage)
      /\ MaxPage \in Nat /\ End \in Nat /\ End < MaxPage /\ PGSIZE \in Nat \ {0}
  BY <1>1, PageOfWord, HeapAssumption DEF StartsAt
<1>3. CASE At % PGSIZE # 0
  <2>1. PageOf(At) \in 0 .. End - 1
    BY <1>1, <1>3 DEF StartsAt, Good, OpenGood, TypesGood, Now
  <2> QED BY <1>2, <1>3, <2>1 DEF From
<1>4. CASE At % PGSIZE = 0
  <2>1. ~(MaxPage < PageOf(At))
    <3>1. MaxPage < PageOf(At) => Base(MaxPage) + PGSIZE <= Base(PageOf(At))
      BY <1>2, BaseMonotone
    <3>2. Base(PageOf(At)) <= At /\ Base(PageOf(At)) \in Nat /\ Base(MaxPage) \in Nat
      BY <1>2, PageOfWord, BaseType
    <3> QED BY <1>2, <3>1, <3>2
  <2> QED BY <1>2, <1>4, <2>1 DEF From
<1> QED BY <1>2, <1>3, <1>4

LEMMA VisitFacts ==
  ASSUME Good(Now, blocks, mptr), NEW k \in 0 .. Visits - 1
  PROVE  /\ Visit(k) \in 0 .. MaxPage - 1
         /\ From \in Begin .. End - 1 => Visit(k) \in Begin .. End - 1
<1>1. /\ From \in Nat /\ From <= MaxPage
      /\ MaxPage \in Nat \ {0} /\ End \in Nat /\ Begin \in Nat /\ Begin < End /\ End < MaxPage
      /\ k \in Nat
  BY FromFacts, HeapAssumption DEF Visits
<1>2. CASE From < End
  <2>1. k < (End - From) + (End - Begin)
    BY <1>1, <1>2 DEF Visits
  <2>2. Visit(k) = IF k < End - From THEN (From + k) % MaxPage ELSE Begin + k - (End - From)
    BY <1>2 DEF Visit
  <2>3. CASE k < End - From
    <3>1. From + k \in Nat /\ From + k < MaxPage /\ (From + k) % MaxPage = From + k
      BY <1>1, <1>2, <2>3, SmallMod
    <3> QED BY <1>1, <2>2, <2>3, <3>1
  <2>4. CASE ~(k < End - From)
    BY <1>1, <1>2, <2>1, <2>2, <2>4
  <2> QED BY <2>3, <2>4
<1>3. CASE ~(From < End)
  <2> DEFINE first == MaxPage - From + End
  <2>1. k < first + (End - Begin)
    BY <1>1, <1>3 DEF Visits
  <2>2. Visit(k) = IF k < first THEN (From + k) % MaxPage ELSE Begin + k - first
    BY <1>3 DEF Visit
  <2>3. CASE k < first
    <3>1. (From + k) % MaxPage \in 0 .. MaxPage - 1
      BY <1>1, AnyMod
    <3> QED BY <1>1, <1>3, <2>2, <2>3, <3>1
  <2>4. CASE ~(k < first)
    BY <1>1, <1>3, <2>1, <2>2, <2>4
  <2> QED BY <2>3, <2>4
<1> QED BY <1>2, <1>3

(* The page that the search ends at.                                       *)
Placed(p, n) ==
  /\ p \in 0 .. MaxPage - 1
  /\ From \in Begin .. End - 1 => p \in Begin .. End - 1
  /\ isfree(p, n + 1, Closed)

LEMMA PlaceFacts ==
  ASSUME Good(Now, blocks, mptr), NEW n, Found(n) # {}
  PROVE  Placed(Place(n), n)
<1>1. Found(n) \in SUBSET Nat
  <2>1. Found(n) \subseteq 0 .. Visits - 1
    BY DEF Found
  <2> QED BY <2>1
<1>2. PICK k \in Found(n) : k = Min(Found(n))
  BY <1>1, MinIn
<1>3. k \in 0 .. Visits - 1 /\ isfree(Visit(k), n + 1, Closed) /\ Place(n) = Visit(k)
  BY <1>2 DEF Found, Place
<1> QED BY <1>3, VisitFacts DEF Placed

(* The search leaves room for the run: a run from below mend does not wrap *)
(* round the end of the address space, so all its pages are free.          *)
LEMMA PlaceIsFree ==
  ASSUME NEW n \in Sizes, NEW p \in Nat, p < End, isfree(p, n + 1, Closed)
  PROVE  /\ n \in Nat \ {0} /\ FreeRun(Closed, p, n)
         /\ \A q \in p .. PageOf(Base(p) + n) : q \notin Low
<1>1. /\ MaxPage \in Nat /\ End \in Nat /\ PGSIZE \in Nat /\ PGSIZE > 1 /\ End < MaxPage
      /\ n \in 1 .. (MaxPage - End) * PGSIZE
  BY HeapAssumption
<1>2. (MaxPage - End) * PGSIZE = Base(MaxPage) - Base(End)
  BY <1>1 DEF Base
<1>3. Base(MaxPage) \in Nat /\ Base(End) \in Nat /\ Base(p) \in Nat /\ Base(p) + PGSIZE <= Base(End)
  BY <1>1, BaseType, BaseMonotone
<1>4. n \in Nat \ {0} /\ n <= Base(MaxPage) - Base(End)
  BY <1>1, <1>2, <1>3
<1>5. ~(p * PGSIZE + (n + 1) >= MaxPage * PGSIZE)
  <2>1. ~(Base(p) + (n + 1) >= Base(MaxPage))
    BY <1>1, <1>3, <1>4
  <2> QED BY <2>1 DEF Base
<1>6. \A q \in Pages(p * PGSIZE, n + 1) : q < End /\ q \notin Closed.heap \cup Low
  BY <1>5 DEF isfree
<1>7. Pages(p * PGSIZE, n + 1) = p .. PageOf(Base(p) + n)
  BY <1>4, RunEffect
<1> QED BY <1>4, <1>6, <1>7 DEF FreeRun

(* Once the open page is given up the heap is good, wherever mptr goes.    *)
LEMMA ClosedGood ==
  ASSUME Good(Now, blocks, mptr), NEW m2 \in 0 .. MaxPage * PGSIZE, m2 % PGSIZE = 0
  PROVE  Good(Closed, blocks, m2)
<1>1. StartsAt(At)
  BY AtFacts
<1>2. CASE At % PGSIZE # 0
  <2>1. Closed = free(mptr, Now) /\ mptr % PGSIZE # 0
    BY <1>1, <1>2 DEF StartsAt, Closed
  <2> QED BY <2>1, CloseGood
<1>3. CASE At % PGSIZE = 0
  <2>1. Closed = Now /\ mptr % PGSIZE = 0
    BY <1>1, <1>3 DEF StartsAt, Closed
  <2> QED BY <2>1, ElsewhereGood
<1> QED BY <1>2, <1>3

-----------------------------------------------------------------------------
(* Every call keeps the heap good.                                         *)

LEMMA NowNext ==
  ASSUME NEW h, Becomes(h)
  PROVE  Now' = [heap |-> h.heap, cont |-> h.cont, ref |-> h.ref]
BY DEF Becomes, Now

(* Good looks at the three fields only.                                    *)
LEMMA GoodFields ==
  ASSUME NEW g, NEW h, g.heap = h.heap, g.cont = h.cont, g.ref = h.ref,
         NEW B, NEW m, Good(h, B, m)
  PROVE  Good(g, B, m)
BY DEF Good, TypesGood, RunsGood, OpenGood, CountsGood

LEMMA BecomesGood ==
  ASSUME NEW h, Becomes(h), NEW B, NEW m, Good(h, B, m)
  PROVE  Good(Now', B, m)
<1>1. Now'.heap = h.heap /\ Now'.cont = h.cont /\ Now'.ref = h.ref
  BY NowNext
<1> HIDE DEF Now
<1>2. PICK g : g = Now'
  OBVIOUS
<1> QED BY <1>1, <1>2, GoodFields

LEMMA InitGood == Init => HeapInv
<1> SUFFICES ASSUME Init PROVE HeapInv
  OBVIOUS
<1>1. Now.heap = {} /\ Now.cont = {} /\ Now.ref = [p \in {} |-> 0] /\ blocks = {} /\ mptr = 0
  BY DEF Init, Now
<1>2. /\ MaxPage * PGSIZE \in Nat /\ 0 % PGSIZE = 0
  BY HeapAssumption, SmallMod
<1>3. TypesGood(Now, blocks, mptr)
  BY <1>1, <1>2, FS_EmptySet DEF TypesGood
<1>4. RunsGood(Now, blocks) /\ BlocksApart(blocks) /\ OpenGood(Now, blocks, mptr)
      /\ CountsGood(Now, blocks, mptr)
  BY <1>1, <1>2 DEF RunsGood, BlocksApart, OpenGood, CountsGood
<1> QED BY <1>3, <1>4 DEF HeapInv, Good, Init

LEMMA ExtendStep ==
  ASSUME HeapInv, NEW n \in Sizes, Extend(n)
  PROVE  HeapInv'
<1>1. Good(Now, blocks, mptr) /\ StartsAt(At)
  BY AtFacts DEF HeapInv
<1>2. At = mptr /\ mptr % PGSIZE # 0 /\ mptr \in Nat
  BY <1>1 DEF Extend, Fits, StartsAt
<1>3. n \in Nat \ {0}
  BY HeapAssumption
<1>4. PageOf(mptr) = PageOf(mptr + n)
  <2>1. mptr + n - 1 + 1 = mptr + n
    BY <1>2, <1>3
  <2> QED BY <1>2, <2>1 DEF Extend, Fits
<1>5. /\ Now'.heap = Now.heap /\ Now'.cont = Now.cont
      /\ Now'.ref = [Now.ref EXCEPT ![PageOf(mptr)] = @ + 1]
      /\ blocks' = blocks \cup {[v |-> mptr, n |-> n]} /\ mptr' = mptr + n /\ dead' = dead
  BY <1>2 DEF Extend, Now
<1> HIDE DEF Now
<1>6. PICK g : g = Now'
  OBVIOUS
<1>7. Good(g, blocks \cup {[v |-> mptr, n |-> n]}, mptr + n)
  BY <1>1, <1>2, <1>3, <1>4, <1>5, <1>6, ExtendGood
<1> QED BY <1>5, <1>6, <1>7 DEF HeapInv

LEMMA AllocateStep ==
  ASSUME HeapInv, NEW n \in Sizes, Allocate(n)
  PROVE  HeapInv'
<1>1. Good(Now, blocks, mptr)
  BY DEF HeapInv
<1>2. PICK p \in Nat : p = Place(n) /\ p < End /\ isfree(p, n + 1, Closed)
  BY <1>1, PlaceFacts DEF Allocate, Placed
<1>3. n \in Nat \ {0} /\ FreeRun(Closed, p, n)
  BY <1>2, PlaceIsFree
<1>4. 0 \in 0 .. MaxPage * PGSIZE /\ 0 % PGSIZE = 0
  BY HeapAssumption, SmallMod
<1>5. Good(Closed, blocks, 0)
  BY <1>1, <1>4, ClosedGood
<1>6. /\ Becomes(Run(p, n, Closed)) /\ mptr' = Base(p) + n /\ dead' = dead
      /\ blocks' = IF p = 0 THEN blocks ELSE blocks \cup {[v |-> Base(p), n |-> n]}
  BY <1>2 DEF Allocate, Base
<1>7. Good(Run(p, n, Closed), blocks \cup {[v |-> Base(p), n |-> n]}, Base(p) + n)
  BY <1>3, <1>4, <1>5, RunGood
<1>8. blocks' \in SUBSET (blocks \cup {[v |-> Base(p), n |-> n]})
  BY <1>6
<1>9. Good(Run(p, n, Closed), blocks', mptr')
  BY <1>6, <1>7, <1>8, FewerGood
<1>10. Good(Now', blocks', mptr')
  BY <1>6, <1>9, BecomesGood
<1> QED BY <1>6, <1>10 DEF HeapInv

LEMMA AllocateFailsStep ==
  ASSUME HeapInv, NEW n \in Sizes, AllocateNoMem(n) \/ AllocateFull(n)
  PROVE  HeapInv'
<1>1. Good(Now, blocks, mptr)
  BY DEF HeapInv
<1>2. PICK p \in 0 .. MaxPage - 1 : mptr' = Base(p)
  <2>1. CASE AllocateNoMem(n)
    BY <1>1, <2>1, PlaceFacts DEF AllocateNoMem, Placed, Base
  <2>2. CASE AllocateFull(n)
    BY <2>2, HeapAssumption DEF AllocateFull, mbegin, Base
  <2> QED BY <2>1, <2>2
<1>3. Becomes(Closed) /\ blocks' = blocks /\ dead' = dead
  BY DEF AllocateNoMem, AllocateFull
<1>4. p \in Nat /\ MaxPage \in Nat /\ p < MaxPage /\ PGSIZE \in Nat
  BY HeapAssumption
<1>5. Base(p) \in Nat /\ Base(MaxPage) \in Nat /\ Base(p) <= Base(MaxPage) /\ Base(p) % PGSIZE = 0
  BY <1>4, BaseType, BaseMonotone, PageOfBase
<1>6. mptr' \in 0 .. MaxPage * PGSIZE
  BY <1>2, <1>5 DEF Base
<1>7. PICK m2 : m2 = mptr'
  OBVIOUS
<1>8. Good(Closed, blocks, m2)
  BY <1>1, <1>2, <1>5, <1>6, <1>7, ClosedGood
<1>9. Good(Now', blocks, m2)
  BY <1>3, <1>8, BecomesGood
<1> QED BY <1>3, <1>7, <1>9 DEF HeapInv

LEMMA FreeStep ==
  ASSUME HeapInv, NEW b \in blocks, Free(b)
  PROVE  HeapInv'
<1>1. Good(Now, blocks, mptr)
  BY DEF HeapInv
<1>2. blocks' = blocks \ {b} /\ mptr' = mptr /\ dead' \in BOOLEAN
  BY DEF Free, HeapInv
<1>3. CASE InRegion(b.v)
  <2>1. Becomes(free(b.v, Now))
    BY <1>3 DEF Free
  <2>2. Good(free(b.v, Now), blocks \ {b}, mptr)
    BY <1>1, FreeBlockGood
  <2>3. Good(Now', blocks \ {b}, mptr)
    BY <2>1, <2>2, BecomesGood
  <2> QED BY <1>2, <2>3 DEF HeapInv
<1>4. CASE ~InRegion(b.v)
  <2>1. Now' = Now
    BY <1>4 DEF Free, Now
  <2>2. Good(Now, blocks \ {b}, mptr)
    BY <1>1, FewerGood
  <2> QED BY <1>2, <2>1, <2>2 DEF HeapInv
<1> QED BY <1>3, <1>4

LEMMA NextGood == HeapInv /\ [Next]_vars => HeapInv'
<1> SUFFICES ASSUME HeapInv, [Next]_vars PROVE HeapInv'
  OBVIOUS
<1>1. ASSUME UNCHANGED <<mptr, heap, cont, ref, blocks>>, dead' \in BOOLEAN PROVE HeapInv'
  <2>1. Now' = Now
    BY <1>1 DEF Now
  <2> QED BY <1>1, <2>1 DEF HeapInv
<1>2. ASSUME NEW n \in Sizes, AllocatePanics(n) PROVE HeapInv'
  BY <1>1, <1>2 DEF AllocatePanics
<1>3. CASE UNCHANGED vars
  BY <1>1, <1>3 DEF vars, HeapInv
<1> QED BY <1>2, <1>3, ExtendStep, AllocateStep, AllocateFailsStep, FreeStep DEF Next

LEMMA HeapInvariance == Spec => []HeapInv
BY InitGood, NextGood, PTL DEF Spec

-----------------------------------------------------------------------------
(* What the invariant says.                                                *)

LEMMA HeapInvIntact == HeapInv => HeapIntact
<1> SUFFICES ASSUME HeapInv PROVE HeapIntact
  OBVIOUS
<1>1. /\ cont \subseteq heap /\ heap \subseteq 0 .. End - 1
      /\ ref \in [heap \ cont -> Nat \ {0}]
      /\ IsFiniteSet(blocks) /\ blocks \subseteq [v : Nat, n : Nat \ {0}]
      /\ mptr \in 0 .. MaxPage * PGSIZE
  BY DEF HeapInv, Good, TypesGood, Now
<1>2. RunsGood(Now, blocks) /\ BlocksApart(blocks) /\ CountsGood(Now, blocks, mptr)
      /\ Now.cont = cont /\ Now.heap = heap /\ Now.ref = ref
  BY DEF HeapInv, Good, Now
<1>3. TypeOK
  BY <1>1 DEF TypeOK
<1>4. ASSUME NEW b \in blocks, NEW q \in PageOf(b.v) .. EndPage(b) PROVE q \in heap
  <2>1. q \in Own(b) \/ q = EndPage(b)
    BY <1>1, BlockPages
  <2> QED BY <1>1, <1>2, <2>1 DEF RunsGood
<1>5. ASSUME NEW b \in blocks PROVE Pages(b.v, b.n + 1) \subseteq heap
  <2>1. b.v + (b.n + 1) - 1 = b.v + b.n
    BY <1>1
  <2> QED BY <1>4, <2>1 DEF Pages, EndPage
<1>6. ASSUME NEW b \in blocks, NEW p \in DOMAIN ref PROVE (p + 1) * PGSIZE - 1 \notin Words(b)
  <2>0. p \in heap \ cont /\ p \in Nat /\ PGSIZE \in Nat \ {0} /\ Base(p) \in Nat
    BY <1>1, HeapAssumption, BaseType
  <2>1. (p + 1) * PGSIZE - 1 = Base(p) + PGSIZE - 1
    BY <2>0 DEF Base
  <2> DEFINE w == Base(p) + PGSIZE - 1
  <2>2. w \in Nat /\ PageOf(w) = p
    BY <2>0, PageOfUnique
  <2> HIDE DEF w
  <2>3. ASSUME w \in Words(b) PROVE FALSE
    <3>1. w < b.v + b.n /\ p \in PageOf(b.v) .. EndPage(b)
      BY <1>1, <2>2, <2>3, BlockShape
    <3>2. p = EndPage(b)
      BY <1>1, <1>2, <2>0, <3>1, CountedPage
    <3>3. b.v + b.n \in Nat /\ b.v + b.n < Base(p) + PGSIZE
      BY <1>1, <3>2, PageOfWord DEF EndPage
    <3> QED BY <2>0, <2>2, <3>1, <3>3 DEF w
  <2> QED BY <2>1, <2>3 DEF w
<1>7. BlocksIntact
  BY <1>2, <1>5, <1>6 DEF BlocksIntact, BlocksApart
<1>8. CountCovers
  BY <1>1, <1>2 DEF CountCovers, CountsGood, UsedBy, Users, EndIn
<1> QED BY <1>3, <1>7, <1>8 DEF HeapIntact

(* Whatever a program allocates and frees, of whatever sizes: its blocks   *)
(* never overlap each other or a reference count of lib/malloc.c, all      *)
(* their pages stay mapped, and free never unmaps a page that is in use.   *)
THEOREM HeapIsIntact == Spec => []HeapIntact
BY HeapInvariance, HeapInvIntact, PTL

-----------------------------------------------------------------------------
(* How a page is lost.                                                     *)

(* Page p has as many references to spare in g as it had in h.             *)
SameSpare(h, B, m, g, B2, m2, p) ==
  p \in DOMAIN h.ref /\ g.ref[p] - UsedBy(B2, m2, p) = h.ref[p] - UsedBy(B, m, p)

LEMMA UsedByType ==
  ASSUME NEW B, IsFiniteSet(B), NEW m, NEW p
  PROVE  UsedBy(B, m, p) \in Nat
BY EndInFinite DEF UsedBy

LEMMA FreedSpare ==
  ASSUME NEW h, NEW B, NEW m, Good(h, B, m), NEW P, NEW L, NEW B2, NEW m2,
         IsFiniteSet(B2),
         \A p : UsedBy(B2, m2, p) = UsedBy(B, m, p) - (IF p = L THEN 1 ELSE 0),
         NEW p \in DOMAIN Freed(h, P, L).ref
  PROVE  SameSpare(h, B, m, Freed(h, P, L), B2, m2, p)
<1>1. IsFiniteSet(B) /\ h.ref \in [h.heap \ h.cont -> Nat \ {0}]
  BY DEF Good, TypesGood
<1>2. /\ p \in DOMAIN h.ref
      /\ Freed(h, P, L).ref[p] = IF p = L THEN h.ref[p] - 1 ELSE h.ref[p]
  BY DEF Freed
<1>3. h.ref[p] \in Nat /\ UsedBy(B, m, p) \in Nat
  BY <1>1, <1>2, UsedByType
<1>4. UsedBy(B2, m2, p) = UsedBy(B, m, p) - (IF p = L THEN 1 ELSE 0)
  OBVIOUS
<1> QED BY <1>2, <1>3, <1>4 DEF SameSpare

LEMMA FreeBlockSpare ==
  ASSUME NEW h, NEW B, NEW m, Good(h, B, m), NEW b \in B,
         NEW p \in DOMAIN free(b.v, h).ref
  PROVE  SameSpare(h, B, m, free(b.v, h), B \ {b}, m, p)
<1>1. free(b.v, h) = Freed(h, PageOf(b.v), EndPage(b)) /\ IsFiniteSet(B) /\ IsFiniteSet(B \ {b})
  BY FreeBlockGood, FS_RemoveElement DEF Good, TypesGood
<1>2. ASSUME NEW q
      PROVE  UsedBy(B \ {b}, m, q) = UsedBy(B, m, q) - (IF q = EndPage(b) THEN 1 ELSE 0)
  <2>1. /\ Cardinality(EndIn(B, q)) \in Nat
        /\ Cardinality(EndIn(B \ {b}, q)) =
             Cardinality(EndIn(B, q)) - (IF EndPage(b) = q THEN 1 ELSE 0)
    BY <1>1, EndInFinite, EndInRemove
  <2> QED BY <2>1 DEF UsedBy
<1> QED BY <1>1, <1>2, FreedSpare

LEMMA ClosedSpare ==
  ASSUME Good(Now, blocks, mptr), NEW m2 \in 0 .. MaxPage * PGSIZE, m2 % PGSIZE = 0,
         NEW p \in DOMAIN Closed.ref
  PROVE  SameSpare(Now, blocks, mptr, Closed, blocks, m2, p)
<1>1. StartsAt(At) /\ IsFiniteSet(blocks)
  BY AtFacts DEF Good, TypesGood
<1>2. CASE At % PGSIZE # 0
  <2>1. Closed = free(mptr, Now) /\ mptr % PGSIZE # 0
    BY <1>1, <1>2 DEF StartsAt, Closed
  <2>2. Closed = Freed(Now, PageOf(mptr), PageOf(mptr))
    BY <2>1, CloseGood
  <2>3. ASSUME NEW q
        PROVE  UsedBy(blocks, m2, q) = UsedBy(blocks, mptr, q) - (IF q = PageOf(mptr) THEN 1 ELSE 0)
    <3>1. Cardinality(EndIn(blocks, q)) \in Nat
      BY <1>1, EndInFinite
    <3> QED BY <2>1, <3>1 DEF UsedBy
  <2> QED BY <1>1, <2>2, <2>3, FreedSpare
<1>3. CASE At % PGSIZE = 0
  <2>1. Closed = Now /\ mptr % PGSIZE = 0
    BY <1>1, <1>3 DEF StartsAt, Closed
  <2>2. UsedBy(blocks, m2, p) = UsedBy(blocks, mptr, p)
    BY <2>1 DEF UsedBy
  <2> QED BY <2>1, <2>2 DEF SameSpare
<1> QED BY <1>2, <1>3

LEMMA SpareNotLost ==
  ASSUME HeapInv, HeapInv', NEW p \in Lost',
         SameSpare(Now, blocks, mptr, Now', blocks', mptr', p)
  PROVE  p \in Lost
<1>1. p \in DOMAIN ref' /\ p >= Begin /\ ref'[p] > UsedBy(blocks', mptr', p)
  BY DEF Lost, Users, UsedBy, EndIn
<1>2. Now.ref = ref /\ Now'.ref = ref'
  BY DEF Now
<1>3. ref \in [heap \ cont -> Nat \ {0}] /\ IsFiniteSet(blocks)
  BY DEF HeapInv, Good, TypesGood, Now
<1>4. ref' \in [(heap \ cont)' -> Nat \ {0}] /\ IsFiniteSet(blocks')
  BY DEF HeapInv, Good, TypesGood, Now
<1> HIDE DEF Now
<1>5. p \in DOMAIN ref /\ ref'[p] - UsedBy(blocks', mptr', p) = ref[p] - UsedBy(blocks, mptr, p)
  BY <1>2 DEF SameSpare
<1>6. ref[p] \in Nat /\ ref'[p] \in Nat
  BY <1>1, <1>3, <1>4, <1>5
<1>7. UsedBy(blocks, mptr, p) \in Nat
  BY <1>3, UsedByType
<1>8. UsedBy(blocks', mptr', p) \in Nat
  <2>1. PICK B2, m2 : B2 = blocks' /\ m2 = mptr'
    OBVIOUS
  <2> QED BY <1>4, <2>1, UsedByType
<1>9. ref[p] > UsedBy(blocks, mptr, p)
  BY <1>1, <1>5, <1>6, <1>7, <1>8
<1> QED BY <1>1, <1>5, <1>9 DEF Lost, Users, UsedBy, EndIn

LEMMA ExtendLoses ==
  ASSUME HeapInv, NEW n \in Sizes, Extend(n), NEW p \in Lost'
  PROVE  SameSpare(Now, blocks, mptr, Now', blocks', mptr', p)
<1>1. Good(Now, blocks, mptr) /\ StartsAt(At) /\ n \in Nat \ {0}
  BY AtFacts, HeapAssumption DEF HeapInv
<1>2. At = mptr /\ mptr % PGSIZE # 0 /\ mptr \in Nat
  BY <1>1 DEF Extend, Fits, StartsAt
<1>3. PageOf(mptr) = PageOf(mptr + n)
  <2>1. mptr + n - 1 + 1 = mptr + n
    BY <1>1, <1>2
  <2> QED BY <1>2, <2>1 DEF Extend, Fits
<1>4. /\ Now'.heap = Now.heap /\ Now'.cont = Now.cont
      /\ Now'.ref = [Now.ref EXCEPT ![PageOf(mptr)] = @ + 1]
      /\ blocks' = blocks \cup {[v |-> mptr, n |-> n]} /\ mptr' = mptr + n
  BY <1>2 DEF Extend, Now
<1>5. p \in DOMAIN Now'.ref
  BY DEF Lost, Now
<1>6. Now.ref \in [Now.heap \ Now.cont -> Nat \ {0}] /\ IsFiniteSet(blocks)
  BY <1>1 DEF Good, TypesGood
<1> HIDE DEF Now
<1>7. PICK g : g = Now'
  OBVIOUS
<1>8. UsedBy(blocks', mptr', p) = UsedBy(blocks, mptr, p) + (IF p = PageOf(mptr) THEN 1 ELSE 0)
  <2>1. OneMoreUser(blocks, mptr, n)
    BY <1>1, <1>2, <1>3, <1>4, <1>7, ExtendGood
  <2> QED BY <1>4, <2>1 DEF OneMoreUser
<1>9. UsedBy(blocks, mptr, p) \in Nat
  BY <1>6, UsedByType
<1>10. p \in DOMAIN Now.ref /\ Now.ref[p] \in Nat
  BY <1>4, <1>5, <1>6
<1>11. Now'.ref[p] = Now.ref[p] + (IF p = PageOf(mptr) THEN 1 ELSE 0)
  BY <1>4, <1>10
<1> QED BY <1>8, <1>9, <1>10, <1>11 DEF SameSpare

LEMMA FreeLoses ==
  ASSUME HeapInv, NEW b \in blocks, Free(b), NEW p \in Lost', ~dead'
  PROVE  SameSpare(Now, blocks, mptr, Now', blocks', mptr', p)
<1>1. Good(Now, blocks, mptr) /\ Becomes(free(b.v, Now)) /\ blocks' = blocks \ {b} /\ mptr' = mptr
  BY DEF HeapInv, Free
<1>2. Now'.ref = free(b.v, Now).ref
  BY <1>1 DEF Becomes, Now
<1>3. p \in DOMAIN Now'.ref
  BY DEF Lost, Now
<1> HIDE DEF Now
<1>4. SameSpare(Now, blocks, mptr, free(b.v, Now), blocks \ {b}, mptr, p)
  BY <1>1, <1>2, <1>3, FreeBlockSpare
<1> QED BY <1>1, <1>2, <1>4 DEF SameSpare

LEMMA AllocateFailsLoses ==
  ASSUME HeapInv, HeapInv', NEW n \in Sizes, AllocateNoMem(n) \/ AllocateFull(n), NEW p \in Lost'
  PROVE  SameSpare(Now, blocks, mptr, Now', blocks', mptr', p)
<1>1. Good(Now, blocks, mptr)
  BY DEF HeapInv
<1>2. PICK x \in 0 .. MaxPage - 1 : mptr' = Base(x)
  <2>1. CASE AllocateNoMem(n)
    BY <1>1, <2>1, PlaceFacts DEF AllocateNoMem, Placed, Base
  <2>2. CASE AllocateFull(n)
    BY <2>2, HeapAssumption DEF AllocateFull, mbegin, Base
  <2> QED BY <2>1, <2>2
<1>3. mptr' % PGSIZE = 0
  BY <1>2, PageOfBase
<1>4. mptr' \in 0 .. MaxPage * PGSIZE
  BY DEF HeapInv, Good, TypesGood
<1>5. Becomes(Closed) /\ blocks' = blocks
  BY DEF AllocateNoMem, AllocateFull
<1>6. Now'.ref = Closed.ref
  BY <1>5 DEF Becomes, Now
<1>7. p \in DOMAIN Now'.ref
  BY DEF Lost, Now
<1> HIDE DEF Now
<1>8. PICK m2 : m2 = mptr'
  OBVIOUS
<1>9. SameSpare(Now, blocks, mptr, Closed, blocks, m2, p)
  BY <1>1, <1>3, <1>4, <1>6, <1>7, <1>8, ClosedSpare
<1> QED BY <1>5, <1>6, <1>8, <1>9 DEF SameSpare

(* A new run is lost if its last page holds nothing but the count.         *)
LEMMA AllocateLoses ==
  ASSUME HeapInv, NEW n \in Sizes, Allocate(n), NEW p \in Lost'
  PROVE  \/ SameSpare(Now, blocks, mptr, Now', blocks', mptr', p)
         \/ mptr' = Base(p)
<1>1. Good(Now, blocks, mptr)
  BY DEF HeapInv
<1>2. PICK x \in Nat : x = Place(n) /\ x < End /\ isfree(x, n + 1, Closed)
  BY <1>1, PlaceFacts DEF Allocate, Placed
<1>3. /\ n \in Nat \ {0} /\ FreeRun(Closed, x, n)
      /\ \A q \in x .. PageOf(Base(x) + n) : q \notin Low
  BY <1>2, PlaceIsFree
<1>4. 0 \in 0 .. MaxPage * PGSIZE /\ 0 % PGSIZE = 0
  BY HeapAssumption, SmallMod
<1>5. Good(Closed, blocks, 0)
  BY <1>1, <1>4, ClosedGood
<1>6. /\ Becomes(Run(x, n, Closed)) /\ mptr' = Base(x) + n
      /\ blocks' = IF x = 0 THEN blocks ELSE blocks \cup {[v |-> Base(x), n |-> n]}
  BY <1>2 DEF Allocate, Base
<1>7. PICK last : last = PageOf(Base(x) + n)
  OBVIOUS
<1>8. RunIs(Run(x, n, Closed), Closed, x, last)
  BY <1>3, <1>7, RunEffect
<1>9. Now'.ref = [q \in DOMAIN Closed.ref \cup {last} |-> IF q = last THEN 2 ELSE Closed.ref[q]]
  BY <1>6, <1>8 DEF RunIs, Becomes, Now
<1>10. p \in DOMAIN Now'.ref /\ p >= Begin /\ Now'.ref[p] > UsedBy(blocks', mptr', p)
  BY DEF Lost, Now, Users, UsedBy, EndIn
<1>11. Closed.ref \in [Closed.heap \ Closed.cont -> Nat \ {0}] /\ Base(x) \in Nat
  BY <1>5, BaseType DEF Good, TypesGood
<1> HIDE DEF Now
<1> DEFINE B2 == blocks \cup {[v |-> Base(x), n |-> n]}
<1>12. /\ \A q \in Closed.heap \ Closed.cont : UsedBy(B2, Base(x) + n, q) = UsedBy(blocks, 0, q)
       /\ UsedBy(B2, Base(x) + n, last) = 1 + (IF (Base(x) + n) % PGSIZE # 0 THEN 1 ELSE 0)
  <2>1. RunUsers(Closed, blocks, 0, B2, Base(x) + n)
    BY <1>3, <1>4, <1>5, RunGood
  <2> QED BY <1>7, <2>1 DEF RunUsers
<1> HIDE DEF B2
<1>13. CASE x = 0
  (* A block at address 0 is not the program's; but its run ends below mbegin. *)
  <2>1. last \in Nat /\ last < Begin
    <3>1. last \in Nat /\ x <= last
      BY <1>8 DEF RunIs
    <3>2. PICK l \in Low : l \in 0 .. Begin - 1
      BY HeapAssumption
    <3> QED BY <1>3, <1>7, <1>13, <3>1, <3>2, HeapAssumption
  <2>2. p # last
    BY <1>10, <2>1, HeapAssumption
  <2>3. p \in DOMAIN Closed.ref /\ Now'.ref[p] = Closed.ref[p]
    BY <1>9, <1>10, <2>2
  <2>4. UsedBy(blocks', mptr', p) = UsedBy(blocks, 0, p)
    BY <1>4, <1>6, <1>7, <1>13, <2>2 DEF UsedBy
  <2>5. SameSpare(Now, blocks, mptr, Closed, blocks, 0, p)
    BY <1>1, <1>4, <2>3, ClosedSpare
  <2> QED BY <2>3, <2>4, <2>5 DEF SameSpare
<1>14. CASE x # 0 /\ p = last
  <2>1. UsedBy(blocks', mptr', p) = 1 + (IF mptr' % PGSIZE # 0 THEN 1 ELSE 0)
    BY <1>6, <1>12, <1>14 DEF B2
  <2>2. Now'.ref[p] = 2
    BY <1>9, <1>14
  <2>3. (Base(x) + n) % PGSIZE = 0
    BY <1>6, <1>10, <2>1, <2>2
  <2>4. Base(x) + n \in Nat /\ PageOf(Base(x) + n) = p
    BY <1>3, <1>7, <1>11, <1>14
  <2> DEFINE a == Base(x) + n
  <2> HIDE DEF a
  <2>5. a \in Nat /\ PageOf(a) = p /\ a % PGSIZE = 0 /\ mptr' = a
    BY <1>6, <2>3, <2>4 DEF a
  <2>6. p \in Nat /\ a % PGSIZE = a - Base(p)
    BY <2>5, PageOfWord
  <2>7. Base(p) \in Nat
    BY <2>6, BaseType
  <2>8. a = Base(p)
    BY <2>5, <2>6, <2>7
  <2> QED BY <2>5, <2>8
<1>15. CASE x # 0 /\ p # last
  <2>1. p \in DOMAIN Closed.ref /\ Now'.ref[p] = Closed.ref[p] /\ p \in Closed.heap \ Closed.cont
    BY <1>9, <1>10, <1>11, <1>15
  <2>2. UsedBy(blocks', mptr', p) = UsedBy(blocks, 0, p)
    BY <1>6, <1>12, <1>15, <2>1 DEF B2
  <2>3. SameSpare(Now, blocks, mptr, Closed, blocks, 0, p)
    BY <1>1, <1>4, <2>1, ClosedSpare
  <2> QED BY <2>1, <2>2, <2>3 DEF SameSpare
<1> QED BY <1>13, <1>14, <1>15

(* lib/malloc.c loses track of a page in one way only, for chunks and      *)
(* pages of any size: when a chunk of whole pages leaves mptr at the start *)
(* of the page that holds nothing but the reference count.                 *)
THEOREM OnlyWholePagesLose == Spec => LostToWholePages
<1> DEFINE A == dead' \/ \A p \in Lost' \ Lost : mptr' = p * PGSIZE
<1>1. HeapInv /\ HeapInv' /\ [Next]_vars => [A]_vars
  <2> SUFFICES ASSUME HeapInv, HeapInv', Next, ~dead', NEW p \in Lost', p \notin Lost
               PROVE  mptr' = p * PGSIZE
    OBVIOUS
  <2>0. Base(p) = p * PGSIZE
    BY DEF Base
  <2>1. ASSUME SameSpare(Now, blocks, mptr, Now', blocks', mptr', p) PROVE FALSE
    BY <2>1, SpareNotLost
  <2>2. ASSUME NEW n \in Sizes, AllocatePanics(n) PROVE FALSE
    BY <2>2 DEF AllocatePanics
  <2> QED BY <2>0, <2>1, <2>2, ExtendLoses, AllocateLoses, AllocateFailsLoses, FreeLoses DEF Next
<1> QED BY <1>1, HeapInvariance, PTL DEF Spec, LostToWholePages

-----------------------------------------------------------------------------
(* How the heap is left.                                                   *)

(* A mapped address outside mbegin .. mend is in a page below mbegin.      *)
LEMMA OutsideIsBelow ==
  ASSUME NEW a \in Nat, PageOf(a) \in 0 .. End - 1, ~InRegion(a)
  PROVE  PageOf(a) < Begin
<1>1. /\ Begin \in Nat /\ End \in Nat /\ PGSIZE \in Nat /\ PageOf(a) \in Nat /\ PageOf(a) < End
      /\ mbegin = Base(Begin) /\ mend = Base(End)
  BY HeapAssumption DEF mbegin, mend, Base
<1>2. Base(Begin) \in Nat /\ Base(End) \in Nat /\ Base(PageOf(a)) \in Nat
  BY <1>1, BaseType
<1>3. Base(PageOf(a)) + PGSIZE <= Base(End) /\ Base(PageOf(a)) <= a /\ a < Base(PageOf(a)) + PGSIZE
  BY <1>1, BaseMonotone, PageOfWord
<1>4. a < Base(Begin)
  BY <1>1, <1>2, <1>3 DEF InRegion
<1>5. ~(Begin < PageOf(a))
  BY <1>1, <1>2, <1>3, <1>4, BaseMonotone
<1> QED BY <1>1, <1>2, <1>3, <1>4, <1>5

LEMMA FreedShrinks ==
  ASSUME NEW h, NEW P, NEW L
  PROVE  Freed(h, P, L).heap \subseteq h.heap
BY DEF Freed

LEMMA ClosedShrinks ==
  ASSUME Good(Now, blocks, mptr)
  PROVE  Closed.heap \subseteq heap
<1>1. StartsAt(At)
  BY AtFacts
<1>2. CASE At % PGSIZE # 0
  <2>1. Closed = free(mptr, Now) /\ mptr % PGSIZE # 0
    BY <1>1, <1>2 DEF StartsAt, Closed
  <2>2. 0 \in 0 .. MaxPage * PGSIZE /\ 0 % PGSIZE = 0
    BY HeapAssumption, SmallMod
  <2>3. Closed = Freed(Now, PageOf(mptr), PageOf(mptr))
    BY <2>1, <2>2, CloseGood
  <2> QED BY <2>3, FreedShrinks DEF Now
<1>3. CASE At % PGSIZE = 0
  BY <1>3 DEF Closed, Now
<1> QED BY <1>2, <1>3

(* From a place in the heap the search finds one in the heap.              *)
LEMMA AllocateStays ==
  ASSUME HeapInv, NEW n \in Sizes, Allocate(n), From < End, At >= mbegin
  PROVE  heap' \ heap \subseteq Begin .. End - 1
<1>1. Good(Now, blocks, mptr) /\ StartsAt(At)
  BY AtFacts DEF HeapInv
<1>2. /\ Begin \in Nat /\ End \in Nat /\ mbegin = Base(Begin) /\ At \in Nat
      /\ PageOf(Base(Begin)) = Begin /\ Base(Begin) \in Nat
  BY <1>1, HeapAssumption, PageOfBase, BaseType DEF mbegin, Base, StartsAt
<1>3. Begin <= PageOf(At) /\ PageOf(At) \in Nat
  BY <1>2, PageOfMonotone, PageOfWord
<1>4. From \in Begin .. End - 1
  BY <1>2, <1>3 DEF From
<1>5. PICK p \in Begin .. End - 1 : p = Place(n) /\ isfree(p, n + 1, Closed)
  BY <1>1, <1>4, PlaceFacts DEF Allocate, Placed
<1>6. p \in Nat /\ p < End /\ Begin <= p
  BY <1>2
<1>7. n \in Nat \ {0} /\ FreeRun(Closed, p, n)
  BY <1>5, <1>6, PlaceIsFree
<1>8. PICK last : last = PageOf(Base(p) + n)
  OBVIOUS
<1>9. RunIs(Run(p, n, Closed), Closed, p, last)
  BY <1>6, <1>7, <1>8, RunEffect
<1>10. heap' = Closed.heap \cup (p .. last)
  BY <1>5, <1>9 DEF Allocate, Becomes, RunIs
<1>11. Closed.heap \subseteq heap
  BY <1>1, ClosedShrinks
<1>12. p .. last \subseteq Begin .. End - 1
  BY <1>2, <1>6, <1>7, <1>8 DEF FreeRun
<1> QED BY <1>10, <1>11, <1>12

(* No other step maps a page.                                              *)
LEMMA OthersStay ==
  ASSUME HeapInv, Next, heap' \ heap # {}
  PROVE  \E n \in Sizes : Allocate(n)
<1>1. Good(Now, blocks, mptr)
  BY DEF HeapInv
<1>2. ASSUME NEW n \in Sizes, Extend(n) \/ AllocatePanics(n) PROVE FALSE
  BY <1>2 DEF Extend, AllocatePanics
<1>3. ASSUME NEW n \in Sizes, AllocateNoMem(n) \/ AllocateFull(n) PROVE FALSE
  BY <1>1, <1>3, ClosedShrinks DEF AllocateNoMem, AllocateFull, Becomes
<1>4. ASSUME NEW b \in blocks, Free(b) PROVE FALSE
  <2>1. free(b.v, Now) = Freed(Now, PageOf(b.v), EndPage(b))
    BY <1>1, FreeBlockGood
  <2>2. free(b.v, Now).heap \subseteq heap
    BY <2>1, FreedShrinks DEF Now
  <2> QED BY <1>4, <2>2 DEF Free, Becomes
<1> QED BY <1>2, <1>3, <1>4 DEF Next

(* An assertion of free fails on a mapped address below mbegin.            *)
LEMMA DiesBelow ==
  ASSUME HeapInv, Next, dead', ~dead
  PROVE  \E p \in heap : p < Begin
<1>1. /\ Good(Now, blocks, mptr) /\ StartsAt(At) /\ heap \subseteq 0 .. End - 1
      /\ Now.heap = heap /\ Now.cont = cont /\ cont \subseteq heap
      /\ blocks \subseteq [v : Nat, n : Nat \ {0}] /\ RunsGood(Now, blocks)
  BY AtFacts DEF HeapInv, Good, TypesGood, Now
<1>2. ASSUME NEW n \in Sizes, AllocatePanics(n) PROVE \E p \in heap : p < Begin
  <2>1. At = mptr /\ At \in Nat /\ mptr % PGSIZE # 0 /\ ~InRegion(At)
    BY <1>1, <1>2 DEF AllocatePanics, StartsAt
  <2>2. PageOf(At) \in heap
    BY <1>1, <2>1 DEF Good, OpenGood
  <2>3. PageOf(At) < Begin
    BY <1>1, <2>1, <2>2, OutsideIsBelow
  <2> QED BY <2>2, <2>3
<1>3. ASSUME NEW b \in blocks, Free(b) PROVE \E p \in heap : p < Begin
  <2>1. ~InRegion(b.v) /\ b.v \in Nat
    BY <1>1, <1>3 DEF Free
  <2>2. PageOf(b.v) \in PageOf(b.v) .. EndPage(b)
    BY <1>1, BlockShape
  <2>3. PageOf(b.v) \in Own(b) \/ PageOf(b.v) = EndPage(b)
    BY <1>1, <2>2, BlockPages
  <2>4. PageOf(b.v) \in heap
    BY <1>1, <2>3 DEF RunsGood
  <2>5. PageOf(b.v) < Begin
    BY <1>1, <2>1, <2>4, OutsideIsBelow
  <2> QED BY <2>4, <2>5
<1>4. ASSUME NEW n \in Sizes,
             Extend(n) \/ Allocate(n) \/ AllocateNoMem(n) \/ AllocateFull(n)
      PROVE  FALSE
  BY <1>4 DEF Extend, Allocate, AllocateNoMem, AllocateFull
<1> QED BY <1>2, <1>3, <1>4 DEF Next

(* malloc maps pages outside mbegin .. mend only when its search starts    *)
(* outside, which takes a chunk that did not fit in the last page of the   *)
(* heap or one that was placed outside before; and an assertion of free    *)
(* fails only for what was placed below mbegin.                            *)
THEOREM HeapLeftAtEnd == Spec => LeavesAtEnd
<1> DEFINE A == /\ heap' \ heap \subseteq Begin .. End - 1 \/ From >= End \/ At < mbegin
                /\ dead' /\ ~dead => \E p \in heap : p < Begin
<1>1. HeapInv /\ [Next]_vars => [A]_vars
  <2> SUFFICES ASSUME HeapInv, Next PROVE A
    OBVIOUS
  <2>1. ASSUME ~(From >= End), ~(At < mbegin) PROVE heap' \ heap \subseteq Begin .. End - 1
    <3>1. Good(Now, blocks, mptr) /\ StartsAt(At)
      BY AtFacts DEF HeapInv
    <3>2. From \in Nat /\ End \in Nat /\ At \in Nat /\ mbegin \in Nat
      BY <3>1, FromFacts, BaseType, HeapAssumption DEF StartsAt, mbegin, Base
    <3>3. From < End /\ At >= mbegin
      BY <2>1, <3>2
    <3>4. CASE heap' \ heap # {}
      BY <3>3, <3>4, OthersStay, AllocateStays
    <3>5. CASE heap' \ heap = {}
      BY <3>5
    <3> QED BY <3>4, <3>5
  <2>2. dead' /\ ~dead => \E p \in heap : p < Begin
    BY DiesBelow
  <2> QED BY <2>1, <2>2
<1> QED BY <1>1, HeapInvariance, PTL DEF Spec, LeavesAtEnd
=============================================================================
