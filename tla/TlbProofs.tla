------------------------------ MODULE TlbProofs ------------------------------
(* Proofs about Pmap and Tlb, for any sets of environments, addresses,     *)
(* pages and CPUs: reference counts and free list are exact, page tables   *)
(* private, write access is not regained, and no TLB entry is stale.       *)
EXTENDS Tlb, FiniteSetTheorems, FunctionTheorems, TLAPS

-----------------------------------------------------------------------------
(* Counting entries of a table of tables.                                  *)

(* The entries of f that hold p.                                           *)
Entries(f, X, Y, p) == {m \in X \X Y : f[m[1]][m[2]] = p}

Ind(a, p) == IF a = p THEN 1 ELSE 0

(* The columns of S where row e holds p, and the entries elsewhere.        *)
Row(f, e, S, p) == {y \in S : f[e][y] = p}
Others(f, X, Y, e, S, p) == {m \in Entries(f, X, Y, p) : ~(m[1] = e /\ m[2] \in S)}

(* Without the entries of row e in the columns S, the entries that hold p  *)
(* are fewer by as many as hold p there.                                   *)
LEMMA CountWithout ==
  ASSUME NEW X, NEW Y, IsFiniteSet(X), IsFiniteSet(Y), NEW f, NEW p,
         NEW e \in X, NEW S \in SUBSET Y
  PROVE  LET A == Entries(f, X, Y, p)
             C == Row(f, e, S, p)
             D == Others(f, X, Y, e, S, p)
         IN  /\ IsFiniteSet(A) /\ Cardinality(A) \in Nat
             /\ IsFiniteSet(C) /\ Cardinality(C) \in Nat
             /\ IsFiniteSet(D)
             /\ Cardinality(D) = Cardinality(A) - Cardinality(C)
             /\ Cardinality(C) <= Cardinality(A)
<1> DEFINE A == Entries(f, X, Y, p)
           C == Row(f, e, S, p)
           B == {m \in A : m[1] = e /\ m[2] \in S}
           D == Others(f, X, Y, e, S, p)
           g == [y \in C |-> <<e, y>>]
<1>1. IsFiniteSet(X \X Y)
  BY FS_Product
<1>2. A \in SUBSET (X \X Y)
  BY DEF Entries
<1>3. IsFiniteSet(A)
  BY <1>1, <1>2, FS_Subset
<1>4. IsFiniteSet(C)
  BY FS_Subset DEF Row, Others
<1>5. IsFiniteSet(B) /\ Cardinality(B) = Cardinality(C)
  <2>1. g \in Bijection(C, B)
    <3>1. g \in [C -> B]
      BY DEF Entries, Row, Others
    <3>2. \A y, z \in C : g[y] = g[z] => y = z
      OBVIOUS
    <3>3. \A b \in B : \E y \in C : g[y] = b
      <4> SUFFICES ASSUME NEW b \in B PROVE \E y \in C : g[y] = b
        OBVIOUS
      <4>1. b = <<e, b[2]>> /\ b[2] \in C
        BY <1>2 DEF Entries, Row, Others
      <4> QED BY <4>1
    <3> QED BY <3>1, <3>2, <3>3, Fun_IsBij
  <2>2. ExistsBijection(C, B)
    BY <2>1, Fun_ExistsBij
  <2> QED BY <2>2, <1>4, FS_Bijection
<1>6. D = A \ B /\ A \cap B = B
  BY DEF Row, Others
<1>7. IsFiniteSet(D) /\ Cardinality(D) = Cardinality(A) - Cardinality(B)
  <2> HIDE DEF A, B, D
  <2>1. IsFiniteSet(A \ B) /\ Cardinality(A \ B) = Cardinality(A) - Cardinality(A \cap B)
    BY <1>3, FS_Difference
  <2> QED BY <2>1, <1>6
<1>8. Cardinality(B) <= Cardinality(A) /\ Cardinality(A) \in Nat /\ Cardinality(C) \in Nat
  BY <1>3, <1>4, <1>6, FS_Intersection, FS_CardinalityType
<1> QED BY <1>3, <1>4, <1>5, <1>7, <1>8

-----------------------------------------------------------------------------
(* The references to a page, and how one edit changes their number.        *)

LEMMA PdxFinite == IsFiniteSet(Pdx)
<1> DEFINE f == [va \in VA |-> PDX(va)]
<1>1. f \in Surjection(VA, Pdx)
  <2>1. f \in [VA -> Pdx]
    BY DEF Pdx
  <2>2. \A t \in Pdx : \E va \in VA : f[va] = t
    BY DEF Pdx
  <2> QED BY <2>1, <2>2, Fun_IsSurj
<1> QED BY <1>1, FiniteAssumption, FS_Surjection

(* Sums of three cardinalities: zero, or one of a single kind.             *)
SumFacts(A, B, D) ==
  LET n == Cardinality(A) + Cardinality(B) + Cardinality(D) IN
  /\ n \in Nat
  /\ n = 0 <=> A = {} /\ B = {} /\ D = {}
  /\ n = 1 /\ (B # {} \/ D # {}) => A = {}

LEMMA CountsSum ==
  ASSUME NEW A, NEW B, NEW D, IsFiniteSet(A), IsFiniteSet(B), IsFiniteSet(D)
  PROVE  SumFacts(A, B, D)
<1>1. PICK a \in Nat : a = Cardinality(A) /\ (a = 0 <=> A = {})
  BY FS_CardinalityType, FS_EmptySet
<1>2. PICK b \in Nat : b = Cardinality(B) /\ (b = 0 <=> B = {})
  BY FS_CardinalityType, FS_EmptySet
<1>3. PICK d \in Nat : d = Cardinality(D) /\ (d = 0 <=> D = {})
  BY FS_CardinalityType, FS_EmptySet
<1>4. /\ a + b + d \in Nat
      /\ a + b + d = 0 <=> a = 0 /\ b = 0 /\ d = 0
      /\ a + b + d = 1 /\ (b # 0 \/ d # 0) => a = 0
  OBVIOUS
<1> QED BY <1>1, <1>2, <1>3, <1>4 DEF SumFacts

(* What the number of references to p says about the references.           *)
RefsFacts(p) ==
  /\ Refs(p) \in Nat
  /\ Refs(p) = 0 <=> MappedAt(p) = {} /\ TableAt(p) = {} /\ DirOf(p) = {}
  /\ Refs(p) = 1 /\ (TableAt(p) # {} \/ DirOf(p) # {}) => MappedAt(p) = {}

LEMMA RefsCount ==
  ASSUME NEW p
  PROVE  /\ IsFiniteSet(MappedAt(p)) /\ IsFiniteSet(TableAt(p)) /\ IsFiniteSet(DirOf(p))
         /\ RefsFacts(p) /\ RefsFacts(p)'
<1>1. IsFiniteSet(Env \X VA) /\ IsFiniteSet(Env \X Pdx)
  BY FiniteAssumption, PdxFinite, FS_Product
<1>2. /\ MappedAt(p) \in SUBSET (Env \X VA) /\ MappedAt(p)' \in SUBSET (Env \X VA)
      /\ TableAt(p) \in SUBSET (Env \X Pdx) /\ TableAt(p)' \in SUBSET (Env \X Pdx)
      /\ DirOf(p) \in SUBSET Env /\ DirOf(p)' \in SUBSET Env
  BY DEF MappedAt, TableAt, DirOf
<1>3. /\ IsFiniteSet(MappedAt(p)) /\ IsFiniteSet(TableAt(p)) /\ IsFiniteSet(DirOf(p))
      /\ IsFiniteSet(MappedAt(p)') /\ IsFiniteSet(TableAt(p)') /\ IsFiniteSet(DirOf(p)')
  BY <1>1, <1>2, FiniteAssumption, FS_Subset
<1>4. SumFacts(MappedAt(p), TableAt(p), DirOf(p))
  BY <1>3, CountsSum
<1>5. SumFacts(MappedAt(p)', TableAt(p)', DirOf(p)')
  BY <1>3, CountsSum
<1>6. RefsFacts(p)
  BY <1>4 DEF SumFacts, RefsFacts, Refs
<1>7. RefsFacts(p)'
  BY <1>5 DEF SumFacts, RefsFacts, Refs
<1> QED BY <1>3, <1>6, <1>7

(* One entry is overwritten: page_insert.                                  *)
SetsOne(h, f, X, Y, e, y, new) ==
  /\ IsFiniteSet(X) /\ IsFiniteSet(Y) /\ e \in X /\ y \in Y
  /\ \A a \in X, b \in Y : h[a][b] = IF a = e /\ b = y THEN new ELSE f[a][b]

LEMMA CountOverwrite ==
  ASSUME NEW X, NEW Y, NEW f, NEW h, NEW p, NEW e, NEW y, NEW new,
         SetsOne(h, f, X, Y, e, y, new)
  PROVE  Cardinality(Entries(h, X, Y, p))
           = Cardinality(Entries(f, X, Y, p)) - Ind(f[e][y], p)
               + Ind(new, p)
<1> DEFINE A == Entries(f, X, Y, p)
           C == Row(f, e, {y}, p)
           D == Others(f, X, Y, e, {y}, p)
           N == Entries(h, X, Y, p)
<1>1. /\ IsFiniteSet(D) /\ Cardinality(A) \in Nat /\ Cardinality(C) \in Nat
      /\ Cardinality(D) = Cardinality(A) - Cardinality(C)
  <2>1. {y} \in SUBSET Y /\ e \in X /\ IsFiniteSet(X) /\ IsFiniteSet(Y)
    BY DEF SetsOne
  <2> QED BY <2>1, CountWithout
<1>2. Cardinality(C) = Ind(f[e][y], p)
  <2>1. CASE f[e][y] = p
    <3>1. C = {y}
      BY <2>1 DEF Row
    <3> QED BY <2>1, <3>1, FS_Singleton DEF Ind
  <2>2. CASE f[e][y] # p
    <3>1. C = {}
      BY <2>2 DEF Row, Others
    <3> QED BY <2>2, <3>1, FS_EmptySet DEF Ind
  <2> QED BY <2>1, <2>2
<1>3. N = IF new = p THEN D \cup {<<e, y>>} ELSE D
  <2>1. \A m \in X \X Y : m = <<m[1], m[2]>> /\ m[1] \in X /\ m[2] \in Y
    OBVIOUS
  <2>2. \A m \in X \X Y : h[m[1]][m[2]] =
                            IF m[1] = e /\ m[2] = y THEN new ELSE f[m[1]][m[2]]
    BY DEF SetsOne
  <2> QED BY <2>1, <2>2 DEF Entries, Row, Others, SetsOne
<1>4. <<e, y>> \notin D
  BY DEF Row, Others
<1> HIDE DEF A, C, D, N
<1>5. Cardinality(D \cup {<<e, y>>}) = Cardinality(D) + 1
  BY <1>1, <1>4, FS_AddElement
<1>6. Cardinality(N) = Cardinality(D) + Ind(new, p)
  BY <1>1, <1>2, <1>3, <1>5 DEF Ind
<1> QED BY <1>1, <1>2, <1>6 DEF A, N, Ind

(* The columns S of row e are cleared: page_remove, env_free.              *)
Clears(h, f, X, Y, e, S, nil) ==
  /\ IsFiniteSet(X) /\ IsFiniteSet(Y) /\ e \in X /\ S \subseteq Y
  /\ \A a \in X, b \in Y : h[a][b] = IF a = e /\ b \in S THEN nil ELSE f[a][b]

LEMMA CountClear ==
  ASSUME NEW X, NEW Y, NEW f, NEW h, NEW p, NEW e, NEW S, NEW nil, nil # p,
         Clears(h, f, X, Y, e, S, nil)
  PROVE  /\ Cardinality(Entries(h, X, Y, p))
              = Cardinality(Entries(f, X, Y, p)) - Cardinality(Row(f, e, S, p))
         /\ Cardinality(Row(f, e, S, p)) \in Nat
         /\ Cardinality(Row(f, e, S, p)) <= Cardinality(Entries(f, X, Y, p))
<1> DEFINE A == Entries(f, X, Y, p)
           C == Row(f, e, S, p)
           D == Others(f, X, Y, e, S, p)
           N == Entries(h, X, Y, p)
<1>1. N = D
  <2>1. \A m \in X \X Y : m = <<m[1], m[2]>> /\ m[1] \in X /\ m[2] \in Y
    OBVIOUS
  <2>2. \A m \in X \X Y : h[m[1]][m[2]] =
                            IF m[1] = e /\ m[2] \in S THEN nil ELSE f[m[1]][m[2]]
    BY DEF Clears
  <2> QED BY <2>1, <2>2 DEF Entries, Row, Others
<1>2. /\ Cardinality(D) = Cardinality(A) - Cardinality(C)
      /\ Cardinality(C) \in Nat /\ Cardinality(C) <= Cardinality(A)
  <2>1. S \in SUBSET Y /\ e \in X /\ IsFiniteSet(X) /\ IsFiniteSet(Y)
    BY DEF Clears
  <2> QED BY <2>1, CountWithout
<1>3. /\ Cardinality(N) = Cardinality(A) - Cardinality(C)
      /\ Cardinality(C) \in Nat /\ Cardinality(C) <= Cardinality(A)
  <2> HIDE DEF A, C, D, N
  <2> QED BY <1>1, <1>2
<1> QED BY <1>3

(* One page directory is set or given back: env_setup_vm, env_free.        *)
Holders(f, X, p) == {x \in X : f[x] = p}
SetsHolder(h, f, X, e, new) == \A x \in X : h[x] = IF x = e THEN new ELSE f[x]

LEMMA CountHolders ==
  ASSUME NEW X, IsFiniteSet(X), NEW f, NEW h, NEW p, NEW e \in X, NEW new,
         SetsHolder(h, f, X, e, new)
  PROVE  Cardinality(Holders(h, X, p))
           = Cardinality(Holders(f, X, p)) - Ind(f[e], p)
               + Ind(new, p)
<1> DEFINE A == Holders(f, X, p)
           D == A \ {e}
           N == Holders(h, X, p)
<1>1. IsFiniteSet(A)
  BY FS_Subset DEF Holders
<1>2. N = IF new = p THEN D \cup {e} ELSE D
  BY DEF Holders, SetsHolder
<1>3. e \notin D /\ (e \in A <=> f[e] = p)
  BY DEF Holders
<1>4. f[e] # p => D = A
  BY <1>3
<1>5. IsFiniteSet(D)
  BY <1>1, FS_Subset
<1> HIDE DEF A, N
<1>6. e \in A => Cardinality(D) = Cardinality(A) - 1
  BY <1>1, FS_RemoveElement
<1> HIDE DEF D
<1>7. Cardinality(D \cup {e}) = Cardinality(D) + 1
  BY <1>3, <1>5, FS_AddElement
<1>8. Cardinality(A) \in Nat /\ Cardinality(D) \in Nat
  BY <1>1, <1>5, FS_CardinalityType
<1>9. Cardinality(D) = Cardinality(A) - Ind(f[e], p)
  BY <1>3, <1>4, <1>6, <1>8 DEF Ind
<1>10. Cardinality(N) = Cardinality(D) + Ind(new, p)
  BY <1>2, <1>7, <1>8 DEF Ind
<1> QED BY <1>8, <1>9, <1>10 DEF A, N, Ind

(* The references as entries, now and next.                                *)
LEMMA RefsAsEntries ==
  ASSUME NEW p
  PROVE  /\ Refs(p) = Cardinality(Entries(pte, Env, VA, p)) + Cardinality(Entries(pde, Env, Pdx, p))
                        + Cardinality(Holders(pgdir, Env, p))
         /\ Refs(p)' = Cardinality(Entries(pte', Env, VA, p)) + Cardinality(Entries(pde', Env, Pdx, p))
                        + Cardinality(Holders(pgdir', Env, p))
         /\ Cardinality(Entries(pte, Env, VA, p)) \in Nat
         /\ Cardinality(Entries(pde, Env, Pdx, p)) \in Nat
         /\ Cardinality(Holders(pgdir, Env, p)) \in Nat
<1>1. /\ MappedAt(p) = Entries(pte, Env, VA, p) /\ MappedAt(p)' = Entries(pte', Env, VA, p)
      /\ TableAt(p) = Entries(pde, Env, Pdx, p) /\ TableAt(p)' = Entries(pde', Env, Pdx, p)
      /\ DirOf(p) = Holders(pgdir, Env, p) /\ DirOf(p)' = Holders(pgdir', Env, p)
  BY DEF MappedAt, TableAt, DirOf, Entries, Holders
<1>2. /\ Cardinality(MappedAt(p)) \in Nat /\ Cardinality(TableAt(p)) \in Nat
      /\ Cardinality(DirOf(p)) \in Nat
  BY RefsCount, FS_CardinalityType
<1> QED BY <1>1, <1>2 DEF Refs

-----------------------------------------------------------------------------
(* No count reaches the width of pp_ref.  The code has no check: with      *)
(* RefMod = 2^16 one page mapped 2^16 times would count as unreferenced.   *)
NoWrap == \A p \in Page : Refs(p) < RefMod

(* What every handler does to the pages, whatever it is for: the           *)
(* references it gives up and takes are the ones it counts.                *)
Balanced(lost, gain, left) ==
  /\ lost \in [Page -> Nat] /\ gain \in [Page -> Nat]
  /\ pp_ref' = Counted(lost, gain)
  /\ page_free_list' = left \cup Freed(lost)
  /\ \A p \in Page :
       /\ p \in left <=> p \in page_free_list /\ gain[p] = 0
       /\ lost[p] <= Refs(p)
       /\ Refs(p)' = Refs(p) - lost[p] + gain[p]
       /\ gain[p] # 0 => lost[p] = 0
       /\ TableAt(p)' # {} \/ DirOf(p)' # {} =>
            \/ gain[p] = 0 /\ (TableAt(p) # {} \/ DirOf(p) # {})
            \/ gain[p] = 1 /\ Refs(p) = 0

LEMMA NoWrapMod ==
  ASSUME NEW m \in Nat, NEW n \in Nat, m < n
  PROVE  m % n = m
OBVIOUS

LEMMA BalancedKeeps ==
  ASSUME PagesAccounted, NoWrap', NEW lost, NEW gain, NEW left \in SUBSET Page,
         Balanced(lost, gain, left)
  PROVE  /\ pp_ref' \in [Page -> 0 .. RefMod - 1] /\ page_free_list' \subseteq Page
         /\ RefsExact' /\ FreeIsUnreferenced' /\ TablesPrivate'
<1>1. ASSUME NEW p \in Page
      PROVE  /\ pp_ref'[p] = Refs(p)' /\ pp_ref'[p] \in 0 .. RefMod - 1
             /\ p \in page_free_list' <=> Refs(p)' = 0
             /\ TableAt(p)' # {} \/ DirOf(p)' # {} => Refs(p)' = 1
  <2>1. PICK r \in Nat, l \in Nat, g \in Nat, n \in Nat :
          r = Refs(p) /\ l = lost[p] /\ g = gain[p] /\ n = Refs(p)'
    BY <1>1, RefsCount DEF RefsFacts, Balanced
  <2>2. /\ n = r - l + g /\ l <= r /\ n < RefMod /\ (g # 0 => l = 0)
        /\ pp_ref[p] = r
        /\ p \in page_free_list <=> r = 0
    BY <1>1, <2>1 DEF Balanced, NoWrap, PagesAccounted, RefsExact, FreeIsUnreferenced
  <2>3. (pp_ref[p] - lost[p] + gain[p]) % RefMod = n
    BY <2>1, <2>2, NoWrapMod, RefModAssumption
  <2>4. pp_ref'[p] = n
    BY <1>1, <2>3 DEF Balanced, Counted
  <2>5. p \in page_free_list' <=> (r = 0 /\ g = 0) \/ (r # 0 /\ l >= r)
    BY <1>1, <2>1, <2>2 DEF Balanced, Freed
  <2>6. p \in page_free_list' <=> n = 0
    BY <2>2, <2>5
  <2>7. ASSUME TableAt(p)' # {} \/ DirOf(p)' # {} PROVE n = 1
    <3>1. n # 0
      BY <2>1, <2>7, RefsCount DEF RefsFacts
    <3>2. CASE g = 0 /\ (TableAt(p) # {} \/ DirOf(p) # {})
      <4>1. r = 1
        BY <1>1, <2>1, <3>2 DEF PagesAccounted, TablesPrivate
      <4> QED BY <2>2, <3>1, <3>2, <4>1
    <3>3. CASE g = 1 /\ r = 0
      BY <2>2, <3>3
    <3> QED BY <1>1, <2>1, <2>7, <3>2, <3>3 DEF Balanced
  <2>8. n \in 0 .. RefMod - 1
    BY <2>2, RefModAssumption
  <2> QED BY <2>1, <2>4, <2>6, <2>7, <2>8
<1>2. pp_ref' \in [Page -> 0 .. RefMod - 1]
  <2>1. pp_ref' = [p \in Page |-> pp_ref'[p]]
    BY DEF Balanced, Counted
  <2> QED BY <2>1, <1>1
<1>3. page_free_list' \subseteq Page
  BY DEF Balanced, Freed
<1>4. RefsExact' /\ FreeIsUnreferenced' /\ TablesPrivate'
  BY <1>1 DEF RefsExact, FreeIsUnreferenced, TablesPrivate
<1> QED BY <1>2, <1>3, <1>4

-----------------------------------------------------------------------------
(* Every handler is balanced.                                              *)

LEMMA SetupAccounted ==
  ASSUME PagesAccounted, NoWrap', NEW e \in Env, EnvSetupVm(e)
  PROVE  PagesAccounted'
<1>1. PICK q \in page_free_list :
        /\ pgdir[e] = Nil /\ pgdir' = [pgdir EXCEPT ![e] = q]
        /\ pp_ref' = Counted(None, One(q))
        /\ page_free_list' = page_free_list \ {q}
        /\ UNCHANGED <<pde, pte, writable>>
  BY DEF EnvSetupVm
<1>2. TypeOK /\ q \in Page /\ q # Nil
  BY NilAssumption DEF PagesAccounted, TypeOK
<1>3. Balanced(None, One(q), page_free_list \ {q})
  <2>1. None \in [Page -> Nat] /\ One(q) \in [Page -> Nat]
    BY DEF None, One
  <2>2. Freed(None) = {}
    BY <1>2 DEF Freed, None, TypeOK
  <2>3. ASSUME NEW p \in Page
        PROVE  /\ p \in page_free_list \ {q} <=> p \in page_free_list /\ One(q)[p] = 0
               /\ None[p] = 0 /\ None[p] <= Refs(p)
               /\ Refs(p)' = Refs(p) - None[p] + One(q)[p]
               /\ TableAt(p)' # {} \/ DirOf(p)' # {} =>
                    \/ One(q)[p] = 0 /\ (TableAt(p) # {} \/ DirOf(p) # {})
                    \/ One(q)[p] = 1 /\ Refs(p) = 0
    <3>1. Refs(p) \in Nat
      BY RefsCount DEF RefsFacts
    <3>2. Cardinality(Holders(pgdir', Env, p))
            = Cardinality(Holders(pgdir, Env, p)) + Ind(q, p)
      <4>1. SetsHolder(pgdir', pgdir, Env, e, q) /\ pgdir[e] # p
        BY <1>1, <1>2, <2>3, NilAssumption DEF TypeOK, SetsHolder
      <4>2. Cardinality(Holders(pgdir', Env, p))
              = Cardinality(Holders(pgdir, Env, p)) - Ind(pgdir[e], p)
                  + Ind(q, p)
        BY <4>1, CountHolders, FiniteAssumption
      <4> QED BY <4>1, <4>2, RefsAsEntries DEF Ind
    <3>3. Refs(p)' = Refs(p) + One(q)[p]
      <4>1. One(q)[p] = Ind(q, p)
        BY DEF One, Ind
      <4>2. Entries(pte', Env, VA, p) = Entries(pte, Env, VA, p)
        BY <1>1
      <4>3. Entries(pde', Env, Pdx, p) = Entries(pde, Env, Pdx, p)
        BY <1>1
      <4> QED BY <3>2, <4>1, <4>2, <4>3, RefsAsEntries DEF Ind
    <3>4. p # q => TableAt(p)' = TableAt(p) /\ DirOf(p)' = DirOf(p)
      BY <1>1, <1>2, NilAssumption DEF TableAt, DirOf, TypeOK
    <3>5. p = q => One(q)[p] = 1 /\ Refs(p) = 0
      BY <1>1, <1>2 DEF One, PagesAccounted, FreeIsUnreferenced
    <3> QED BY <2>3, <3>1, <3>3, <3>4, <3>5 DEF None, One
  <2> QED BY <1>1, <2>1, <2>2, <2>3 DEF Balanced
<1>4. /\ pgdir' \in [Env -> Page \cup {Nil}] /\ pde' \in [Env -> [Pdx -> Page \cup {Nil}]]
      /\ pte' \in [Env -> [VA -> Page \cup {Nil}]] /\ writable' \in [Env -> SUBSET VA]
  BY <1>1, <1>2 DEF TypeOK
<1>5. page_free_list \ {q} \in SUBSET Page
  BY <1>2 DEF TypeOK
<1> QED BY <1>3, <1>4, <1>5, BalancedKeeps DEF PagesAccounted, TypeOK

LEMMA RemoveAccounted ==
  ASSUME PagesAccounted, NoWrap', NEW e \in Env, NEW S \in SUBSET VA, PageRemove(e, S)
  PROVE  PagesAccounted'
<1> DEFINE lost == [p \in Page |-> Cardinality({va \in S : pte[e][va] = p})]
<1>1. /\ pte' = [pte EXCEPT ![e] = [va \in VA |-> IF va \in S THEN Nil ELSE pte[e][va]]]
      /\ writable' = [writable EXCEPT ![e] = writable[e] \ S]
      /\ pp_ref' = Counted(lost, None)
      /\ page_free_list' = page_free_list \cup Freed(lost)
      /\ UNCHANGED <<pgdir, pde>>
  BY DEF PageRemove, PagesAccounted, TypeOK
<1>2. TypeOK
  BY DEF PagesAccounted
<1>3. ASSUME NEW p \in Page
      PROVE  /\ lost[p] \in Nat /\ lost[p] <= Refs(p)
             /\ Refs(p)' = Refs(p) - lost[p]
             /\ TableAt(p)' = TableAt(p) /\ DirOf(p)' = DirOf(p)
  <2>1. lost[p] = Cardinality(Row(pte, e, S, p))
    BY DEF Row
  <2>2. Clears(pte', pte, Env, VA, e, S, Nil) /\ Nil # p
    BY <1>1, <1>2, NilAssumption, FiniteAssumption DEF TypeOK, Clears
  <2>3. /\ Cardinality(Entries(pte', Env, VA, p))
             = Cardinality(Entries(pte, Env, VA, p)) - Cardinality(Row(pte, e, S, p))
        /\ Cardinality(Row(pte, e, S, p)) \in Nat
        /\ Cardinality(Row(pte, e, S, p)) <= Cardinality(Entries(pte, Env, VA, p))
    BY <2>2, CountClear
  <2>4. TableAt(p)' = TableAt(p) /\ DirOf(p)' = DirOf(p)
    BY <1>1 DEF TableAt, DirOf
  <2> HIDE DEF lost
  <2>5. lost[p] <= Refs(p) /\ Refs(p)' = Refs(p) - lost[p]
    <3>1. Entries(pde', Env, Pdx, p) = Entries(pde, Env, Pdx, p)
      BY <1>1
    <3>2. Holders(pgdir', Env, p) = Holders(pgdir, Env, p)
      BY <1>1
    <3> QED BY <2>1, <2>3, <3>1, <3>2, RefsAsEntries
  <2> QED BY <2>1, <2>3, <2>4, <2>5
<1>4. Balanced(lost, None, page_free_list)
  <2>1. lost \in [Page -> Nat]
    BY <1>3
  <2>2. \A p \in Page : Refs(p) \in Nat
    BY RefsCount DEF RefsFacts
  <2>3. None \in [Page -> Nat] /\ \A p \in Page : None[p] = 0
    BY DEF None
  <2> HIDE DEF lost
  <2> QED BY <1>1, <1>3, <2>1, <2>2, <2>3 DEF Balanced
<1>5. /\ pgdir' \in [Env -> Page \cup {Nil}] /\ pde' \in [Env -> [Pdx -> Page \cup {Nil}]]
      /\ pte' \in [Env -> [VA -> Page \cup {Nil}]] /\ writable' \in [Env -> SUBSET VA]
  BY <1>1, <1>2 DEF TypeOK
<1> HIDE DEF lost
<1> QED BY <1>2, <1>4, <1>5, BalancedKeeps DEF PagesAccounted, TypeOK

LEMMA FreeAccounted ==
  ASSUME PagesAccounted, NoWrap', NEW e \in Env, EnvFree(e)
  PROVE  PagesAccounted'
<1> DEFINE lost == [p \in Page |-> Cardinality({va \in VA : pte[e][va] = p})
                                     + Cardinality({i \in Pdx : pde[e][i] = p})
                                     + One(pgdir[e])[p]]
<1>1. /\ pgdir' = [pgdir EXCEPT ![e] = Nil]
      /\ pde' = [pde EXCEPT ![e] = [i \in Pdx |-> Nil]]
      /\ pte' = [pte EXCEPT ![e] = [va \in VA |-> Nil]]
      /\ writable' = [writable EXCEPT ![e] = {}]
      /\ pp_ref' = Counted(lost, None)
      /\ page_free_list' = page_free_list \cup Freed(lost)
  BY DEF EnvFree
<1>2. TypeOK
  BY DEF PagesAccounted
<1>3. ASSUME NEW p \in Page
      PROVE  /\ lost[p] \in Nat /\ lost[p] <= Refs(p)
             /\ Refs(p)' = Refs(p) - lost[p]
             /\ TableAt(p)' \subseteq TableAt(p) /\ DirOf(p)' \subseteq DirOf(p)
  <2>1. lost[p] = Cardinality(Row(pte, e, VA, p)) + Cardinality(Row(pde, e, Pdx, p))
                    + Ind(pgdir[e], p)
    BY DEF Row, One, Ind
  <2>2. Nil # p
    BY NilAssumption
  <2>3. /\ Cardinality(Entries(pte', Env, VA, p))
             = Cardinality(Entries(pte, Env, VA, p)) - Cardinality(Row(pte, e, VA, p))
        /\ Cardinality(Row(pte, e, VA, p)) \in Nat
        /\ Cardinality(Row(pte, e, VA, p)) <= Cardinality(Entries(pte, Env, VA, p))
    <3>1. Clears(pte', pte, Env, VA, e, VA, Nil)
      BY <1>1, <1>2, FiniteAssumption DEF TypeOK, Clears
    <3> QED BY <2>2, <3>1, CountClear
  <2>4. /\ Cardinality(Entries(pde', Env, Pdx, p))
             = Cardinality(Entries(pde, Env, Pdx, p)) - Cardinality(Row(pde, e, Pdx, p))
        /\ Cardinality(Row(pde, e, Pdx, p)) \in Nat
        /\ Cardinality(Row(pde, e, Pdx, p)) <= Cardinality(Entries(pde, Env, Pdx, p))
    <3>1. Clears(pde', pde, Env, Pdx, e, Pdx, Nil)
      BY <1>1, <1>2, FiniteAssumption, PdxFinite DEF TypeOK, Clears
    <3> QED BY <2>2, <3>1, CountClear
  <2>5. Cardinality(Holders(pgdir', Env, p))
          = Cardinality(Holders(pgdir, Env, p)) - Ind(pgdir[e], p)
    <3>1. SetsHolder(pgdir', pgdir, Env, e, Nil)
      BY <1>1, <1>2 DEF TypeOK, SetsHolder
    <3>2. Cardinality(Holders(pgdir', Env, p))
            = Cardinality(Holders(pgdir, Env, p)) - Ind(pgdir[e], p)
                + Ind(Nil, p)
      BY <3>1, CountHolders, FiniteAssumption
    <3> QED BY <2>2, <3>2, RefsAsEntries DEF Ind
  <2>6. Ind(pgdir[e], p) <= Cardinality(Holders(pgdir, Env, p))
    <3>1. pgdir[e] = p => Holders(pgdir, Env, p) # {}
      BY DEF Holders
    <3>2. IsFiniteSet(Holders(pgdir, Env, p))
      BY FiniteAssumption, FS_Subset DEF Holders
    <3> QED BY <3>1, <3>2, FS_EmptySet, RefsAsEntries DEF Ind
  <2>7. TableAt(p)' \subseteq TableAt(p) /\ DirOf(p)' \subseteq DirOf(p)
    BY <1>1, <1>2, <2>2 DEF TableAt, DirOf, TypeOK
  <2> HIDE DEF lost
  <2>8. Ind(pgdir[e], p) \in Nat
    BY DEF Ind
  <2>9. lost[p] \in Nat /\ lost[p] <= Refs(p) /\ Refs(p)' = Refs(p) - lost[p]
    BY <2>1, <2>3, <2>4, <2>5, <2>6, <2>8, RefsAsEntries
  <2> QED BY <2>7, <2>9
<1>4. Balanced(lost, None, page_free_list)
  <2>1. lost \in [Page -> Nat]
    BY <1>3
  <2>2. \A p \in Page : Refs(p) \in Nat
    BY RefsCount DEF RefsFacts
  <2>3. None \in [Page -> Nat] /\ \A p \in Page : None[p] = 0
    BY DEF None
  <2>4. \A p \in Page : TableAt(p)' # {} \/ DirOf(p)' # {} => TableAt(p) # {} \/ DirOf(p) # {}
    BY <1>3
  <2> HIDE DEF lost
  <2> QED BY <1>1, <1>3, <2>1, <2>2, <2>3, <2>4 DEF Balanced
<1>5. /\ pgdir' \in [Env -> Page \cup {Nil}] /\ pde' \in [Env -> [Pdx -> Page \cup {Nil}]]
      /\ pte' \in [Env -> [VA -> Page \cup {Nil}]] /\ writable' \in [Env -> SUBSET VA]
  BY <1>1, <1>2 DEF TypeOK
<1> HIDE DEF lost
<1> QED BY <1>2, <1>4, <1>5, BalancedKeeps DEF PagesAccounted, TypeOK

(* page_insert of a page that is no page table and that is not among the   *)
(* pages the walk may take.                                                *)
LEMMA InsertAccounted ==
  ASSUME PagesAccounted, NoWrap', NEW e \in Env, NEW pp \in Page, NEW va \in VA,
         NEW w \in BOOLEAN, TableAt(pp) = {}, DirOf(pp) = {},
         PageInsert(e, pp, va, w, page_free_list \ {pp})
  PROVE  PagesAccounted'
<1> DEFINE old == pte[e][va]
           lost == IF old # pp THEN One(old) ELSE None
           Gain(new) == [p \in Page |-> (IF old # pp THEN One(pp)[p] ELSE 0) + One(new)[p]]
<1>1. PICK new \in PgdirWalk(e, va, page_free_list \ {pp}) :
        /\ pte' = [pte EXCEPT ![e][va] = pp]
        /\ writable' = [writable EXCEPT ![e] = IF w THEN @ \cup {va} ELSE @ \ {va}]
        /\ pde' = IF new = Nil THEN pde ELSE [pde EXCEPT ![e][PDX(va)] = new]
        /\ pp_ref' = Counted(lost, Gain(new))
        /\ page_free_list' = ((page_free_list \ {pp}) \ {new}) \cup Freed(lost)
        /\ UNCHANGED pgdir
  BY DEF PageInsert, SetEntry
<1> DEFINE gain == Gain(new)
<1>2. /\ pte' = [pte EXCEPT ![e][va] = pp]
      /\ writable' = [writable EXCEPT ![e] = IF w THEN @ \cup {va} ELSE @ \ {va}]
      /\ pde' = IF new = Nil THEN pde ELSE [pde EXCEPT ![e][PDX(va)] = new]
      /\ pp_ref' = Counted(lost, gain)
      /\ page_free_list' = ((page_free_list \ {pp}) \ {new}) \cup Freed(lost)
      /\ UNCHANGED pgdir
  BY <1>1, Zenon
<1>3. TypeOK /\ PDX(va) \in Pdx
  BY DEF PagesAccounted, Pdx
<1>4. \/ new = Nil
      \/ /\ new \in page_free_list \ {pp} /\ new \in Page /\ new # Nil
         /\ pde[e][PDX(va)] = Nil /\ Refs(new) = 0
  BY <1>1, <1>3, NilAssumption DEF PgdirWalk, TypeOK, PagesAccounted, FreeIsUnreferenced
<1>5. ASSUME NEW p \in Page, old = p
      PROVE  Refs(p) # 0
  <2>1. <<e, va>> \in MappedAt(p)
    BY <1>5 DEF MappedAt
  <2> QED BY <2>1, RefsCount DEF RefsFacts
<1>6. ASSUME NEW p \in Page
      PROVE  /\ lost[p] = IF old # pp /\ old = p THEN 1 ELSE 0
             /\ gain[p] = (IF old # pp /\ pp = p THEN 1 ELSE 0) + Ind(new, p)
  BY DEF One, None, Ind
<1>7. lost \in [Page -> Nat] /\ gain \in [Page -> Nat]
  BY DEF One, None
<1>8. /\ pgdir' \in [Env -> Page \cup {Nil}] /\ pde' \in [Env -> [Pdx -> Page \cup {Nil}]]
      /\ pte' \in [Env -> [VA -> Page \cup {Nil}]] /\ writable' \in [Env -> SUBSET VA]
  BY <1>2, <1>3, <1>4 DEF TypeOK
<1> HIDE DEF lost, gain
<1>9. ASSUME NEW p \in Page
      PROVE  /\ p \in (page_free_list \ {pp}) \ {new} <=> p \in page_free_list /\ gain[p] = 0
             /\ lost[p] <= Refs(p)
             /\ Refs(p)' = Refs(p) - lost[p] + gain[p]
             /\ gain[p] # 0 => lost[p] = 0
             /\ TableAt(p)' # {} \/ DirOf(p)' # {} =>
                  \/ gain[p] = 0 /\ (TableAt(p) # {} \/ DirOf(p) # {})
                  \/ gain[p] = 1 /\ Refs(p) = 0
  <2>1. p # Nil /\ Refs(p) \in Nat /\ (p \in page_free_list <=> Refs(p) = 0)
    BY NilAssumption, RefsCount DEF RefsFacts, PagesAccounted, FreeIsUnreferenced
  <2>2. p \in (page_free_list \ {pp}) \ {new} <=> p \in page_free_list /\ gain[p] = 0
    <3>1. old = pp => pp \notin page_free_list
      BY <1>5 DEF PagesAccounted, FreeIsUnreferenced
    <3>2. CASE p = pp
      BY <1>6, <3>1, <3>2 DEF Ind
    <3>3. CASE p # pp
      <4>1. gain[p] = IF new = p THEN 1 ELSE 0
        BY <1>6, <3>3 DEF Ind
      <4> QED BY <4>1, <3>3
    <3> QED BY <3>2, <3>3
  <2>3. lost[p] <= Refs(p)
    BY <1>5, <1>6, <2>1
  <2>4. gain[p] # 0 => lost[p] = 0
    BY <1>4, <1>5, <1>6, <2>1 DEF Ind
  <2>5. Cardinality(Entries(pte', Env, VA, p))
          = Cardinality(Entries(pte, Env, VA, p)) - Ind(old, p)
              + Ind(pp, p)
    <3>1. SetsOne(pte', pte, Env, VA, e, va, pp)
      BY <1>2, <1>3, FiniteAssumption DEF SetsOne, TypeOK
    <3> QED BY <3>1, CountOverwrite
  <2>6. Cardinality(Entries(pde', Env, Pdx, p))
          = Cardinality(Entries(pde, Env, Pdx, p)) + Ind(new, p)
    <3>1. CASE new = Nil
      <4>1. Entries(pde', Env, Pdx, p) = Entries(pde, Env, Pdx, p)
        BY <1>2, <3>1
      <4> QED BY <2>1, <3>1, <4>1, RefsAsEntries DEF Ind
    <3>2. CASE new # Nil
      <4>1. SetsOne(pde', pde, Env, Pdx, e, PDX(va), new) /\ pde[e][PDX(va)] # p
        BY <1>2, <1>3, <1>4, <2>1, <3>2, FiniteAssumption, PdxFinite DEF SetsOne, TypeOK
      <4>2. Cardinality(Entries(pde', Env, Pdx, p))
              = Cardinality(Entries(pde, Env, Pdx, p)) - Ind(pde[e][PDX(va)], p)
                  + Ind(new, p)
        BY <4>1, CountOverwrite
      <4> QED BY <4>1, <4>2, RefsAsEntries DEF Ind
    <3> QED BY <3>1, <3>2
  <2>7. Holders(pgdir', Env, p) = Holders(pgdir, Env, p)
    BY <1>2
  <2>8. Refs(p)' = Refs(p) - lost[p] + gain[p]
    <3>1. /\ lost[p] \in Nat /\ gain[p] \in Nat
          /\ gain[p] - lost[p] = Ind(pp, p) - Ind(old, p)
                                   + Ind(new, p)
      BY <1>6 DEF Ind
    <3> QED BY <2>5, <2>6, <2>7, <3>1, RefsAsEntries DEF Ind
  <2>9. TableAt(p)' # {} \/ DirOf(p)' # {} =>
           \/ gain[p] = 0 /\ (TableAt(p) # {} \/ DirOf(p) # {})
           \/ gain[p] = 1 /\ Refs(p) = 0
    <3>1. CASE new = p
      BY <1>4, <1>6, <2>1, <3>1 DEF Ind
    <3>2. CASE new # p
      <4>1. TableAt(p)' \subseteq TableAt(p) /\ DirOf(p)' = DirOf(p)
        BY <1>2, <1>3, <3>2 DEF TableAt, DirOf, TypeOK
      <4> QED BY <1>6, <3>2, <4>1 DEF Ind
    <3> QED BY <3>1, <3>2
  <2> QED BY <2>2, <2>3, <2>4, <2>8, <2>9
<1>10. Balanced(lost, gain, (page_free_list \ {pp}) \ {new})
  BY <1>2, <1>7, <1>9 DEF Balanced
<1>11. (page_free_list \ {pp}) \ {new} \in SUBSET Page
  BY <1>3 DEF TypeOK
<1> QED BY <1>8, <1>10, <1>11, BalancedKeeps DEF PagesAccounted, TypeOK

-----------------------------------------------------------------------------
(* The handlers that edit an address space, on some CPU.                   *)

Edits(c) ==
  \/ \E e \in Env, va \in VA, w \in BOOLEAN : AllocOn(c, e, va, w)
  \/ \E e, dst \in Env, va, dstva \in VA, w \in BOOLEAN : MapOn(c, e, va, dst, dstva, w)
  \/ \E e \in Env, va \in VA : UnmapOn(c, e, va)
  \/ \E keep \in SUBSET VA : ExecOn(c, keep)

LEMMA AllocAccounted ==
  ASSUME PagesAccounted, NoWrap', NEW e \in Env, NEW va \in VA, NEW w \in BOOLEAN,
         SysPageAlloc(e, va, w)
  PROVE  PagesAccounted'
<1>1. PICK pp \in page_free_list : PageInsert(e, pp, va, w, page_free_list \ {pp})
  BY DEF SysPageAlloc
<1>2. pp \in Page /\ Refs(pp) = 0
  BY DEF PagesAccounted, TypeOK, FreeIsUnreferenced
<1>3. TableAt(pp) = {} /\ DirOf(pp) = {}
  BY <1>2, RefsCount DEF RefsFacts
<1> QED BY <1>1, <1>2, <1>3, InsertAccounted

LEMMA MapAccounted ==
  ASSUME PagesAccounted, NoWrap', NEW src \in Env, NEW srcva \in VA, NEW dst \in Env,
         NEW dstva \in VA, NEW w \in BOOLEAN, SysPageMap(src, srcva, dst, dstva, w)
  PROVE  PagesAccounted'
<1>1. PICK pp : pp = pte[src][srcva]
  OBVIOUS
<1>2. pp \in Page /\ PageInsert(dst, pp, dstva, w, page_free_list)
  BY <1>1 DEF SysPageMap, PagesAccounted, TypeOK
<1>3. MappedAt(pp) # {}
  <2>1. <<src, srcva>> \in MappedAt(pp)
    BY <1>1 DEF MappedAt
  <2> QED BY <2>1
<1>4. Refs(pp) # 0 /\ TableAt(pp) = {} /\ DirOf(pp) = {}
  BY <1>2, <1>3, RefsCount DEF RefsFacts, PagesAccounted, TablesPrivate
<1>5. page_free_list = page_free_list \ {pp}
  BY <1>2, <1>4 DEF PagesAccounted, FreeIsUnreferenced
<1>6. PageInsert(dst, pp, dstva, w, page_free_list \ {pp})
  BY <1>2, <1>5
<1> QED BY <1>2, <1>4, <1>6, InsertAccounted

LEMMA EditsAccounted ==
  ASSUME PagesAccounted, NoWrap', curenv \in [CPU -> Env \cup {Nil}], NEW c \in CPU, Edits(c)
  PROVE  PagesAccounted'
<1>1. ASSUME NEW e \in Env, NEW va \in VA, NEW w \in BOOLEAN, AllocOn(c, e, va, w)
      PROVE  PagesAccounted'
  BY <1>1, AllocAccounted DEF AllocOn
<1>2. ASSUME NEW e \in Env, NEW dst \in Env, NEW va \in VA, NEW dstva \in VA,
             NEW w \in BOOLEAN, MapOn(c, e, va, dst, dstva, w)
      PROVE  PagesAccounted'
  BY <1>2, MapAccounted DEF MapOn
<1>3. ASSUME NEW e \in Env, NEW va \in VA, UnmapOn(c, e, va)
      PROVE  PagesAccounted'
  <2>1. {va} \in SUBSET VA /\ PageRemove(e, {va})
    BY <1>3 DEF UnmapOn, SysPageUnmap
  <2> QED BY <2>1, RemoveAccounted
<1>4. ASSUME NEW keep \in SUBSET VA, ExecOn(c, keep)
      PROVE  PagesAccounted'
  <2>1. PICK e \in Env : e = curenv[c]
    BY <1>4 DEF ExecOn
  <2>2. VA \ keep \in SUBSET VA /\ PageRemove(e, VA \ keep)
    BY <1>4, <2>1 DEF ExecOn, ExecUnmapUser
  <2> QED BY <2>2, RemoveAccounted
<1> QED BY <1>1, <1>2, <1>3, <1>4 DEF Edits

(* The buffers stay well-typed: an edit only drops entries.                *)
LEMMA InvalidateTyped ==
  ASSUME tlb \in [CPU -> SUBSET [va : VA, page : Page, w : BOOLEAN]],
         NEW c \in CPU, NEW e, NEW S, TlbInvalidate(c, e, S)
  PROVE  tlb' \in [CPU -> SUBSET [va : VA, page : Page, w : BOOLEAN]]
<1> DEFINE Entry == [va : VA, page : Page, w : BOOLEAN]
<1>1. tlb \in [CPU -> SUBSET Entry]
  OBVIOUS
<1> HIDE DEF Entry
<1>2. tlb' \in [CPU -> SUBSET Entry]
  BY <1>1 DEF TlbInvalidate
<1> QED BY <1>2 DEF Entry

LEMMA AccessTyped ==
  ASSUME tlb \in [CPU -> SUBSET [va : VA, page : Page, w : BOOLEAN]],
         pte \in [Env -> [VA -> Page \cup {Nil}]], curenv \in [CPU -> Env \cup {Nil}],
         NEW c \in CPU, NEW va \in VA, Access(c, va)
  PROVE  tlb' \in [CPU -> SUBSET [va : VA, page : Page, w : BOOLEAN]]
<1> DEFINE Entry == [va : VA, page : Page, w : BOOLEAN]
           x == [va |-> va, page |-> pte[curenv[c]][va], w |-> va \in writable[curenv[c]]]
<1>1. pte[curenv[c]][va] \in Page
  BY DEF Access
<1>2. x \in Entry
  BY <1>1
<1>3. tlb \in [CPU -> SUBSET Entry] /\ tlb' = [tlb EXCEPT ![c] = @ \cup {x}]
  BY DEF Access
<1> HIDE DEF Entry, x
<1>4. tlb' \in [CPU -> SUBSET Entry]
  BY <1>2, <1>3
<1> QED BY <1>4 DEF Entry

LEMMA BuffersTyped ==
  ASSUME TlbTypeOK, [TlbNext]_tlbVars
  PROVE  /\ curenv' \in [CPU -> Env \cup {Nil}]
         /\ tlb' \in [CPU -> SUBSET [va : VA, page : Page, w : BOOLEAN]]
<1> DEFINE Entry == [va : VA, page : Page, w : BOOLEAN]
           Typed == curenv' \in [CPU -> Env \cup {Nil}] /\ tlb' \in [CPU -> SUBSET Entry]
<1>1. /\ curenv \in [CPU -> Env \cup {Nil}] /\ tlb \in [CPU -> SUBSET Entry]
      /\ pte \in [Env -> [VA -> Page \cup {Nil}]]
  BY DEF TlbTypeOK, TypeOK
<1>2. ASSUME NEW c \in CPU, Edits(c) PROVE Typed
  <2>1. UNCHANGED curenv /\ \E e, S : TlbInvalidate(c, e, S)
    BY <1>2 DEF Edits, AllocOn, MapOn, UnmapOn, ExecOn
  <2> QED BY <1>1, <2>1, InvalidateTyped
<1>3. ASSUME NEW c \in CPU, NEW va \in VA, Access(c, va) PROVE Typed
  BY <1>1, <1>3, AccessTyped DEF Access
<1> HIDE DEF Entry
<1>4. ASSUME NEW e \in Env, SetupOn(e) PROVE Typed
  BY <1>1, <1>4 DEF SetupOn
<1>5. ASSUME NEW c \in CPU, SchedHalt(c) PROVE Typed
  BY <1>1, <1>5 DEF SchedHalt
<1>6. ASSUME NEW c \in CPU, NEW e \in Env, EnvRun(c, e) \/ FreeOn(c, e) PROVE Typed
  <2>1. \E a \in Env \cup {Nil} : curenv' = [curenv EXCEPT ![c] = a]
    BY <1>1, <1>6 DEF EnvRun, FreeOn
  <2>2. \E S \in SUBSET Entry : tlb' = [tlb EXCEPT ![c] = S]
    BY <1>1, <1>6 DEF EnvRun, FreeOn
  <2> QED BY <1>1, <2>1, <2>2
<1>7. ASSUME UNCHANGED tlbVars PROVE Typed
  BY <1>1, <1>7 DEF tlbVars
<1>8. Typed
  BY <1>2, <1>3, <1>4, <1>5, <1>6, <1>7 DEF TlbNext, Edits
<1> QED BY <1>8 DEF Entry

LEMMA AccountedStep ==
  ASSUME AllAccounted, NoWrap', [TlbNext]_tlbVars
  PROVE  AllAccounted'
<1>1. PagesAccounted /\ TlbTypeOK /\ curenv \in [CPU -> Env \cup {Nil}]
  BY DEF AllAccounted, TlbTypeOK
<1>2. ASSUME UNCHANGED vars PROVE PagesAccounted'
  BY <1>1, <1>2 DEF vars, PagesAccounted, TypeOK, RefsExact, FreeIsUnreferenced,
       TablesPrivate, Refs, MappedAt, TableAt, DirOf
<1>3. ASSUME NEW e \in Env, SetupOn(e) PROVE PagesAccounted'
  BY <1>1, <1>3, SetupAccounted DEF SetupOn
<1>4. ASSUME NEW c \in CPU, Edits(c) PROVE PagesAccounted'
  BY <1>1, <1>4, EditsAccounted
<1>5. ASSUME NEW c \in CPU, NEW e \in Env, FreeOn(c, e) PROVE PagesAccounted'
  BY <1>1, <1>5, FreeAccounted DEF FreeOn
<1>6. ASSUME NEW c \in CPU, SchedHalt(c) PROVE PagesAccounted'
  BY <1>2, <1>6 DEF SchedHalt
<1>7. ASSUME NEW c \in CPU, NEW e \in Env, EnvRun(c, e) PROVE PagesAccounted'
  BY <1>2, <1>7 DEF EnvRun
<1>8. ASSUME NEW c \in CPU, NEW va \in VA, Access(c, va) PROVE PagesAccounted'
  BY <1>2, <1>8 DEF Access
<1>9. ASSUME UNCHANGED tlbVars PROVE PagesAccounted'
  BY <1>2, <1>9 DEF tlbVars
<1>10. PagesAccounted'
  BY <1>3, <1>4, <1>5, <1>6, <1>7, <1>8, <1>9 DEF TlbNext, Edits
<1> QED BY <1>1, <1>10, BuffersTyped DEF AllAccounted, TlbTypeOK, PagesAccounted

LEMMA AccountedInit ==
  ASSUME TlbInit
  PROVE  AllAccounted
<1>1. TlbTypeOK
  BY RefModAssumption DEF TlbInit, Init, TlbTypeOK, TypeOK
<1>2. ASSUME NEW p \in Page PROVE Refs(p) = 0 /\ TableAt(p) = {} /\ DirOf(p) = {}
  <2>1. MappedAt(p) = {} /\ TableAt(p) = {} /\ DirOf(p) = {}
    BY NilAssumption DEF TlbInit, Init, MappedAt, TableAt, DirOf
  <2> QED BY <2>1, RefsCount DEF RefsFacts
<1>3. PagesAccounted
  BY <1>1, <1>2 DEF TlbTypeOK, PagesAccounted, RefsExact, FreeIsUnreferenced, TablesPrivate,
       TlbInit, Init
<1> QED BY <1>1, <1>3 DEF AllAccounted

-----------------------------------------------------------------------------
(* With fewer places to refer to a page from than pp_ref has values, no    *)
(* count can wrap.                                                         *)
FewPlaces == Cardinality(Env \X VA) + Cardinality(Env \X Pdx) + Cardinality(Env) < RefMod

LEMMA FewPlacesNoWrap ==
  ASSUME FewPlaces
  PROVE  NoWrap
<1> SUFFICES ASSUME NEW p \in Page PROVE Refs(p) < RefMod
  BY DEF NoWrap
<1>1. IsFiniteSet(Env \X VA) /\ IsFiniteSet(Env \X Pdx) /\ IsFiniteSet(Env)
  BY FiniteAssumption, PdxFinite, FS_Product
<1>2. MappedAt(p) \in SUBSET (Env \X VA) /\ TableAt(p) \in SUBSET (Env \X Pdx)
        /\ DirOf(p) \in SUBSET Env
  BY DEF MappedAt, TableAt, DirOf
<1>3. PICK a \in Nat, b \in Nat, d \in Nat :
        a = Cardinality(Env \X VA) /\ b = Cardinality(Env \X Pdx) /\ d = Cardinality(Env)
  BY <1>1, FS_CardinalityType
<1>4. PICK x \in Nat, y \in Nat, z \in Nat :
        /\ x = Cardinality(MappedAt(p)) /\ y = Cardinality(TableAt(p))
        /\ z = Cardinality(DirOf(p))
  BY RefsCount, FS_CardinalityType
<1>5. x <= a
  BY <1>1, <1>2, <1>3, <1>4, FS_Subset
<1>6. y <= b
  BY <1>1, <1>2, <1>3, <1>4, FS_Subset
<1>7. z <= d
  BY <1>1, <1>2, <1>3, <1>4, FS_Subset
<1>8. a + b + d < RefMod
  BY <1>3 DEF FewPlaces
<1>9. x + y + z < RefMod
  BY <1>5, <1>6, <1>7, <1>8, RefModAssumption
<1> QED BY <1>4, <1>9 DEF Refs

(* As long as no count wraps, every page is accounted for: pp_ref is exact,*)
(* the free list holds the pages nothing refers to, and page tables and    *)
(* page directories are in one place only (page_insert, page_remove,       *)
(* pgdir_walk, env_setup_vm and env_free of kern/pmap.c and kern/env.c, on *)
(* any number of CPUs, also when memory runs out).                         *)
THEOREM AccountedUnlessWrapped == TlbSpec /\ []NoWrap => []AllAccounted
<1>1. TlbInit => AllAccounted
  BY AccountedInit
<1>2. AllAccounted /\ NoWrap' /\ [TlbNext]_tlbVars => AllAccounted'
  BY AccountedStep
<1> QED BY <1>1, <1>2, PTL DEF TlbSpec

(* The same without a hypothesis on the run, for machines where the counts *)
(* cannot wrap; the instance that TLC checks is one.                       *)
THEOREM AccountedIfSmall == ASSUME FewPlaces PROVE TlbSpec => []AllAccounted
<1>1. NoWrap
  BY FewPlacesNoWrap
<1> QED BY <1>1, AccountedUnlessWrapped, PTL

-----------------------------------------------------------------------------
(* Write access.                                                           *)

(* page_insert makes at most the inserted mapping writable.                *)
LEMMA InsertWriters ==
  ASSUME TypeOK, NEW e \in Env, NEW pp \in Page, NEW va \in VA, NEW w \in BOOLEAN,
         NEW avail, PageInsert(e, pp, va, w, avail), NEW p \in Page, p # pp \/ ~w
  PROVE  Writers(p)' \subseteq Writers(p)
<1>1. /\ pte' = [pte EXCEPT ![e][va] = pp]
      /\ writable' = [writable EXCEPT ![e] = IF w THEN @ \cup {va} ELSE @ \ {va}]
  BY DEF PageInsert, SetEntry
<1>2. ASSUME NEW m \in Writers(p)' PROVE m \in Writers(p)
  <2>1. PICK a \in Env, b \in VA : m = <<a, b>>
    BY <1>2 DEF Writers, MappedAt
  <2>2. pte'[a][b] = p /\ b \in writable'[a]
    BY <1>2, <2>1 DEF Writers, MappedAt
  <2>3. pte[a][b] = p /\ b \in writable[a]
    <3>1. CASE a = e /\ b = va
      BY <1>1, <2>2, <3>1 DEF TypeOK
    <3>2. CASE a = e /\ b # va
      BY <1>1, <2>2, <3>2 DEF TypeOK
    <3>3. CASE a # e
      BY <1>1, <2>2, <3>3 DEF TypeOK
    <3> QED BY <3>1, <3>2, <3>3
  <2> QED BY <2>1, <2>3 DEF Writers, MappedAt
<1> QED BY <1>2

LEMMA ShrinkWriters ==
  ASSUME TypeOK, NEW p \in Page,
         \A a \in Env, b \in VA : pte'[a][b] = p => pte[a][b] = p,
         \A a \in Env : writable'[a] \subseteq writable[a]
  PROVE  Writers(p)' \subseteq Writers(p)
<1>1. ASSUME NEW m \in Writers(p)' PROVE m \in Writers(p)
  <2>1. PICK a \in Env, b \in VA : m = <<a, b>>
    BY <1>1 DEF Writers, MappedAt
  <2>2. pte'[a][b] = p /\ b \in writable'[a]
    BY <1>1, <2>1 DEF Writers, MappedAt
  <2> QED BY <2>1, <2>2 DEF Writers, MappedAt
<1> QED BY <1>1

LEMMA WritersStep ==
  ASSUME AllAccounted, [TlbNext]_tlbVars, NEW p \in Page, MappedAt(p) # {}, Writers(p) = {}
  PROVE  Writers(p)' = {}
<1>1. TypeOK /\ p # Nil /\ curenv \in [CPU -> Env \cup {Nil}]
  BY NilAssumption DEF AllAccounted, TlbTypeOK
<1>2. p \notin page_free_list
  BY RefsCount DEF RefsFacts, AllAccounted, PagesAccounted, FreeIsUnreferenced
<1>3. ASSUME UNCHANGED <<pte, writable>> PROVE Writers(p)' = {}
  BY <1>3 DEF Writers, MappedAt
<1>4. ASSUME NEW c \in CPU, NEW e \in Env, NEW va \in VA, NEW w \in BOOLEAN,
             AllocOn(c, e, va, w)
      PROVE  Writers(p)' = {}
  <2>1. PICK pp \in page_free_list : PageInsert(e, pp, va, w, page_free_list \ {pp})
    BY <1>4 DEF AllocOn, SysPageAlloc
  <2>2. pp \in Page /\ pp # p
    BY <1>1, <1>2 DEF TypeOK
  <2> QED BY <1>1, <2>1, <2>2, InsertWriters
<1>5. ASSUME NEW c \in CPU, NEW e \in Env, NEW dst \in Env, NEW va \in VA, NEW dstva \in VA,
             NEW w \in BOOLEAN, MapOn(c, e, va, dst, dstva, w)
      PROVE  Writers(p)' = {}
  <2>1. PICK pp \in Page : pp = pte[e][va]
    BY <1>1, <1>5 DEF MapOn, SysPageMap, TypeOK
  <2>2. PageInsert(dst, pp, dstva, w, page_free_list) /\ (w => va \in writable[e])
    BY <1>5, <2>1 DEF MapOn, SysPageMap
  <2>3. w /\ pp = p => <<e, va>> \in Writers(p)
    BY <2>1, <2>2 DEF Writers, MappedAt
  <2> QED BY <1>1, <2>2, <2>3, InsertWriters
<1>6. ASSUME NEW e \in Env, NEW S \in SUBSET VA, PageRemove(e, S)
      PROVE  Writers(p)' = {}
  <2>1. /\ pte' = [pte EXCEPT ![e] = [va \in VA |-> IF va \in S THEN Nil ELSE pte[e][va]]]
        /\ writable' = [writable EXCEPT ![e] = writable[e] \ S]
    BY <1>6 DEF PageRemove
  <2>2. \A a \in Env, b \in VA : pte'[a][b] = p => pte[a][b] = p
    BY <1>1, <2>1 DEF TypeOK
  <2>3. \A a \in Env : writable'[a] \subseteq writable[a]
    BY <1>1, <2>1 DEF TypeOK
  <2> QED BY <1>1, <2>2, <2>3, ShrinkWriters
<1>7. ASSUME NEW c \in CPU, NEW e \in Env, FreeOn(c, e)
      PROVE  Writers(p)' = {}
  <2>1. /\ pte' = [pte EXCEPT ![e] = [va \in VA |-> Nil]]
        /\ writable' = [writable EXCEPT ![e] = {}]
    BY <1>7 DEF FreeOn, EnvFree
  <2>2. \A a \in Env, b \in VA : pte'[a][b] = p => pte[a][b] = p
    BY <1>1, <2>1 DEF TypeOK
  <2>3. \A a \in Env : writable'[a] \subseteq writable[a]
    BY <1>1, <2>1 DEF TypeOK
  <2> QED BY <1>1, <2>2, <2>3, ShrinkWriters
<1>8. ASSUME NEW c \in CPU, NEW e \in Env, NEW va \in VA, UnmapOn(c, e, va)
      PROVE  Writers(p)' = {}
  <2>1. {va} \in SUBSET VA /\ PageRemove(e, {va})
    BY <1>8 DEF UnmapOn, SysPageUnmap
  <2> QED BY <1>6, <2>1
<1>9. ASSUME NEW c \in CPU, NEW keep \in SUBSET VA, ExecOn(c, keep)
      PROVE  Writers(p)' = {}
  <2>1. PICK e \in Env : e = curenv[c]
    BY <1>1, <1>9 DEF ExecOn
  <2>2. VA \ keep \in SUBSET VA /\ PageRemove(e, VA \ keep)
    BY <1>9, <2>1 DEF ExecOn, ExecUnmapUser
  <2> QED BY <1>6, <2>2
<1>10. ASSUME \/ UNCHANGED tlbVars
              \/ \E e \in Env : SetupOn(e)
              \/ \E c \in CPU : \/ SchedHalt(c)
                                \/ \E e \in Env : EnvRun(c, e)
                                \/ \E va \in VA : Access(c, va)
       PROVE  Writers(p)' = {}
  <2>1. UNCHANGED <<pte, writable>>
    BY <1>10 DEF tlbVars, vars, SetupOn, EnvSetupVm, SchedHalt, EnvRun, Access
  <2> QED BY <1>3, <2>1
<1> QED BY <1>4, <1>5, <1>7, <1>8, <1>9, <1>10 DEF TlbNext

(* As long as no count wraps, no step gives write access to a page in use  *)
(* that nobody can write: sys_page_map's check of the source's PTE_W is    *)
(* enough, because page_alloc never hands out a page that is mapped.       *)
THEOREM NotRegainedUnlessWrapped == TlbSpec /\ []NoWrap => WriteNotRegained
<1>1. AllAccounted /\ [TlbNext]_tlbVars =>
        [\A p \in Page : MappedAt(p) # {} /\ Writers(p) = {} => Writers(p)' = {}]_vars
  BY WritersStep
<1> QED BY <1>1, AccountedUnlessWrapped, PTL DEF TlbSpec, WriteNotRegained

-----------------------------------------------------------------------------
(* No stale translation, when programs take care.                          *)

(* An environment is on one CPU at most.                                   *)
Alone == \A c, d \in CPU : curenv[c] = curenv[d] /\ curenv[c] # Nil => c = d

FreshType ==
  /\ pte \in [Env -> [VA -> Page \cup {Nil}]]
  /\ writable \in [Env -> SUBSET VA]
  /\ page_free_list \subseteq Page
  /\ curenv \in [CPU -> Env \cup {Nil}]
  /\ tlb \in [CPU -> SUBSET [va : VA, page : Page, w : BOOLEAN]]

(* The inductive invariant: TlbFresh alone is not one, because an edit     *)
(* invalidates on the editing CPU only.                                    *)
FreshInv == FreshType /\ Alone /\ TlbFresh

(* What an edit of e's address space on CPU c does outside the addresses S *)
(* that it invalidates: nothing.                                           *)
EditsOnly(e, S) ==
  /\ pte' \in [Env -> [VA -> Page \cup {Nil}]]
  /\ writable' \in [Env -> SUBSET VA]
  /\ page_free_list' \subseteq Page
  /\ \A a \in Env, b \in VA : a # e \/ b \notin S =>
       pte'[a][b] = pte[a][b] /\ (b \in writable[a] => b \in writable'[a])

LEMMA InsertEditsOnly ==
  ASSUME FreshType, NEW e \in Env, NEW pp \in Page, NEW va \in VA, NEW w \in BOOLEAN,
         NEW avail \in SUBSET Page, PageInsert(e, pp, va, w, avail)
  PROVE  EditsOnly(e, {va})
<1>1. /\ pte' = [pte EXCEPT ![e][va] = pp]
      /\ writable' = [writable EXCEPT ![e] = IF w THEN @ \cup {va} ELSE @ \ {va}]
      /\ page_free_list' \subseteq Page
  BY DEF PageInsert, SetEntry, Freed
<1>2. \A a \in Env, b \in VA : a # e \/ b # va => pte'[a][b] = pte[a][b]
  BY <1>1 DEF FreshType
<1>3. \A a \in Env, b \in VA : a # e \/ b # va => (b \in writable[a] => b \in writable'[a])
  BY <1>1 DEF FreshType
<1>4. /\ pte' \in [Env -> [VA -> Page \cup {Nil}]] /\ writable' \in [Env -> SUBSET VA]
  BY <1>1 DEF FreshType
<1> QED BY <1>1, <1>2, <1>3, <1>4 DEF EditsOnly

LEMMA RemoveEditsOnly ==
  ASSUME FreshType, NEW e \in Env, NEW S \in SUBSET VA, PageRemove(e, S)
  PROVE  EditsOnly(e, S)
<1>1. /\ pte' = [pte EXCEPT ![e] = [va \in VA |-> IF va \in S THEN Nil ELSE pte[e][va]]]
      /\ writable' = [writable EXCEPT ![e] = writable[e] \ S]
      /\ page_free_list' \subseteq Page
  BY DEF PageRemove, Freed, FreshType
<1>2. \A a \in Env, b \in VA : a # e \/ b \notin S =>
        pte'[a][b] = pte[a][b] /\ (b \in writable[a] => b \in writable'[a])
  BY <1>1 DEF FreshType
<1>3. /\ pte' \in [Env -> [VA -> Page \cup {Nil}]] /\ writable' \in [Env -> SUBSET VA]
  BY <1>1 DEF FreshType
<1> QED BY <1>1, <1>2, <1>3 DEF EditsOnly

(* An edit with its invalidation keeps every buffer fresh.                 *)
LEMMA EditFresh ==
  ASSUME Care = TRUE, FreshInv, NEW c \in CPU, NEW e \in Env, NEW S, MayEdit(c, e),
         EditsOnly(e, S), TlbInvalidate(c, e, S), UNCHANGED curenv
  PROVE  FreshInv'
<1>1. FreshType'
  BY InvalidateTyped DEF FreshInv, FreshType, EditsOnly
<1>2. Alone'
  BY DEF FreshInv, Alone
<1>3. ASSUME NEW d \in CPU, NEW x \in tlb'[d]
      PROVE  /\ curenv'[d] # Nil /\ pte'[curenv'[d]][x.va] = x.page
             /\ x.w => x.va \in writable'[curenv'[d]]
  <2>1. x \in tlb[d] /\ (d = c /\ curenv[c] = e => x.va \notin S)
    BY <1>3 DEF FreshInv, FreshType, TlbInvalidate
  <2>2. /\ curenv[d] # Nil /\ pte[curenv[d]][x.va] = x.page
        /\ x.w => x.va \in writable[curenv[d]]
    BY <2>1 DEF FreshInv, TlbFresh
  <2>3. curenv[d] \in Env /\ x.va \in VA
    BY <2>1, <2>2 DEF FreshInv, FreshType
  <2>4. curenv[d] # e \/ x.va \notin S
    <3>1. CASE curenv[d] = e
      <4>1. curenv[c] = e
        BY <3>1 DEF MayEdit, OnCpu
      <4>2. d = c
        BY <2>2, <3>1, <4>1 DEF FreshInv, Alone
      <4> QED BY <2>1, <4>1, <4>2
    <3> QED BY <3>1
  <2> QED BY <2>2, <2>3, <2>4 DEF EditsOnly
<1>4. TlbFresh'
  BY <1>3 DEF TlbFresh
<1> QED BY <1>1, <1>2, <1>4 DEF FreshInv

LEMMA EditsFresh ==
  ASSUME Care = TRUE, FreshInv, NEW c \in CPU, Edits(c)
  PROVE  FreshInv'
<1>1. FreshType /\ page_free_list \subseteq Page
  BY DEF FreshInv, FreshType
<1>2. ASSUME NEW e \in Env, NEW va \in VA, NEW w \in BOOLEAN, AllocOn(c, e, va, w)
      PROVE  FreshInv'
  <2>1. PICK pp \in page_free_list : PageInsert(e, pp, va, w, page_free_list \ {pp})
    BY <1>2 DEF AllocOn, SysPageAlloc
  <2>2. pp \in Page /\ page_free_list \ {pp} \in SUBSET Page
    BY <1>1
  <2>3. EditsOnly(e, {va})
    BY <1>1, <2>1, <2>2, InsertEditsOnly
  <2> QED BY <1>2, <2>3, EditFresh DEF AllocOn
<1>3. ASSUME NEW e \in Env, NEW dst \in Env, NEW va \in VA, NEW dstva \in VA,
             NEW w \in BOOLEAN, MapOn(c, e, va, dst, dstva, w)
      PROVE  FreshInv'
  <2>1. pte[e][va] \in Page /\ PageInsert(dst, pte[e][va], dstva, w, page_free_list)
    BY <1>1, <1>3 DEF MapOn, SysPageMap, FreshType
  <2>2. EditsOnly(dst, {dstva})
    BY <1>1, <2>1, InsertEditsOnly
  <2> QED BY <1>3, <2>2, EditFresh DEF MapOn
<1>4. ASSUME NEW e \in Env, NEW va \in VA, UnmapOn(c, e, va)
      PROVE  FreshInv'
  <2>1. {va} \in SUBSET VA /\ PageRemove(e, {va})
    BY <1>4 DEF UnmapOn, SysPageUnmap
  <2>2. EditsOnly(e, {va})
    BY <1>1, <2>1, RemoveEditsOnly
  <2> QED BY <1>4, <2>2, EditFresh DEF UnmapOn
<1>5. ASSUME NEW keep \in SUBSET VA, ExecOn(c, keep)
      PROVE  FreshInv'
  <2>1. PICK e \in Env : e = curenv[c] /\ curenv[c] # Nil
    BY <1>1, <1>5 DEF ExecOn, FreshType
  <2>2. VA \ keep \in SUBSET VA /\ PageRemove(e, VA \ keep)
    BY <1>5, <2>1 DEF ExecOn, ExecUnmapUser
  <2>3. EditsOnly(e, VA \ keep)
    BY <1>1, <2>2, RemoveEditsOnly
  <2>4. MayEdit(c, e) /\ TlbInvalidate(c, e, VA \ keep) /\ UNCHANGED curenv
    BY <1>5, <2>1 DEF ExecOn, MayEdit
  <2> QED BY <2>3, <2>4, EditFresh
<1> QED BY <1>2, <1>3, <1>4, <1>5 DEF Edits

(* Steps that change curenv or empty a buffer.                             *)
LEMMA SwitchFresh ==
  ASSUME FreshInv, NEW c \in CPU, NEW a \in Env \cup {Nil},
         \A d \in CPU : d # c /\ curenv[d] = a => a = Nil,
         curenv' = [curenv EXCEPT ![c] = a], tlb' = [tlb EXCEPT ![c] = {}],
         UNCHANGED <<pte, writable, page_free_list>>
  PROVE  FreshInv'
<1>1. FreshType'
  <2> DEFINE Entry == [va : VA, page : Page, w : BOOLEAN]
  <2>1. tlb \in [CPU -> SUBSET Entry] /\ curenv \in [CPU -> Env \cup {Nil}]
    BY DEF FreshInv, FreshType
  <2> HIDE DEF Entry
  <2>2. tlb' \in [CPU -> SUBSET Entry] /\ curenv' \in [CPU -> Env \cup {Nil}]
    BY <2>1
  <2> QED BY <2>2 DEF FreshInv, FreshType, Entry
<1>2. Alone'
  BY DEF FreshInv, FreshType, Alone
<1>3. ASSUME NEW d \in CPU, NEW x \in tlb'[d]
      PROVE  /\ curenv'[d] # Nil /\ pte'[curenv'[d]][x.va] = x.page
             /\ x.w => x.va \in writable'[curenv'[d]]
  <2>1. d # c /\ x \in tlb[d] /\ curenv'[d] = curenv[d]
    BY <1>3 DEF FreshInv, FreshType
  <2> QED BY <2>1 DEF FreshInv, TlbFresh
<1>4. TlbFresh'
  BY <1>3 DEF TlbFresh
<1> QED BY <1>1, <1>2, <1>4 DEF FreshInv

LEMMA FreeFresh ==
  ASSUME FreshInv, NEW c \in CPU, NEW e \in Env, FreeOn(c, e)
  PROVE  FreshInv'
<1>1. /\ pte' = [pte EXCEPT ![e] = [va \in VA |-> Nil]]
      /\ writable' = [writable EXCEPT ![e] = {}]
      /\ page_free_list' \subseteq Page
      /\ curenv[c] = e \/ ~OnCpu(e)
      /\ curenv' = [curenv EXCEPT ![c] = IF @ = e THEN Nil ELSE @]
      /\ tlb' = [tlb EXCEPT ![c] = IF curenv[c] = e THEN {} ELSE @]
  BY DEF FreeOn, EnvFree, Freed, FreshInv, FreshType
<1>2. FreshType'
  <2> DEFINE Entry == [va : VA, page : Page, w : BOOLEAN]
  <2>1. /\ tlb \in [CPU -> SUBSET Entry] /\ curenv \in [CPU -> Env \cup {Nil}]
        /\ pte \in [Env -> [VA -> Page \cup {Nil}]] /\ writable \in [Env -> SUBSET VA]
    BY DEF FreshInv, FreshType
  <2> HIDE DEF Entry
  <2>2. tlb' \in [CPU -> SUBSET Entry] /\ curenv' \in [CPU -> Env \cup {Nil}]
    BY <1>1, <2>1
  <2>3. pte' \in [Env -> [VA -> Page \cup {Nil}]] /\ writable' \in [Env -> SUBSET VA]
    BY <1>1, <2>1
  <2> QED BY <1>1, <2>2, <2>3 DEF FreshType, Entry
<1>3. Alone'
  BY <1>1 DEF FreshInv, FreshType, Alone
<1>4. ASSUME NEW d \in CPU, NEW x \in tlb'[d]
      PROVE  /\ curenv'[d] # Nil /\ pte'[curenv'[d]][x.va] = x.page
             /\ x.w => x.va \in writable'[curenv'[d]]
  <2>1. x \in tlb[d] /\ ~(d = c /\ curenv[c] = e)
    BY <1>1, <1>4 DEF FreshInv, FreshType
  <2>2. /\ curenv[d] # Nil /\ pte[curenv[d]][x.va] = x.page
        /\ x.w => x.va \in writable[curenv[d]]
    BY <2>1 DEF FreshInv, TlbFresh
  <2>3. curenv[d] # e
    BY <1>1, <2>1, <2>2 DEF FreshInv, Alone, OnCpu
  <2>4. curenv'[d] = curenv[d] /\ curenv[d] \in Env
    BY <1>1, <2>2, <2>3 DEF FreshInv, FreshType
  <2>5. pte'[curenv[d]] = pte[curenv[d]] /\ writable'[curenv[d]] = writable[curenv[d]]
    BY <1>1, <2>3, <2>4 DEF FreshInv, FreshType
  <2> QED BY <2>2, <2>4, <2>5
<1>5. TlbFresh'
  BY <1>4 DEF TlbFresh
<1> QED BY <1>2, <1>3, <1>5 DEF FreshInv

LEMMA AccessFresh ==
  ASSUME FreshInv, NEW c \in CPU, NEW va \in VA, Access(c, va)
  PROVE  FreshInv'
<1>1. PICK e \in Env : e = curenv[c] /\ e # Nil
  BY DEF Access, FreshInv, FreshType
<1>2. /\ tlb' = [tlb EXCEPT ![c] = @ \cup
                   {[va |-> va, page |-> pte[e][va], w |-> va \in writable[e]]}]
      /\ UNCHANGED <<pte, writable, page_free_list, curenv>>
  BY <1>1 DEF Access, vars
<1>3. FreshType'
  BY <1>2, AccessTyped DEF FreshInv, FreshType
<1>4. Alone'
  BY <1>2 DEF FreshInv, Alone
<1>5. ASSUME NEW d \in CPU, NEW x \in tlb'[d]
      PROVE  /\ curenv'[d] # Nil /\ pte'[curenv'[d]][x.va] = x.page
             /\ x.w => x.va \in writable'[curenv'[d]]
  <2>1. CASE x \in tlb[d]
    BY <1>2, <2>1 DEF FreshInv, TlbFresh
  <2>2. CASE x \notin tlb[d]
    <3>1. d = c /\ x = [va |-> va, page |-> pte[e][va], w |-> va \in writable[e]]
      BY <1>2, <1>5, <2>2 DEF FreshInv, FreshType
    <3> QED BY <1>1, <1>2, <3>1
  <2> QED BY <2>1, <2>2
<1>6. TlbFresh'
  BY <1>5 DEF TlbFresh
<1> QED BY <1>3, <1>4, <1>6 DEF FreshInv

(* When a program edits only its own address space and those of            *)
(* environments that are on no CPU, no CPU ever holds a translation or a   *)
(* write permission that the page table no longer has: tlb_invalidate and  *)
(* lcr3 are enough without any message to the other CPUs.                  *)
THEOREM Fresh == ASSUME Care = TRUE PROVE TlbSpec => []TlbFresh
<1>1. TlbInit => FreshInv
  BY DEF TlbInit, Init, FreshInv, FreshType, Alone, TlbFresh
<1>2. ASSUME FreshInv, [TlbNext]_tlbVars PROVE FreshInv'
  <2>1. ASSUME UNCHANGED <<pte, writable, curenv, tlb>>, page_free_list' \subseteq Page
        PROVE  FreshInv'
    BY <1>2, <2>1 DEF FreshInv, FreshType, Alone, TlbFresh
  <2>2. ASSUME NEW e \in Env, SetupOn(e) PROVE FreshInv'
    <3>1. UNCHANGED <<pte, writable, curenv, tlb>> /\ page_free_list' \subseteq Page
      BY <1>2, <2>2 DEF SetupOn, EnvSetupVm, FreshInv, FreshType
    <3> QED BY <2>1, <3>1
  <2>3. ASSUME NEW c \in CPU, SchedHalt(c) PROVE FreshInv'
    <3>1. /\ curenv' = [curenv EXCEPT ![c] = Nil] /\ tlb' = [tlb EXCEPT ![c] = {}]
          /\ UNCHANGED <<pte, writable, page_free_list>>
      BY <2>3 DEF SchedHalt, vars
    <3> QED BY <1>2, <3>1, SwitchFresh
  <2>4. ASSUME NEW c \in CPU, NEW e \in Env, EnvRun(c, e) PROVE FreshInv'
    <3>1. /\ curenv' = [curenv EXCEPT ![c] = e] /\ tlb' = [tlb EXCEPT ![c] = {}]
          /\ UNCHANGED <<pte, writable, page_free_list>>
      BY <2>4 DEF EnvRun, vars
    <3>2. \A d \in CPU : d # c /\ curenv[d] = e => e = Nil
      BY <1>2, <2>4 DEF EnvRun, OnCpu, FreshInv, Alone
    <3> QED BY <1>2, <3>1, <3>2, SwitchFresh
  <2>5. ASSUME UNCHANGED tlbVars PROVE FreshInv'
    <3>1. UNCHANGED <<pte, writable, curenv, tlb>> /\ page_free_list' \subseteq Page
      BY <1>2, <2>5 DEF tlbVars, vars, FreshInv, FreshType
    <3> QED BY <2>1, <3>1
  <2> QED BY <1>2, <2>2, <2>3, <2>4, <2>5, EditsFresh, FreeFresh, AccessFresh DEF TlbNext, Edits
<1>3. FreshInv => TlbFresh
  BY DEF FreshInv
<1> QED BY <1>1, <1>2, <1>3, PTL DEF TlbSpec
=============================================================================
