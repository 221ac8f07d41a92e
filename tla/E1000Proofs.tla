----------------------------- MODULE E1000Proofs -----------------------------
(* Proofs about E1000, for rings of any length: the descriptors in use are *)
(* the ones from one index on, around the end of the ring, and each ring   *)
(* is a first-in first-out queue.                                          *)
EXTENDS E1000, FiniteSetTheorems, FunctionTheorems, SequenceTheorems, TLAPS

-----------------------------------------------------------------------------
(* Rings of n places.                                                      *)

(* x modulo n, for x < 2 * n, and how far i is behind s.                   *)
Wrap(x, n) == IF x < n THEN x ELSE x - n
Behind(s, i, n) == IF s <= i THEN i - s ELSE i - s + n

LEMMA ModIsWrap ==
  ASSUME NEW n \in Nat \ {0}, NEW x \in Nat, x < 2 * n
  PROVE  x % n = Wrap(x, n) /\ Wrap(x, n) \in 0 .. n - 1
<1>1. CASE x < n
  BY <1>1 DEF Wrap
<1>2. CASE x >= n
  <2>1. PICK r \in Nat : x = n + r /\ r < n
    BY <1>2
  <2>2. (n + r) % n = r
    BY <2>1
  <2> QED BY <1>2, <2>1, <2>2 DEF Wrap
<1> QED BY <1>1, <1>2

(* The k places from s on.                                                 *)
Arc(s, k, n) == {i \in 0 .. n - 1 : Behind(s, i, n) < k}

LEMMA ArcCard ==
  ASSUME NEW n \in Nat \ {0}, NEW s \in 0 .. n - 1, NEW k \in 0 .. n
  PROVE  IsFiniteSet(Arc(s, k, n)) /\ Cardinality(Arc(s, k, n)) = k
<1> DEFINE A == Arc(s, k, n)
           f == [j \in 1 .. k |-> Wrap(s + j - 1, n)]
<1>1. f \in [1 .. k -> A]
  BY DEF Arc, Wrap, Behind
<1>2. \A i, j \in 1 .. k : f[i] = f[j] => i = j
  BY DEF Wrap
<1>3. \A i \in A : \E j \in 1 .. k : f[j] = i
  <2> SUFFICES ASSUME NEW i \in A PROVE \E j \in 1 .. k : f[j] = i
    OBVIOUS
  <2>1. Behind(s, i, n) + 1 \in 1 .. k
    BY DEF Arc, Behind
  <2>2. f[Behind(s, i, n) + 1] = i
    BY <2>1 DEF Arc, Wrap, Behind
  <2> QED BY <2>1, <2>2
<1>4. f \in Bijection(1 .. k, A)
  BY <1>1, <1>2, <1>3, Fun_IsBij
<1>5. ExistsBijection(1 .. k, A)
  BY <1>4, Fun_ExistsBij
<1>6. IsFiniteSet(1 .. k) /\ Cardinality(1 .. k) = k
  BY FS_Interval
<1> QED BY <1>5, <1>6, FS_Bijection

(* One more place in use at the end, one less at the start.                *)
LEMMA ArcGrow ==
  ASSUME NEW n \in Nat \ {0}, NEW s \in 0 .. n - 1, NEW k \in 0 .. n - 1
  PROVE  /\ Wrap(s + k, n) \in 0 .. n - 1 /\ Wrap(s + k, n) \notin Arc(s, k, n)
         /\ Arc(s, k + 1, n) = Arc(s, k, n) \cup {Wrap(s + k, n)}
         /\ Wrap(Wrap(s + k, n) + 1, n) = Wrap(s + (k + 1), n)
BY DEF Arc, Wrap, Behind

LEMMA ArcShrink ==
  ASSUME NEW n \in Nat \ {0}, NEW s \in 0 .. n - 1, NEW k \in 1 .. n
  PROVE  /\ s \in Arc(s, k, n)
         /\ Wrap(s + 1, n) \in 0 .. n - 1
         /\ Arc(Wrap(s + 1, n), k - 1, n) = Arc(s, k, n) \ {s}
         /\ Wrap(s + k, n) = Wrap(Wrap(s + 1, n) + (k - 1), n)
BY DEF Arc, Wrap, Behind

-----------------------------------------------------------------------------
(* What k places of a ring hold, as a sequence.                            *)
Contents(b, s, k, n) == [j \in 1 .. k |-> b[Wrap(s + j - 1, n)]]

(* b becomes c: x is put into place i.                                     *)
SetsPlace(b, c, i, x, n, B) ==
  /\ b \in [0 .. n - 1 -> B] /\ c \in [0 .. n - 1 -> B]
  /\ x \in B /\ c[i] = x
  /\ \A j \in 0 .. n - 1 : j # i => c[j] = b[j]

LEMMA ContentsPut ==
  ASSUME NEW n \in Nat \ {0}, NEW s \in 0 .. n - 1, NEW k \in 0 .. n - 1, NEW B,
         NEW b, NEW c, NEW x, SetsPlace(b, c, Wrap(s + k, n), x, n, B)
  PROVE  /\ Contents(b, s, k, n) \in Seq(B) /\ Len(Contents(b, s, k, n)) = k
         /\ Contents(c, s, k + 1, n) = Append(Contents(b, s, k, n), x)
<1> DEFINE q == Contents(b, s, k, n)
           r == Contents(c, s, k + 1, n)
<1> USE DEF SetsPlace
<1>1. \A j \in 1 .. k : Wrap(s + j - 1, n) \in 0 .. n - 1 /\ Wrap(s + j - 1, n) # Wrap(s + k, n)
  BY DEF Wrap
<1>2. q \in [1 .. k -> B]
  BY <1>1 DEF Contents
<1>3. q \in Seq(B) /\ Len(q) = k
  BY <1>2
<1>4. DOMAIN r = 1 .. k + 1 /\ r[k + 1] = x /\ \A j \in 1 .. k : r[j] = q[j]
  <2>1. s + (k + 1) - 1 = s + k
    OBVIOUS
  <2>2. r[k + 1] = x
    BY <2>1 DEF Contents
  <2>3. \A j \in 1 .. k : r[j] = q[j]
    BY <1>1 DEF Contents
  <2> QED BY <2>2, <2>3 DEF Contents
<1>5. r \in [1 .. k + 1 -> B]
  <2>1. \A j \in 1 .. k + 1 : Wrap(s + j - 1, n) \in 0 .. n - 1
    BY DEF Wrap
  <2> QED BY <2>1 DEF Contents
<1> HIDE DEF q, r
<1>6. r = Append(q, x)
  <2>1. r \in Seq(B) /\ Len(r) = k + 1
    BY <1>5
  <2>2. Append(q, x) \in Seq(B) /\ Len(Append(q, x)) = k + 1
    BY <1>3
  <2>3. \A j \in 1 .. k + 1 : r[j] = Append(q, x)[j]
    BY <1>3, <1>4
  <2> QED BY <2>1, <2>2, <2>3, SeqEqual
<1> QED BY <1>3, <1>6 DEF q, r

LEMMA ContentsTake ==
  ASSUME NEW n \in Nat \ {0}, NEW s \in 0 .. n - 1, NEW k \in 1 .. n, NEW B,
         NEW b \in [0 .. n - 1 -> B]
  PROVE  /\ Contents(b, s, k, n) # <<>>
         /\ Head(Contents(b, s, k, n)) = b[s]
         /\ Tail(Contents(b, s, k, n)) = Contents(b, Wrap(s + 1, n), k - 1, n)
<1> DEFINE q == Contents(b, s, k, n)
           r == Contents(b, Wrap(s + 1, n), k - 1, n)
<1>1. \A j \in 1 .. k : Wrap(s + j - 1, n) \in 0 .. n - 1
  BY DEF Wrap
<1>2. q \in [1 .. k -> B] /\ q[1] = b[s]
  BY <1>1 DEF Contents, Wrap
<1>3. \A j \in 1 .. k - 1 : Wrap(Wrap(s + 1, n) + j - 1, n) = Wrap(s + (j + 1) - 1, n)
  BY DEF Wrap
<1>4. r \in [1 .. k - 1 -> B] /\ \A j \in 1 .. k - 1 : r[j] = q[j + 1]
  <2>1. \A j \in 1 .. k - 1 : /\ r[j] = b[Wrap(s + (j + 1) - 1, n)]
                              /\ j + 1 \in 1 .. k /\ q[j + 1] = b[Wrap(s + (j + 1) - 1, n)]
    BY <1>3 DEF Contents
  <2>2. \A j \in 1 .. k - 1 : r[j] \in B /\ r[j] = q[j + 1]
    BY <1>1, <2>1
  <2>3. r = [j \in 1 .. k - 1 |-> r[j]]
    BY DEF Contents
  <2> QED BY <2>2, <2>3
<1> HIDE DEF q, r
<1>5. q \in Seq(B) /\ Len(q) = k /\ r \in Seq(B) /\ Len(r) = k - 1
  BY <1>2, <1>4
<1>6. q # <<>> /\ Head(q) = b[s]
  BY <1>2, <1>5
<1>7. Tail(q) \in Seq(B) /\ Len(Tail(q)) = k - 1 /\ \A j \in 1 .. k - 1 : Tail(q)[j] = q[j + 1]
  BY <1>5, <1>6
<1>8. Tail(q) = r
  BY <1>4, <1>5, <1>7, SeqEqual
<1> QED BY <1>6, <1>8 DEF q, r

-----------------------------------------------------------------------------
(* The rings of the driver.                                                *)

Bufs(q, n) == [i \in 0 .. n - 1 |-> q[i].buf]

(* The queues of TxIsQueue and RxIsQueue, in terms of the places in use.   *)
FromHead(q, s, m, n) == [k \in 1 .. m |-> q[(s + k - 1) % n].buf]
AfterTail(q, t, m, n) == [k \in 1 .. m |-> q[(t + k) % n].buf]

LEMMA FromHeadContents ==
  ASSUME NEW n \in Nat \ {0}, NEW q, NEW s \in 0 .. n - 1, NEW m \in 0 .. n
  PROVE  FromHead(q, s, m, n) = Contents(Bufs(q, n), s, m, n)
<1>1. \A j \in 1 .. m : (s + j - 1) % n = Wrap(s + j - 1, n) /\ Wrap(s + j - 1, n) \in 0 .. n - 1
  BY ModIsWrap
<1> QED BY <1>1 DEF FromHead, Contents, Bufs

LEMMA AfterTailContents ==
  ASSUME NEW n \in Nat \ {0}, NEW q, NEW t \in 0 .. n - 1, NEW m \in 0 .. n - 1
  PROVE  AfterTail(q, t, m, n) = Contents(Bufs(q, n), Wrap(t + 1, n), m, n)
<1>1. \A j \in 1 .. m : (t + j) % n = Wrap(t + j, n)
  <2>1. \A j \in 1 .. m : t + j \in Nat /\ t + j < 2 * n
    OBVIOUS
  <2> QED BY <2>1, ModIsWrap
<1>2. \A j \in 1 .. m : /\ Wrap(t + j, n) = Wrap(Wrap(t + 1, n) + j - 1, n)
                        /\ Wrap(t + j, n) \in 0 .. n - 1
  BY DEF Wrap
<1> QED BY <1>1, <1>2 DEF AfterTail, Contents, Bufs

(* k descriptors in use, from the transmit head up to the transmit tail,   *)
(* and from behind the receive tail up to the receive head.                *)
TxRing(k) ==
  /\ TxPending = Arc(TDH, k, NTXDESC)
  /\ TDT = Wrap(TDH + k, NTXDESC)

RxRing(k) ==
  /\ RxPending = Arc(Wrap(RDT + 1, NRXDESC), k, NRXDESC)
  /\ RDH = Wrap(Wrap(RDT + 1, NRXDESC) + k, NRXDESC)

TxQ == FromHead(tx_queue, TDH, Cardinality(TxPending), NTXDESC)
RxQ == AfterTail(rx_queue, RDT, Cardinality(RxPending), NRXDESC)

(* The inductive invariants.  head = tail alone does not say whether the   *)
(* transmit ring is empty or full; the descriptors do.                     *)
TxInv ==
  /\ tx_queue \in [0 .. NTXDESC - 1 ->
                     [rs : BOOLEAN, dd : BOOLEAN, buf : Packet \cup {NoPacket}]]
  /\ TDH \in 0 .. NTXDESC - 1 /\ TDT \in 0 .. NTXDESC - 1
  /\ wire \in Packet \cup {NoPacket}
  /\ \E k \in 0 .. NTXDESC : TxRing(k)

RxInv ==
  /\ rx_queue \in [0 .. NRXDESC - 1 -> [dd : BOOLEAN, buf : Packet \cup {NoPacket}]]
  /\ RDH \in 0 .. NRXDESC - 1 /\ RDT \in 0 .. NRXDESC - 1
  /\ delivered \in Packet \cup {NoPacket}
  /\ \E k \in 0 .. NRXDESC - 1 : RxRing(k)

LEMMA TransmitStep ==
  ASSUME TxInv, NEW p \in Packet, Transmit(p)
  PROVE  TxInv' /\ Tx!Put(p)
<1> DEFINE n == NTXDESC
           B == Packet \cup {NoPacket}
           b == Bufs(tx_queue, n)
           c == Bufs(tx_queue', n)
           D == [rs : BOOLEAN, dd : BOOLEAN, buf : B]
           d == [rs |-> TRUE, dd |-> FALSE, buf |-> p]
<1>1. PICK k \in 0 .. n : TxRing(k)
  BY DEF TxInv
<1>2. /\ tx_queue \in [0 .. n - 1 -> D] /\ TDH \in 0 .. n - 1 /\ TDT \in 0 .. n - 1
      /\ wire \in B /\ n \in Nat \ {0}
  BY RingAssumption DEF TxInv
<1>3. /\ TDT \notin TxPending /\ tx_queue' = [tx_queue EXCEPT ![TDT] = d]
      /\ TDT' = (TDT + 1) % n /\ UNCHANGED <<TDH, wire>>
  BY DEF Transmit, TxPending
<1>4. k \in 0 .. n - 1
  <2>1. SUFFICES ASSUME k = n PROVE FALSE
    BY <1>2
  <2>2. TDT \in Arc(TDH, k, n)
    BY <1>1, <1>2, <2>1 DEF TxRing, Arc, Wrap, Behind
  <2> QED BY <1>1, <1>3, <2>2 DEF TxRing
<1>5. d \in D /\ d.buf = p /\ d.rs /\ ~d.dd
  OBVIOUS
<1> HIDE DEF d
<1>6. tx_queue' \in [0 .. n - 1 -> D]
  <2> HIDE DEF D
  <2> QED BY <1>2, <1>3, <1>5
<1>7. TxPending' = TxPending \cup {TDT}
  BY <1>2, <1>3, <1>5 DEF TxPending
<1>8. TDT' = Wrap(TDT + 1, n) /\ TDT' \in 0 .. n - 1
  BY <1>2, <1>3, ModIsWrap
<1>9. TxRing(k + 1)' /\ k + 1 \in 0 .. n
  <2>1. /\ Arc(TDH, k + 1, n) = Arc(TDH, k, n) \cup {Wrap(TDH + k, n)}
        /\ Wrap(Wrap(TDH + k, n) + 1, n) = Wrap(TDH + (k + 1), n)
    BY <1>2, <1>4, ArcGrow
  <2> QED BY <1>1, <1>2, <1>3, <1>4, <1>7, <1>8, <2>1 DEF TxRing
<1>10. Cardinality(TxPending) = k /\ Cardinality(TxPending') = k + 1
  BY <1>1, <1>2, <1>3, <1>4, <1>9, ArcCard DEF TxRing
<1>11. SetsPlace(b, c, Wrap(TDH + k, n), p, n, B)
  BY <1>1, <1>2, <1>3, <1>5, <1>6 DEF Bufs, TxRing, SetsPlace
<1>12. /\ Len(Contents(b, TDH, k, n)) = k
       /\ Contents(c, TDH, k + 1, n) = Append(Contents(b, TDH, k, n), p)
  <2> HIDE DEF b, c, B
  <2> QED BY <1>2, <1>4, <1>11, ContentsPut
<1>13. /\ FromHead(tx_queue, TDH, k, n) = Contents(b, TDH, k, n)
       /\ FromHead(tx_queue', TDH', k + 1, n) = Contents(c, TDH, k + 1, n)
  BY <1>2, <1>3, <1>4, <1>9, FromHeadContents
<1>14. Tx!Put(p)
  <2>1. Len(TxQ) < NTXDESC /\ TxQ' = Append(TxQ, p) /\ UNCHANGED wire
    <3>1. TxQ = Contents(b, TDH, k, n) /\ TxQ' = Contents(c, TDH, k + 1, n)
      BY <1>10, <1>13 DEF TxQ
    <3> HIDE DEF b, c
    <3> QED BY <1>2, <1>3, <1>4, <1>12, <3>1
  <2> QED BY <2>1 DEF Tx!Put, TxQ, FromHead
<1>15. TxInv'
  BY <1>2, <1>3, <1>6, <1>8, <1>9 DEF TxInv
<1> QED BY <1>14, <1>15

LEMMA SendStep ==
  ASSUME TxInv, DeviceSend
  PROVE  TxInv' /\ Tx!Take
<1> DEFINE n == NTXDESC
           B == Packet \cup {NoPacket}
           b == Bufs(tx_queue, n)
           D == [rs : BOOLEAN, dd : BOOLEAN, buf : B]
<1>1. PICK k \in 0 .. n : TxRing(k)
  BY DEF TxInv
<1>2. /\ tx_queue \in [0 .. n - 1 -> D] /\ TDH \in 0 .. n - 1 /\ TDT \in 0 .. n - 1
      /\ n \in Nat \ {0}
  BY RingAssumption DEF TxInv
<1>3. /\ TDH # TDT /\ wire' = tx_queue[TDH].buf
      /\ tx_queue' = [tx_queue EXCEPT ![TDH].dd = tx_queue[TDH].rs]
      /\ TDH' = (TDH + 1) % n /\ UNCHANGED TDT
  BY DEF DeviceSend
<1>4. k \in 1 .. n
  BY <1>1, <1>2, <1>3 DEF TxRing, Wrap
<1>5. TDH \in TxPending
  BY <1>1, <1>2, <1>4, ArcShrink DEF TxRing
<1>6. /\ tx_queue' \in [0 .. n - 1 -> D] /\ wire' \in B
      /\ tx_queue'[TDH].dd
      /\ \A i \in 0 .. n - 1 : tx_queue'[i].buf = tx_queue[i].buf
      /\ \A i \in 0 .. n - 1 : i # TDH => tx_queue'[i] = tx_queue[i]
  BY <1>2, <1>3, <1>5 DEF TxPending
<1>7. TxPending' = TxPending \ {TDH}
  BY <1>6 DEF TxPending
<1>8. TDH' = Wrap(TDH + 1, n) /\ TDH' \in 0 .. n - 1
  BY <1>2, <1>3, ModIsWrap
<1>9. TxRing(k - 1)' /\ k - 1 \in 0 .. n
  BY <1>1, <1>2, <1>3, <1>4, <1>7, <1>8, ArcShrink DEF TxRing
<1>10. Cardinality(TxPending) = k /\ Cardinality(TxPending') = k - 1
  BY <1>1, <1>2, <1>4, <1>8, <1>9, ArcCard DEF TxRing
<1>11. b \in [0 .. n - 1 -> B] /\ Bufs(tx_queue', n) = b /\ b[TDH] = wire'
  BY <1>2, <1>3, <1>6 DEF Bufs
<1>12. /\ Contents(b, TDH, k, n) # <<>> /\ Head(Contents(b, TDH, k, n)) = wire'
       /\ Tail(Contents(b, TDH, k, n)) = Contents(b, TDH', k - 1, n)
  <2> HIDE DEF b, B
  <2> QED BY <1>2, <1>4, <1>8, <1>11, ContentsTake
<1>13. /\ FromHead(tx_queue, TDH, k, n) = Contents(b, TDH, k, n)
       /\ FromHead(tx_queue', TDH', k - 1, n) = Contents(b, TDH', k - 1, n)
  BY <1>2, <1>4, <1>8, <1>9, <1>11, FromHeadContents
<1>14. Tx!Take
  <2>1. TxQ # <<>> /\ wire' = Head(TxQ) /\ TxQ' = Tail(TxQ)
    BY <1>10, <1>12, <1>13 DEF TxQ
  <2> QED BY <2>1 DEF Tx!Take, TxQ, FromHead
<1>15. TxInv'
  BY <1>2, <1>3, <1>6, <1>8, <1>9 DEF TxInv
<1> QED BY <1>14, <1>15

LEMMA StoreStep ==
  ASSUME RxInv, NEW p \in Packet, DeviceReceive(p)
  PROVE  RxInv' /\ Rx!Put(p)
<1> DEFINE n == NRXDESC
           B == Packet \cup {NoPacket}
           b == Bufs(rx_queue, n)
           c == Bufs(rx_queue', n)
           D == [dd : BOOLEAN, buf : B]
           d == [dd |-> TRUE, buf |-> p]
<1>1. PICK k \in 0 .. n - 1 : RxRing(k)
  BY DEF RxInv
<1>2. /\ rx_queue \in [0 .. n - 1 -> D] /\ RDH \in 0 .. n - 1 /\ RDT \in 0 .. n - 1
      /\ delivered \in B /\ n \in Nat \ {0}
  BY RingAssumption DEF RxInv
<1>3. PICK s \in 0 .. n - 1 : s = Wrap(RDT + 1, n)
  <2>1. Wrap(RDT + 1, n) \in 0 .. n - 1
    BY <1>2 DEF Wrap
  <2> QED BY <2>1
<1>4. /\ RDH # RDT /\ rx_queue' = [rx_queue EXCEPT ![RDH] = d]
      /\ RDH' = (RDH + 1) % n /\ UNCHANGED <<RDT, delivered>>
  BY DEF DeviceReceive
<1>5. k + 1 \in 0 .. n - 1
  BY <1>1, <1>2, <1>3, <1>4 DEF RxRing, Wrap
<1>6. d \in D /\ d.buf = p /\ d.dd
  OBVIOUS
<1> HIDE DEF d
<1>7. rx_queue' \in [0 .. n - 1 -> D]
  <2> HIDE DEF D
  <2> QED BY <1>2, <1>4, <1>6
<1>8. RxPending' = RxPending \cup {RDH}
  BY <1>2, <1>4, <1>6 DEF RxPending
<1>9. RDH' = Wrap(RDH + 1, n) /\ RDH' \in 0 .. n - 1
  BY <1>2, <1>4, ModIsWrap
<1>10. RxRing(k + 1)'
  <2>1. /\ Arc(s, k + 1, n) = Arc(s, k, n) \cup {Wrap(s + k, n)}
        /\ Wrap(Wrap(s + k, n) + 1, n) = Wrap(s + (k + 1), n)
    BY <1>2, ArcGrow
  <2> QED BY <1>1, <1>3, <1>4, <1>8, <1>9, <2>1 DEF RxRing
<1>11. Cardinality(RxPending) = k /\ Cardinality(RxPending') = k + 1
  <2>1. k \in 0 .. n /\ k + 1 \in 0 .. n
    BY <1>2, <1>5
  <2> QED BY <1>1, <1>2, <1>3, <1>4, <1>10, <2>1, ArcCard DEF RxRing
<1>12. SetsPlace(b, c, Wrap(s + k, n), p, n, B)
  BY <1>1, <1>2, <1>3, <1>4, <1>6, <1>7 DEF Bufs, RxRing, SetsPlace
<1>13. /\ Len(Contents(b, s, k, n)) = k
       /\ Contents(c, s, k + 1, n) = Append(Contents(b, s, k, n), p)
  <2> HIDE DEF b, c, B
  <2> QED BY <1>2, <1>12, ContentsPut
<1>14. /\ AfterTail(rx_queue, RDT, k, n) = Contents(b, s, k, n)
       /\ AfterTail(rx_queue', RDT', k + 1, n) = Contents(c, s, k + 1, n)
  BY <1>2, <1>3, <1>4, <1>5, AfterTailContents
<1>15. Rx!Put(p)
  <2>1. Len(RxQ) < NRXDESC - 1 /\ RxQ' = Append(RxQ, p) /\ UNCHANGED delivered
    <3>1. RxQ = Contents(b, s, k, n) /\ RxQ' = Contents(c, s, k + 1, n)
      BY <1>11, <1>14 DEF RxQ
    <3> HIDE DEF b, c
    <3> QED BY <1>2, <1>4, <1>5, <1>13, <3>1
  <2> QED BY <2>1 DEF Rx!Put, RxQ, AfterTail
<1>16. RxInv'
  BY <1>2, <1>4, <1>5, <1>7, <1>9, <1>10 DEF RxInv
<1> QED BY <1>15, <1>16

LEMMA ReceiveStep ==
  ASSUME RxInv, Receive
  PROVE  RxInv' /\ Rx!Take
<1> DEFINE n == NRXDESC
           B == Packet \cup {NoPacket}
           b == Bufs(rx_queue, n)
           D == [dd : BOOLEAN, buf : B]
<1>1. PICK k \in 0 .. n - 1 : RxRing(k)
  BY DEF RxInv
<1>2. /\ rx_queue \in [0 .. n - 1 -> D] /\ RDH \in 0 .. n - 1 /\ RDT \in 0 .. n - 1
      /\ n \in Nat \ {0}
  BY RingAssumption DEF RxInv
<1>3. PICK s \in 0 .. n - 1 : s = Wrap(RDT + 1, n) /\ s = (RDT + 1) % n
  <2>1. RDT + 1 \in Nat /\ RDT + 1 < 2 * n
    BY <1>2, RingAssumption
  <2>2. Wrap(RDT + 1, n) \in 0 .. n - 1 /\ Wrap(RDT + 1, n) = (RDT + 1) % n
    BY <1>2, <2>1, ModIsWrap
  <2> QED BY <2>2
<1>4. /\ rx_queue[s].dd /\ delivered' = rx_queue[s].buf
      /\ rx_queue' = [rx_queue EXCEPT ![s].dd = FALSE]
      /\ RDT' = s /\ UNCHANGED RDH
  BY <1>3 DEF Receive
<1>5. k \in 1 .. n /\ k - 1 \in 0 .. n - 1
  <2>1. s \in RxPending
    BY <1>4 DEF RxPending
  <2> QED BY <1>1, <1>2, <1>3, <2>1 DEF RxRing, Arc, Behind
<1>6. /\ rx_queue' \in [0 .. n - 1 -> D] /\ delivered' \in B
      /\ ~rx_queue'[s].dd
      /\ \A i \in 0 .. n - 1 : rx_queue'[i].buf = rx_queue[i].buf
      /\ \A i \in 0 .. n - 1 : i # s => rx_queue'[i] = rx_queue[i]
  BY <1>2, <1>4
<1>7. RxPending' = RxPending \ {s}
  BY <1>6 DEF RxPending
<1>8. PICK t \in 0 .. n - 1 : t = Wrap(s + 1, n) /\ t = Wrap(RDT' + 1, n)
  BY <1>2, <1>4 DEF Wrap
<1>9. RxRing(k - 1)'
  <2>1. /\ Arc(t, k - 1, n) = Arc(s, k, n) \ {s}
        /\ Wrap(s + k, n) = Wrap(t + (k - 1), n)
    <3>1. /\ Arc(Wrap(s + 1, n), k - 1, n) = Arc(s, k, n) \ {s}
          /\ Wrap(s + k, n) = Wrap(Wrap(s + 1, n) + (k - 1), n)
      BY <1>2, <1>5, ArcShrink
    <3> QED BY <1>8, <3>1
  <2> QED BY <1>1, <1>3, <1>4, <1>7, <1>8, <2>1 DEF RxRing
<1>10. Cardinality(RxPending) = k /\ Cardinality(RxPending') = k - 1
  <2>1. k \in 0 .. n /\ k - 1 \in 0 .. n
    BY <1>2, <1>5
  <2> QED BY <1>1, <1>2, <1>3, <1>8, <1>9, <2>1, ArcCard DEF RxRing
<1>11. b \in [0 .. n - 1 -> B] /\ Bufs(rx_queue', n) = b /\ b[s] = delivered'
  BY <1>2, <1>4, <1>6 DEF Bufs
<1>12. /\ Contents(b, s, k, n) # <<>> /\ Head(Contents(b, s, k, n)) = delivered'
       /\ Tail(Contents(b, s, k, n)) = Contents(b, t, k - 1, n)
  <2> HIDE DEF b, B
  <2>1. /\ Contents(b, s, k, n) # <<>> /\ Head(Contents(b, s, k, n)) = b[s]
        /\ Tail(Contents(b, s, k, n)) = Contents(b, Wrap(s + 1, n), k - 1, n)
    BY <1>2, <1>5, <1>11, ContentsTake
  <2> QED BY <1>8, <1>11, <2>1
<1>13. /\ AfterTail(rx_queue, RDT, k, n) = Contents(b, s, k, n)
       /\ AfterTail(rx_queue', RDT', k - 1, n) = Contents(b, t, k - 1, n)
  BY <1>2, <1>3, <1>4, <1>5, <1>8, <1>11, AfterTailContents
<1>14. Rx!Take
  <2>1. RxQ # <<>> /\ delivered' = Head(RxQ) /\ RxQ' = Tail(RxQ)
    BY <1>10, <1>12, <1>13 DEF RxQ
  <2> QED BY <2>1 DEF Rx!Take, RxQ, AfterTail
<1>15. RxInv'
  BY <1>2, <1>3, <1>4, <1>5, <1>6, <1>9 DEF RxInv
<1> QED BY <1>14, <1>15

-----------------------------------------------------------------------------
(* The theorems.                                                           *)

LEMMA ArcNone ==
  ASSUME NEW n \in Nat \ {0}, NEW s \in 0 .. n - 1
  PROVE  Arc(s, 0, n) = {}
BY DEF Arc, Behind

LEMMA RingsInit ==
  ASSUME Init
  PROVE  TxInv /\ RxInv /\ Tx!Init /\ Rx!Init
<1>1. NTXDESC \in Nat \ {0} /\ NRXDESC \in Nat \ {0}
  BY RingAssumption
<1>2. TxPending = {} /\ RxPending = {}
  BY DEF Init, TxInit, RxInit, TxPending, RxPending
<1>3. TxInv
  <2>1. TxRing(0) /\ 0 \in 0 .. NTXDESC
    BY <1>1, <1>2, ArcNone DEF TxRing, Init, TxInit, Wrap
  <2> QED BY <1>1, <2>1 DEF Init, TxInit, TxInv
<1>4. RxInv
  <2>1. Wrap(RDT + 1, NRXDESC) = 0 /\ 0 \in 0 .. NRXDESC - 1
    BY <1>1 DEF Init, RxInit, Wrap
  <2>2. RxRing(0)
    BY <1>1, <1>2, <2>1, ArcNone DEF RxRing, Init, RxInit, Wrap
  <2> QED BY <1>1, <2>1, <2>2 DEF Init, RxInit, RxInv
<1>5. Cardinality(TxPending) = 0 /\ Cardinality(RxPending) = 0
  BY <1>2, FS_EmptySet
<1>6. Tx!Init
  BY <1>5, PacketAssumption DEF Tx!Init, Init, TxInit
<1>7. Rx!Init
  BY <1>5, PacketAssumption DEF Rx!Init, Init, RxInit
<1> QED BY <1>3, <1>4, <1>6, <1>7

LEMMA RingsNext ==
  ASSUME TxInv, RxInv, [Next]_vars
  PROVE  /\ TxInv' /\ RxInv'
         /\ (\E p \in Packet : Tx!Put(p)) \/ Tx!Take \/ UNCHANGED txVars
         /\ (\E p \in Packet : Rx!Put(p)) \/ Rx!Take \/ UNCHANGED rxVars
<1>1. ASSUME UNCHANGED txVars PROVE TxInv'
  BY <1>1 DEF txVars, TxInv, TxRing, TxPending
<1>2. ASSUME UNCHANGED rxVars PROVE RxInv'
  BY <1>2 DEF rxVars, RxInv, RxRing, RxPending
<1>3. ASSUME NEW p \in Packet, Transmit(p) PROVE TxInv' /\ Tx!Put(p) /\ UNCHANGED rxVars
  BY <1>3, TransmitStep DEF Transmit
<1>4. ASSUME DeviceSend PROVE TxInv' /\ Tx!Take /\ UNCHANGED rxVars
  BY <1>4, SendStep DEF DeviceSend
<1>5. ASSUME NEW p \in Packet, DeviceReceive(p) PROVE RxInv' /\ Rx!Put(p) /\ UNCHANGED txVars
  BY <1>5, StoreStep DEF DeviceReceive
<1>6. ASSUME Receive PROVE RxInv' /\ Rx!Take /\ UNCHANGED txVars
  BY <1>6, ReceiveStep DEF Receive
<1>7. ASSUME UNCHANGED vars PROVE UNCHANGED txVars /\ UNCHANGED rxVars
  BY <1>7 DEF vars
<1> QED BY <1>1, <1>2, <1>3, <1>4, <1>5, <1>6, <1>7 DEF Next

(* For rings of any length, the descriptors, the software indices and the  *)
(* device's head and tail registers agree after every step of              *)
(* e1000_transmit, e1000_receive and of the device, in any interleaving.   *)
THEOREM RingInvariance == Spec => [](TxInv /\ RxInv)
<1>1. Init => TxInv /\ RxInv
  BY RingsInit
<1>2. TxInv /\ RxInv /\ [Next]_vars => TxInv' /\ RxInv'
  BY RingsNext
<1> QED BY <1>1, <1>2, PTL DEF Spec

(* Heads and tails stay in rings of any length, and the device finds head  *)
(* and tail equal, and drops a packet, only when NRXDESC - 1 packets wait  *)
(* for e1000_receive.                                                      *)
THEOREM RingsAreSound == Spec => []RingsSound
<1>1. TxInv /\ RxInv => RingsSound
  <2> SUFFICES ASSUME TxInv, RxInv PROVE RingsSound
    OBVIOUS
  <2>1. TypeOK
    BY DEF TxInv, RxInv, TypeOK
  <2>2. ASSUME RDH = RDT PROVE Cardinality(RxPending) = NRXDESC - 1
    <3>1. PICK k \in 0 .. NRXDESC - 1 : RxRing(k)
      BY DEF RxInv
    <3>2. NRXDESC \in Nat \ {0} /\ RDT \in 0 .. NRXDESC - 1
      BY RingAssumption DEF RxInv
    <3>3. k = NRXDESC - 1 /\ k \in 0 .. NRXDESC /\ Wrap(RDT + 1, NRXDESC) \in 0 .. NRXDESC - 1
      BY <2>2, <3>1, <3>2 DEF RxRing, Wrap
    <3> QED BY <3>1, <3>2, <3>3, ArcCard DEF RxRing
  <2> QED BY <2>1, <2>2 DEF RingsSound, DropOnlyWhenFull
<1> QED BY <1>1, RingInvariance, PTL

(* The transmit ring, of any length, is a queue of NTXDESC packets: what   *)
(* e1000_transmit accepts goes to the wire once and in order.              *)
THEOREM TxImplementsQueue == Spec => TxIsQueue
<1>1. Init => Tx!Init
  BY RingsInit
<1>2. TxInv /\ RxInv /\ [Next]_vars => Tx!Next \/ UNCHANGED txVars
  BY RingsNext DEF Tx!Next
<1>3. UNCHANGED txVars =>
        UNCHANGED <<[k \in 1 .. Cardinality(TxPending) |-> tx_queue[(TDH + k - 1) % NTXDESC].buf], wire>>
  BY DEF txVars, TxPending
<1> QED BY <1>1, <1>2, <1>3, RingInvariance, PTL DEF Spec, TxIsQueue, Tx!Spec

(* The receive ring, of any length, is a queue of NRXDESC - 1 packets:     *)
(* e1000_receive returns what the device stored once and in order, and no  *)
(* packet is overwritten.                                                  *)
THEOREM RxImplementsQueue == Spec => RxIsQueue
<1>1. Init => Rx!Init
  BY RingsInit
<1>2. TxInv /\ RxInv /\ [Next]_vars => Rx!Next \/ UNCHANGED rxVars
  BY RingsNext DEF Rx!Next
<1>3. UNCHANGED rxVars =>
        UNCHANGED <<[k \in 1 .. Cardinality(RxPending) |-> rx_queue[(RDT + k) % NRXDESC].buf], delivered>>
  BY DEF rxVars, RxPending
<1> QED BY <1>1, <1>2, <1>3, RingInvariance, PTL DEF Spec, RxIsQueue, Rx!Spec
=============================================================================
