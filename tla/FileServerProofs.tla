-------------------------- MODULE FileServerProofs ---------------------------
(* Proofs about FsImage and FileServer, for blocks, files, tables and ids  *)
(* of any size: the image that fsformat writes is the one that the server  *)
(* reads, no held descriptor goes stale, and the server implements         *)
(* OpenFiles.                                                              *)
EXTENDS FileServer, FiniteSetTheorems, WellFoundedInduction, TLAPS

-----------------------------------------------------------------------------
(* The inductive invariant of the image: which blocks each file has.       *)

File == [name : STRING, size : Nat, direct : [0 .. NDIRECT - 1 -> Nat], indirect : Nat]

(* The block behind a file of len bytes at start and its indirect block.   *)
EndOf(start, len) == start + Blocks(len) + (IF Blocks(len) >= NDIRECT THEN 1 ELSE 0)

(* What writefile puts into block k of a file, and finishdir into block k  *)
(* of the directory.                                                       *)
FileBlock(name, len, k) ==
  [bytes |-> [j \in 0 .. BLKSIZE - 1 |->
     IF k * BLKSIZE + j < len THEN <<name, k * BLKSIZE + j>> ELSE NoByte]]
DirBlock(k) ==
  [entries |-> [j \in 0 .. BLKFILES - 1 |->
     IF k * BLKFILES + j < Len(ents) THEN ents[k * BLKFILES + j + 1] ELSE NoFile]]

(* f was finished by finishfile, with its blocks from s on.                *)
Finished(f, name, s) ==
  /\ \E old \in Nat : f = finishfile(name, s, f.size, s + Blocks(f.size), old)
  /\ f.size \in Nat /\ Blocks(f.size) <= NDIRECT + NINDIRECT
  /\ s \in Nat /\ s >= 3 /\ EndOf(s, f.size) < nblocks
  /\ Blocks(f.size) >= NDIRECT => disk[s + Blocks(f.size)] = IndirectBlock(s, f.size)

(* The files of the directory, one behind the other, below block limit.    *)
FilesAt(st, limit) ==
  /\ \A i \in 1 .. Len(ents) :
       /\ Finished(ents[i], Argv[i], st[i])
       /\ ents[i].size < MAXFILESIZE
       /\ \A k \in 0 .. Blocks(ents[i].size) - 1 : disk[st[i] + k] = FileBlock(Argv[i], ents[i].size, k)
       /\ EndOf(st[i], ents[i].size) <= limit
  /\ \A i, j \in 1 .. Len(ents) : i < j => EndOf(st[i], ents[i].size) <= st[j]

DirSize == ((Len(ents) + BLKFILES - 1) \div BLKFILES) * BLKSIZE

RootAt(s) ==
  /\ Finished(root, "/", s)
  /\ root.size = DirSize
  /\ \A k \in 0 .. Blocks(root.size) - 1 : disk[s + k] = DirBlock(k)

Starts == [1 .. Len(ents) -> Nat]

ImageInv ==
  /\ ents \in Seq(File) /\ Len(ents) <= Len(Argv)
  /\ diskpos \in Nat /\ diskpos >= 3
  /\ root.size \in Nat
  /\ Formatting => \E st \in Starts : FilesAt(st, diskpos)
  /\ ~Formatting =>
       /\ Len(ents) = Len(Argv)
       /\ bitmap = Block \ (0 .. diskpos - 1)
       /\ \E st \in Starts, s \in Nat :
            FilesAt(st, s) /\ RootAt(s) /\ diskpos = EndOf(s, root.size)

-----------------------------------------------------------------------------
(* The inductive invariant of the server.                                  *)

Call_ == [at : {"send", "sent", "wait"}, req : Request_]
Done_ == [at : {"done"}, req : Request_, r : Int, bytes : Text]
State_ == {Idle, Gone, Unborn} \cup Call_ \cup Done_
Reply_ == [at : {"reply"}, whom : Client, r : Int, bytes : Text, pg : Entry \cup {Nil}]
Panic == [at |-> "panic"]

TableTypes ==
  /\ o_fileid \in [Entry -> 0 .. IdMod - 1]
  /\ \A i \in Entry : o_fileid[i] % MAXOPEN = i
  /\ o_fd \in [Entry -> [id : 0 .. IdMod - 1, offset : 0 .. MAXFILESIZE] \cup {Nil}]
  /\ o_file \in [Entry -> File \cup {NoFile}]

ServerTypes ==
  /\ TableTypes
  /\ fd \in [Client -> [Fd -> Entry \cup {Nil}]]
  /\ srv \in {Recv, Panic} \cup Reply_
  /\ pc \in [Client -> State_]

(* Nothing happens before the image is there.                              *)
Quiet ==
  /\ srv = Recv
  /\ \A c \in Client : pc[c] \in {Idle, Unborn} /\ \A d \in Fd : fd[c][d] = Nil

DeadHoldNothing ==
  \A c \in Client : pc[c] \in {Unborn, Gone} => \A d \in Fd : fd[c][d] = Nil

(* An entry that was opened, with the id that its struct Fd says.          *)
Good(i) ==
  /\ o_fd[i] # Nil /\ o_fd[i].id = o_fileid[i]
  /\ \E j \in DOMAIN ents : o_file[i] = ents[j]
  /\ o_fd[i].offset <= o_file[i].size

HeldGood == \A c \in Client, d \in Fd : fd[c][d] # Nil => Good(fd[c][d])

(* A request that is under way is about a descriptor of the client.        *)
RequestGood(c) ==
  LET q == pc[c].req IN
  IF q.type = "open" THEN fd[c][q.fd] = Nil
  ELSE /\ fd[c][q.fd] # Nil /\ q.fileid = o_fd[fd[c][q.fd]].id
       /\ q.type = "read" => q.n # 0

RequestsGood == \A c \in Client : pc[c].at \in {"send", "sent", "wait"} => RequestGood(c)

DoneHeld ==
  \A c \in Client : pc[c].at = "done" /\ pc[c].req.type # "open" => fd[c][pc[c].req.fd] # Nil

(* The server works for whoever waits for it, and for one client at a time.*)
Served ==
  \A c \in Client : pc[c].at \in {"sent", "wait"} => srv = Panic \/ (srv.at = "reply" /\ srv.whom = c)

(* What the server answers; the page of an open is not mapped anywhere yet.*)
AnswerGood(q, r, pg) ==
  /\ q.type = "open" => (r >= 0 => pg # Nil)
  /\ q.type # "open" => r >= 0 /\ pg = Nil

ReplyGood ==
  srv.at = "reply" =>
    /\ pc[srv.whom].at \in {"sent", "wait"} \/ pc[srv.whom] = Gone
    /\ pc[srv.whom] # Gone => AnswerGood(pc[srv.whom].req, srv.r, srv.pg)
    /\ srv.pg # Nil => ~Held(srv.pg) /\ Good(srv.pg) /\ o_fd[srv.pg].offset = 0

ServerInv ==
  /\ ServerTypes
  /\ Formatting => Quiet
  /\ DeadHoldNothing /\ HeldGood
  /\ RequestsGood /\ DoneHeld
  /\ Served /\ ReplyGood
  /\ NeverStale /\ OpenMeansMapped

FsInv == ImageInv /\ ServerInv

-----------------------------------------------------------------------------
(* Arithmetic of blocks.                                                   *)

LEMMA Units ==
  /\ BLKSIZE \in Nat /\ BLKSIZE > 0 /\ BLKSIZE \in Nat \ {0}
  /\ NDIRECT \in Nat /\ NDIRECT > 0 /\ NINDIRECT \in Nat /\ NINDIRECT > 0
  /\ BLKFILES \in Nat /\ BLKFILES > 0 /\ BLKFILES \in Nat \ {0} /\ nblocks \in Nat
BY ImageAssumption

LEMMA Division ==
  ASSUME NEW a \in Nat, NEW b \in Nat \ {0}
  PROVE  /\ a \div b \in Nat /\ a % b \in 0 .. b - 1
         /\ a = (a \div b) * b + (a % b)
OBVIOUS

LEMMA TimesMonotone ==
  ASSUME NEW b \in Nat, NEW p \in Nat, NEW q \in Nat, p < q
  PROVE  p * b + b <= q * b
<1>1. q - p - 1 \in Nat
  OBVIOUS
<1>2. (q - p - 1) * b >= 0
  BY <1>1
<1>3. q * b = p * b + b + (q - p - 1) * b
  BY <1>1
<1> QED BY <1>1, <1>2, <1>3

LEMMA TimesNat == \A p, q \in Nat : p * q \in Nat
OBVIOUS

(* A quotient is where the product says it is.                             *)
LEMMA QuotientIs ==
  ASSUME NEW b \in Nat \ {0}, NEW a \in Nat, NEW q \in Nat, q * b <= a, a < q * b + b
  PROVE  a \div b = q /\ a % b = a - q * b
<1> DEFINE d == a \div b
<1>1. d \in Nat /\ a % b \in 0 .. b - 1 /\ a = d * b + (a % b) /\ d * b \in Nat /\ q * b \in Nat
  BY Division, TimesNat
<1> HIDE DEF d
<1>2. ~(d < q)
  BY <1>1, TimesMonotone
<1>3. ~(q < d)
  BY <1>1, TimesMonotone
<1>4. d = q
  BY <1>1, <1>2, <1>3
<1> QED BY <1>1, <1>4 DEF d

LEMMA LeastNatural ==
  ASSUME NEW S \in SUBSET Nat, S # {}
  PROVE  \E x \in S : \A y \in S : x <= y
<1> DEFINE R == {ss \in Nat \X Nat : ss[1] < ss[2]}
<1>1. IsWellFoundedOn(R, Nat)
  BY NatLessThanWellFounded DEF OpToRel
<1> HIDE DEF R
<1>2. PICK x \in S : \A y \in S : ~(<<y, x>> \in R)
  BY <1>1, WFMin
<1>3. ASSUME NEW y \in S PROVE x <= y
  <2>1. x \in Nat /\ y \in Nat
    OBVIOUS
  <2>2. y < x => <<y, x>> \in R
    BY <2>1 DEF R
  <2> QED BY <1>2, <2>1, <2>2
<1> QED BY <1>3

(* Rounding up: the blocks hold the bytes, and none of them is in vain.    *)
LEMMA RoundUp ==
  ASSUME NEW b \in Nat \ {0}, NEW n \in Nat, NEW q, q = (n + b - 1) \div b
  PROVE  /\ q \in Nat /\ q * b \in Nat /\ n <= q * b /\ q * b < n + b
<1>1. n + b - 1 \in Nat
  OBVIOUS
<1>2. /\ q \in Nat /\ (n + b - 1) % b \in 0 .. b - 1
      /\ n + b - 1 = q * b + ((n + b - 1) % b)
  BY <1>1, Division
<1>3. q * b \in Nat
  BY <1>2, TimesNat
<1> QED BY <1>2, <1>3

LEMMA BlocksBound ==
  ASSUME NEW len \in Nat
  PROVE  /\ Blocks(len) \in Nat /\ Blocks(len) * BLKSIZE \in Nat
         /\ len <= Blocks(len) * BLKSIZE /\ Blocks(len) * BLKSIZE < len + BLKSIZE
BY RoundUp, Units DEF Blocks

(* The block of a byte of the file is one of its blocks.                   *)
LEMMA BlockOfByte ==
  ASSUME NEW len \in Nat, NEW pos \in Nat, pos < len
  PROVE  /\ pos \div BLKSIZE \in 0 .. Blocks(len) - 1
         /\ pos % BLKSIZE \in 0 .. BLKSIZE - 1
         /\ pos = (pos \div BLKSIZE) * BLKSIZE + (pos % BLKSIZE)
         /\ (pos \div BLKSIZE) * BLKSIZE \in Nat
<1> DEFINE d == pos \div BLKSIZE
           n == Blocks(len)
<1>1. d \in Nat /\ pos % BLKSIZE \in 0 .. BLKSIZE - 1 /\ pos = d * BLKSIZE + (pos % BLKSIZE) /\ BLKSIZE \in Nat
  BY Division, Units
<1>2. n \in Nat /\ n * BLKSIZE \in Nat /\ len <= n * BLKSIZE
  BY BlocksBound
<1>3. d * BLKSIZE \in Nat
  BY <1>1, TimesNat
<1> HIDE DEF d, n
<1>4. ~(n <= d)
  <2>1. n = d => FALSE
    BY <1>1, <1>2, <1>3
  <2>2. n < d => FALSE
    BY <1>1, <1>2, <1>3, TimesMonotone
  <2> QED BY <1>1, <1>2, <2>1, <2>2
<1> QED BY <1>1, <1>2, <1>3, <1>4 DEF d, n

(* Whole blocks.                                                           *)
LEMMA BlocksOfWhole ==
  ASSUME NEW q \in Nat
  PROVE  q * BLKSIZE \in Nat /\ Blocks(q * BLKSIZE) = q
<1>1. BLKSIZE \in Nat \ {0} /\ q * BLKSIZE \in Nat
  BY Units, TimesNat
<1>2. q * BLKSIZE + BLKSIZE - 1 \in Nat
  BY <1>1
<1> QED BY <1>1, <1>2, QuotientIs DEF Blocks

(* A file that writefile accepts has a place for all its block numbers.    *)
LEMMA BlocksFit ==
  ASSUME NEW len \in Nat, len < MAXFILESIZE
  PROVE  Blocks(len) <= NDIRECT + NINDIRECT
<1> DEFINE n == Blocks(len)
           m == NDIRECT + NINDIRECT
<1>1. /\ n \in Nat /\ n * BLKSIZE \in Nat /\ n * BLKSIZE < len + BLKSIZE
      /\ m \in Nat /\ BLKSIZE \in Nat
  <2>1. n \in Nat /\ n * BLKSIZE \in Nat /\ n * BLKSIZE < len + BLKSIZE
    BY BlocksBound
  <2> QED BY <2>1, Units
<1>2. len < m * BLKSIZE /\ m * BLKSIZE \in Nat
  BY <1>1, TimesNat DEF MAXFILESIZE
<1> HIDE DEF n, m
<1>3. ~(m < n)
  BY <1>1, <1>2, TimesMonotone
<1>4. n <= m
  BY <1>1, <1>3
<1> QED BY <1>4 DEF n, m

LEMMA MaxFileSize == MAXFILESIZE \in Nat
<1>1. NDIRECT + NINDIRECT \in Nat /\ BLKSIZE \in Nat
  BY Units
<1> QED BY <1>1, TimesNat DEF MAXFILESIZE

LEMMA EndOfFacts ==
  ASSUME NEW s \in Nat, NEW len \in Nat
  PROVE  /\ EndOf(s, len) \in Nat /\ s + Blocks(len) <= EndOf(s, len) /\ s <= EndOf(s, len)
         /\ Blocks(len) >= NDIRECT => s + Blocks(len) < EndOf(s, len)
<1>1. Blocks(len) \in Nat
  BY BlocksBound
<1> QED BY <1>1, Units DEF EndOf

-----------------------------------------------------------------------------
(* fs.c finds the blocks where fsformat.c has put them.                    *)

LEMMA FinishedFacts ==
  ASSUME NEW f, NEW name, NEW s, Finished(f, name, s)
  PROVE  /\ s \in Nat /\ s >= 3 /\ f.size \in Nat
         /\ Blocks(f.size) \in Nat /\ Blocks(f.size) <= NDIRECT + NINDIRECT
         /\ f.name = name
         /\ \A i \in 0 .. NDIRECT - 1 : i < Blocks(f.size) => f.direct[i] = s + i
         /\ Blocks(f.size) >= NDIRECT => f.indirect = s + Blocks(f.size)
<1>1. s \in Nat /\ s >= 3 /\ f.size \in Nat /\ Blocks(f.size) <= NDIRECT + NINDIRECT
  BY DEF Finished
<1>2. Blocks(f.size) \in Nat
  BY <1>1, BlocksBound
<1>3. PICK old \in Nat : f = finishfile(name, s, f.size, s + Blocks(f.size), old)
  BY DEF Finished
<1>4. /\ f.name = name
      /\ f.direct = [i \in 0 .. NDIRECT - 1 |-> IF i < Blocks(f.size) THEN s + i ELSE old]
      /\ f.indirect = (IF Blocks(f.size) >= NDIRECT THEN s + Blocks(f.size) ELSE old)
  BY <1>3 DEF finishfile
<1> QED BY <1>1, <1>2, <1>4

(* file_block_walk finds block k of a file, direct or indirect.            *)
LEMMA Walk ==
  ASSUME NEW f, NEW name, NEW s, Finished(f, name, s), NEW k \in 0 .. Blocks(f.size) - 1
  PROVE  file_block_walk(f, k) = s + k
<1> DEFINE n == Blocks(f.size)
<1>1. /\ s \in Nat /\ s >= 3 /\ n \in Nat /\ n <= NDIRECT + NINDIRECT
      /\ \A i \in 0 .. NDIRECT - 1 : i < n => f.direct[i] = s + i
      /\ n >= NDIRECT => f.indirect = s + n
  BY FinishedFacts
<1>2. n >= NDIRECT =>
        disk[s + n].numbers = [j \in 0 .. NINDIRECT - 1 |-> IF NDIRECT + j < n THEN s + NDIRECT + j ELSE 0]
  <2>1. n >= NDIRECT => disk[s + n] = IndirectBlock(s, f.size)
    BY DEF Finished
  <2>2. IndirectBlock(s, f.size).numbers
          = [j \in 0 .. NINDIRECT - 1 |-> IF NDIRECT + j < n THEN s + NDIRECT + j ELSE 0]
    BY DEF IndirectBlock
  <2> QED BY <2>1, <2>2
<1>3. k \in 0 .. n - 1
  OBVIOUS
<1> HIDE DEF n
<1>4. CASE k < NDIRECT
  <2>1. k \in 0 .. NDIRECT - 1 /\ k < n
    BY <1>1, <1>3, <1>4, Units
  <2>2. f.direct[k] = s + k
    BY <1>1, <2>1
  <2> QED BY <1>4, <2>2 DEF file_block_walk
<1>5. CASE ~(k < NDIRECT)
  <2>1. /\ n >= NDIRECT /\ f.indirect = s + n /\ f.indirect # 0
        /\ k < NDIRECT + NINDIRECT /\ k - NDIRECT \in 0 .. NINDIRECT - 1
        /\ NDIRECT + (k - NDIRECT) < n /\ s + NDIRECT + (k - NDIRECT) = s + k
    BY <1>1, <1>3, <1>5, Units
  <2>2. disk[s + n].numbers[k - NDIRECT] = s + k
    BY <1>2, <2>1
  <2> QED BY <1>5, <2>1, <2>2 DEF file_block_walk
<1> QED BY <1>4, <1>5

LEMMA BlocksWithin ==
  ASSUME NEW f, NEW name, NEW s, Finished(f, name, s)
  PROVE  BlocksOf(f) \subseteq s .. EndOf(s, f.size) - 1
<1>1. /\ s \in Nat /\ f.size \in Nat /\ Blocks(f.size) \in Nat
      /\ Blocks(f.size) >= NDIRECT => f.indirect = s + Blocks(f.size)
  BY FinishedFacts
<1>2. /\ EndOf(s, f.size) \in Nat /\ s + Blocks(f.size) <= EndOf(s, f.size)
      /\ Blocks(f.size) >= NDIRECT => s + Blocks(f.size) < EndOf(s, f.size)
  BY <1>1, EndOfFacts
<1>3. ASSUME NEW k \in 0 .. Blocks(f.size) - 1
      PROVE  file_block_walk(f, k) \in s .. EndOf(s, f.size) - 1
  BY <1>1, <1>2, Walk
<1>4. Blocks(f.size) >= NDIRECT => f.indirect \in s .. EndOf(s, f.size) - 1
  BY <1>1, <1>2
<1> QED BY <1>3, <1>4 DEF BlocksOf

LEMMA FileSound ==
  ASSUME NEW f, NEW name, NEW s, Finished(f, name, s), NEW e \in Nat, EndOf(s, f.size) <= e
  PROVE  /\ \A i \in 0 .. Blocks(f.size) - 1 : file_block_walk(f, i) \in 3 .. e - 1
         /\ \A i, j \in 0 .. Blocks(f.size) - 1 : i # j => file_block_walk(f, i) # file_block_walk(f, j)
         /\ BlocksOf(f) \subseteq 0 .. e - 1
<1>1. s \in Nat /\ s >= 3 /\ f.size \in Nat /\ Blocks(f.size) \in Nat
  BY FinishedFacts
<1>2. EndOf(s, f.size) \in Nat /\ s + Blocks(f.size) <= EndOf(s, f.size)
  BY <1>1, EndOfFacts
<1>3. \A k \in 0 .. Blocks(f.size) - 1 : file_block_walk(f, k) = s + k
  BY Walk
<1>4. BlocksOf(f) \subseteq s .. EndOf(s, f.size) - 1
  BY BlocksWithin
<1> QED BY <1>1, <1>2, <1>3, <1>4

LEMMA Apart ==
  ASSUME NEW f, NEW m, NEW s, Finished(f, m, s), NEW g, NEW n, NEW t, Finished(g, n, t),
         EndOf(s, f.size) <= t
  PROVE  BlocksOf(f) \cap BlocksOf(g) = {}
<1>1. s \in Nat /\ f.size \in Nat /\ t \in Nat /\ g.size \in Nat
  BY FinishedFacts
<1>2. EndOf(s, f.size) \in Nat /\ EndOf(t, g.size) \in Nat
  BY <1>1, EndOfFacts
<1>3. BlocksOf(f) \subseteq s .. EndOf(s, f.size) - 1 /\ BlocksOf(g) \subseteq t .. EndOf(t, g.size) - 1
  BY BlocksWithin
<1> QED BY <1>1, <1>2, <1>3

(* The image as it grows, with the directory as one more file.             *)
LEMMA SoundFromInv ==
  ASSUME ImageInv
  PROVE  ImageSound
<1> USE DEF ImageInv
<1>1. ents \in Seq(File) /\ Len(ents) \in Nat /\ DOMAIN ents = 1 .. Len(ents) /\ diskpos \in Nat
  OBVIOUS
<1>2. CASE Formatting
  <2>1. PICK st \in Starts : FilesAt(st, diskpos)
    BY <1>2
  <2>2. ASSUME NEW f \in Files
        PROVE  \E i \in 1 .. Len(ents) : f = ents[i]
    BY <1>1, <1>2, <2>2 DEF Files
  <2>3. ASSUME NEW i \in 1 .. Len(ents)
        PROVE  Finished(ents[i], Argv[i], st[i]) /\ EndOf(st[i], ents[i].size) <= diskpos
    BY <2>1 DEF FilesAt
  <2>4. ASSUME NEW f \in Files
        PROVE  /\ \A i \in 0 .. Blocks(f.size) - 1 : file_block_walk(f, i) \in 3 .. diskpos - 1
               /\ \A i, j \in 0 .. Blocks(f.size) - 1 : i # j => file_block_walk(f, i) # file_block_walk(f, j)
    BY <1>1, <2>2, <2>3, FileSound
  <2>5. ASSUME NEW f \in Files, NEW g \in Files, f # g
        PROVE  BlocksOf(f) \cap BlocksOf(g) = {}
    <3>1. PICK i \in 1 .. Len(ents), j \in 1 .. Len(ents) : f = ents[i] /\ g = ents[j] /\ i # j
      BY <2>2, <2>5
    <3>2. i < j => EndOf(st[i], f.size) <= st[j]
      BY <2>1, <3>1 DEF FilesAt
    <3>3. j < i => EndOf(st[j], g.size) <= st[i]
      BY <2>1, <3>1 DEF FilesAt
    <3>4. Finished(f, Argv[i], st[i]) /\ Finished(g, Argv[j], st[j])
      BY <2>3, <3>1
    <3>5. CASE i < j
      BY <3>2, <3>4, <3>5, Apart
    <3>6. CASE j < i
      BY <3>3, <3>4, <3>6, Apart
    <3> QED BY <1>1, <3>1, <3>5, <3>6
  <2> QED BY <1>2, <2>4, <2>5 DEF ImageSound
<1>3. CASE ~Formatting
  <2>1. PICK st \in Starts, s \in Nat : FilesAt(st, s) /\ RootAt(s) /\ diskpos = EndOf(s, root.size)
    BY <1>3
  <2>2. ASSUME NEW f \in Files
        PROVE  f = root \/ \E i \in 1 .. Len(ents) : f = ents[i]
    BY <1>1, <1>3, <2>2 DEF Files
  <2>3. Finished(root, "/", s) /\ root.size \in Nat
    BY <2>1 DEF RootAt, Finished
  <2>4. s <= diskpos
    BY <2>1, <2>3, EndOfFacts
  <2>5. ASSUME NEW i \in 1 .. Len(ents)
        PROVE  /\ Finished(ents[i], Argv[i], st[i]) /\ EndOf(st[i], ents[i].size) <= s
               /\ EndOf(st[i], ents[i].size) <= diskpos
    <3>1. Finished(ents[i], Argv[i], st[i]) /\ EndOf(st[i], ents[i].size) <= s
      BY <2>1 DEF FilesAt
    <3>2. EndOf(st[i], ents[i].size) \in Nat
      BY <3>1, FinishedFacts, EndOfFacts
    <3> QED BY <1>1, <2>1, <2>4, <3>1, <3>2
  <2>6. ASSUME NEW f \in Files
        PROVE  /\ \A i \in 0 .. Blocks(f.size) - 1 : file_block_walk(f, i) \in 3 .. diskpos - 1
               /\ \A i, j \in 0 .. Blocks(f.size) - 1 : i # j => file_block_walk(f, i) # file_block_walk(f, j)
               /\ BlocksOf(f) \subseteq 0 .. diskpos - 1
    <3>1. CASE f = root
      BY <1>1, <2>1, <2>3, <3>1, FileSound
    <3>2. ASSUME NEW i \in 1 .. Len(ents), f = ents[i] PROVE <2>6!2
      BY <1>1, <2>5, <3>2, FileSound
    <3> QED BY <2>2, <3>1, <3>2
  <2>7. ASSUME NEW f \in Files, NEW g \in Files, f # g
        PROVE  BlocksOf(f) \cap BlocksOf(g) = {}
    <3>1. ASSUME NEW i \in 1 .. Len(ents) PROVE BlocksOf(ents[i]) \cap BlocksOf(root) = {}
      BY <2>3, <2>5, Apart
    <3>2. ASSUME NEW i \in 1 .. Len(ents), NEW j \in 1 .. Len(ents), i < j
          PROVE  BlocksOf(ents[i]) \cap BlocksOf(ents[j]) = {}
      <4>1. EndOf(st[i], ents[i].size) <= st[j]
        BY <2>1, <3>2 DEF FilesAt
      <4>2. Finished(ents[i], Argv[i], st[i]) /\ Finished(ents[j], Argv[j], st[j])
        BY <2>5
      <4> QED BY <4>1, <4>2, Apart
    <3>3. \A i, j \in 1 .. Len(ents) : i # j => i < j \/ j < i
      BY <1>1
    <3> QED BY <2>2, <2>7, <3>1, <3>2, <3>3
  <2>8. bitmap \cap UNION {BlocksOf(f) : f \in Files} = {}
    BY <1>3, <2>6
  <2> QED BY <2>6, <2>7, <2>8 DEF ImageSound
<1> QED BY <1>2, <1>3

-----------------------------------------------------------------------------
(* file_read returns the bytes of the file.                                *)

(* The bytes a .. b - 1 of a file.                                         *)
Part(name, a, b) == [k \in 1 .. b - a |-> <<name, a + k - 1>>]

LEMMA SeqEqual ==
  ASSUME NEW S, NEW s \in Seq(S), NEW t \in Seq(S), Len(s) = Len(t), \A k \in 1 .. Len(s) : s[k] = t[k]
  PROVE  s = t
OBVIOUS

LEMMA PartType ==
  ASSUME NEW name, NEW a \in Nat, NEW b \in Nat, a <= b
  PROVE  /\ Part(name, a, b) \in Seq({name} \X Nat) /\ Len(Part(name, a, b)) = b - a
         /\ \A k \in 1 .. b - a : Part(name, a, b)[k] = <<name, a + k - 1>>
<1>1. b - a \in Nat /\ \A k \in 1 .. b - a : a + k - 1 \in Nat
  OBVIOUS
<1> QED BY <1>1 DEF Part

LEMMA PartEmpty ==
  ASSUME NEW name, NEW a \in Nat
  PROVE  Part(name, a, a) = <<>>
<1>1. Part(name, a, a) \in Seq({name} \X Nat) /\ Len(Part(name, a, a)) = 0
  <2>1. a <= a /\ a - a = 0
    OBVIOUS
  <2> QED BY <2>1, PartType
<1> QED BY <1>1

LEMMA PartJoin ==
  ASSUME NEW name, NEW a \in Nat, NEW b \in Nat, NEW c \in Nat, a <= b, b <= c
  PROVE  Part(name, a, b) \o Part(name, b, c) = Part(name, a, c)
<1> DEFINE x == Part(name, a, b)
           y == Part(name, b, c)
           z == Part(name, a, c)
           S == {name} \X Nat
<1>1. /\ x \in Seq(S) /\ Len(x) = b - a /\ \A k \in 1 .. b - a : x[k] = <<name, a + k - 1>>
      /\ y \in Seq(S) /\ Len(y) = c - b /\ \A k \in 1 .. c - b : y[k] = <<name, b + k - 1>>
      /\ z \in Seq(S) /\ Len(z) = c - a /\ \A k \in 1 .. c - a : z[k] = <<name, a + k - 1>>
  <2>1. x \in Seq(S) /\ Len(x) = b - a /\ \A k \in 1 .. b - a : x[k] = <<name, a + k - 1>>
    BY PartType
  <2>2. y \in Seq(S) /\ Len(y) = c - b /\ \A k \in 1 .. c - b : y[k] = <<name, b + k - 1>>
    BY PartType
  <2>3. z \in Seq(S) /\ Len(z) = c - a /\ \A k \in 1 .. c - a : z[k] = <<name, a + k - 1>>
    <3>1. a <= c
      OBVIOUS
    <3> QED BY <3>1, PartType
  <2> QED BY <2>1, <2>2, <2>3
<1> HIDE DEF x, y, z, S
<1>2. x \o y \in Seq(S) /\ Len(x \o y) = c - a
  <2>1. x \o y \in Seq(S) /\ Len(x \o y) = Len(x) + Len(y)
    <3>1. x \in Seq(S) /\ y \in Seq(S)
      BY <1>1
    <3> QED BY <3>1
  <2> QED BY <1>1, <2>1
<1>3. ASSUME NEW k \in 1 .. c - a PROVE (x \o y)[k] = z[k]
  <2>1. CASE k <= b - a
    <3>1. k \in 1 .. b - a /\ (x \o y)[k] = x[k]
      BY <1>1, <2>1
    <3> QED BY <1>1, <3>1
  <2>2. CASE ~(k <= b - a)
    <3>1. k - (b - a) \in 1 .. c - b /\ (x \o y)[k] = y[k - (b - a)] /\ b + (k - (b - a)) - 1 = a + k - 1
      BY <1>1, <2>2
    <3> QED BY <1>1, <3>1
  <2> QED BY <2>1, <2>2
<1>4. x \o y = z
  BY <1>1, <1>2, <1>3, SeqEqual
<1> QED BY <1>4 DEF x, y, z

(* The blocks of f hold its bytes.                                         *)
Filled(f, name, s) ==
  /\ Finished(f, name, s)
  /\ \A k \in 0 .. Blocks(f.size) - 1 : disk[s + k] = FileBlock(name, f.size, k)

LEMMA ChunkIsPart ==
  ASSUME NEW f, NEW name, NEW s, Filled(f, name, s),
         NEW pos \in Nat, NEW n \in Nat, pos < f.size,
         n <= BLKSIZE - (pos % BLKSIZE), pos + n <= f.size
  PROVE  Chunk(f, pos, n) = Part(name, pos, pos + n)
<1> DEFINE d == pos \div BLKSIZE
           m == pos % BLKSIZE
<1>1. f.size \in Nat /\ Finished(f, name, s)
  BY FinishedFacts DEF Filled
<1>2. d \in 0 .. Blocks(f.size) - 1 /\ m \in 0 .. BLKSIZE - 1 /\ pos = d * BLKSIZE + m /\ d * BLKSIZE \in Nat
  BY <1>1, BlockOfByte
<1>3. file_get_block(f, d) = FileBlock(name, f.size, d)
  <2>1. file_block_walk(f, d) = s + d
    BY <1>1, <1>2, Walk
  <2> QED BY <1>2, <2>1 DEF file_get_block, Filled
<1>4. file_get_block(f, d).bytes =
        [j \in 0 .. BLKSIZE - 1 |-> IF d * BLKSIZE + j < f.size THEN <<name, d * BLKSIZE + j>> ELSE NoByte]
  <2>1. FileBlock(name, f.size, d).bytes =
          [j \in 0 .. BLKSIZE - 1 |-> IF d * BLKSIZE + j < f.size THEN <<name, d * BLKSIZE + j>> ELSE NoByte]
    BY DEF FileBlock
  <2> QED BY <1>3, <2>1
<1> DEFINE B == file_get_block(f, d).bytes
<1>5. Chunk(f, pos, n) = [k \in 1 .. n |-> B[m + k - 1]]
  BY DEF Chunk
<1> HIDE DEF d, m, B
<1>6. ASSUME NEW k \in 1 .. n PROVE B[m + k - 1] = <<name, pos + k - 1>>
  <2>1. /\ m + k - 1 \in 0 .. BLKSIZE - 1
        /\ d * BLKSIZE + (m + k - 1) = pos + k - 1 /\ pos + k - 1 < f.size
    <3> HIDE DEF B
    <3>1. PICK x \in Nat : x = d * BLKSIZE
      BY <1>2
    <3>2. n <= BLKSIZE - m /\ m \in 0 .. BLKSIZE - 1
      BY <1>2 DEF m
    <3>3. m + k - 1 \in 0 .. BLKSIZE - 1 /\ x + (m + k - 1) = pos + k - 1 /\ pos + k - 1 < f.size
      BY <1>1, <1>2, <3>1, <3>2, Units
    <3> QED BY <3>1, <3>3
  <2> QED BY <1>4, <2>1 DEF B
<1>7. pos + n - pos = n
  OBVIOUS
<1> QED BY <1>5, <1>6, <1>7 DEF Part

(* What one round of file_read's loop does with the result of the rest.    *)
ReadBody(f, offset, end, rest) ==
  [pos \in offset .. end |->
     IF pos = end THEN <<>>
     ELSE LET bn == Least(BLKSIZE - (pos % BLKSIZE), end - pos)
          IN  Chunk(f, pos, bn) \o rest[pos + bn]]

LEMMA LoopStep ==
  ASSUME NEW f, NEW name, NEW s, Filled(f, name, s),
         NEW end \in Nat, end <= f.size, NEW pos \in Nat, pos < end,
         NEW bn, bn = Least(BLKSIZE - (pos % BLKSIZE), end - pos)
  PROVE  /\ bn \in Nat /\ 0 < bn /\ pos + bn <= end
         /\ Chunk(f, pos, bn) \o Part(name, pos + bn, end) = Part(name, pos, end)
<1>1. f.size \in Nat
  BY FinishedFacts DEF Filled
<1>2. pos % BLKSIZE \in 0 .. BLKSIZE - 1
  BY Division, Units
<1>3. bn \in Nat /\ 0 < bn /\ pos + bn <= end /\ bn <= BLKSIZE - (pos % BLKSIZE)
  BY <1>2, Units DEF Least
<1>4. Chunk(f, pos, bn) = Part(name, pos, pos + bn)
  BY <1>1, <1>3, ChunkIsPart
<1>5. Part(name, pos, pos + bn) \o Part(name, pos + bn, end) = Part(name, pos, end)
  <2>1. pos + bn \in Nat /\ pos <= pos + bn
    BY <1>3
  <2> QED BY <1>3, <2>1, PartJoin
<1> QED BY <1>3, <1>4, <1>5

LEMMA LoopIsPart ==
  ASSUME NEW f, NEW name, NEW s, Filled(f, name, s),
         NEW offset \in Nat, NEW end \in Nat, offset <= end, end <= f.size,
         NEW rest, rest = ReadBody(f, offset, end, rest)
  PROVE  rest = [pos \in offset .. end |-> Part(name, pos, end)]
<1> DEFINE Bad == {m \in Nat : \E pos \in offset .. end : end - pos = m /\ rest[pos] # Part(name, pos, end)}
<1>1. SUFFICES ASSUME NEW p \in offset .. end, rest[p] # Part(name, p, end) PROVE FALSE
  BY DEF ReadBody
<1>2. end - p \in Bad
  <2>1. end - p \in Nat
    OBVIOUS
  <2> QED BY <1>1, <2>1
<1>3. PICK m \in Bad : \A x \in Bad : m <= x
  BY <1>2, LeastNatural
<1>4. PICK pos \in offset .. end : end - pos = m /\ rest[pos] # Part(name, pos, end)
  BY <1>3
<1>5. pos # end
  BY <1>4, PartEmpty DEF ReadBody
<1> DEFINE bn == Least(BLKSIZE - (pos % BLKSIZE), end - pos)
<1>6. rest[pos] = Chunk(f, pos, bn) \o rest[pos + bn]
  BY <1>5 DEF ReadBody
<1>7. /\ bn \in Nat /\ 0 < bn /\ pos + bn <= end
      /\ Chunk(f, pos, bn) \o Part(name, pos + bn, end) = Part(name, pos, end)
  BY <1>5, LoopStep
<1> HIDE DEF bn
<1>8. rest[pos + bn] # Part(name, pos + bn, end)
  BY <1>4, <1>6, <1>7
<1>9. end - (pos + bn) \in Bad
  BY <1>7, <1>8
<1>10. m <= end - (pos + bn)
  BY <1>3, <1>9
<1> HIDE DEF Bad
<1> QED BY <1>4, <1>7, <1>10

LEMMA LoopHasSolution ==
  ASSUME NEW f, NEW name, NEW s, Filled(f, name, s),
         NEW offset \in Nat, NEW end \in Nat, offset <= end, end <= f.size,
         NEW G, G = [pos \in offset .. end |-> Part(name, pos, end)]
  PROVE  G = ReadBody(f, offset, end, G)
<1>1. ASSUME NEW pos \in offset .. end PROVE G[pos] = ReadBody(f, offset, end, G)[pos]
  <2>1. CASE pos = end
    BY <2>1, PartEmpty DEF ReadBody
  <2>2. CASE pos # end
    <3> DEFINE bn == Least(BLKSIZE - (pos % BLKSIZE), end - pos)
    <3>1. /\ bn \in Nat /\ 0 < bn /\ pos + bn <= end
          /\ Chunk(f, pos, bn) \o Part(name, pos + bn, end) = Part(name, pos, end)
      BY <2>2, LoopStep
    <3>2. ReadBody(f, offset, end, G)[pos] = Chunk(f, pos, bn) \o G[pos + bn]
      BY <2>2 DEF ReadBody
    <3> HIDE DEF bn
    <3>3. G[pos + bn] = Part(name, pos + bn, end)
      BY <3>1
    <3> QED BY <3>1, <3>2, <3>3
  <2> QED BY <2>1, <2>2
<1>2. G = [pos \in offset .. end |-> G[pos]]
  OBVIOUS
<1>3. ReadBody(f, offset, end, G) = [pos \in offset .. end |-> ReadBody(f, offset, end, G)[pos]]
  BY DEF ReadBody
<1> QED BY <1>1, <1>2, <1>3

(* file_read, from every offset and for every length.                      *)
LEMMA ReadIsPart ==
  ASSUME NEW f, NEW name, NEW s, Filled(f, name, s), NEW count \in Nat, NEW offset \in Nat
  PROVE  /\ offset >= f.size => file_read(f, count, offset) = <<>>
         /\ offset < f.size =>
              file_read(f, count, offset) = Part(name, offset, Least(f.size, offset + count))
<1>1. f.size \in Nat
  BY FinishedFacts DEF Filled
<1>2. CASE offset >= f.size
  BY <1>1, <1>2 DEF file_read
<1>3. CASE offset < f.size
  <2> DEFINE end == offset + Least(count, f.size - offset)
             G == [pos \in offset .. end |-> Part(name, pos, end)]
             L == CHOOSE loop : loop = ReadBody(f, offset, end, loop)
  <2>1. end \in Nat /\ offset <= end /\ end <= f.size /\ end = Least(f.size, offset + count)
    BY <1>1, <1>3 DEF Least
  <2>2. file_read(f, count, offset) = L[offset]
    BY <1>1, <1>3 DEF file_read, ReadBody
  <2> HIDE DEF end
  <2>3. G = ReadBody(f, offset, end, G)
    BY <2>1, LoopHasSolution
  <2> HIDE DEF G
  <2>4. L = ReadBody(f, offset, end, L)
    BY <2>3
  <2> HIDE DEF L
  <2>5. L = [pos \in offset .. end |-> Part(name, pos, end)]
    BY <2>1, <2>4, LoopIsPart
  <2>6. L[offset] = Part(name, offset, end)
    BY <2>1, <2>5
  <2> QED BY <1>1, <1>3, <2>1, <2>2, <2>6
<1> QED BY <1>1, <1>2, <1>3

-----------------------------------------------------------------------------
(* dir_lookup finds every file, and nothing else.                          *)

(* What the directory has at place x.                                      *)
EntryAt(x) == IF x < Len(ents) THEN ents[x + 1] ELSE NoFile

LEMMA DirSizes ==
  ASSUME Len(ents) \in Nat, NEW nb, nb = (Len(ents) + BLKFILES - 1) \div BLKFILES
  PROVE  /\ nb \in Nat /\ Len(ents) <= nb * BLKFILES /\ nb * BLKFILES < Len(ents) + BLKFILES
         /\ nb * BLKFILES \in Nat
         /\ DirSize = nb * BLKSIZE /\ DirSize \in Nat
         /\ Blocks(DirSize) = nb /\ DirSize \div BLKSIZE = nb
<1>1. /\ nb \in Nat /\ nb * BLKFILES \in Nat
      /\ Len(ents) <= nb * BLKFILES /\ nb * BLKFILES < Len(ents) + BLKFILES
  BY RoundUp, Units
<1>2. DirSize = nb * BLKSIZE
  BY DEF DirSize
<1>3. nb * BLKSIZE \in Nat /\ Blocks(nb * BLKSIZE) = nb
  BY <1>1, BlocksOfWhole
<1>4. (nb * BLKSIZE) \div BLKSIZE = nb
  <2>1. nb * BLKSIZE <= nb * BLKSIZE /\ nb * BLKSIZE < nb * BLKSIZE + BLKSIZE
    BY <1>3, Units
  <2> QED BY <1>1, <1>3, <2>1, Units, QuotientIs
<1> QED BY <1>1, <1>2, <1>3, <1>4

LEMMA DirEntry ==
  ASSUME ents \in Seq(File), NEW s, RootAt(s),
         NEW k \in 0 .. Blocks(root.size) - 1, NEW j \in 0 .. BLKFILES - 1
  PROVE  file_get_block(root, k).entries[j] = EntryAt(k * BLKFILES + j)
<1>1. file_block_walk(root, k) = s + k
  BY Walk DEF RootAt
<1>2. file_get_block(root, k) = DirBlock(k)
  BY <1>1 DEF file_get_block, RootAt
<1>3. DirBlock(k).entries[j] = EntryAt(k * BLKFILES + j)
  BY DEF DirBlock, EntryAt
<1> QED BY <1>2, <1>3

LEMMA EntryNames ==
  ASSUME ImageInv, NEW st, NEW limit, FilesAt(st, limit)
  PROVE  /\ \A i \in 1 .. Len(ents) : ents[i].name = Argv[i] /\ ents[i].name # "" /\ i \in DOMAIN Argv
         /\ \A i, j \in 1 .. Len(ents) : ents[i].name = ents[j].name => i = j
<1>1. Len(ents) \in Nat /\ Len(ents) <= Len(Argv) /\ Len(Argv) \in Nat /\ DOMAIN Argv = 1 .. Len(Argv)
  BY ImageAssumption DEF ImageInv
<1>2. ASSUME NEW i \in 1 .. Len(ents) PROVE ents[i].name = Argv[i] /\ i \in DOMAIN Argv
  <2>1. Finished(ents[i], Argv[i], st[i])
    BY DEF FilesAt
  <2>2. ents[i].name = Argv[i]
    <3> HIDE DEF Finished
    <3> QED BY <2>1, FinishedFacts
  <2>3. i \in DOMAIN Argv
    BY <1>1
  <2> QED BY <2>2, <2>3
<1> QED BY <1>1, <1>2, DirAssumption

LEMMA LookupIs ==
  ASSUME ImageInv, ~Formatting, NEW n
  PROVE  /\ \A i \in 1 .. Len(ents) : ents[i].name = n => dir_lookup(root, n) = ents[i]
         /\ n # "" /\ (\A i \in 1 .. Len(ents) : ents[i].name # n) => dir_lookup(root, n) = NoFile
<1> DEFINE nb == (Len(ents) + BLKFILES - 1) \div BLKFILES
           found == {x \in (0 .. root.size \div BLKSIZE - 1) \X (0 .. BLKFILES - 1) :
                       file_get_block(root, x[1]).entries[x[2]].name = n}
           first == CHOOSE x \in found : \A y \in found : x[1] * BLKFILES + x[2] <= y[1] * BLKFILES + y[2]
<1>1. PICK st \in Starts, s \in Nat : FilesAt(st, s) /\ RootAt(s)
  BY DEF ImageInv
<1>2. ents \in Seq(File) /\ Len(ents) \in Nat
  BY DEF ImageInv
<1>3. /\ nb \in Nat /\ Len(ents) <= nb * BLKFILES /\ nb * BLKFILES \in Nat
      /\ DirSize = nb * BLKSIZE /\ Blocks(DirSize) = nb /\ DirSize \div BLKSIZE = nb
  BY <1>2, DirSizes
<1>4. root.size = DirSize
  BY <1>1 DEF RootAt
<1>5. dir_lookup(root, n) = IF found = {} THEN NoFile ELSE file_get_block(root, first[1]).entries[first[2]]
  BY DEF dir_lookup
<1>6. ASSUME NEW k \in 0 .. nb - 1, NEW j \in 0 .. BLKFILES - 1
      PROVE  file_get_block(root, k).entries[j] = EntryAt(k * BLKFILES + j)
  BY <1>1, <1>2, <1>3, <1>4, DirEntry
<1>7. /\ \A i \in 1 .. Len(ents) : ents[i].name # ""
      /\ \A i, j \in 1 .. Len(ents) : ents[i].name = ents[j].name => i = j
  BY <1>1, EntryNames
<1> HIDE DEF nb
<1>8. ASSUME NEW x \in found
      PROVE  /\ x \in (0 .. nb - 1) \X (0 .. BLKFILES - 1)
             /\ EntryAt(x[1] * BLKFILES + x[2]).name = n
             /\ file_get_block(root, x[1]).entries[x[2]] = EntryAt(x[1] * BLKFILES + x[2])
  <2>1. x \in (0 .. nb - 1) \X (0 .. BLKFILES - 1) /\ file_get_block(root, x[1]).entries[x[2]].name = n
    BY <1>3, <1>4
  <2>2. x[1] \in 0 .. nb - 1 /\ x[2] \in 0 .. BLKFILES - 1
    BY <2>1
  <2> QED BY <1>6, <2>1, <2>2
<1>9. ASSUME NEW x \in (0 .. nb - 1) \X (0 .. BLKFILES - 1), EntryAt(x[1] * BLKFILES + x[2]).name = n
      PROVE  x \in found
  <2>1. x[1] \in 0 .. nb - 1 /\ x[2] \in 0 .. BLKFILES - 1
    OBVIOUS
  <2>2. file_get_block(root, x[1]).entries[x[2]].name = n
    BY <1>6, <1>9, <2>1
  <2> QED BY <1>3, <1>4, <2>2
<1>10. ASSUME n # "", \A i \in 1 .. Len(ents) : ents[i].name # n
       PROVE  dir_lookup(root, n) = NoFile
  <2>1. ASSUME NEW x \in found PROVE FALSE
    <3>1. x[1] \in Nat /\ x[2] \in Nat /\ x[1] * BLKFILES \in Nat /\ EntryAt(x[1] * BLKFILES + x[2]).name = n
      <4>1. x[1] \in 0 .. nb - 1 /\ x[2] \in 0 .. BLKFILES - 1 /\ EntryAt(x[1] * BLKFILES + x[2]).name = n
        BY <1>8
      <4>2. x[1] \in Nat /\ x[2] \in Nat
        BY <1>3, <4>1, Units
      <4> QED BY <4>1, <4>2, TimesNat, Units
    <3>2. PICK p \in Nat : p = x[1] * BLKFILES + x[2]
      BY <3>1
    <3>3. CASE p < Len(ents)
      <4>1. p + 1 \in 1 .. Len(ents)
        BY <1>2, <3>3
      <4> QED BY <1>10, <3>1, <3>2, <3>3, <4>1 DEF EntryAt
    <3>4. CASE ~(p < Len(ents))
      BY <1>10, <3>1, <3>2, <3>4 DEF EntryAt, NoFile
    <3> QED BY <3>3, <3>4
  <2>2. found = {}
    BY <2>1
  <2> HIDE DEF found
  <2> QED BY <1>5, <2>2
<1>11. ASSUME NEW i \in 1 .. Len(ents), ents[i].name = n
       PROVE  dir_lookup(root, n) = ents[i]
  <2> DEFINE k == (i - 1) \div BLKFILES
             j == (i - 1) % BLKFILES
  <2>1. k \in Nat /\ j \in 0 .. BLKFILES - 1 /\ i - 1 = k * BLKFILES + j /\ k * BLKFILES \in Nat
    <3>1. i - 1 \in Nat
      BY <1>2
    <3>2. k \in Nat /\ j \in 0 .. BLKFILES - 1 /\ i - 1 = k * BLKFILES + j
      BY <3>1, Division, Units
    <3> QED BY <3>2, TimesNat, Units
  <2> HIDE DEF k, j
  <2>2. k \in 0 .. nb - 1
    <3>1. ~(nb = k)
      BY <1>2, <1>3, <2>1
    <3>2. ~(nb < k)
      BY <1>2, <1>3, <2>1, Units, TimesMonotone
    <3> QED BY <1>3, <2>1, <3>1, <3>2
  <2>3. EntryAt(k * BLKFILES + j) = ents[i]
    <3>1. i - 1 < Len(ents) /\ i - 1 + 1 = i
      BY <1>2
    <3> QED BY <2>1, <3>1 DEF EntryAt
  <2>4. <<k, j>> \in found
    <3>1. <<k, j>> \in (0 .. nb - 1) \X (0 .. BLKFILES - 1) /\ <<k, j>>[1] = k /\ <<k, j>>[2] = j
      BY <2>1, <2>2
    <3>2. EntryAt(<<k, j>>[1] * BLKFILES + <<k, j>>[2]).name = n
      BY <1>11, <2>3, <3>1
    <3> HIDE DEF found
    <3> QED BY <1>9, <3>1, <3>2
  <2>5. ASSUME NEW x \in found PROVE x = <<k, j>>
    <3>1. /\ x = <<x[1], x[2]>> /\ x[1] \in Nat /\ x[2] \in 0 .. BLKFILES - 1
          /\ EntryAt(x[1] * BLKFILES + x[2]).name = n
      <4>1. x \in (0 .. nb - 1) \X (0 .. BLKFILES - 1) /\ EntryAt(x[1] * BLKFILES + x[2]).name = n
        BY <1>8
      <4> HIDE DEF found
      <4> QED BY <1>3, <4>1
    <3>2. PICK p \in Nat : p = x[1] * BLKFILES + x[2]
      <4>1. x[1] * BLKFILES \in Nat
        BY <3>1, TimesNat, Units
      <4> QED BY <3>1, <4>1, Units
    <3>3. p < Len(ents)
      BY <1>7, <1>11, <3>1, <3>2 DEF EntryAt, NoFile
    <3>4. p + 1 \in 1 .. Len(ents) /\ ents[p + 1].name = ents[i].name
      <4>1. p + 1 \in 1 .. Len(ents)
        BY <1>2, <3>3
      <4> QED BY <1>11, <3>1, <3>2, <3>3, <4>1 DEF EntryAt
    <3>5. p + 1 = i
      BY <1>7, <3>4
    <3>6. p = k * BLKFILES + j
      BY <1>2, <2>1, <3>5
    <3>7. p \div BLKFILES = k /\ p % BLKFILES = p - k * BLKFILES
      <4>1. k * BLKFILES <= p /\ p < k * BLKFILES + BLKFILES
        <5>1. PICK y \in Nat : y = k * BLKFILES
          BY <2>1
        <5> QED BY <2>1, <3>6, <5>1, Units
      <4>2. BLKFILES \in Nat \ {0} /\ k \in Nat /\ p \in Nat
        BY <2>1, <3>2, Units
      <4> QED BY <4>1, <4>2, QuotientIs
    <3>8. p \div BLKFILES = x[1] /\ p % BLKFILES = p - x[1] * BLKFILES
      <4>1. x[1] * BLKFILES \in Nat
        BY <3>1, TimesNat, Units
      <4>2. x[1] * BLKFILES <= p /\ p < x[1] * BLKFILES + BLKFILES
        <5>1. PICK y \in Nat : y = x[1] * BLKFILES
          BY <4>1
        <5> QED BY <3>1, <3>2, <5>1, Units
      <4>3. PICK y : y = x[1] /\ y \in Nat
        BY <3>1
      <4>4. BLKFILES \in Nat \ {0}
        BY Units
      <4>5. y * BLKFILES <= p /\ p < y * BLKFILES + BLKFILES
        BY <4>2, <4>3
      <4> HIDE DEF found
      <4>6. p \div BLKFILES = y /\ p % BLKFILES = p - y * BLKFILES
        BY <4>3, <4>4, <4>5, QuotientIs
      <4> QED BY <4>3, <4>6
    <3>9. x[1] = k
      BY <3>7, <3>8
    <3>10. x[2] = j
      BY <2>1, <3>1, <3>2, <3>6, <3>9, Units
    <3> QED BY <3>1, <3>9, <3>10
  <2>6. found = {<<k, j>>}
    BY <2>4, <2>5
  <2> HIDE DEF found
  <2>7. first = <<k, j>>
    <3>1. k * BLKFILES + j <= k * BLKFILES + j
      BY <2>1, Units
    <3> QED BY <2>6, <3>1
  <2> HIDE DEF first
  <2>8. file_get_block(root, first[1]).entries[first[2]] = ents[i]
    BY <1>6, <2>1, <2>2, <2>3, <2>7
  <2> QED BY <1>5, <2>6, <2>8
<1> QED BY <1>10, <1>11

LEMMA ReadsFromInv ==
  ASSUME ImageInv
  PROVE  ReadsExact
<1>1. SUFFICES ASSUME ~Formatting, NEW i \in DOMAIN ents
               PROVE  /\ dir_lookup(root, ents[i].name) = ents[i]
                      /\ \A offset, count \in 0 .. MAXFILESIZE :
                           LET end == Least(ents[i].size, offset + count) IN
                           file_read(ents[i], count, offset)
                             = [k \in 1 .. end - offset |-> <<ents[i].name, offset + k - 1>>]
  BY DEF ReadsExact
<1>2. i \in 1 .. Len(ents)
  BY DEF ImageInv
<1>3. dir_lookup(root, ents[i].name) = ents[i]
  BY <1>1, <1>2, LookupIs
<1>4. PICK st \in Starts, s \in Nat : FilesAt(st, s)
  BY <1>1 DEF ImageInv
<1>5. PICK f, name, b : f = ents[i] /\ name = Argv[i] /\ b = st[i] /\ Filled(f, name, b)
  BY <1>2, <1>4 DEF FilesAt, Filled
<1>6. f.size \in Nat /\ f.name = name
  BY <1>5, FinishedFacts DEF Filled
<1>7. ASSUME NEW offset \in 0 .. MAXFILESIZE, NEW count \in 0 .. MAXFILESIZE
      PROVE  file_read(f, count, offset)
               = [k \in 1 .. Least(f.size, offset + count) - offset |-> <<name, offset + k - 1>>]
  <2>1. offset \in Nat /\ count \in Nat
    BY MaxFileSize
  <2>2. CASE offset < f.size
    <3>1. file_read(f, count, offset) = Part(name, offset, Least(f.size, offset + count))
      BY <1>5, <2>1, <2>2, ReadIsPart
    <3> QED BY <3>1 DEF Part
  <2>3. CASE ~(offset < f.size)
    <3>1. file_read(f, count, offset) = <<>>
      BY <1>5, <1>6, <2>1, <2>3, ReadIsPart
    <3>2. 1 .. Least(f.size, offset + count) - offset = {}
      BY <1>6, <2>1, <2>3 DEF Least
    <3> QED BY <3>1, <3>2
  <2> QED BY <2>2, <2>3
<1> QED BY <1>3, <1>5, <1>6, <1>7

-----------------------------------------------------------------------------
(* fsformat.c keeps the invariant of the image: what it writes lies behind *)
(* what it has written.                                                    *)

LEMMA WrittenFacts ==
  ASSUME NEW s \in Nat, NEW len \in Nat, NEW contents, EndOf(s, len) < nblocks,
         disk' = Written(s, len, contents, s + Blocks(len))
  PROVE  /\ \A b \in Block : b < s => disk'[b] = disk[b]
         /\ \A k \in 0 .. Blocks(len) - 1 : disk'[s + k] = contents[k]
         /\ Blocks(len) >= NDIRECT => disk'[s + Blocks(len)] = IndirectBlock(s, len)
<1> DEFINE n == Blocks(len)
<1>1. /\ n \in Nat /\ EndOf(s, len) \in Nat /\ s + n <= EndOf(s, len)
      /\ n >= NDIRECT => s + n < EndOf(s, len)
  BY BlocksBound, EndOfFacts
<1>2. disk' = [b \in Block |-> IF b \in s .. s + n - 1 THEN contents[b - s]
                              ELSE IF b = s + n /\ n >= NDIRECT THEN IndirectBlock(s, len)
                              ELSE disk[b]]
  BY DEF Written
<1>3. Block = 0 .. nblocks - 1 /\ nblocks \in Nat
  BY Units DEF Block
<1> HIDE DEF n
<1>4. \A b \in Block : b < s => disk'[b] = disk[b]
  BY <1>1, <1>2, <1>3
<1>5. ASSUME NEW k \in 0 .. n - 1 PROVE disk'[s + k] = contents[k]
  <2>1. s + k \in Block /\ s + k \in s .. s + n - 1 /\ s + k - s = k
    BY <1>1, <1>3
  <2> QED BY <1>2, <2>1
<1>6. n >= NDIRECT => disk'[s + n] = IndirectBlock(s, len)
  <2>1. n >= NDIRECT => s + n \in Block /\ s + n \notin s .. s + n - 1
    BY <1>1, <1>3
  <2> QED BY <1>2, <2>1
<1> QED BY <1>4, <1>5, <1>6 DEF n

LEMMA FinishedKept ==
  ASSUME NEW f, NEW name, NEW s, NEW limit \in Nat, Finished(f, name, s), EndOf(s, f.size) <= limit,
         \A b \in Block : b < limit => disk'[b] = disk[b]
  PROVE  /\ Finished(f, name, s)'
         /\ \A k \in 0 .. Blocks(f.size) - 1 : disk'[s + k] = disk[s + k]
<1> DEFINE n == Blocks(f.size)
<1>1. s \in Nat /\ f.size \in Nat /\ n \in Nat
  BY FinishedFacts
<1>2. /\ EndOf(s, f.size) \in Nat /\ s + n <= EndOf(s, f.size) /\ EndOf(s, f.size) < nblocks
      /\ n >= NDIRECT => s + n < EndOf(s, f.size)
  BY <1>1, EndOfFacts DEF Finished
<1>3. Block = 0 .. nblocks - 1 /\ nblocks \in Nat
  BY Units DEF Block
<1>4. n >= NDIRECT => disk'[s + n] = disk[s + n]
  <2>1. n >= NDIRECT => s + n \in Block /\ s + n < limit
    <3> HIDE DEF n
    <3> QED BY <1>1, <1>2, <1>3
  <2> HIDE DEF n
  <2> QED BY <2>1
<1>5. ASSUME NEW k \in 0 .. n - 1 PROVE disk'[s + k] = disk[s + k]
  <2>1. s + k \in Block /\ s + k < limit
    <3> HIDE DEF n
    <3> QED BY <1>1, <1>2, <1>3
  <2> QED BY <2>1
<1> QED BY <1>4, <1>5 DEF Finished

LEMMA NewFile ==
  ASSUME NEW name \in STRING \cup {"/"}, NEW s \in Nat, s >= 3, NEW len \in Nat, Blocks(len) <= NDIRECT + NINDIRECT,
         EndOf(s, len) < nblocks, NEW old \in Nat, NEW f, f = finishfile(name, s, len, s + Blocks(len), old),
         NEW contents, disk' = Written(s, len, contents, s + Blocks(len))
  PROVE  /\ Finished(f, name, s)'
         /\ \A k \in 0 .. Blocks(len) - 1 : disk'[s + k] = contents[k]
         /\ f.size = len /\ (name \in STRING => f \in File)
<1>1. /\ \A k \in 0 .. Blocks(len) - 1 : disk'[s + k] = contents[k]
      /\ Blocks(len) >= NDIRECT => disk'[s + Blocks(len)] = IndirectBlock(s, len)
  BY WrittenFacts
<1>2. f.size = len
  BY DEF finishfile
<1>3. Blocks(len) \in Nat
  BY BlocksBound
<1>4. name \in STRING => f \in File
  <2>1. \A i \in 0 .. NDIRECT - 1 : s + i \in Nat
    BY Units
  <2>2. s + Blocks(len) \in Nat
    BY <1>3
  <2> QED BY <2>1, <2>2 DEF finishfile, File
<1>5. Finished(f, name, s)'
  BY <1>1, <1>2 DEF Finished
<1> QED BY <1>1, <1>2, <1>4, <1>5

LEMMA ImageInit_Inv == ImageInit => ImageInv
<1> SUFFICES ASSUME ImageInit PROVE ImageInv
  OBVIOUS
<1>1. ents = <<>> /\ Len(ents) = 0 /\ ents \in Seq(File) /\ diskpos = 3 /\ root.size = 0
  BY DEF ImageInit
<1>2. Formatting
  BY <1>1 DEF Formatting
<1>3. Len(Argv) \in Nat
  BY ImageAssumption
<1>4. PICK st : st \in Starts
  <2>1. [i \in 1 .. Len(ents) |-> 0] \in Starts
    BY DEF Starts
  <2> QED BY <2>1
<1>5. FilesAt(st, diskpos)
  <2>1. 1 .. Len(ents) = {}
    BY <1>1
  <2> QED BY <2>1 DEF FilesAt
<1> QED BY <1>1, <1>2, <1>3, <1>4, <1>5 DEF ImageInv

LEMMA ImageKept == ASSUME ImageInv, UNCHANGED image PROVE ImageInv'
<1>1. disk' = disk /\ bitmap' = bitmap /\ diskpos' = diskpos /\ ents' = ents /\ root' = root
  BY DEF image
<1>2. ASSUME NEW f, NEW name, NEW s, Finished(f, name, s) PROVE Finished(f, name, s)'
  BY <1>1, <1>2 DEF Finished
<1>3. ASSUME NEW st, NEW limit, FilesAt(st, limit) PROVE FilesAt(st, limit)'
  <2>1. ASSUME NEW i \in 1 .. Len(ents) PROVE Finished(ents[i], Argv[i], st[i])'
    <3>1. PICK f : f = ents[i]
      OBVIOUS
    <3>2. Finished(f, Argv[i], st[i])'
      BY <1>2, <1>3, <3>1 DEF FilesAt
    <3> QED BY <1>1, <3>1, <3>2 DEF Finished
  <2> QED BY <1>1, <1>3, <2>1 DEF FilesAt
<1>4. ASSUME NEW s, RootAt(s) PROVE RootAt(s)'
  <2>1. Finished(root, "/", s)'
    BY <1>1, <1>4 DEF RootAt, Finished
  <2>2. \A k : DirBlock(k)' = DirBlock(k)
    BY <1>1 DEF DirBlock
  <2> QED BY <1>1, <1>4, <2>1, <2>2 DEF RootAt, DirSize
<1>5. (Formatting)' = Formatting /\ Starts' = Starts
  BY <1>1 DEF Formatting, Starts
<1>6. Formatting => \E st \in Starts : FilesAt(st, diskpos)'
  <2>1. CASE Formatting
    <3>1. PICK st \in Starts, p \in {diskpos} : p = diskpos /\ FilesAt(st, p)
      BY <2>1 DEF ImageInv
    <3>2. FilesAt(st, p)'
      BY <1>3, <3>1
    <3>3. FilesAt(st, diskpos)'
      BY <1>1, <3>1, <3>2 DEF FilesAt
    <3> QED BY <3>3
  <2> QED BY <2>1
<1>7. ~Formatting => \E st \in Starts, s \in Nat : FilesAt(st, s)' /\ RootAt(s)' /\ diskpos' = EndOf(s, root'.size)
  BY <1>1, <1>3, <1>4 DEF ImageInv
<1> QED BY <1>1, <1>5, <1>6, <1>7 DEF ImageInv

LEMMA WriteStep ==
  ASSUME ImageInv, NEW len \in Sizes, writefile(len)
  PROVE  ImageInv'
<1>1. /\ Formatting /\ ents \in Seq(File) /\ Len(ents) \in Nat /\ Len(ents) < Len(Argv) /\ Len(Argv) \in Nat
      /\ diskpos \in Nat /\ diskpos >= 3 /\ root.size \in Nat
  BY ImageAssumption DEF ImageInv, writefile
<1>2. PICK st \in Starts : FilesAt(st, diskpos)
  BY <1>1 DEF ImageInv
<1>3. PICK s \in Nat : s = diskpos /\ s >= 3
  BY <1>1
<1>4. PICK L \in Nat : L = Len(ents)
  BY <1>1
<1>5. len \in Nat /\ len < MAXFILESIZE /\ Blocks(len) <= NDIRECT + NINDIRECT
  <2>1. len \in Nat /\ len < MAXFILESIZE
    BY ImageAssumption DEF writefile
  <2> QED BY <2>1, BlocksFit
<1>6. PICK name \in STRING : name = Argv[L + 1]
  <2>1. L + 1 \in 1 .. Len(Argv)
    BY <1>1, <1>4
  <2>2. Argv \in Seq(STRING)
    BY ImageAssumption
  <2>3. Argv[L + 1] \in STRING
    BY <2>1, <2>2
  <2> QED BY <2>3, Zenon
<1>7. PICK f : f = finishfile(name, s, len, s + Blocks(len), Junk) /\ Junk \in Nat
  BY ImageAssumption
<1>8. /\ diskpos' = EndOf(s, len) /\ EndOf(s, len) < nblocks
      /\ ents' = Append(ents, f) /\ root' = root /\ bitmap' = bitmap
      /\ disk' = Written(s, len, [i \in 0 .. Blocks(len) - 1 |-> FileBlock(name, len, i)], s + Blocks(len))
  BY <1>3, <1>4, <1>6, <1>7 DEF writefile, After, EndOf, FileBlock
<1>9. /\ Finished(f, name, s)' /\ f.size = len /\ f \in File
      /\ \A k \in 0 .. Blocks(len) - 1 : disk'[s + k] = FileBlock(name, len, k)
  <2>1. PICK contents : contents = [i \in 0 .. Blocks(len) - 1 |-> FileBlock(name, len, i)]
    OBVIOUS
  <2>2. disk' = Written(s, len, contents, s + Blocks(len))
    BY <1>8, <2>1
  <2>3. /\ Finished(f, name, s)' /\ f.size = len /\ f \in File
        /\ \A k \in 0 .. Blocks(len) - 1 : disk'[s + k] = contents[k]
    BY <1>3, <1>5, <1>6, <1>7, <1>8, <2>2, NewFile
  <2> QED BY <2>1, <2>3
<1>10. \A b \in Block : b < s => disk'[b] = disk[b]
  BY <1>3, <1>5, <1>8, WrittenFacts
<1>11. /\ ents' \in Seq(File) /\ Len(ents') = L + 1 /\ ents'[L + 1] = f
       /\ \A i \in 1 .. L : ents'[i] = ents[i]
  BY <1>1, <1>4, <1>8, <1>9
<1>12. PICK t : t = [i \in 1 .. L + 1 |-> IF i = L + 1 THEN s ELSE st[i]]
  OBVIOUS
<1>13. t \in Starts' /\ t[L + 1] = s /\ \A i \in 1 .. L : t[i] = st[i] /\ st[i] \in Nat
  <2>1. \A i \in 1 .. L : st[i] \in Nat
    BY <1>2, <1>4 DEF Starts
  <2>2. \A i \in 1 .. L + 1 : i # L + 1 => i \in 1 .. L
    OBVIOUS
  <2>3. \A i \in 1 .. L : i \in 1 .. L + 1 /\ i # L + 1
    OBVIOUS
  <2> QED BY <1>3, <1>11, <1>12, <2>1, <2>2, <2>3 DEF Starts
<1>14. EndOf(s, len) \in Nat /\ s <= EndOf(s, len)
  BY <1>5, EndOfFacts
<1>15. ASSUME NEW i \in 1 .. L
       PROVE  /\ Finished(ents[i], Argv[i], t[i])'
              /\ ents'[i].size < MAXFILESIZE
              /\ \A k \in 0 .. Blocks(ents'[i].size) - 1 : disk'[t[i] + k] = FileBlock(Argv[i], ents'[i].size, k)
              /\ EndOf(t[i], ents'[i].size) <= s /\ EndOf(t[i], ents'[i].size) <= diskpos'
  <2>1. PICK g, m, u : g = ents[i] /\ m = Argv[i] /\ u = st[i] /\ ents'[i] = g /\ t[i] = u
    BY <1>11, <1>13
  <2>2. /\ Finished(g, m, u) /\ g.size < MAXFILESIZE
        /\ \A k \in 0 .. Blocks(g.size) - 1 : disk[u + k] = FileBlock(m, g.size, k)
        /\ EndOf(u, g.size) <= s
    BY <1>2, <1>3, <1>4, <2>1 DEF FilesAt
  <2>3. /\ Finished(g, m, u)'
        /\ \A k \in 0 .. Blocks(g.size) - 1 : disk'[u + k] = disk[u + k]
    BY <1>10, <2>2, FinishedKept
  <2>4. Finished(ents[i], Argv[i], t[i])'
    BY <2>1, <2>3 DEF Finished
  <2>5. EndOf(u, g.size) \in Nat
    BY <2>2, FinishedFacts, EndOfFacts
  <2>6. EndOf(u, g.size) <= diskpos'
    BY <1>8, <1>14, <2>2, <2>5
  <2> QED BY <2>1, <2>2, <2>3, <2>4, <2>6
<1>16. /\ Finished(ents[L + 1], Argv[L + 1], t[L + 1])'
       /\ ents'[L + 1].size < MAXFILESIZE
       /\ \A k \in 0 .. Blocks(ents'[L + 1].size) - 1 : disk'[t[L + 1] + k] = FileBlock(Argv[L + 1], ents'[L + 1].size, k)
       /\ EndOf(t[L + 1], ents'[L + 1].size) <= diskpos'
  <2>1. Finished(ents[L + 1], Argv[L + 1], t[L + 1])'
    BY <1>6, <1>9, <1>11, <1>13 DEF Finished
  <2> QED BY <1>5, <1>6, <1>8, <1>9, <1>11, <1>13, <1>14, <2>1
<1>17. \A i \in 1 .. L + 1 : i \in 1 .. L \/ i = L + 1
  OBVIOUS
<1>18. FilesAt(t, diskpos)'
  <2>1. ASSUME NEW i \in 1 .. L + 1, NEW j \in 1 .. L + 1, i < j
        PROVE  EndOf(t[i], ents'[i].size) <= t[j]
    <3>1. i \in 1 .. L
      BY <2>1
    <3>2. CASE j = L + 1
      BY <1>13, <1>15, <3>1, <3>2
    <3>3. CASE j \in 1 .. L
      <4>1. EndOf(st[i], ents[i].size) <= st[j]
        BY <1>2, <1>4, <2>1, <3>1, <3>3 DEF FilesAt
      <4> QED BY <1>11, <1>13, <3>1, <3>3, <4>1
    <3> QED BY <1>17, <3>2, <3>3
  <2>2. ASSUME NEW i \in 1 .. L + 1
        PROVE  /\ Finished(ents[i], Argv[i], t[i])'
               /\ ents'[i].size < MAXFILESIZE
               /\ \A k \in 0 .. Blocks(ents'[i].size) - 1 : disk'[t[i] + k] = FileBlock(Argv[i], ents'[i].size, k)
               /\ EndOf(t[i], ents'[i].size) <= diskpos'
    BY <1>15, <1>16, <1>17
  <2> QED BY <1>11, <2>1, <2>2 DEF FilesAt
<1>19. Formatting' /\ Len(ents') <= Len(Argv)
  BY <1>1, <1>4, <1>8, <1>11 DEF Formatting
<1>20. diskpos' \in Nat /\ diskpos' >= 3
  BY <1>3, <1>8, <1>14
<1> QED BY <1>1, <1>8, <1>11, <1>13, <1>18, <1>19, <1>20 DEF ImageInv

(* The directory is not empty and fits in a file.                          *)
LEMMA DirFits ==
  ASSUME NEW n \in Nat, n = Len(Argv), NEW nb, nb = (n + BLKFILES - 1) \div BLKFILES
  PROVE  nb \in Nat /\ nb >= 1 /\ nb <= NDIRECT + NINDIRECT
<1>1. PICK m \in Nat : m = NDIRECT + NINDIRECT
  BY Units
<1>2. /\ nb \in Nat /\ nb * BLKFILES \in Nat /\ n <= nb * BLKFILES /\ nb * BLKFILES < n + BLKFILES
  BY RoundUp, Units
<1>3. n >= 1
  BY ImageAssumption
<1>4. n <= m * BLKFILES /\ m * BLKFILES \in Nat
  <2>1. n <= BLKFILES * m
    BY <1>1, DirAssumption
  <2>2. BLKFILES * m = m * BLKFILES
    BY <1>1, Units
  <2> QED BY <1>1, <2>1, <2>2, TimesNat, Units
<1>5. ~(m < nb)
  <2>1. m < nb => m * BLKFILES + BLKFILES <= nb * BLKFILES
    BY <1>1, <1>2, Units, TimesMonotone
  <2> QED BY <1>2, <1>4, <2>1, Units
<1>6. nb # 0
  <2>1. nb = 0 => nb * BLKFILES = 0
    BY Units
  <2> QED BY <1>2, <1>3, <2>1
<1> QED BY <1>1, <1>2, <1>5, <1>6

LEMMA FinishStep ==
  ASSUME ImageInv, finishdir
  PROVE  ImageInv' /\ ~Formatting' /\ ents' = ents
<1> DEFINE nb_ == (Len(ents) + BLKFILES - 1) \div BLKFILES
<1>1. /\ Formatting /\ ents \in Seq(File) /\ Len(ents) = Len(Argv) /\ Len(ents) \in Nat
      /\ diskpos \in Nat /\ diskpos >= 3 /\ ents' = ents
  BY DEF ImageInv, finishdir
<1>2. PICK st \in Starts : FilesAt(st, diskpos)
  BY <1>1 DEF ImageInv
<1>3. PICK s \in Nat : s = diskpos /\ s >= 3
  BY <1>1
<1>4. PICK nb : nb = nb_
  OBVIOUS
<1>5. nb \in Nat /\ nb >= 1 /\ nb <= NDIRECT + NINDIRECT
  BY <1>1, <1>4, DirFits
<1>6. DirSize = nb * BLKSIZE /\ DirSize \in Nat /\ Blocks(DirSize) = nb
  BY <1>1, <1>4, DirSizes
<1>7. PICK len \in Nat : len = DirSize /\ len = nb * BLKSIZE /\ Blocks(len) = nb /\ len # 0
  <2>1. nb * BLKSIZE # 0
    BY <1>5, Units
  <2> QED BY <1>6, <2>1
<1>8. PICK f : f = finishfile("/", s, len, s + Blocks(len), 0)
  OBVIOUS
<1>9. PICK contents : contents = [i \in 0 .. Blocks(len) - 1 |-> DirBlock(i)]
  OBVIOUS
<1>10. /\ diskpos' = EndOf(s, len) /\ EndOf(s, len) < nblocks
       /\ root' = f /\ bitmap' = Block \ (0 .. diskpos' - 1)
       /\ disk' = Written(s, len, contents, s + Blocks(len))
  <2>1. After(len) = EndOf(s, len)
    BY <1>3 DEF After, EndOf
  <2>2. /\ After(nb * BLKSIZE) < nblocks
        /\ disk' = Written(diskpos, nb * BLKSIZE, [i \in 0 .. nb - 1 |-> DirBlock(i)], diskpos + nb)
        /\ root' = finishfile("/", diskpos, nb * BLKSIZE, diskpos + nb, 0)
        /\ diskpos' = After(nb * BLKSIZE)
        /\ bitmap' = Block \ (0 .. diskpos' - 1)
    BY <1>4 DEF finishdir, DirBlock
  <2> QED BY <1>3, <1>7, <1>8, <1>9, <2>1, <2>2
<1>11. /\ Finished(f, "/", s)' /\ f.size = len
       /\ \A k \in 0 .. Blocks(len) - 1 : disk'[s + k] = contents[k]
  <2>1. PICK name \in STRING \cup {"/"} : name = "/"
    OBVIOUS
  <2>2. Blocks(len) <= NDIRECT + NINDIRECT
    BY <1>5, <1>7
  <2>3. f = finishfile(name, s, len, s + Blocks(len), 0)
    BY <1>8, <2>1
  <2>4. /\ Finished(f, name, s)' /\ f.size = len
        /\ \A k \in 0 .. Blocks(len) - 1 : disk'[s + k] = contents[k]
    <3>1. s \in Nat /\ s >= 3 /\ len \in Nat /\ EndOf(s, len) < nblocks
      BY <1>3, <1>10
    <3>2. disk' = Written(s, len, contents, s + Blocks(len))
      BY <1>10
    <3> HIDE DEF nb_
    <3> QED BY <2>2, <2>3, <3>1, <3>2, NewFile
  <2> QED BY <2>1, <2>4
<1>12. \A b \in Block : b < s => disk'[b] = disk[b]
  BY <1>3, <1>10, WrittenFacts
<1>13. ASSUME NEW i \in 1 .. Len(ents)
       PROVE  /\ Finished(ents[i], Argv[i], st[i])'
              /\ \A k \in 0 .. Blocks(ents[i].size) - 1 : disk'[st[i] + k] = FileBlock(Argv[i], ents[i].size, k)
  <2>1. PICK g, m, u : g = ents[i] /\ m = Argv[i] /\ u = st[i]
    OBVIOUS
  <2>2. /\ Finished(g, m, u)
        /\ \A k \in 0 .. Blocks(g.size) - 1 : disk[u + k] = FileBlock(m, g.size, k)
        /\ EndOf(u, g.size) <= s
    BY <1>2, <1>3, <2>1 DEF FilesAt
  <2>3. /\ Finished(g, m, u)'
        /\ \A k \in 0 .. Blocks(g.size) - 1 : disk'[u + k] = disk[u + k]
    BY <1>12, <2>2, FinishedKept
  <2>4. Finished(ents[i], Argv[i], st[i])'
    BY <1>1, <2>1, <2>3 DEF Finished
  <2> QED BY <2>1, <2>2, <2>3, <2>4
<1>14. FilesAt(st, s)'
  BY <1>1, <1>2, <1>3, <1>13 DEF FilesAt
<1>15. RootAt(s)'
  <2>1. Finished(root, "/", s)'
    BY <1>10, <1>11 DEF Finished
  <2>2. \A k : DirBlock(k)' = DirBlock(k)
    BY <1>1 DEF DirBlock
  <2>3. root'.size = len /\ DirSize' = len
    BY <1>1, <1>7, <1>10, <1>11 DEF DirSize
  <2>4. \A k \in 0 .. Blocks(root'.size) - 1 : disk'[s + k] = DirBlock(k)'
    BY <1>9, <1>11, <2>2, <2>3
  <2> QED BY <2>1, <2>3, <2>4 DEF RootAt
<1>16. ~Formatting' /\ root'.size \in Nat
  BY <1>7, <1>10, <1>11 DEF Formatting
<1>17. diskpos' \in Nat /\ diskpos' >= 3
  BY <1>3, <1>10, EndOfFacts
<1>18. st \in Starts'
  BY <1>1 DEF Starts
<1>19. diskpos' = EndOf(s, root'.size)
  BY <1>10, <1>11
<1> QED BY <1>1, <1>10, <1>14, <1>15, <1>16, <1>17, <1>18, <1>19 DEF ImageInv

-----------------------------------------------------------------------------
(* The image is faithful, for the sizes of blocks, files and directories   *)
(* that any fsformat could have.                                           *)

LEMMA FaithfulFromInv == ASSUME ImageInv PROVE ImageFaithful
BY SoundFromInv, ReadsFromInv DEF ImageFaithful

-----------------------------------------------------------------------------
(* The state of the server and of its clients, case by case.               *)

LEMMA ServerSizes ==
  /\ MAXOPEN \in Nat /\ MAXOPEN > 0 /\ MAXOPEN \in Nat \ {0} /\ MAXFD \in Nat /\ MAXFD > 0
  /\ IdMod \in Nat /\ IdMod > MAXOPEN /\ IdMod \in Nat \ {0} /\ IdMod % MAXOPEN = 0
  /\ BufSize \in Nat /\ BufSize > 0 /\ IsFiniteSet(Client) /\ First \in Client
<1>1. /\ MAXOPEN \in Nat \ {0} /\ MAXFD \in Nat \ {0} /\ BufSize \in Nat \ {0}
      /\ IdMod \in Nat /\ IdMod > MAXOPEN
  BY ServerAssumption
<1>2. IdMod % MAXOPEN = 0 /\ IsFiniteSet(Client) /\ First \in Client
  BY ServerAssumption
<1>3. MAXOPEN > 0 /\ MAXFD > 0 /\ BufSize > 0 /\ IdMod \in Nat \ {0}
  BY <1>1
<1> QED BY <1>1, <1>2, <1>3

LEMMA CountsPositive == \A n \in Counts : n \in Nat /\ n # 0
BY ServerAssumption

LEMMA NilIsNone ==
  /\ Nil \notin Nat /\ Nil \notin Entry /\ Nil \notin Name /\ Nil \notin Text
  /\ \A x \in [id : Nat, offset : Nat] : x # Nil
<1>1. Entry \subseteq Nat
  BY ServerSizes DEF Entry
<1> QED BY <1>1, NilAssumption

LEMMA RequestCases ==
  ASSUME NEW q \in Request_
  PROVE  /\ q.fd \in Fd /\ q.type \in {"open", "read", "stat", "flush"}
         /\ q.type = "open" => q.name \in Name
         /\ q.type # "open" => q.fileid \in 0 .. IdMod - 1 /\ q.n \in Counts \cup {0}
         /\ q.type # "open" => q.n \in Nat
<1>1. /\ q.fd \in Fd /\ q.type \in {"open", "read", "stat", "flush"}
      /\ q.type = "open" => q.name \in Name
      /\ q.type # "open" => q.fileid \in 0 .. IdMod - 1 /\ q.n \in Counts \cup {0}
  BY DEF Request_
<1>2. \A n \in Counts \cup {0} : n \in Nat
  BY CountsPositive
<1> QED BY <1>1, <1>2

LEMMA StateCases ==
  ASSUME NEW p \in State_
  PROVE  /\ p.at \in {"idle", "gone", "unborn", "send", "sent", "wait", "done"}
         /\ p.at = "idle" => p = Idle
         /\ p.at = "gone" => p = Gone
         /\ p.at = "unborn" => p = Unborn
         /\ p.at \in {"send", "sent", "wait"} => p \in Call_ /\ p.req \in Request_
         /\ p.at = "done" => p \in Done_ /\ p.req \in Request_
         /\ "req" \in DOMAIN p => p.req \in Request_
<1>1. CASE p \in Call_
  BY <1>1 DEF Call_
<1>2. CASE p \in Done_
  BY <1>2 DEF Done_
<1>3. CASE p \in {Idle, Gone, Unborn}
  BY <1>3 DEF Idle, Gone, Unborn
<1> QED BY <1>1, <1>2, <1>3 DEF State_

LEMMA StateIs ==
  /\ Idle \in State_ /\ Gone \in State_ /\ Unborn \in State_
  /\ Idle.at = "idle" /\ Gone.at = "gone" /\ Unborn.at = "unborn"
  /\ \A x \in Call_ : x \in State_
  /\ \A x \in Done_ : x \in State_
BY DEF State_, Idle, Gone, Unborn

LEMMA SrvCases ==
  ASSUME ServerTypes
  PROVE  /\ srv.at \in {"recv", "reply", "panic"}
         /\ srv.at = "recv" => srv = Recv
         /\ srv.at = "panic" => srv = Panic
         /\ srv.at = "reply" => srv \in Reply_ /\ srv.whom \in Client /\ srv.r \in Int
                                /\ srv.bytes \in Text /\ srv.pg \in Entry \cup {Nil}
<1>1. CASE srv \in Reply_
  BY <1>1 DEF Reply_
<1>2. CASE srv \in {Recv, Panic}
  BY <1>2 DEF Recv, Panic
<1> QED BY <1>1, <1>2 DEF ServerTypes

LEMMA SrvIs ==
  /\ Recv.at = "recv" /\ Panic.at = "panic"
  /\ \A x \in Reply_ : x.at = "reply"
BY DEF Recv, Panic, Reply_

-----------------------------------------------------------------------------
(* Reference counts: an entry with a descriptor is not given away, and its *)
(* id is found.                                                            *)

LEMMA PagerefNat ==
  ASSUME ServerTypes, NEW i
  PROVE  /\ pageref(i) \in Nat
         /\ Held(i) /\ o_fd[i] # Nil => pageref(i) >= 2
<1> DEFINE S == {x \in Client \X Fd : fd[x[1]][x[2]] = i}
<1>1. IsFiniteSet(Client \X Fd)
  <2>1. IsFiniteSet(Fd)
    <3>1. 0 \in Int /\ MAXFD - 1 \in Int
      BY ServerSizes
    <3> QED BY <3>1, FS_Interval DEF Fd
  <2>2. IsFiniteSet(Client)
    BY ServerSizes
  <2> QED BY <2>1, <2>2, FS_Product
<1>2. IsFiniteSet(S)
  <2>1. S \subseteq Client \X Fd
    OBVIOUS
  <2> QED BY <1>1, <2>1, FS_Subset
<1>3. Cardinality(S) \in Nat /\ (S # {} => Cardinality(S) # 0)
  <2> HIDE DEF S
  <2> QED BY <1>2, FS_CardinalityType, FS_EmptySet
<1>4. Held(i) => S # {}
  <2>1. ASSUME NEW c \in Client, NEW d \in Fd, fd[c][d] = i PROVE <<c, d>> \in S
    BY <2>1
  <2> QED BY <2>1 DEF Held
<1>5. pageref(i) = (IF o_fd[i] = Nil THEN 0 ELSE 1) + Cardinality(S)
  BY DEF pageref
<1> HIDE DEF S
<1> QED BY <1>3, <1>4, <1>5

LEMMA HeldIs ==
  ASSUME ServerTypes, HeldGood, NEW c \in Client, NEW d \in Fd, fd[c][d] # Nil
  PROVE  /\ fd[c][d] \in Entry /\ Held(fd[c][d]) /\ Good(fd[c][d])
         /\ pageref(fd[c][d]) \in Nat /\ pageref(fd[c][d]) >= 2
<1>1. PICK i : i = fd[c][d]
  OBVIOUS
<1>2. i \in Entry
  BY <1>1 DEF ServerTypes
<1>3. Held(i)
  BY <1>1 DEF Held
<1>4. Good(i)
  BY <1>1 DEF HeldGood
<1>5. pageref(i) \in Nat /\ pageref(i) >= 2
  BY <1>3, <1>4, PagerefNat DEF Good
<1> QED BY <1>1, <1>2, <1>3, <1>4, <1>5

LEMMA AvailableIs ==
  ASSUME ServerTypes, HeldGood, Available # {}
  PROVE  Min(Available) \in Entry /\ ~Held(Min(Available))
<1>1. Available \subseteq Entry /\ Entry \subseteq Nat
  BY ServerSizes DEF Available, Entry
<1>2. \E x \in Available : \A y \in Available : x <= y
  BY <1>1, LeastNatural
<1>3. Min(Available) \in Available
  BY <1>2 DEF Min
<1>4. PICK i \in Available : i = Min(Available)
  BY <1>3
<1>5. i \in Entry /\ pageref(i) <= 1
  BY DEF Available
<1>6. ~Held(i)
  <2>1. SUFFICES ASSUME Held(i) PROVE FALSE
    OBVIOUS
  <2>2. PICK c \in Client, d \in Fd : fd[c][d] = i
    BY <2>1 DEF Held
  <2>3. fd[c][d] # Nil
    BY <1>5, <2>2, NilIsNone
  <2>4. pageref(i) \in Nat /\ pageref(i) >= 2
    BY <2>2, <2>3, HeldIs
  <2> QED BY <1>5, <2>4
<1> QED BY <1>4, <1>5, <1>6

LEMMA LookupFinds ==
  ASSUME ServerTypes, HeldGood, NEW c \in Client, NEW d \in Fd, fd[c][d] # Nil
  PROVE  openfile_lookup(o_fd[fd[c][d]].id) = fd[c][d]
<1>1. PICK i : i = fd[c][d]
  OBVIOUS
<1>2. i \in Entry /\ Good(i) /\ pageref(i) \in Nat /\ pageref(i) >= 2
  BY <1>1, HeldIs
<1>3. o_fd[i].id = o_fileid[i] /\ o_fileid[i] % MAXOPEN = i
  BY <1>2 DEF Good, ServerTypes, TableTypes
<1> QED BY <1>1, <1>2, <1>3 DEF openfile_lookup

(* The next id of an entry names it too, when the ids wrap around as well. *)
LEMMA NextIdNames ==
  ASSUME NEW o \in 0 .. IdMod - 1, NEW i, i = o % MAXOPEN
  PROVE  /\ (o + MAXOPEN) % IdMod \in 0 .. IdMod - 1
         /\ ((o + MAXOPEN) % IdMod) % MAXOPEN = i
<1>1. PICK M \in Nat \ {0}, D \in Nat \ {0} : M = MAXOPEN /\ D = IdMod /\ D > M
  BY ServerSizes
<1>2. PICK q \in Nat : D = q * M
  <2>1. D = (D \div M) * M + (D % M) /\ D \div M \in Nat
    BY <1>1, Division
  <2>2. D % M = 0
    BY <1>1, ServerSizes
  <2>3. (D \div M) * M \in Nat
    BY <1>1, <2>1, TimesNat
  <2>4. D = (D \div M) * M
    BY <1>1, <2>1, <2>2, <2>3
  <2> QED BY <2>1, <2>4
<1>3. o \in Nat /\ o < D
  BY <1>1
<1>4. PICK p \in Nat : o = p * M + i /\ i \in 0 .. M - 1
  <2>1. o = (o \div M) * M + (o % M) /\ o \div M \in Nat /\ o % M \in 0 .. M - 1
    BY <1>1, <1>3, Division
  <2> QED BY <1>1, <2>1
<1>5. PICK x \in Nat, z \in Nat : x = p * M /\ z = q * M /\ (p + 1) * M = x + M
  <2>1. (p + 1) * M = p * M + M
    BY <1>1
  <2> QED BY <1>1, <2>1, TimesNat
<1>6. CASE o + M < D
  <2>1. (o + M) % D = o + M
    BY <1>1, <1>3, <1>6
  <2>2. (o + M) % M = i
    <3>1. (p + 1) * M <= o + M /\ o + M < (p + 1) * M + M /\ o + M - (p + 1) * M = i
      BY <1>1, <1>4, <1>5
    <3>2. p + 1 \in Nat /\ o + M \in Nat
      BY <1>1, <1>3
    <3>3. PICK a \in Nat, u \in Nat : a = o + M /\ u = p + 1
      BY <3>2
    <3>4. u * M <= a /\ a < u * M + M
      BY <3>1, <3>3
    <3>5. a % M = a - u * M
      BY <3>4, QuotientIs
    <3> QED BY <3>1, <3>3, <3>5
  <2> QED BY <1>1, <1>3, <1>6, <2>1, <2>2
<1>7. CASE ~(o + M < D)
  <2>1. ~(q <= p)
    <3>1. q = p => FALSE
      BY <1>2, <1>3, <1>4, <1>5
    <3>2. q < p => FALSE
      BY <1>1, <1>2, <1>3, <1>4, <1>5, TimesMonotone
    <3> QED BY <3>1, <3>2
  <2>2. ~(p + 1 < q)
    <3>1. p + 1 < q => (p + 1) * M + M <= q * M
      BY <1>1, TimesMonotone
    <3> QED BY <1>1, <1>2, <1>4, <1>5, <1>7, <3>1
  <2>3. q = p + 1
    BY <2>1, <2>2
  <2>4. D = x + M /\ o + M - D = i
    BY <1>1, <1>2, <1>4, <1>5, <2>3
  <2>5. (o + M) % D = i
    <3>1. 1 * D <= o + M /\ o + M < 1 * D + D /\ o + M - 1 * D = i
      BY <1>1, <1>3, <1>4, <2>4
    <3>2. o + M \in Nat /\ 1 \in Nat
      BY <1>1, <1>3
    <3>3. PICK a \in Nat, u \in Nat : a = o + M /\ u = 1
      BY <3>2
    <3>4. u * D <= a /\ a < u * D + D
      BY <3>1, <3>3
    <3>5. a % D = a - u * D
      BY <3>4, QuotientIs
    <3> QED BY <3>1, <3>3, <3>5
  <2>6. i % M = i /\ i \in 0 .. D - 1
    BY <1>1, <1>4
  <2> QED BY <1>1, <2>5, <2>6
<1> QED BY <1>6, <1>7

-----------------------------------------------------------------------------
(* What a step has to show: only one client moves, and whatever a          *)
(* descriptor refers to stays good.                                        *)

LEMMA FormattingKept == ASSUME UNCHANGED image PROVE (Formatting)' = Formatting /\ ents' = ents /\ root' = root /\ disk' = disk
BY DEF image, Formatting

LEMMA Frame ==
  ASSUME ServerInv, ~Formatting, UNCHANGED image, ServerTypes',
         NEW w \in Client, NEW p \in State_, pc' = [pc EXCEPT ![w] = p],
         \A c \in Client : c # w => fd'[c] = fd[c],
         \A i \in Entry : Held(i) => Good(i)' /\ o_fd'[i].id = o_fd[i].id,
         \A d \in Fd, i \in Entry : fd'[w][d] = i => Good(i)',
         p \in {Unborn, Gone} => \A d \in Fd : fd'[w][d] = Nil,
         p.at \in {"send", "sent", "wait"} => RequestGood(w)',
         p.at = "done" /\ p.req.type # "open" => fd'[w][p.req.fd] # Nil /\ p.r >= 0,
         p.at = "done" /\ p.req.type = "open" /\ p.r >= 0 => fd'[w][p.req.fd] # Nil \/ srv'.at = "panic",
         srv' = srv \/ srv = Recv \/ (srv.at = "reply" /\ srv.whom = w),
         p.at \in {"sent", "wait"} => srv' = Panic \/ (srv'.at = "reply" /\ srv'.whom = w),
         ReplyGood'
  PROVE  ServerInv'
<1>1. ServerTypes /\ HeldGood /\ RequestsGood /\ DoneHeld /\ Served /\ NeverStale /\ OpenMeansMapped /\ DeadHoldNothing
  BY DEF ServerInv
<1>2. /\ pc \in [Client -> State_] /\ fd \in [Client -> [Fd -> Entry \cup {Nil}]]
      /\ fd' \in [Client -> [Fd -> Entry \cup {Nil}]]
  BY <1>1 DEF ServerTypes
<1>3. pc'[w] = p /\ \A c \in Client : c # w => pc'[c] = pc[c]
  BY <1>2
<1>4. ASSUME NEW c \in Client, c # w, NEW d \in Fd, fd[c][d] # Nil
      PROVE  /\ fd[c][d] \in Entry /\ Held(fd[c][d])
             /\ o_fd'[fd[c][d]].id = o_fd[fd[c][d]].id
  <2>1. fd[c][d] \in Entry /\ Held(fd[c][d])
    BY <1>1, <1>4, HeldIs
  <2> QED BY <2>1
<1>5. HeldGood'
  <2>1. SUFFICES ASSUME NEW c \in Client, NEW d \in Fd, fd'[c][d] # Nil
                 PROVE  Good(fd[c][d])'
    BY DEF HeldGood
  <2>2. PICK i \in Entry : i = fd'[c][d]
    BY <1>2, <2>1
  <2>3. Good(i)'
    <3>1. CASE c = w
      BY <2>2, <3>1
    <3>2. CASE c # w
      <4>1. fd[c][d] = i /\ fd[c][d] # Nil
        BY <2>1, <2>2, <3>2
      <4>2. Held(i)
        BY <1>4, <3>2, <4>1
      <4> QED BY <4>2
    <3> QED BY <3>1, <3>2
  <2> QED BY <2>2, <2>3 DEF Good
<1>6. DeadHoldNothing'
  <2>1. SUFFICES ASSUME NEW c \in Client, pc'[c] \in {Unborn, Gone}, NEW d \in Fd
                 PROVE  fd'[c][d] = Nil
    BY DEF DeadHoldNothing
  <2>2. CASE c = w
    BY <1>3, <2>1, <2>2
  <2>3. CASE c # w
    BY <1>1, <1>3, <2>1, <2>3 DEF DeadHoldNothing
  <2> QED BY <2>2, <2>3
<1>7. RequestsGood'
  <2>1. SUFFICES ASSUME NEW c \in Client, pc'[c].at \in {"send", "sent", "wait"}
                 PROVE  RequestGood(c)'
    BY DEF RequestsGood
  <2>2. CASE c = w
    BY <1>3, <2>1, <2>2
  <2>3. CASE c # w
    <3>1. pc'[c] = pc[c] /\ fd'[c] = fd[c] /\ pc[c] \in State_
      BY <1>2, <1>3, <2>3
    <3>2. PICK q : q = pc[c].req
      OBVIOUS
    <3>3. q.fd \in Fd
      BY <2>1, <3>1, <3>2, StateCases, RequestCases
    <3>4. RequestGood(c)
      BY <1>1, <2>1, <3>1 DEF RequestsGood
    <3>5. fd[c][q.fd] # Nil => o_fd'[fd[c][q.fd]].id = o_fd[fd[c][q.fd]].id
      BY <1>4, <2>3, <3>3
    <3> QED BY <3>1, <3>2, <3>4, <3>5 DEF RequestGood
  <2> QED BY <2>2, <2>3
<1>8. DoneHeld' /\ NeverStale'
  <2>1. SUFFICES ASSUME NEW c \in Client, pc'[c].at = "done", pc'[c].req.type # "open"
                 PROVE  fd'[c][pc'[c].req.fd] # Nil /\ pc'[c].r >= 0
    BY DEF DoneHeld, NeverStale
  <2>2. CASE c = w
    BY <1>3, <2>1, <2>2
  <2>3. CASE c # w
    BY <1>1, <1>3, <2>1, <2>3 DEF DoneHeld, NeverStale
  <2> QED BY <2>2, <2>3
<1>9. OpenMeansMapped'
  <2>1. SUFFICES ASSUME NEW c \in Client, pc'[c].at = "done", pc'[c].req.type = "open", pc'[c].r >= 0
                 PROVE  fd'[c][pc'[c].req.fd] # Nil \/ srv'.at = "panic"
    BY DEF OpenMeansMapped
  <2>2. CASE c = w
    BY <1>3, <2>1, <2>2
  <2>3. CASE c # w
    <3>1. fd[c][pc[c].req.fd] # Nil \/ srv.at = "panic"
      BY <1>1, <1>3, <2>1, <2>3 DEF OpenMeansMapped
    <3>2. srv.at = "panic" => srv' = srv
      BY SrvIs
    <3> QED BY <1>3, <2>3, <3>1, <3>2
  <2> QED BY <2>2, <2>3
<1>10. Served'
  <2>1. SUFFICES ASSUME NEW c \in Client, pc'[c].at \in {"sent", "wait"}
                 PROVE  srv' = Panic \/ (srv'.at = "reply" /\ srv'.whom = c)
    BY DEF Served
  <2>2. CASE c = w
    BY <1>3, <2>1, <2>2
  <2>3. CASE c # w
    <3>1. srv = Panic \/ (srv.at = "reply" /\ srv.whom = c)
      BY <1>1, <1>3, <2>1, <2>3 DEF Served
    <3>2. srv' = srv
      BY <2>3, <3>1, SrvIs
    <3> QED BY <3>1, <3>2
  <2> QED BY <2>2, <2>3
<1>11. ~Formatting'
  BY FormattingKept
<1> QED BY <1>5, <1>6, <1>7, <1>8, <1>9, <1>10, <1>11 DEF ServerInv

(* A client moves; the table and the server do not.                        *)
LEMMA ClientStep ==
  ASSUME ServerInv, ~Formatting, UNCHANGED <<image, table, srv>>,
         NEW w \in Client, NEW p \in State_, pc' = [pc EXCEPT ![w] = p],
         NEW row \in [Fd -> Entry \cup {Nil}], fd' = [fd EXCEPT ![w] = row],
         \A d \in Fd : row[d] # Nil => Held(row[d]),
         p \in {Unborn, Gone} => \A d \in Fd : row[d] = Nil,
         p.at \in {"send", "sent", "wait"} => RequestGood(w)',
         p.at # "done",
         p.at \in {"sent", "wait"} => srv = Panic \/ (srv.at = "reply" /\ srv.whom = w),
         srv.at = "reply" /\ srv.whom = w =>
           p = Gone \/ (p.at \in {"sent", "wait"} /\ pc[w] # Gone /\ p.req = pc[w].req)
  PROVE  ServerInv'
<1>1. ServerTypes /\ HeldGood /\ ReplyGood
  BY DEF ServerInv
<1>2. /\ pc \in [Client -> State_] /\ fd \in [Client -> [Fd -> Entry \cup {Nil}]]
      /\ o_fileid' = o_fileid /\ o_fd' = o_fd /\ o_file' = o_file /\ srv' = srv /\ ents' = ents
  BY <1>1 DEF ServerTypes, table, image
<1>3. /\ fd'[w] = row /\ \A c \in Client : c # w => fd'[c] = fd[c]
      /\ pc'[w] = p /\ \A c \in Client : c # w => pc'[c] = pc[c]
      /\ fd' \in [Client -> [Fd -> Entry \cup {Nil}]] /\ pc' \in [Client -> State_]
  BY <1>2
<1>4. ServerTypes'
  BY <1>1, <1>2, <1>3 DEF ServerTypes, TableTypes
<1>5. ASSUME NEW i, Good(i) PROVE Good(i)'
  BY <1>2, <1>5 DEF Good
<1>6. ASSUME NEW i \in Entry, Held(i) PROVE Good(i)
  BY <1>1, <1>6, NilIsNone DEF Held, HeldGood
<1>7. ASSUME NEW i \in Entry, Held(i)' PROVE Held(i)
  <2>1. PICK c \in Client, d \in Fd : fd'[c][d] = i
    BY <1>7 DEF Held
  <2>2. CASE c = w
    BY <1>3, <2>1, <2>2, NilIsNone
  <2>3. CASE c # w
    BY <1>3, <2>1, <2>3 DEF Held
  <2> QED BY <2>2, <2>3
<1>8. ReplyGood'
  <2>1. SUFFICES ASSUME srv.at = "reply"
                 PROVE  /\ pc'[srv.whom].at \in {"sent", "wait"} \/ pc'[srv.whom] = Gone
                        /\ pc'[srv.whom] # Gone => AnswerGood(pc'[srv.whom].req, srv.r, srv.pg)
                        /\ srv.pg # Nil => ~Held(srv.pg)' /\ Good(srv.pg)' /\ o_fd[srv.pg].offset = 0
    BY <1>2 DEF ReplyGood, AnswerGood
  <2>2. srv.whom \in Client /\ srv.pg \in Entry \cup {Nil}
    BY <1>1, <2>1, SrvCases
  <2>3. /\ pc[srv.whom].at \in {"sent", "wait"} \/ pc[srv.whom] = Gone
        /\ pc[srv.whom] # Gone => AnswerGood(pc[srv.whom].req, srv.r, srv.pg)
        /\ srv.pg # Nil => ~Held(srv.pg) /\ Good(srv.pg) /\ o_fd[srv.pg].offset = 0
    BY <1>1, <2>1 DEF ReplyGood
  <2>4. srv.pg # Nil => ~Held(srv.pg)' /\ Good(srv.pg)'
    <3>1. PICK g : g = srv.pg
      OBVIOUS
    <3>2. g # Nil => ~Held(g)' /\ Good(g)'
      BY <1>5, <1>7, <2>2, <2>3, <3>1
    <3> QED BY <1>2, <3>1, <3>2 DEF Held, Good
  <2>5. CASE srv.whom = w
    BY <1>3, <2>1, <2>3, <2>4, <2>5
  <2>6. CASE srv.whom # w
    BY <1>3, <2>2, <2>3, <2>4, <2>6
  <2> QED BY <2>5, <2>6
<1>9. \A i \in Entry : Held(i) => Good(i)' /\ o_fd'[i].id = o_fd[i].id
  BY <1>2, <1>5, <1>6
<1>10. \A d \in Fd, i \in Entry : fd'[w][d] = i => Good(i)'
  BY <1>3, <1>5, <1>6, NilIsNone
<1>11. p \in {Unborn, Gone} => \A d \in Fd : fd'[w][d] = Nil
  BY <1>3
<1>12. p.at \in {"sent", "wait"} => srv' = Panic \/ (srv'.at = "reply" /\ srv'.whom = w)
  BY <1>2
<1>13. UNCHANGED image
  OBVIOUS
<1> QED BY <1>2, <1>3, <1>4, <1>8, <1>9, <1>10, <1>11, <1>12, <1>13, Frame

(* The server answers the request of a client.                             *)
LEMMA AnswerStep ==
  ASSUME ServerInv, ~Formatting, UNCHANGED <<image, fd>>,
         NEW c \in Client, srv = Recv, pc[c].at = "send",
         NEW r \in Int, NEW bytes \in Text, NEW pg \in Entry \cup {Nil}, Answer(c, r, bytes, pg),
         TableTypes',
         \A i \in Entry : Held(i) => Good(i)' /\ o_fd'[i].id = o_fd[i].id,
         AnswerGood(pc[c].req, r, pg),
         pg # Nil => ~Held(pg) /\ Good(pg)' /\ o_fd'[pg].offset = 0
  PROVE  ServerInv'
<1>1. ServerTypes /\ HeldGood /\ RequestsGood
  BY DEF ServerInv
<1>2. /\ pc \in [Client -> State_] /\ fd \in [Client -> [Fd -> Entry \cup {Nil}]]
      /\ fd' = fd /\ pc[c] \in Call_ /\ pc[c].req \in Request_
  BY <1>1, StateCases DEF ServerTypes
<1>3. PICK p : p = [pc[c] EXCEPT !.at = "sent"]
  OBVIOUS
<1>4. p \in Call_ /\ p \in State_ /\ p.at = "sent" /\ p.req = pc[c].req
  BY <1>2, <1>3 DEF Call_, State_
<1>5. /\ srv' = [at |-> "reply", whom |-> c, r |-> r, bytes |-> bytes, pg |-> pg]
      /\ pc' = [pc EXCEPT ![c] = p]
  BY <1>3 DEF Answer, Goto
<1>6. /\ srv' \in Reply_ /\ srv'.at = "reply" /\ srv'.whom = c /\ srv'.r = r /\ srv'.pg = pg
      /\ pc'[c] = p /\ pc' \in [Client -> State_]
  BY <1>2, <1>4, <1>5 DEF Reply_
<1>7. ServerTypes'
  BY <1>2, <1>6 DEF ServerTypes
<1>8. \A d \in Fd, i \in Entry : fd'[c][d] = i => Good(i)'
  BY <1>2 DEF Held
<1>9. RequestGood(c)'
  <2>1. PICK q \in Request_ : q = pc[c].req /\ q.fd \in Fd
    BY <1>2, RequestCases
  <2>2. RequestGood(c)
    BY <1>1 DEF RequestsGood
  <2>3. fd[c][q.fd] # Nil => o_fd'[fd[c][q.fd]].id = o_fd[fd[c][q.fd]].id
    BY <1>1, <2>1, HeldIs
  <2>4. pc'[c].req = q
    BY <1>4, <1>6, <2>1
  <2> QED BY <1>2, <2>1, <2>2, <2>3, <2>4 DEF RequestGood
<1>10. ReplyGood'
  <2>1. pg # Nil => ~Held(pg)'
    BY <1>2 DEF Held
  <2>2. AnswerGood(pc'[c].req, r, pg)
    BY <1>4, <1>6
  <2>3. pg # Nil => Good(srv.pg)' /\ ~Held(srv.pg)'
    BY <1>6, <2>1 DEF Good, Held
  <2> QED BY <1>4, <1>6, <2>2, <2>3 DEF ReplyGood, AnswerGood
<1>11. p \notin {Unborn, Gone} /\ p.at # "done"
  BY <1>4, StateIs
<1>12. UNCHANGED image /\ \A x \in Client : x # c => fd'[x] = fd[x]
  BY <1>2
<1> QED BY <1>4, <1>5, <1>6, <1>7, <1>8, <1>9, <1>10, <1>11, <1>12, Frame

-----------------------------------------------------------------------------
(* The steps of a client.                                                  *)

LEMMA CallStep ==
  ASSUME ServerInv, NEW c \in Client, NEW q \in Request_, Call(c, q),
         q.type = "open" => fd[c][q.fd] = Nil,
         q.type # "open" =>
           /\ fd[c][q.fd] # Nil /\ q.fileid = o_fd[fd[c][q.fd]].id
           /\ q.type = "read" => q.n # 0
  PROVE  ServerInv'
<1>1. /\ ServerTypes /\ HeldGood /\ ReplyGood
      /\ pc \in [Client -> State_] /\ fd \in [Client -> [Fd -> Entry \cup {Nil}]]
  BY DEF ServerInv, ServerTypes
<1>2. ~Formatting /\ pc[c].at = "idle" /\ UNCHANGED <<image, table, srv>> /\ fd' = fd /\ UNCHANGED table
  BY DEF Call, At, Up
<1>3. PICK p : p = [at |-> "send", req |-> q]
  OBVIOUS
<1>4. p \in State_ /\ p.at = "send" /\ p.req = q /\ pc' = [pc EXCEPT ![c] = p] /\ p \notin {Unborn, Gone}
  BY <1>3 DEF Call, Goto, State_, Call_, Unborn, Gone
<1>5. pc'[c] = p
  BY <1>1, <1>4
<1>6. RequestGood(c)'
  BY <1>2, <1>4, <1>5 DEF RequestGood, table
<1>7. PICK row \in [Fd -> Entry \cup {Nil}] : row = fd[c] /\ fd' = [fd EXCEPT ![c] = row]
  BY <1>1, <1>2
<1>8. \A d \in Fd : row[d] # Nil => Held(row[d])
  BY <1>7 DEF Held
<1>9. ~(srv.at = "reply" /\ srv.whom = c)
  BY <1>1, <1>2, StateIs DEF ReplyGood
<1> QED BY <1>2, <1>4, <1>6, <1>7, <1>8, <1>9, ClientStep

LEMMA OpenStep ==
  ASSUME ServerInv, NEW c \in Client, NEW n \in Name, Open(c, n)
  PROVE  ServerInv'
<1>1. PICK d \in Fd : fd[c][d] = Nil /\ Call(c, [type |-> "open", fd |-> d, name |-> n])
  BY DEF Open
<1>2. PICK q : q = [type |-> "open", fd |-> d, name |-> n]
  OBVIOUS
<1>3. q \in Request_ /\ q.type = "open" /\ q.fd = d /\ Call(c, q)
  BY <1>1, <1>2 DEF Request_
<1> QED BY <1>1, <1>3, CallStep

LEMMA FileCallStep ==
  ASSUME ServerInv, NEW c \in Client, NEW d \in Fd, NEW type \in {"read", "stat", "flush"},
         NEW n \in Counts \cup {0}, type = "read" => n \in Counts, FileCall(c, d, type, n)
  PROVE  ServerInv'
<1>1. ServerTypes /\ HeldGood
  BY DEF ServerInv
<1>2. fd[c][d] # Nil
  BY DEF FileCall
<1>3. PICK i \in Entry : i = fd[c][d] /\ o_fd[i] # Nil
  BY <1>1, <1>2, HeldIs DEF Good
<1>4. o_fd[i].id \in 0 .. IdMod - 1
  <2>1. o_fd[i] \in [id : 0 .. IdMod - 1, offset : 0 .. MAXFILESIZE]
    BY <1>1, <1>3 DEF ServerTypes, TableTypes
  <2> QED BY <2>1
<1>5. PICK q : q = [type |-> type, fd |-> d, fileid |-> o_fd[i].id, n |-> n]
  OBVIOUS
<1>6. q \in Request_ /\ q.type = type /\ q.fd = d /\ q.fileid = o_fd[i].id /\ q.n = n
  BY <1>4, <1>5 DEF Request_
<1>7. Call(c, q)
  BY <1>3, <1>5 DEF FileCall
<1>8. q.type = "read" => q.n # 0
  BY <1>6, CountsPositive
<1> QED BY <1>2, <1>3, <1>6, <1>7, <1>8, CallStep

LEMMA WaitStep ==
  ASSUME ServerInv, NEW c \in Client, Wait(c)
  PROVE  ServerInv'
<1>1. /\ ServerTypes /\ RequestsGood /\ Served
      /\ pc \in [Client -> State_] /\ fd \in [Client -> [Fd -> Entry \cup {Nil}]]
  BY DEF ServerInv, ServerTypes
<1>2. ~Formatting /\ pc[c].at = "sent" /\ UNCHANGED <<image, table, srv>> /\ fd' = fd /\ UNCHANGED table
  BY DEF Wait, At, Up
<1>3. PICK p : p = [pc[c] EXCEPT !.at = "wait"]
  OBVIOUS
<1>4. pc[c] \in Call_
  BY <1>1, <1>2, StateCases
<1>5. p \in State_ /\ p.at = "wait" /\ p.req = pc[c].req /\ pc' = [pc EXCEPT ![c] = p]
  BY <1>3, <1>4 DEF Wait, Goto, State_, Call_
<1>6. pc'[c] = p
  BY <1>1, <1>5
<1>7. RequestGood(c)'
  <2>1. RequestGood(c)
    BY <1>1, <1>2 DEF RequestsGood
  <2> QED BY <1>2, <1>5, <1>6, <2>1 DEF RequestGood, table
<1>8. PICK row \in [Fd -> Entry \cup {Nil}] : row = fd[c] /\ fd' = [fd EXCEPT ![c] = row]
  BY <1>1, <1>2
<1>9. \A d \in Fd : row[d] # Nil => Held(row[d])
  BY <1>8 DEF Held
<1>10. srv = Panic \/ (srv.at = "reply" /\ srv.whom = c)
  BY <1>1, <1>2 DEF Served
<1>11. p \notin {Unborn, Gone} /\ pc[c] # Gone
  BY <1>2, <1>5, StateIs
<1> QED BY <1>2, <1>5, <1>7, <1>8, <1>9, <1>10, <1>11, ClientStep

LEMMA ReturnStep ==
  ASSUME ServerInv, NEW c \in Client, Return(c)
  PROVE  ServerInv'
<1>1. /\ ServerTypes /\ ReplyGood
      /\ pc \in [Client -> State_] /\ fd \in [Client -> [Fd -> Entry \cup {Nil}]]
  BY DEF ServerInv, ServerTypes
<1>2. /\ ~Formatting /\ pc[c].at = "done" /\ UNCHANGED <<image, table, srv>> /\ pc' = [pc EXCEPT ![c] = Idle]
      /\ fd' = IF pc[c].req.type = "flush" THEN [fd EXCEPT ![c][pc[c].req.fd] = Nil] ELSE fd
  BY DEF Return, At, Up, Goto
<1>3. pc[c].req.fd \in Fd
  BY <1>1, <1>2, StateCases, RequestCases
<1>4. PICK row \in [Fd -> Entry \cup {Nil}] :
        fd' = [fd EXCEPT ![c] = row] /\ \A d \in Fd : row[d] # Nil => row[d] = fd[c][d]
  <2>1. CASE pc[c].req.type = "flush"
    <3>1. fd' = [fd EXCEPT ![c] = [fd[c] EXCEPT ![pc[c].req.fd] = Nil]]
      BY <1>1, <1>2, <2>1
    <3>2. [fd[c] EXCEPT ![pc[c].req.fd] = Nil] \in [Fd -> Entry \cup {Nil}]
      BY <1>1
    <3> QED BY <1>1, <3>1, <3>2
  <2>2. CASE pc[c].req.type # "flush"
    <3>1. fd' = [fd EXCEPT ![c] = fd[c]] /\ fd[c] \in [Fd -> Entry \cup {Nil}]
      BY <1>1, <1>2, <2>2
    <3> QED BY <3>1
  <2> QED BY <2>1, <2>2
<1>5. \A d \in Fd : row[d] # Nil => Held(row[d])
  BY <1>4 DEF Held
<1>6. ~(srv.at = "reply" /\ srv.whom = c)
  BY <1>1, <1>2, StateIs DEF ReplyGood
<1>7. Idle \in State_ /\ Idle.at = "idle" /\ Idle \notin {Unborn, Gone}
  BY StateIs
<1> QED BY <1>2, <1>4, <1>5, <1>6, <1>7, ClientStep

LEMMA ForkStep ==
  ASSUME ServerInv, NEW c \in Client, NEW child \in Client, Fork(c, child)
  PROVE  ServerInv'
<1>1. /\ ServerTypes /\ ReplyGood
      /\ pc \in [Client -> State_] /\ fd \in [Client -> [Fd -> Entry \cup {Nil}]]
  BY DEF ServerInv, ServerTypes
<1>2. /\ ~Formatting /\ pc[child] = Unborn /\ UNCHANGED <<image, table, srv>> /\ pc' = [pc EXCEPT ![child] = Idle]
      /\ fd' = [fd EXCEPT ![child] = fd[c]]
  BY DEF Fork, At, Up, Goto
<1>3. PICK row \in [Fd -> Entry \cup {Nil}] : row = fd[c] /\ fd' = [fd EXCEPT ![child] = row]
  BY <1>1, <1>2
<1>4. \A d \in Fd : row[d] # Nil => Held(row[d])
  BY <1>3 DEF Held
<1>5. ~(srv.at = "reply" /\ srv.whom = child)
  BY <1>1, <1>2, StateIs DEF ReplyGood
<1>6. Idle \in State_ /\ Idle.at = "idle" /\ Idle \notin {Unborn, Gone}
  BY StateIs
<1> QED BY <1>2, <1>3, <1>4, <1>5, <1>6, ClientStep

LEMMA DieStep ==
  ASSUME ServerInv, NEW c \in Client, Die(c)
  PROVE  ServerInv'
<1>1. /\ ~Formatting /\ UNCHANGED <<image, table, srv>> /\ pc' = [pc EXCEPT ![c] = Gone]
      /\ fd' = [fd EXCEPT ![c] = [d \in Fd |-> Nil]]
  BY DEF Die, Up, Goto
<1>2. PICK row \in [Fd -> Entry \cup {Nil}] : row = [d \in Fd |-> Nil] /\ fd' = [fd EXCEPT ![c] = row]
  BY <1>1
<1>3. \A d \in Fd : row[d] = Nil
  BY <1>2
<1>4. Gone \in State_ /\ Gone.at = "gone"
  BY StateIs
<1> QED BY <1>1, <1>2, <1>3, <1>4, ClientStep

-----------------------------------------------------------------------------
(* What the server reads of the image.                                     *)

LEMMA EntFacts ==
  ASSUME ImageInv, NEW j \in DOMAIN ents
  PROVE  /\ ents[j] \in File /\ ents[j].name \in Name /\ ents[j].name # "" /\ ents[j] # NoFile
         /\ ents[j].size \in Nat /\ ents[j].size < MAXFILESIZE
         /\ \E s : Filled(ents[j], ents[j].name, s)
         /\ \A i \in DOMAIN ents : ents[i].name = ents[j].name => i = j
<1>1. ents \in Seq(File) /\ DOMAIN ents = 1 .. Len(ents) /\ j \in 1 .. Len(ents)
  BY DEF ImageInv
<1>2. PICK st, limit : FilesAt(st, limit)
  BY DEF ImageInv
<1>3. ents[j].name = Argv[j] /\ ents[j].name # "" /\ j \in DOMAIN Argv
  BY <1>1, <1>2, EntryNames
<1>4. \A i \in DOMAIN ents : ents[i].name = ents[j].name => i = j
  BY <1>1, <1>2, EntryNames
<1>5. ents[j] \in File /\ ents[j].size \in Nat
  <2>1. ents[j] \in File
    BY <1>1
  <2> QED BY <2>1 DEF File
<1>6. Filled(ents[j], Argv[j], st[j]) /\ ents[j].size < MAXFILESIZE
  BY <1>1, <1>2 DEF FilesAt, Filled
<1>7. ents[j].name \in Name
  BY <1>3 DEF Name
<1>8. ents[j] # NoFile
  <2>1. NoFile.name = ""
    BY DEF NoFile
  <2> QED BY <1>3, <2>1
<1> QED BY <1>3, <1>4, <1>5, <1>6, <1>7, <1>8

LEMMA LookupCases ==
  ASSUME ImageInv, ~Formatting, NEW n \in Name
  PROVE  \/ dir_lookup(root, n) = NoFile
         \/ \E j \in DOMAIN ents : /\ dir_lookup(root, n) = ents[j]
                                   /\ ents[j].name = n /\ ents[j] # NoFile /\ ents[j] \in File
<1>1. n # ""
  BY DirAssumption, ServerAssumption DEF Name
<1>2. DOMAIN ents = 1 .. Len(ents)
  BY DEF ImageInv
<1>3. CASE \A i \in 1 .. Len(ents) : ents[i].name # n
  BY <1>1, <1>3, LookupIs
<1>4. ASSUME NEW i \in 1 .. Len(ents), ents[i].name = n
      PROVE  dir_lookup(root, n) = ents[i] /\ ents[i] # NoFile /\ ents[i] \in File
  BY <1>2, <1>4, LookupIs, EntFacts
<1> QED BY <1>2, <1>3, <1>4

(* A read from a position within the file.                                 *)
(* What a read through a descriptor returns: the next k bytes of the file. *)
ReadIs(j, offset, count, k) ==
  /\ offset + k <= ents[j].size /\ (k = 0 /\ count # 0 => offset = ents[j].size)
  /\ file_read(ents[j], count, offset) = [x \in 1 .. k |-> <<ents[j].name, offset + x - 1>>]
  /\ file_read(ents[j], count, offset) \in Text
  /\ Len(file_read(ents[j], count, offset)) = k

LEMMA ReadAnswer ==
  ASSUME ImageInv, NEW j \in DOMAIN ents, NEW offset \in Nat, offset <= ents[j].size, NEW count \in Nat
  PROVE  \E k \in Nat : ReadIs(j, offset, count, k)
<1>a. PICK f : f = ents[j]
  OBVIOUS
<1>b. PICK e : e = Least(f.size, offset + count)
  OBVIOUS
<1>1. f.size \in Nat /\ f.name \in Name /\ offset <= f.size
  BY <1>a, EntFacts
<1>2. PICK s : Filled(f, f.name, s)
  BY <1>a, EntFacts
<1>3. PICK name : name = f.name
  OBVIOUS
<1>4. e \in Nat /\ offset <= e /\ e <= f.size /\ (e = offset /\ count # 0 => e = f.size)
  BY <1>1, <1>b DEF Least
<1>5. file_read(f, count, offset) = Part(name, offset, e)
  <2>1. CASE offset < f.size
    BY <1>2, <1>3, <1>b, <2>1, ReadIsPart
  <2>2. CASE ~(offset < f.size)
    <3>a. offset >= f.size
      BY <1>1, <2>2
    <3>1. file_read(f, count, offset) = <<>>
      BY <1>2, <3>a, ReadIsPart
    <3>2. e = offset
      BY <1>1, <1>4, <2>2
    <3> QED BY <3>1, <3>2, PartEmpty
  <2> QED BY <2>1, <2>2
<1>6. Part(name, offset, e) \in Seq({name} \X Nat) /\ Len(Part(name, offset, e)) = e - offset
  BY <1>4, PartType
<1>7. Part(name, offset, e) \in Text
  <2>1. PICK x \in Seq({name} \X Nat) : x = Part(name, offset, e)
    BY <1>6
  <2>2. {name} \X Nat \subseteq Name \X Nat
    BY <1>1, <1>3
  <2>3. x \in Seq(Name \X Nat)
    BY <2>2
  <2> QED BY <2>1, <2>3 DEF Text
<1>8. PICK k \in Nat : k = e - offset /\ offset + k = e
  BY <1>4
<1>9. offset + k <= f.size /\ (k = 0 /\ count # 0 => offset = f.size)
  <2>1. offset + k <= f.size
    BY <1>4, <1>8
  <2>2. k = 0 => e = offset
    BY <1>8
  <2>3. k = 0 /\ count # 0 => offset = f.size
    BY <1>4, <2>2
  <2> QED BY <2>1, <2>3
<1>10. file_read(f, count, offset) = [x \in 1 .. k |-> <<f.name, offset + x - 1>>]
  BY <1>3, <1>5, <1>8 DEF Part
<1>11. file_read(f, count, offset) \in Text /\ Len(file_read(f, count, offset)) = k
  BY <1>5, <1>6, <1>7, <1>8
<1> QED BY <1>a, <1>9, <1>10, <1>11 DEF ReadIs

LEMMA EmptyText == <<>> \in Text
BY DEF Text

LEMMA Errors == -E_NOT_FOUND \in Int /\ -E_MAX_OPEN \in Int /\ -E_NO_MEM \in Int /\ 0 \in Int
               /\ -E_NOT_FOUND < 0 /\ -E_MAX_OPEN < 0 /\ -E_NO_MEM < 0
BY DEF E_NOT_FOUND, E_MAX_OPEN, E_NO_MEM

-----------------------------------------------------------------------------
(* The steps of the server.                                                *)

LEMMA RequestFacts ==
  ASSUME ServerInv, NEW c \in Client, NEW type, Requests(c, type)
  PROVE  /\ ~Formatting /\ srv = Recv /\ pc[c].at = "send" /\ pc[c].req.type = type
         /\ pc[c].req \in Request_ /\ pc[c].req.fd \in Fd /\ RequestGood(c)
         /\ ServerTypes /\ HeldGood /\ TableTypes
<1>1. ~Formatting /\ srv = Recv /\ pc[c].at = "send" /\ pc[c].req.type = type
  BY DEF Requests, At, Up
<1>2. ServerTypes /\ HeldGood /\ RequestsGood /\ TableTypes /\ pc[c] \in State_
  BY DEF ServerInv, ServerTypes
<1>3. pc[c].req \in Request_ /\ pc[c].req.fd \in Fd
  BY <1>1, <1>2, StateCases, RequestCases
<1> QED BY <1>1, <1>2, <1>3 DEF RequestsGood

LEMMA TableSame ==
  ASSUME ServerInv, UNCHANGED <<image, table>>
  PROVE  /\ TableTypes'
         /\ \A i : Good(i) => Good(i)'
         /\ \A i \in Entry : Held(i) => Good(i)' /\ o_fd'[i].id = o_fd[i].id
<1>1. ents' = ents /\ o_fileid' = o_fileid /\ o_fd' = o_fd /\ o_file' = o_file
  BY DEF image, table
<1>2. \A i : Good(i) => Good(i)'
  BY <1>1 DEF Good
<1>3. \A i \in Entry : Held(i) => Good(i)
  BY NilIsNone DEF ServerInv, HeldGood, Held
<1>4. TableTypes'
  BY <1>1 DEF ServerInv, ServerTypes, TableTypes
<1> QED BY <1>1, <1>2, <1>3, <1>4

LEMMA ServeOpenFailsStep ==
  ASSUME ServerInv, NEW c \in Client, ServeOpenFails(c)
  PROVE  ServerInv'
<1>1. /\ ~Formatting /\ srv = Recv /\ pc[c].at = "send" /\ pc[c].req.type = "open"
  BY RequestFacts DEF ServeOpenFails
<1>2. PICK r \in Int : r < 0 /\ Answer(c, r, <<>>, Nil)
  BY Errors DEF ServeOpenFails
<1>3. PICK bytes \in Text, pg \in Entry \cup {Nil} : Answer(c, r, bytes, pg) /\ pg = Nil
  BY <1>2, EmptyText
<1>4. AnswerGood(pc[c].req, r, pg)
  BY <1>1, <1>2 DEF AnswerGood
<1>5. UNCHANGED <<image, table>> /\ UNCHANGED <<image, fd>>
  BY DEF ServeOpenFails
<1>6. TableTypes' /\ \A i \in Entry : Held(i) => Good(i)' /\ o_fd'[i].id = o_fd[i].id
  BY <1>5, TableSame
<1> QED BY <1>1, <1>3, <1>4, <1>5, <1>6, AnswerStep

LEMMA ServeFlushStep ==
  ASSUME ServerInv, NEW c \in Client, ServeFlush(c)
  PROVE  ServerInv'
<1>1. /\ ~Formatting /\ srv = Recv /\ pc[c].at = "send" /\ pc[c].req.type = "flush"
  BY RequestFacts DEF ServeFlush
<1>2. PICK r \in Int, bytes \in Text, pg \in Entry \cup {Nil} : Answer(c, r, bytes, pg) /\ pg = Nil /\ r = 0
  BY EmptyText, Errors DEF ServeFlush
<1>3. AnswerGood(pc[c].req, r, pg)
  BY <1>1, <1>2 DEF AnswerGood
<1>4. UNCHANGED <<image, table>> /\ UNCHANGED <<image, fd>>
  BY DEF ServeFlush
<1>5. TableTypes' /\ \A i \in Entry : Held(i) => Good(i)' /\ o_fd'[i].id = o_fd[i].id
  BY <1>4, TableSame
<1> QED BY <1>1, <1>2, <1>3, <1>4, <1>5, AnswerStep

(* The descriptor of a request is found: it was good when it was sent, and *)
(* nobody has touched it since.                                            *)
LEMMA RequestFound ==
  ASSUME ServerInv, NEW c \in Client, NEW type, Requests(c, type), type # "open"
  PROVE  \E i \in Entry, j \in DOMAIN ents :
           /\ i = fd[c][pc[c].req.fd] /\ openfile_lookup(pc[c].req.fileid) = i /\ i # Nil
           /\ Held(i) /\ Good(i) /\ o_file[i] = ents[j] /\ o_fd[i].offset <= ents[j].size
           /\ o_fd[i] \in [id : 0 .. IdMod - 1, offset : 0 .. MAXFILESIZE]
           /\ o_fd[i].offset \in Nat
<1>1. /\ pc[c].req.type # "open" /\ pc[c].req.fd \in Fd /\ RequestGood(c)
      /\ ServerTypes /\ HeldGood /\ TableTypes
  BY RequestFacts
<1>2. PICK d \in Fd, id \in {pc[c].req.fileid} : d = pc[c].req.fd /\ id = pc[c].req.fileid /\ fd[c][d] # Nil /\ id = o_fd[fd[c][d]].id
  BY <1>1 DEF RequestGood
<1>3. PICK i \in Entry : i = fd[c][d] /\ Held(i) /\ Good(i)
  BY <1>1, <1>2, HeldIs
<1>4. openfile_lookup(id) = i
  BY <1>1, <1>2, <1>3, LookupFinds
<1>5. PICK j \in DOMAIN ents : o_file[i] = ents[j] /\ o_fd[i].offset <= ents[j].size /\ o_fd[i] # Nil
  BY <1>3 DEF Good
<1>6. o_fd[i] \in [id : 0 .. IdMod - 1, offset : 0 .. MAXFILESIZE]
  BY <1>1, <1>5 DEF TableTypes
<1>7. o_fd[i].offset \in Nat
  BY <1>6, MaxFileSize
<1> QED BY <1>2, <1>3, <1>4, <1>5, <1>6, <1>7, NilIsNone

LEMMA ServeStatStep ==
  ASSUME ImageInv, ServerInv, NEW c \in Client, ServeStat(c)
  PROVE  ServerInv'
<1>1. /\ ~Formatting /\ srv = Recv /\ pc[c].at = "send" /\ pc[c].req.type = "stat" /\ Requests(c, "stat")
  BY RequestFacts DEF ServeStat
<1>2. PICK i \in Entry, j \in DOMAIN ents :
        openfile_lookup(pc[c].req.fileid) = i /\ i # Nil /\ o_file[i] = ents[j]
  BY <1>1, RequestFound
<1>3. Answer(c, 0, <<o_file[i].name, o_file[i].size>>, Nil)
  BY <1>2 DEF ServeStat
<1>4. PICK bytes \in Text : bytes = <<o_file[i].name, o_file[i].size>>
  <2>1. o_file[i].name \in Name /\ o_file[i].size \in Nat
    BY <1>2, EntFacts
  <2> QED BY <2>1 DEF Text
<1>5. PICK r \in Int, pg \in Entry \cup {Nil} : Answer(c, r, bytes, pg) /\ pg = Nil /\ r = 0
  BY <1>3, <1>4, Errors
<1>6. AnswerGood(pc[c].req, r, pg)
  BY <1>1, <1>5 DEF AnswerGood
<1>7. UNCHANGED <<image, table>> /\ UNCHANGED <<image, fd>>
  BY DEF ServeStat
<1>8. TableTypes' /\ \A x \in Entry : Held(x) => Good(x)' /\ o_fd'[x].id = o_fd[x].id
  BY <1>7, TableSame
<1> QED BY <1>1, <1>5, <1>6, <1>7, <1>8, AnswerStep

LEMMA ServeReadStep ==
  ASSUME ImageInv, ServerInv, NEW c \in Client, ServeRead(c)
  PROVE  ServerInv'
<1>1. /\ ~Formatting /\ srv = Recv /\ pc[c].at = "send" /\ pc[c].req.type = "read" /\ Requests(c, "read")
      /\ TableTypes /\ pc[c].req \in Request_
  BY RequestFacts DEF ServeRead
<1>2. PICK i \in Entry, j \in DOMAIN ents :
        /\ openfile_lookup(pc[c].req.fileid) = i /\ i # Nil /\ Held(i) /\ Good(i) /\ o_file[i] = ents[j]
        /\ o_fd[i].offset <= ents[j].size /\ o_fd[i].offset \in Nat
        /\ o_fd[i] \in [id : 0 .. IdMod - 1, offset : 0 .. MAXFILESIZE]
  BY <1>1, RequestFound
<1>a. PICK count \in Nat : count = Least(pc[c].req.n, BufSize)
  <2>1. pc[c].req.n \in Nat
    BY <1>1, RequestCases
  <2>2. Least(pc[c].req.n, BufSize) \in Nat
    BY <2>1, ServerSizes DEF Least
  <2> QED BY <2>2
<1>b. PICK offset \in Nat : offset = o_fd[i].offset
  BY <1>2
<1>c. PICK f : f = o_file[i]
  OBVIOUS
<1>3. f = o_file[i] /\ offset = o_fd[i].offset /\ count = Least(pc[c].req.n, BufSize)
  BY <1>a, <1>b, <1>c
<1>4. PICK bytes : bytes = file_read(f, count, offset)
  OBVIOUS
<1>5. PICK e \in Nat : e <= f.size /\ offset <= e /\ bytes \in Text /\ Len(bytes) = e - offset
  <2>1. f = ents[j] /\ offset <= ents[j].size
    BY <1>2, <1>3
  <2>2. PICK k \in Nat : ReadIs(j, offset, count, k)
    BY <2>1, ReadAnswer
  <2>3. offset + k <= f.size /\ bytes \in Text /\ Len(bytes) = (offset + k) - offset
    BY <1>4, <2>1, <2>2 DEF ReadIs
  <2> QED BY <2>3
<1>6. f.size < MAXFILESIZE /\ f.size \in Nat
  BY <1>2, <1>3, EntFacts
<1>7. /\ Answer(c, Len(bytes), bytes, Nil)
      /\ o_fd' = [o_fd EXCEPT ![i].offset = @ + Len(bytes)]
      /\ UNCHANGED <<image, o_fileid, o_file, fd>>
  BY <1>2, <1>3, <1>4 DEF ServeRead
<1>8. PICK r \in Int, pg \in Entry \cup {Nil} : Answer(c, r, bytes, pg) /\ pg = Nil /\ r = Len(bytes) /\ r >= 0
  BY <1>5, <1>7
<1>9. AnswerGood(pc[c].req, r, pg)
  BY <1>1, <1>8 DEF AnswerGood
<1>10. PICK v : v = [o_fd[i] EXCEPT !.offset = e]
  OBVIOUS
<1>11. /\ v \in [id : 0 .. IdMod - 1, offset : 0 .. MAXFILESIZE]
       /\ v.id = o_fd[i].id /\ v.offset = e /\ v # Nil
  <2>1. e \in 0 .. MAXFILESIZE
    BY <1>5, <1>6, MaxFileSize
  <2>2. v \in [id : 0 .. IdMod - 1, offset : 0 .. MAXFILESIZE] /\ v.id = o_fd[i].id /\ v.offset = e
    BY <1>2, <1>10, <2>1
  <2>3. v \in [id : Nat, offset : Nat]
    BY <2>2, MaxFileSize, ServerSizes
  <2> QED BY <2>2, <2>3, NilIsNone
<1>12. o_fd' = [o_fd EXCEPT ![i] = v]
  <2>1. offset + Len(bytes) = e
    BY <1>5
  <2>2. o_fd' = [o_fd EXCEPT ![i] = [o_fd[i] EXCEPT !.offset = offset + Len(bytes)]]
    BY <1>3, <1>7
  <2> QED BY <1>10, <2>1, <2>2
<1>13. o_fd'[i] = v /\ \A x \in Entry : x # i => o_fd'[x] = o_fd[x]
  BY <1>1, <1>12 DEF TableTypes
<1>14. TableTypes'
  BY <1>1, <1>7, <1>11, <1>12 DEF TableTypes
<1>15. ents' = ents /\ o_file' = o_file /\ o_fileid' = o_fileid
  BY <1>7 DEF image
<1>16. ASSUME NEW x \in Entry, Held(x) PROVE Good(x)' /\ o_fd'[x].id = o_fd[x].id
  <2>1. Good(x)
    BY <1>16, NilIsNone DEF ServerInv, HeldGood, Held
  <2>2. CASE x = i
    BY <1>2, <1>3, <1>5, <1>11, <1>13, <1>15, <2>1, <2>2 DEF Good
  <2>3. CASE x # i
    BY <1>13, <1>15, <2>1, <2>3 DEF Good
  <2> QED BY <2>2, <2>3
<1>17. UNCHANGED <<image, fd>>
  BY <1>7
<1> QED BY <1>1, <1>5, <1>8, <1>9, <1>14, <1>16, <1>17, AnswerStep

LEMMA ServeOpenStep ==
  ASSUME ImageInv, ServerInv, NEW c \in Client, ServeOpen(c)
  PROVE  ServerInv'
<1>1. /\ ~Formatting /\ srv = Recv /\ pc[c].at = "send" /\ pc[c].req.type = "open" /\ Requests(c, "open")
      /\ ServerTypes /\ TableTypes /\ HeldGood /\ pc[c].req \in Request_
  BY RequestFacts DEF ServeOpen
<1>2. PICK i \in Entry : i = Min(Available) /\ ~Held(i)
  BY <1>1, AvailableIs DEF ServeOpen
<1>3. PICK f : f = IF AsInt(NextId(i)) < 0 THEN NoFile ELSE dir_lookup(root, pc[c].req.name)
  OBVIOUS
<1>4. f = NoFile \/ (f # NoFile /\ f \in File /\ \E j \in DOMAIN ents : f = ents[j])
  <2>1. pc[c].req.name \in Name
    BY <1>1, RequestCases
  <2> QED BY <1>1, <1>3, <2>1, LookupCases
<1>5. PICK id : id = NextId(i)
  OBVIOUS
<1>6. id \in 0 .. IdMod - 1 /\ id % MAXOPEN = i
  <2>1. PICK o \in 0 .. IdMod - 1 : o = o_fileid[i] /\ o % MAXOPEN = i
    BY <1>1 DEF TableTypes
  <2> QED BY <1>5, <2>1, NextIdNames DEF NextId
<1>7. PICK v : v = [id |-> IF f = NoFile THEN 0 ELSE id, offset |-> 0]
  OBVIOUS
<1>8. /\ o_fileid' = [o_fileid EXCEPT ![i] = id]
      /\ o_fd' = [o_fd EXCEPT ![i] = v]
      /\ o_file' = IF f = NoFile THEN o_file ELSE [o_file EXCEPT ![i] = f]
      /\ IF f = NoFile
           THEN Answer(c, IF AsInt(id) < 0 THEN AsInt(id) ELSE -E_NOT_FOUND, <<>>, Nil)
           ELSE Answer(c, 0, <<>>, i)
      /\ UNCHANGED <<image, fd>>
  BY <1>2, <1>3, <1>5, <1>7 DEF ServeOpen
<1>9. v \in [id : 0 .. IdMod - 1, offset : 0 .. MAXFILESIZE] /\ v # Nil /\ v.offset = 0 /\ (f # NoFile => v.id = id)
  <2>1. v \in [id : 0 .. IdMod - 1, offset : 0 .. MAXFILESIZE] /\ v.offset = 0 /\ (f # NoFile => v.id = id)
    BY <1>6, <1>7, ServerSizes, MaxFileSize
  <2>2. v \in [id : Nat, offset : Nat]
    BY <2>1, MaxFileSize, ServerSizes
  <2> QED BY <2>1, <2>2, NilIsNone
<1>10. /\ o_fileid'[i] = id /\ o_fd'[i] = v /\ (f # NoFile => o_file'[i] = f)
       /\ \A x \in Entry : x # i => o_fileid'[x] = o_fileid[x] /\ o_fd'[x] = o_fd[x] /\ o_file'[x] = o_file[x]
  BY <1>1, <1>8 DEF TableTypes
<1>11. TableTypes'
  <2>1. o_fileid' \in [Entry -> 0 .. IdMod - 1] /\ \A x \in Entry : o_fileid'[x] % MAXOPEN = x
    BY <1>1, <1>6, <1>8 DEF TableTypes
  <2>2. o_fd' \in [Entry -> [id : 0 .. IdMod - 1, offset : 0 .. MAXFILESIZE] \cup {Nil}]
    BY <1>1, <1>8, <1>9 DEF TableTypes
  <2>3. o_file' \in [Entry -> File \cup {NoFile}]
    BY <1>1, <1>4, <1>8 DEF TableTypes
  <2> QED BY <2>1, <2>2, <2>3 DEF TableTypes
<1>12. ents' = ents /\ UNCHANGED <<image, fd>>
  BY <1>8 DEF image
<1>13. ASSUME NEW x \in Entry, Held(x) PROVE Good(x)' /\ o_fd'[x].id = o_fd[x].id
  <2>1. Good(x) /\ x # i
    BY <1>2, <1>13, NilIsNone DEF ServerInv, HeldGood, Held
  <2> QED BY <1>10, <1>12, <2>1 DEF Good
<1>14. CASE f = NoFile
  <2>1. PICK r \in Int, bytes \in Text, pg \in Entry \cup {Nil} : Answer(c, r, bytes, pg) /\ pg = Nil /\ r < 0
    <3>1. PICK e \in Int : e = (IF AsInt(id) < 0 THEN AsInt(id) ELSE -E_NOT_FOUND) /\ e < 0
      BY <1>6, ServerSizes, Errors DEF AsInt
    <3>2. Answer(c, e, <<>>, Nil)
      BY <1>8, <1>14, <3>1
    <3> QED BY <3>1, <3>2, EmptyText
  <2>2. AnswerGood(pc[c].req, r, pg)
    BY <1>1, <2>1 DEF AnswerGood
  <2> QED BY <1>1, <1>11, <1>12, <1>13, <2>1, <2>2, AnswerStep
<1>15. CASE f # NoFile
  <2>1. PICK r \in Int, bytes \in Text, pg \in Entry \cup {Nil} : Answer(c, r, bytes, pg) /\ pg = i
    BY <1>8, <1>15, EmptyText, Errors
  <2>2. AnswerGood(pc[c].req, r, pg)
    BY <1>1, <2>1, NilIsNone DEF AnswerGood
  <2>3. Good(i)'
    <3>1. f.size \in Nat
      BY <1>4, <1>15 DEF File
    <3> QED BY <1>4, <1>9, <1>10, <1>12, <1>15, <3>1 DEF Good
  <2>4. pg # Nil => ~Held(pg) /\ Good(pg)' /\ o_fd'[pg].offset = 0
    BY <1>2, <1>9, <1>10, <2>1, <2>3
  <2> QED BY <1>1, <1>11, <1>12, <1>13, <2>1, <2>2, <2>4, AnswerStep
<1> QED BY <1>14, <1>15

LEMMA RepliesFacts ==
  ASSUME ServerInv, Replies
  PROVE  /\ ServerTypes /\ HeldGood /\ ~Formatting /\ srv.whom \in Client /\ srv.pg \in Entry \cup {Nil}
         /\ pc[srv.whom].at = "wait" /\ RequestGood(srv.whom) /\ pc[srv.whom].req \in Request_
         /\ pc[srv.whom].req.fd \in Fd
         /\ AnswerGood(pc[srv.whom].req, srv.r, srv.pg)
         /\ srv.pg # Nil => ~Held(srv.pg) /\ Good(srv.pg) /\ o_fd[srv.pg].offset = 0
         /\ Woken \in Done_ /\ Woken.req = pc[srv.whom].req /\ Woken.r = srv.r /\ Woken.at = "done"
         /\ Woken.bytes = srv.bytes
<1>1. ServerTypes /\ HeldGood /\ RequestsGood /\ ReplyGood /\ (Formatting => Quiet) /\ pc \in [Client -> State_]
  BY DEF ServerInv, ServerTypes
<1>2. srv.at = "reply" /\ pc[srv.whom].at = "wait"
  BY DEF Replies
<1>3. /\ srv.whom \in Client /\ srv.r \in Int /\ srv.bytes \in Text /\ srv.pg \in Entry \cup {Nil}
  BY <1>1, <1>2, SrvCases
<1>4. ~Formatting
  BY <1>1, <1>2, SrvIs DEF Quiet
<1>5. pc[srv.whom].req \in Request_ /\ pc[srv.whom].req.fd \in Fd
  BY <1>1, <1>2, <1>3, StateCases, RequestCases
<1>6. RequestGood(srv.whom)
  BY <1>1, <1>2, <1>3 DEF RequestsGood
<1>7. /\ AnswerGood(pc[srv.whom].req, srv.r, srv.pg)
      /\ srv.pg # Nil => ~Held(srv.pg) /\ Good(srv.pg) /\ o_fd[srv.pg].offset = 0
  BY <1>1, <1>2, StateIs DEF ReplyGood
<1>8. /\ Woken \in Done_ /\ Woken.req = pc[srv.whom].req /\ Woken.r = srv.r /\ Woken.at = "done"
      /\ Woken.bytes = srv.bytes
  BY <1>3, <1>5 DEF Woken, Done_
<1> QED BY <1>1, <1>2, <1>3, <1>4, <1>5, <1>6, <1>7, <1>8

LEMMA WakeStep ==
  ASSUME ServerInv, Replies, pc' = [pc EXCEPT ![srv.whom] = Woken], UNCHANGED <<image, table>>,
         srv' \in {Recv, Panic},
         NEW row \in [Fd -> Entry \cup {Nil}], fd' = [fd EXCEPT ![srv.whom] = row],
         \A d \in Fd : row[d] # Nil => Good(row[d]),
         fd[srv.whom][pc[srv.whom].req.fd] # Nil => row[pc[srv.whom].req.fd] # Nil,
         pc[srv.whom].req.type = "open" /\ srv.r >= 0 => row[pc[srv.whom].req.fd] # Nil \/ srv'.at = "panic"
  PROVE  ServerInv'
<1>1. PICK w \in Client, p \in {Woken} : w = srv.whom /\ p = Woken
  BY RepliesFacts
<1>2. /\ ServerTypes /\ ~Formatting /\ RequestGood(w) /\ pc[w].at = "wait"
      /\ AnswerGood(pc[w].req, srv.r, srv.pg)
      /\ p \in Done_ /\ p.req = pc[w].req /\ p.r = srv.r /\ p.at = "done"
      /\ pc \in [Client -> State_] /\ fd \in [Client -> [Fd -> Entry \cup {Nil}]]
  <2>1. ServerTypes
    BY RepliesFacts
  <2> QED BY <1>1, <2>1, RepliesFacts DEF ServerTypes
<1>3. p \in State_
  BY <1>2, StateIs
<1>4. TableTypes' /\ (\A i : Good(i) => Good(i)') /\ \A i \in Entry : Held(i) => Good(i)' /\ o_fd'[i].id = o_fd[i].id
  BY TableSame
<1>5. /\ fd'[w] = row /\ \A c \in Client : c # w => fd'[c] = fd[c]
      /\ fd' \in [Client -> [Fd -> Entry \cup {Nil}]] /\ pc' \in [Client -> State_]
      /\ pc' = [pc EXCEPT ![w] = p]
  BY <1>1, <1>2, <1>3
<1>6. ServerTypes'
  BY <1>4, <1>5 DEF ServerTypes
<1>7. \A d \in Fd, i \in Entry : fd'[w][d] = i => Good(i)'
  BY <1>4, <1>5, NilIsNone
<1>8. p.req.type # "open" => fd'[w][p.req.fd] # Nil /\ p.r >= 0
  BY <1>1, <1>2, <1>5 DEF AnswerGood, RequestGood
<1>9. p.req.type = "open" /\ p.r >= 0 => fd'[w][p.req.fd] # Nil \/ srv'.at = "panic"
  BY <1>1, <1>2, <1>5
<1>10. ReplyGood'
  BY SrvIs DEF ReplyGood
<1>11. srv.at = "reply" /\ srv.whom = w /\ p \notin {Unborn, Gone}
  BY <1>1, <1>2, StateIs DEF Replies
<1>12. UNCHANGED image
  OBVIOUS
<1> QED BY <1>2, <1>3, <1>4, <1>5, <1>6, <1>7, <1>8, <1>9, <1>10, <1>11, <1>12, Frame

LEMMA ReplyStep ==
  ASSUME ServerInv, Reply
  PROVE  ServerInv'
<1>1. /\ Replies /\ pc' = [pc EXCEPT ![srv.whom] = Woken] /\ UNCHANGED <<image, table>> /\ srv' = Recv
      /\ fd' = IF srv.pg # Nil THEN [fd EXCEPT ![srv.whom][pc[srv.whom].req.fd] = srv.pg] ELSE fd
  BY DEF Reply, Goto
<1>2. PICK w \in Client, d \in Fd : w = srv.whom /\ d = pc[srv.whom].req.fd
  BY <1>1, RepliesFacts
<1>3. /\ ServerTypes /\ HeldGood /\ srv.pg \in Entry \cup {Nil}
      /\ AnswerGood(pc[w].req, srv.r, srv.pg) /\ (srv.pg # Nil => Good(srv.pg))
  BY <1>1, <1>2, RepliesFacts
<1>4. fd \in [Client -> [Fd -> Entry \cup {Nil}]]
  BY <1>3 DEF ServerTypes
<1>5. PICK row : row = IF srv.pg # Nil THEN [fd[w] EXCEPT ![d] = srv.pg] ELSE fd[w]
  OBVIOUS
<1>6. /\ row \in [Fd -> Entry \cup {Nil}] /\ fd' = [fd EXCEPT ![w] = row]
      /\ srv.pg # Nil => row[d] = srv.pg
      /\ srv.pg = Nil => row = fd[w]
      /\ \A x \in Fd : row[x] = fd[w][x] \/ (row[x] = srv.pg /\ srv.pg # Nil)
  BY <1>1, <1>2, <1>3, <1>4, <1>5
<1>7. \A x \in Fd : row[x] # Nil => Good(row[x])
  BY <1>3, <1>6 DEF HeldGood
<1>8. fd[w][d] # Nil => row[d] # Nil
  BY <1>6
<1>9. pc[w].req.type = "open" /\ srv.r >= 0 => row[d] # Nil
  BY <1>3, <1>6 DEF AnswerGood
<1> QED BY <1>1, <1>2, <1>6, <1>7, <1>8, <1>9, WakeStep

LEMMA ReplyNoMemStep ==
  ASSUME ServerInv, ReplyNoMem
  PROVE  ServerInv'
<1>1. /\ Replies /\ pc' = [pc EXCEPT ![srv.whom] = Woken] /\ UNCHANGED <<image, table>> /\ srv' = Panic
      /\ fd' = fd
  BY DEF ReplyNoMem, Goto, Panic
<1>2. ServerTypes /\ HeldGood /\ srv.whom \in Client
  BY <1>1, RepliesFacts
<1>3. PICK row \in [Fd -> Entry \cup {Nil}] : row = fd[srv.whom] /\ fd' = [fd EXCEPT ![srv.whom] = row]
  BY <1>1, <1>2 DEF ServerTypes
<1>4. \A x \in Fd : row[x] # Nil => Good(row[x])
  BY <1>2, <1>3 DEF HeldGood
<1>5. srv'.at = "panic"
  BY <1>1, SrvIs
<1> QED BY <1>1, <1>3, <1>4, <1>5, WakeStep

LEMMA ReplyToDeadStep ==
  ASSUME ServerInv, ReplyToDead
  PROVE  ServerInv'
<1>1. ServerTypes /\ HeldGood /\ DeadHoldNothing /\ (Formatting => Quiet)
  BY DEF ServerInv
<1>2. /\ srv.at = "reply" /\ srv' = Panic /\ pc' = pc /\ fd' = fd /\ UNCHANGED <<image, table>>
      /\ pc[srv.whom] = Gone
  BY DEF ReplyToDead, Panic
<1>3. PICK w \in Client : w = srv.whom
  BY <1>1, <1>2, SrvCases
<1>4. ~Formatting
  BY <1>1, <1>2, SrvIs DEF Quiet
<1>5. PICK p \in State_ : p = Gone /\ p.at = "gone"
  BY StateIs
<1>6. /\ pc \in [Client -> State_] /\ fd \in [Client -> [Fd -> Entry \cup {Nil}]]
      /\ pc' = [pc EXCEPT ![w] = p]
  BY <1>1, <1>2, <1>3, <1>5 DEF ServerTypes
<1>7. TableTypes' /\ (\A i : Good(i) => Good(i)') /\ \A i \in Entry : Held(i) => Good(i)' /\ o_fd'[i].id = o_fd[i].id
  BY <1>2, TableSame
<1>8. ServerTypes'
  BY <1>2, <1>6, <1>7 DEF ServerTypes
<1>9. \A d \in Fd : fd'[w][d] = Nil
  BY <1>1, <1>2, <1>3 DEF DeadHoldNothing
<1>10. \A d \in Fd, i \in Entry : fd'[w][d] = i => Good(i)'
  BY <1>9, NilIsNone
<1>11. ReplyGood'
  BY <1>2, SrvIs DEF ReplyGood
<1>12. UNCHANGED image
  BY <1>2
<1> QED BY <1>2, <1>3, <1>4, <1>5, <1>6, <1>7, <1>8, <1>9, <1>10, <1>11, <1>12, Frame

-----------------------------------------------------------------------------
(* The invariant.                                                          *)

LEMMA QuietIsFine ==
  ASSUME ServerTypes, Quiet
  PROVE  ServerInv
<1>1. srv = Recv /\ srv.at = "recv" /\ \A c \in Client, d \in Fd : fd[c][d] = Nil
  BY SrvIs DEF Quiet
<1>2. \A c \in Client : pc[c].at \in {"idle", "unborn"}
  BY StateIs DEF Quiet
<1>3. DeadHoldNothing /\ HeldGood
  BY <1>1 DEF DeadHoldNothing, HeldGood
<1>4. RequestsGood /\ DoneHeld /\ Served /\ NeverStale /\ OpenMeansMapped
  BY <1>2 DEF RequestsGood, DoneHeld, Served, NeverStale, OpenMeansMapped
<1>5. ReplyGood
  BY <1>1 DEF ReplyGood
<1> QED BY <1>3, <1>4, <1>5 DEF ServerInv

LEMMA QuietAlways == ServerTypes /\ Quiet => ServerInv
BY QuietIsFine

LEMMA InitInv == ASSUME Init PROVE FsInv
<1>1. ImageInv
  BY ImageInit_Inv DEF Init
<1>2. ServerTypes
  <2>1. o_fileid \in [Entry -> 0 .. IdMod - 1] /\ \A i \in Entry : o_fileid[i] % MAXOPEN = i
    <3>1. \A i \in Entry : i \in 0 .. IdMod - 1 /\ i % MAXOPEN = i
      BY ServerSizes DEF Entry
    <3> QED BY <3>1 DEF Init
  <2>2. /\ o_fd \in [Entry -> [id : 0 .. IdMod - 1, offset : 0 .. MAXFILESIZE] \cup {Nil}]
        /\ o_file \in [Entry -> File \cup {NoFile}]
        /\ fd \in [Client -> [Fd -> Entry \cup {Nil}]]
    BY DEF Init
  <2>3. srv \in {Recv, Panic} \cup Reply_
    BY DEF Init
  <2>4. pc \in [Client -> State_]
    BY StateIs DEF Init
  <2> QED BY <2>1, <2>2, <2>3, <2>4 DEF ServerTypes, TableTypes
<1>3. Quiet
  BY DEF Init, Quiet
<1> QED BY <1>1, <1>2, <1>3, QuietIsFine DEF FsInv

LEMMA FormatStep ==
  ASSUME FsInv, Format
  PROVE  ImageInv' /\ ServerTypes' /\ Quiet'
<1>1. ImageInv /\ ServerInv /\ ServerTypes
  BY DEF FsInv, ServerInv
<1>2. Formatting /\ o_fileid' = o_fileid /\ o_file' = o_file /\ o_fd' = o_fd /\ fd' = fd /\ srv' = srv /\ pc' = pc
  BY DEF Format, writefile, finishdir, table
<1>3. ImageInv'
  BY <1>1, WriteStep, FinishStep DEF Format
<1>4. Quiet
  BY <1>1, <1>2 DEF ServerInv
<1> QED BY <1>1, <1>2, <1>3, <1>4 DEF ServerTypes, TableTypes, Quiet

LEMMA StutterStep ==
  ASSUME FsInv, UNCHANGED vars
  PROVE  FsInv'
<1>1. UNCHANGED image /\ o_fileid' = o_fileid /\ o_file' = o_file /\ o_fd' = o_fd /\ fd' = fd /\ srv' = srv /\ pc' = pc
  BY DEF vars, table
<1>2. ImageInv'
  BY <1>1, ImageKept DEF FsInv
<1>3. /\ ServerTypes' = ServerTypes /\ Quiet' = Quiet /\ DeadHoldNothing' = DeadHoldNothing
      /\ DoneHeld' = DoneHeld /\ Served' = Served /\ NeverStale' = NeverStale /\ OpenMeansMapped' = OpenMeansMapped
  BY <1>1 DEF ServerTypes, TableTypes, Quiet, DeadHoldNothing, DoneHeld, Served, NeverStale, OpenMeansMapped
<1>4. HeldGood => HeldGood'
  BY <1>1 DEF HeldGood, Good, image
<1>5. RequestsGood => RequestsGood'
  BY <1>1 DEF RequestsGood, RequestGood
<1>6. ReplyGood => ReplyGood'
  BY <1>1 DEF ReplyGood, AnswerGood, Held, Good, image
<1>7. (Formatting)' = Formatting
  BY <1>1, FormattingKept
<1> QED BY <1>2, <1>3, <1>4, <1>5, <1>6, <1>7 DEF FsInv, ServerInv

(* One step per action.                                                    *)
LEMMA NextInv ==
  ASSUME FsInv, [Next]_vars
  PROVE  FsInv'
<1>1. ImageInv /\ ServerInv
  BY DEF FsInv
<1>2. CASE Format
  <2>1. ImageInv' /\ ServerTypes' /\ Quiet'
    BY <1>2, FormatStep
  <2>2. (ServerTypes /\ Quiet => ServerInv)'
    BY QuietAlways, PTL
  <2> QED BY <2>1, <2>2 DEF FsInv
<1>3. CASE Server
  <2>1. UNCHANGED image
    BY <1>3 DEF Server, ServeOpen, ServeOpenFails, ServeRead, ServeStat, ServeFlush, Reply, ReplyNoMem, ReplyToDead
  <2>2. ASSUME NEW c \in Client, ServeOpen(c) PROVE ServerInv'
    BY <1>1, <2>2, ServeOpenStep
  <2>3. ASSUME NEW c \in Client, ServeOpenFails(c) PROVE ServerInv'
    BY <1>1, <2>3, ServeOpenFailsStep
  <2>4. ASSUME NEW c \in Client, ServeRead(c) PROVE ServerInv'
    BY <1>1, <2>4, ServeReadStep
  <2>5. ASSUME NEW c \in Client, ServeStat(c) PROVE ServerInv'
    BY <1>1, <2>5, ServeStatStep
  <2>6. ASSUME NEW c \in Client, ServeFlush(c) PROVE ServerInv'
    BY <1>1, <2>6, ServeFlushStep
  <2>7. ASSUME Reply PROVE ServerInv'
    BY <1>1, <2>7, ReplyStep
  <2>8. ASSUME ReplyNoMem PROVE ServerInv'
    BY <1>1, <2>8, ReplyNoMemStep
  <2>9. ASSUME ReplyToDead PROVE ServerInv'
    BY <1>1, <2>9, ReplyToDeadStep
  <2>10. ServerInv'
    BY <1>3, <2>2, <2>3, <2>4, <2>5, <2>6, <2>7, <2>8, <2>9 DEF Server
  <2>11. ImageInv'
    BY <1>1, <2>1, ImageKept
  <2> QED BY <2>10, <2>11 DEF FsInv
<1>4. ASSUME NEW c \in Client, NEW n \in Name, Open(c, n) PROVE FsInv'
  <2>1. ServerInv'
    BY <1>1, <1>4, OpenStep
  <2>2. ImageInv'
    BY <1>1, <1>4, ImageKept DEF Open, Call
  <2> QED BY <2>1, <2>2 DEF FsInv
<1>5. ASSUME NEW c \in Client, NEW d \in Fd, NEW n \in Counts, FileCall(c, d, "read", n) PROVE FsInv'
  <2>1. ServerInv'
    <3>1. PICK type \in {"read", "stat", "flush"} : type = "read"
      OBVIOUS
    <3>2. FileCall(c, d, type, n) /\ n \in Counts \cup {0}
      BY <1>5, <3>1
    <3> QED BY <1>1, <1>5, <3>1, <3>2, FileCallStep
  <2>2. ImageInv'
    BY <1>1, <1>5, ImageKept DEF FileCall, Call
  <2> QED BY <2>1, <2>2 DEF FsInv
<1>6. ASSUME NEW c \in Client, NEW d \in Fd, NEW type \in {"stat", "flush"}, FileCall(c, d, type, 0) PROVE FsInv'
  <2>1. ServerInv'
    <3>1. PICK n \in Counts \cup {0} : n = 0
      OBVIOUS
    <3>2. FileCall(c, d, type, n) /\ type \in {"read", "stat", "flush"} /\ type # "read"
      BY <1>6, <3>1
    <3> QED BY <1>1, <3>1, <3>2, FileCallStep
  <2>2. ImageInv'
    BY <1>1, <1>6, ImageKept DEF FileCall, Call
  <2> QED BY <2>1, <2>2 DEF FsInv
<1>7. ASSUME NEW c \in Client, Wait(c) PROVE FsInv'
  BY <1>1, <1>7, WaitStep, ImageKept DEF FsInv, Wait
<1>8. ASSUME NEW c \in Client, Return(c) PROVE FsInv'
  BY <1>1, <1>8, ReturnStep, ImageKept DEF FsInv, Return
<1>9. ASSUME NEW c \in Client, NEW child \in Client, Fork(c, child) PROVE FsInv'
  BY <1>1, <1>9, ForkStep, ImageKept DEF FsInv, Fork
<1>10. ASSUME NEW c \in Client, Die(c) PROVE FsInv'
  BY <1>1, <1>10, DieStep, ImageKept DEF FsInv, Die
<1>11. CASE UNCHANGED vars
  BY <1>11, StutterStep
<1> QED BY <1>2, <1>3, <1>4, <1>5, <1>6, <1>7, <1>8, <1>9, <1>10, <1>11 DEF Next

(* fsformat, the server and its clients keep the invariant of image, open  *)
(* file table, descriptors and requests: fsformat's alloc never runs into  *)
(* what it has written, and openfile_alloc never takes an entry that some  *)
(* client still refers to.                                                 *)
THEOREM FileServerInvariant == Spec => []FsInv
<1>1. Init => FsInv
  BY InitInv
<1>2. FsInv /\ [Next]_vars => FsInv'
  BY NextInv
<1> QED BY <1>1, <1>2, PTL DEF Spec

(* The image that fsformat.c lays out is the one that fs.c reads, for      *)
(* files and directories of any size and any block size: every block has   *)
(* one owner and is not marked free, dir_lookup finds every file, and      *)
(* file_read returns its bytes from every offset and for every length.     *)
THEOREM ImageIsFaithful == Spec => []ImageFaithful
<1>1. FsInv => ImageFaithful
  BY FaithfulFromInv DEF FsInv
<1> QED BY <1>1, FileServerInvariant, PTL

LEMMA DescriptorsFromInv == ASSUME ServerInv PROVE DescriptorsGood
<1>1. ServerTypes /\ NeverStale /\ OpenMeansMapped
  BY DEF ServerInv
<1>2. srv.at \in {"recv", "reply", "panic"}
  BY <1>1, SrvCases
<1>3. \A c \in Client : "req" \in DOMAIN pc[c] => pc[c].req \in Request_
  BY <1>1, StateCases DEF ServerTypes
<1> QED BY <1>1, <1>2, <1>3 DEF DescriptorsGood, TypeOK, ServerTypes, TableTypes

(* For tables, ids and descriptors of any number, with ids that wrap       *)
(* around: a file id names its entry, serve_read, serve_stat and           *)
(* serve_flush never refuse a descriptor that its client holds, and an     *)
(* open that succeeds has its struct Fd mapped.                            *)
THEOREM DescriptorsAreGood == Spec => []DescriptorsGood
<1>1. FsInv => DescriptorsGood
  BY DescriptorsFromInv DEF FsInv
<1> QED BY <1>1, FileServerInvariant, PTL

-----------------------------------------------------------------------------
(* The refinement, point by point.                                         *)

TreeOf(n) ==
  IF \E i \in DOMAIN ents : ents[i].name = n
    THEN ents[CHOOSE i \in DOMAIN ents : ents[i].name = n].size ELSE Nil
FdOf(c, d) == IF Over THEN Nil ELSE fd[c][d]
FileOf(i) == IF Shown(i) THEN o_file[i].name ELSE Nil
PosOf(i) == IF Shown(i) THEN o_fd[i].offset ELSE 0
ResultOf(c) == IF Over THEN Nil ELSE Pending(c)

TreeF == [n \in Name |-> TreeOf(n)]
FdF == [c \in Client |-> [d \in Fd |-> FdOf(c, d)]]
FileF == [i \in Entry |-> FileOf(i)]
PosF == [i \in Entry |-> PosOf(i)]
ResultF == [c \in Client |-> ResultOf(c)]

AbstractStep == [F!Next]_(F!vars)

SameTree == \A n \in Name : TreeOf(n)' = TreeOf(n)
SameFds == \A c \in Client, d \in Fd : FdOf(c, d)' = FdOf(c, d)
SameFiles == \A i \in Entry : FileOf(i)' = FileOf(i)
SamePos == \A i \in Entry : PosOf(i)' = PosOf(i)
SameResults == \A c \in Client : ResultOf(c)' = ResultOf(c)

LEMMA SameFacts ==
  /\ SameTree => TreeF' = TreeF
  /\ SameFds => FdF' = FdF
  /\ SameFiles => FileF' = FileF
  /\ SamePos => PosF' = PosF
  /\ SameResults => ResultF' = ResultF
<1>1. SameTree => TreeF' = TreeF
  BY DEF SameTree, TreeF
<1>2. SameFds => FdF' = FdF
  BY DEF SameFds, FdF
<1>3. SameFiles => FileF' = FileF
  BY DEF SameFiles, FileF
<1>4. SamePos => PosF' = PosF
  BY DEF SamePos, PosF
<1>5. SameResults => ResultF' = ResultF
  BY DEF SameResults, ResultF
<1> QED BY <1>1, <1>2, <1>3, <1>4, <1>5

LEMMA Points ==
  /\ \A n \in Name : TreeF[n] = TreeOf(n)
  /\ \A c \in Client : \A d \in Fd : FdF[c][d] = FdOf(c, d)
  /\ \A i \in Entry : FileF[i] = FileOf(i)
  /\ \A i \in Entry : PosF[i] = PosOf(i)
  /\ \A c \in Client : ResultF[c] = ResultOf(c)
BY DEF TreeF, FdF, FileF, PosF, ResultF

LEMMA NextFromWorking ==
  ASSUME ~Over, ~Over', F!Working
  PROVE  AbstractStep
<1>1. Over' = Over
  BY DEF Over
<1>2. F!Next
  BY <1>1 DEF F!Next
<1> QED BY <1>2 DEF AbstractStep

LEMMA AbstractStutter ==
  ASSUME Over' = Over, SameTree, SameFds, SameFiles, SamePos, SameResults
  PROVE  AbstractStep
<1>1. TreeF' = TreeF /\ FdF' = FdF /\ FileF' = FileF /\ PosF' = PosF /\ ResultF' = ResultF
  BY SameFacts
<1>2. UNCHANGED F!vars
  BY <1>1 DEF F!vars, TreeF, FdF, FileF, PosF, ResultF, TreeOf, FdOf, FileOf, PosOf, ResultOf
<1> QED BY <1>2 DEF AbstractStep

LEMMA AbstractCreate ==
  ASSUME ~Over, ~Over', SameFds, SameFiles, SamePos, SameResults,
         NEW n \in Name, NEW k \in 0 .. MAXFILESIZE, TreeOf(n) = Nil,
         \A m \in Name : TreeOf(m)' = IF m = n THEN k ELSE TreeOf(m)
  PROVE  AbstractStep
<1>1. FdF' = FdF /\ FileF' = FileF /\ PosF' = PosF /\ ResultF' = ResultF
  BY SameFacts
<1>2. TreeF[n] = Nil /\ TreeF' = [TreeF EXCEPT ![n] = k]
  BY DEF TreeF
<1>3. F!Create(n, k)
  BY <1>1, <1>2 DEF F!Create, TreeF, FdF, FileF, PosF, ResultF, TreeOf, FdOf, FileOf, PosOf, ResultOf
<1>4. F!Working
  BY <1>3 DEF F!Working
<1> QED BY <1>4, NextFromWorking

LEMMA AbstractOpen ==
  ASSUME ~Over, ~Over', SameTree, SamePos, SameResults,
         NEW c \in Client, NEW d \in Fd, NEW h \in Entry, NEW n \in Name,
         FdOf(c, d) = Nil, FileOf(h) = Nil, TreeOf(n) # Nil,
         \A x \in Client, y \in Fd : FdOf(x, y)' = IF x = c /\ y = d THEN h ELSE FdOf(x, y),
         \A i \in Entry : FileOf(i)' = IF i = h THEN n ELSE FileOf(i)
  PROVE  AbstractStep
<1>1. TreeF' = TreeF /\ PosF' = PosF /\ ResultF' = ResultF
  BY SameFacts
<1>2. FdF[c][d] = Nil /\ FileF[h] = Nil /\ TreeF[n] # Nil
  BY Points
<1>3. FdF' = [FdF EXCEPT ![c][d] = h]
  BY DEF FdF
<1>4. FileF' = [FileF EXCEPT ![h] = n]
  BY DEF FileF
<1>5. F!Open(c, d, h, n)
  BY <1>1, <1>2, <1>3, <1>4 DEF F!Open, TreeF, FdF, FileF, PosF, ResultF, TreeOf, FdOf, FileOf, PosOf, ResultOf
<1>6. F!Working
  BY <1>5 DEF F!Working
<1> QED BY <1>6, NextFromWorking

ReadPoints(c, d, h, n, k, text) ==
  /\ FdOf(c, d) = h /\ h # Nil /\ ResultOf(c) = Nil /\ FileOf(h) = n
  /\ PosOf(h) + k <= TreeOf(n) /\ (k = 0 => PosOf(h) = TreeOf(n))
  /\ \A i \in Entry : PosOf(i)' = IF i = h THEN PosOf(h) + k ELSE PosOf(i)
  /\ text = [i \in 1 .. k |-> <<n, PosOf(h) + i - 1>>]
  /\ \A x \in Client : ResultOf(x)' = IF x = c THEN text ELSE ResultOf(x)

LEMMA AbstractRead ==
  ASSUME ~Over, ~Over', SameTree, SameFds, SameFiles,
         NEW c \in Client, NEW d \in Fd, NEW h \in Entry, NEW n \in Name, NEW k \in 0 .. MAXFILESIZE,
         NEW text, ReadPoints(c, d, h, n, k, text)
  PROVE  AbstractStep
<1>a. /\ FdOf(c, d) = h /\ h # Nil /\ ResultOf(c) = Nil /\ FileOf(h) = n
      /\ PosOf(h) + k <= TreeOf(n) /\ (k = 0 => PosOf(h) = TreeOf(n))
  BY DEF ReadPoints
<1>b. \A i \in Entry : PosOf(i)' = IF i = h THEN PosOf(h) + k ELSE PosOf(i)
  BY DEF ReadPoints
<1>c. /\ text = [i \in 1 .. k |-> <<n, PosOf(h) + i - 1>>]
      /\ \A x \in Client : ResultOf(x)' = IF x = c THEN text ELSE ResultOf(x)
  BY DEF ReadPoints
<1>1. TreeF' = TreeF /\ FdF' = FdF /\ FileF' = FileF
  BY SameFacts
<1>2. FdF[c][d] = h /\ ResultF[c] = Nil /\ FileF[h] = n /\ PosF[h] = PosOf(h) /\ TreeF[n] = TreeOf(n)
  BY <1>a, Points
<1>3. PosF' = [PosF EXCEPT ![h] = @ + k]
  BY <1>b DEF PosF
<1>4. ResultF' = [ResultF EXCEPT ![c] = [i \in 1 .. k |-> <<n, PosOf(h) + i - 1>>]]
  BY <1>c DEF ResultF
<1>5. LET g == FdF[c][d]
          length == TreeF[FileF[g]] IN
      /\ g # Nil /\ ResultF[c] = Nil
      /\ PosF[g] + k <= length
      /\ k = 0 => PosF[g] = length
      /\ PosF' = [PosF EXCEPT ![g] = @ + k]
      /\ ResultF' = [ResultF EXCEPT ![c] = [i \in 1 .. k |-> <<FileF[g], PosF[g] + i - 1>>]]
      /\ UNCHANGED <<TreeF, FdF, FileF>>
  BY <1>1, <1>2, <1>3, <1>4, <1>a
<1>6. F!Read(c, d, k)
  BY <1>5 DEF F!Read, TreeF, FdF, FileF, PosF, ResultF, TreeOf, FdOf, FileOf, PosOf, ResultOf
<1>7. F!Working
  BY <1>6 DEF F!Working
<1> QED BY <1>7, NextFromWorking

LEMMA AbstractReturn ==
  ASSUME ~Over, ~Over', SameTree, SameFds, SameFiles, SamePos,
         NEW c \in Client, ResultOf(c) # Nil,
         \A x \in Client : ResultOf(x)' = IF x = c THEN Nil ELSE ResultOf(x)
  PROVE  AbstractStep
<1>1. TreeF' = TreeF /\ FdF' = FdF /\ FileF' = FileF /\ PosF' = PosF
  BY SameFacts
<1>2. ResultF[c] # Nil
  BY Points
<1>3. ResultF' = [ResultF EXCEPT ![c] = Nil]
  BY DEF ResultF
<1>4. F!Return(c)
  BY <1>1, <1>2, <1>3 DEF F!Return, TreeF, FdF, FileF, PosF, ResultF, TreeOf, FdOf, FileOf, PosOf, ResultOf
<1>5. F!Working
  BY <1>4 DEF F!Working
<1> QED BY <1>5, NextFromWorking

(* What no descriptor refers to is forgotten.                              *)
Forgotten ==
  \A i \in Entry :
    /\ FileOf(i)' = IF \E c \in Client, d \in Fd : FdOf(c, d)' = i THEN FileOf(i) ELSE Nil
    /\ PosOf(i)' = IF \E c \in Client, d \in Fd : FdOf(c, d)' = i THEN PosOf(i) ELSE 0

LEMMA ForgottenFacts ==
  ASSUME Forgotten, NEW table_, table_ = FdF'
  PROVE  F!Forget(table_)
<1>1. \A i \in Entry : F!Held(i, table_) <=> \E c \in Client, d \in Fd : FdOf(c, d)' = i
  BY DEF F!Held, FdF
<1>2. FileF' = [i \in Entry |-> IF F!Held(i, table_) THEN FileF[i] ELSE Nil]
  BY <1>1 DEF Forgotten, FileF
<1>3. PosF' = [i \in Entry |-> IF F!Held(i, table_) THEN PosF[i] ELSE 0]
  BY <1>1 DEF Forgotten, PosF
<1> QED BY <1>2, <1>3 DEF F!Forget, TreeF, FdF, FileF, PosF, ResultF, TreeOf, FdOf, FileOf, PosOf, ResultOf

LEMMA AbstractClose ==
  ASSUME ~Over, ~Over', SameTree, SameResults, Forgotten,
         NEW c \in Client, NEW d \in Fd, FdOf(c, d) # Nil,
         \A x \in Client, y \in Fd : FdOf(x, y)' = IF x = c /\ y = d THEN Nil ELSE FdOf(x, y)
  PROVE  AbstractStep
<1>1. TreeF' = TreeF /\ ResultF' = ResultF
  BY SameFacts
<1>2. FdF[c][d] # Nil
  BY Points
<1>3. PICK table_ : table_ = FdF'
  OBVIOUS
<1>4. table_ = [FdF EXCEPT ![c][d] = Nil]
  BY <1>3 DEF FdF
<1>5. F!Forget(table_)
  BY <1>3, ForgottenFacts
<1>6. F!Forget([FdF EXCEPT ![c][d] = Nil])
  BY <1>4, <1>5 DEF F!Forget, F!Held
<1>7. F!Close(c, d)
  BY <1>1, <1>2, <1>6 DEF F!Close, TreeF, FdF, FileF, PosF, ResultF, TreeOf, FdOf, FileOf, PosOf, ResultOf
<1>8. F!Working
  BY <1>7 DEF F!Working
<1> QED BY <1>8, NextFromWorking

LEMMA AbstractFork ==
  ASSUME ~Over, ~Over', SameTree, SameFiles, SamePos, SameResults,
         NEW c \in Client, NEW child \in Client, \A d \in Fd : FdOf(child, d) = Nil,
         \A x \in Client, y \in Fd : FdOf(x, y)' = IF x = child THEN FdOf(c, y) ELSE FdOf(x, y)
  PROVE  AbstractStep
<1>1. TreeF' = TreeF /\ FileF' = FileF /\ PosF' = PosF /\ ResultF' = ResultF
  BY SameFacts
<1>2. \A d \in Fd : FdF[child][d] = Nil
  BY Points
<1>3. FdF' = [FdF EXCEPT ![child] = FdF[c]]
  BY DEF FdF
<1>4. F!Fork(c, child)
  BY <1>1, <1>2, <1>3 DEF F!Fork, TreeF, FdF, FileF, PosF, ResultF, TreeOf, FdOf, FileOf, PosOf, ResultOf
<1>5. F!Working
  BY <1>4 DEF F!Working
<1> QED BY <1>5, NextFromWorking

LEMMA AbstractEnd ==
  ASSUME ~Over, ~Over', SameTree, Forgotten, NEW c \in Client,
         \A x \in Client, y \in Fd : FdOf(x, y)' = IF x = c THEN Nil ELSE FdOf(x, y),
         \A x \in Client : ResultOf(x)' = IF x = c THEN Nil ELSE ResultOf(x)
  PROVE  AbstractStep
<1>1. TreeF' = TreeF
  BY SameFacts
<1>2. PICK table_ : table_ = FdF'
  OBVIOUS
<1>3. table_ = [FdF EXCEPT ![c] = [d \in Fd |-> Nil]]
  BY <1>2 DEF FdF
<1>4. F!Forget(table_)
  BY <1>2, ForgottenFacts
<1>5. F!Forget([FdF EXCEPT ![c] = [d \in Fd |-> Nil]])
  BY <1>3, <1>4 DEF F!Forget, F!Held
<1>6. ResultF' = [ResultF EXCEPT ![c] = Nil]
  BY DEF ResultF
<1>7. F!End(c)
  BY <1>1, <1>5, <1>6 DEF F!End, TreeF, FdF, FileF, PosF, ResultF, TreeOf, FdOf, FileOf, PosOf, ResultOf
<1>8. F!Working
  BY <1>7 DEF F!Working
<1> QED BY <1>8, NextFromWorking

LEMMA AbstractStop ==
  ASSUME ~Over, Over', SameTree
  PROVE  AbstractStep
<1>1. TreeF' = TreeF
  BY SameFacts
<1>2. F!NoFiles'
  BY DEF F!NoFiles, Shown
<1>3. F!Stop
  BY <1>1, <1>2 DEF F!Stop, TreeF, TreeOf, Over
<1>4. F!Next
  BY <1>3 DEF F!Next
<1> QED BY <1>4 DEF AbstractStep

-----------------------------------------------------------------------------
(* What the steps of clients and server look like from outside.            *)

PendingOf(s, p, c) ==
  IF s.at = "reply" /\ s.whom = c /\ p.at \in {"sent", "wait"} /\ p.req.type = "read" /\ s.r >= 0
    THEN s.bytes
  ELSE IF p.at = "done" /\ p.req.type = "read" /\ p.r >= 0 THEN p.bytes
  ELSE Nil

LEMMA PendingIs ==
  ASSUME NEW c
  PROVE  Pending(c) = PendingOf(srv, pc[c], c) /\ Pending(c)' = PendingOf(srv', pc'[c], c)
BY DEF Pending, PendingOf

LEMMA NothingPending ==
  ASSUME NEW s, NEW p, NEW c, p.at \notin {"sent", "wait", "done"} \/ p.req.type # "read"
  PROVE  PendingOf(s, p, c) = Nil
BY DEF PendingOf

LEMMA PendingKept ==
  ASSUME NEW s, NEW t, NEW p, NEW c,
         s = t \/ (~(s.at = "reply" /\ s.whom = c) /\ ~(t.at = "reply" /\ t.whom = c))
  PROVE  PendingOf(t, p, c) = PendingOf(s, p, c)
BY DEF PendingOf

LEMMA TreeKept == ASSUME ents' = ents PROVE SameTree
BY DEF SameTree, TreeOf

LEMMA HeldKept == ASSUME fd' = fd PROVE \A i \in Entry : Held(i)' = Held(i)
BY DEF Held

LEMMA FilesKept ==
  ASSUME ~Over, ~Over', \A i \in Entry : Held(i)' = Held(i),
         \A i \in Entry : Held(i) => o_file'[i] = o_file[i]
  PROVE  SameFiles
BY DEF SameFiles, FileOf, Shown

LEMMA PosKept ==
  ASSUME ~Over, ~Over', \A i \in Entry : Held(i)' = Held(i),
         \A i \in Entry : Held(i) => o_fd'[i].offset = o_fd[i].offset
  PROVE  SamePos
BY DEF SamePos, PosOf, Shown

LEMMA ResultsOfOthers ==
  ASSUME ServerTypes, ~Over, ~Over', NEW w \in Client, NEW p, pc' = [pc EXCEPT ![w] = p],
         srv' = srv \/ srv = Recv \/ (srv.at = "reply" /\ srv.whom = w),
         srv' = srv \/ srv' = Recv \/ (srv'.at = "reply" /\ srv'.whom = w)
  PROVE  /\ \A x \in Client : x # w => ResultOf(x)' = ResultOf(x)
         /\ ResultOf(w) = PendingOf(srv, pc[w], w) /\ ResultOf(w)' = PendingOf(srv', p, w)
<1>1. pc'[w] = p /\ \A x \in Client : x # w => pc'[x] = pc[x]
  BY DEF ServerTypes
<1>2. ASSUME NEW x \in Client
      PROVE  ResultOf(x) = PendingOf(srv, pc[x], x) /\ ResultOf(x)' = PendingOf(srv', pc'[x], x)
  BY PendingIs DEF ResultOf
<1>3. ASSUME NEW x \in Client, x # w PROVE ResultOf(x)' = ResultOf(x)
  <2>1. PICK s, t, q : s = srv /\ t = srv' /\ q = pc[x] /\ q = pc'[x]
    BY <1>1, <1>3
  <2>2. s = t \/ (~(s.at = "reply" /\ s.whom = x) /\ ~(t.at = "reply" /\ t.whom = x))
    BY <1>3, <2>1, SrvIs
  <2>3. PendingOf(t, q, x) = PendingOf(s, q, x)
    BY <2>2, PendingKept
  <2> QED BY <1>2, <2>1, <2>3
<1> QED BY <1>1, <1>2, <1>3

(* A client moves; the table and the server do not.                        *)
LEMMA ClientShows ==
  ASSUME ServerTypes, HeldGood, ~Over, ~Over', UNCHANGED <<image, table, srv>>,
         NEW w \in Client, NEW p, pc' = [pc EXCEPT ![w] = p],
         NEW row \in [Fd -> Entry \cup {Nil}], fd' = [fd EXCEPT ![w] = row]
  PROVE  /\ SameTree
         /\ \A x \in Client, y \in Fd : FdOf(x, y) = fd[x][y] /\ FdOf(x, y)' = IF x = w THEN row[y] ELSE FdOf(x, y)
         /\ \A x \in Client : x # w => ResultOf(x)' = ResultOf(x)
         /\ ResultOf(w) = PendingOf(srv, pc[w], w) /\ ResultOf(w)' = PendingOf(srv, p, w)
<1>1. /\ ents' = ents /\ o_file' = o_file /\ o_fd' = o_fd /\ srv' = srv
      /\ fd \in [Client -> [Fd -> Entry \cup {Nil}]]
  BY DEF image, table, ServerTypes
<1>2. \A x \in Client, y \in Fd : FdOf(x, y) = fd[x][y] /\ FdOf(x, y)' = fd'[x][y]
  BY DEF FdOf
<1>3. \A x \in Client, y \in Fd : FdOf(x, y) = fd[x][y] /\ FdOf(x, y)' = IF x = w THEN row[y] ELSE FdOf(x, y)
  BY <1>1, <1>2
<1>6. SameTree
  BY <1>1, TreeKept
<1>7. /\ \A x \in Client : x # w => ResultOf(x)' = ResultOf(x)
      /\ ResultOf(w) = PendingOf(srv, pc[w], w) /\ ResultOf(w)' = PendingOf(srv, p, w)
  BY <1>1, ResultsOfOthers
<1> QED BY <1>3, <1>6, <1>7

LEMMA ClientForgets ==
  ASSUME ~Over, ~Over', UNCHANGED <<image, table>>, \A i \in Entry : Held(i)' => Held(i)
  PROVE  Forgotten
<1>1. o_file' = o_file /\ o_fd' = o_fd
  BY DEF table
<1>2. \A x \in Client, y \in Fd : FdOf(x, y)' = fd'[x][y]
  BY DEF FdOf
<1>3. ASSUME NEW i \in Entry
      PROVE  Held(i)' <=> \E c \in Client, d \in Fd : FdOf(c, d)' = i
  BY <1>2 DEF Held
<1>4. ASSUME NEW i \in Entry
      PROVE  /\ FileOf(i)' = IF Held(i)' THEN FileOf(i) ELSE Nil
             /\ PosOf(i)' = IF Held(i)' THEN PosOf(i) ELSE 0
  BY <1>1 DEF FileOf, PosOf, Shown
<1> QED BY <1>3, <1>4 DEF Forgotten

LEMMA ClientKeeps ==
  ASSUME ~Over, ~Over', UNCHANGED <<image, table>>, \A i \in Entry : Held(i)' = Held(i)
  PROVE  SameFiles /\ SamePos
BY FilesKept, PosKept DEF table

LEMMA ClientOver ==
  ASSUME ServerTypes, srv' = srv, NEW w \in Client, NEW p, pc' = [pc EXCEPT ![w] = p], pc[w] # Gone
  PROVE  /\ Over => Over'
         /\ ~Over /\ (p # Gone \/ ~(srv.at = "reply" /\ srv.whom = w)) => ~Over'
         /\ srv.at = "reply" /\ srv.whom = w /\ p = Gone => Over'
<1>1. pc'[w] = p /\ \A x \in Client : x # w => pc'[x] = pc[x]
  BY DEF ServerTypes
<1>2. srv.at = "reply" => srv.whom \in Client
  BY SrvCases
<1> QED BY <1>1, <1>2 DEF Over

(* A client that moves but does not touch its descriptors.                 *)
LEMMA ClientStutter ==
  ASSUME ServerTypes, HeldGood, ~Over, UNCHANGED <<image, table, srv, fd>>,
         NEW w \in Client, NEW p, pc' = [pc EXCEPT ![w] = p], pc[w] # Gone, p # Gone,
         PendingOf(srv, p, w) = PendingOf(srv, pc[w], w)
  PROVE  AbstractStep
<1>1. srv' = srv /\ fd' = fd /\ UNCHANGED <<image, table, srv>>
  OBVIOUS
<1>2. ~Over'
  BY <1>1, ClientOver
<1>3. PICK row \in [Fd -> Entry \cup {Nil}] : row = fd[w] /\ fd' = [fd EXCEPT ![w] = row]
  BY <1>1 DEF ServerTypes
<1>4. \A i \in Entry : Held(i)' = Held(i)
  BY <1>1, HeldKept
<1>5. /\ SameTree /\ SameFiles /\ SamePos
      /\ \A x \in Client, y \in Fd : FdOf(x, y) = fd[x][y] /\ FdOf(x, y)' = IF x = w THEN row[y] ELSE FdOf(x, y)
      /\ \A x \in Client : x # w => ResultOf(x)' = ResultOf(x)
      /\ ResultOf(w) = PendingOf(srv, pc[w], w) /\ ResultOf(w)' = PendingOf(srv, p, w)
  <2>1. SameFiles /\ SamePos
    BY <1>1, <1>2, <1>4, ClientKeeps
  <2> QED BY <1>1, <1>2, <1>3, <2>1, ClientShows
<1>6. SameFds
  BY <1>3, <1>5 DEF SameFds
<1>7. SameResults
  BY <1>5 DEF SameResults
<1>8. Over' = Over
  BY <1>2 DEF Over
<1> QED BY <1>5, <1>6, <1>7, <1>8, AbstractStutter

LEMMA CallShows ==
  ASSUME ServerInv, ~Over, NEW c \in Client, NEW q, Call(c, q)
  PROVE  AbstractStep
<1>1. ServerTypes /\ HeldGood
  BY DEF ServerInv
<1>2. UNCHANGED <<image, table, srv, fd>> /\ pc[c].at = "idle"
  BY DEF Call, At
<1>3. PICK p : p = [at |-> "send", req |-> q]
  OBVIOUS
<1>4. pc' = [pc EXCEPT ![c] = p] /\ p.at = "send"
  BY <1>3 DEF Call, Goto
<1>5. p # Gone /\ pc[c] # Gone
  BY <1>2, <1>4, StateIs
<1>6. PendingOf(srv, p, c) = Nil /\ PendingOf(srv, pc[c], c) = Nil
  <2>1. PICK x, s : x = pc[c] /\ s = srv /\ x.at = "idle"
    BY <1>2
  <2>2. PendingOf(s, p, c) = Nil /\ PendingOf(s, x, c) = Nil
    BY <1>4, <2>1, NothingPending
  <2> QED BY <2>1, <2>2
<1> QED BY <1>1, <1>2, <1>4, <1>5, <1>6, ClientStutter

LEMMA WaitShows ==
  ASSUME ServerInv, ~Over, NEW c \in Client, Wait(c)
  PROVE  AbstractStep
<1>1. ServerTypes /\ HeldGood /\ pc[c] \in State_
  BY DEF ServerInv, ServerTypes
<1>2. UNCHANGED <<image, table, srv, fd>> /\ pc[c].at = "sent"
  BY DEF Wait, At
<1>3. PICK p : p = [pc[c] EXCEPT !.at = "wait"]
  OBVIOUS
<1>4. pc[c] \in Call_
  BY <1>1, <1>2, StateCases
<1>5. pc' = [pc EXCEPT ![c] = p] /\ p.at = "wait" /\ p.req = pc[c].req
  BY <1>3, <1>4 DEF Wait, Goto, Call_
<1>6. p # Gone /\ pc[c] # Gone
  BY <1>2, <1>5, StateIs
<1>7. PendingOf(srv, p, c) = PendingOf(srv, pc[c], c)
  BY <1>2, <1>5 DEF PendingOf
<1> QED BY <1>1, <1>2, <1>5, <1>6, <1>7, ClientStutter

LEMMA ReturnShows ==
  ASSUME ServerInv, ~Over, NEW c \in Client, Return(c)
  PROVE  AbstractStep
<1>1. /\ ServerTypes /\ HeldGood /\ DoneHeld /\ NeverStale /\ pc[c] \in State_
      /\ fd \in [Client -> [Fd -> Entry \cup {Nil}]]
  BY DEF ServerInv, ServerTypes
<1>2. /\ pc[c].at = "done" /\ UNCHANGED <<image, table, srv>> /\ srv' = srv /\ pc' = [pc EXCEPT ![c] = Idle]
      /\ fd' = IF pc[c].req.type = "flush" THEN [fd EXCEPT ![c][pc[c].req.fd] = Nil] ELSE fd
  BY DEF Return, At, Goto
<1>3. PICK p : p = Idle /\ p.at = "idle" /\ p # Gone /\ pc' = [pc EXCEPT ![c] = p] /\ pc[c] # Gone
  BY <1>2, StateIs
<1>4. PICK x, s : x = pc[c] /\ s = srv /\ x.at = "done" /\ x \in Done_ /\ x.req \in Request_ /\ x.req.fd \in Fd
  BY <1>1, <1>2, StateCases, RequestCases
<1>5. PendingOf(s, p, c) = Nil
  BY <1>3, NothingPending
<1>6. ~Over'
  BY <1>1, <1>2, <1>3, ClientOver
<1>7. CASE x.req.type = "read"
  <2>1. fd' = fd
    BY <1>2, <1>4, <1>7
  <2>2. PICK row \in [Fd -> Entry \cup {Nil}] : row = fd[c] /\ fd' = [fd EXCEPT ![c] = row]
    BY <1>1, <2>1
  <2>3. \A i \in Entry : Held(i)' = Held(i)
    BY <2>1, HeldKept
  <2>4. /\ SameTree /\ SameFiles /\ SamePos
        /\ \A y \in Client, d \in Fd : FdOf(y, d) = fd[y][d] /\ FdOf(y, d)' = IF y = c THEN row[d] ELSE FdOf(y, d)
        /\ \A y \in Client : y # c => ResultOf(y)' = ResultOf(y)
        /\ ResultOf(c) = PendingOf(srv, pc[c], c) /\ ResultOf(c)' = PendingOf(srv, p, c)
    <3>1. SameFiles /\ SamePos
      BY <1>2, <1>6, <2>3, ClientKeeps
    <3>2. UNCHANGED <<image, table, srv>>
      BY <1>2
    <3> QED BY <1>1, <1>3, <1>6, <2>2, <3>1, <3>2, ClientShows
  <2>5. SameFds
    BY <2>2, <2>4 DEF SameFds
  <2>6. x.r >= 0 /\ x.bytes \in Text
    BY <1>1, <1>2, <1>4, <1>7 DEF NeverStale, Done_
  <2>7. PendingOf(s, x, c) = x.bytes
    BY <1>4, <1>7, <2>6 DEF PendingOf
  <2>8. ResultOf(c) # Nil
    BY <1>4, <2>4, <2>6, <2>7, NilIsNone
  <2>9. \A y \in Client : ResultOf(y)' = IF y = c THEN Nil ELSE ResultOf(y)
    BY <1>4, <1>5, <2>4
  <2> QED BY <1>6, <2>4, <2>5, <2>8, <2>9, AbstractReturn
<1>8. CASE x.req.type = "flush"
  <2>1. PICK d \in Fd : d = x.req.fd /\ fd[c][d] # Nil /\ fd' = [fd EXCEPT ![c][d] = Nil]
    BY <1>1, <1>2, <1>4, <1>8 DEF DoneHeld
  <2>2. PICK row : row = [fd[c] EXCEPT ![d] = Nil]
    OBVIOUS
  <2>3. /\ row \in [Fd -> Entry \cup {Nil}] /\ fd' = [fd EXCEPT ![c] = row]
        /\ row[d] = Nil /\ \A y \in Fd : y # d => row[y] = fd[c][y]
    BY <1>1, <2>1, <2>2
  <2>4. ASSUME NEW i \in Entry, Held(i)' PROVE Held(i)
    <3>1. PICK y \in Client, z \in Fd : fd'[y][z] = i
      BY <2>4 DEF Held
    <3>2. fd[y][z] = i
      <4>1. CASE y = c
        BY <1>1, <2>3, <3>1, <4>1, NilIsNone
      <4>2. CASE y # c
        BY <1>1, <2>3, <3>1, <4>2
      <4> QED BY <4>1, <4>2
    <3> QED BY <3>2 DEF Held
  <2>5. /\ SameTree /\ Forgotten
        /\ \A y \in Client, z \in Fd : FdOf(y, z) = fd[y][z] /\ FdOf(y, z)' = IF y = c THEN row[z] ELSE FdOf(y, z)
        /\ \A y \in Client : y # c => ResultOf(y)' = ResultOf(y)
        /\ ResultOf(c) = PendingOf(srv, pc[c], c) /\ ResultOf(c)' = PendingOf(srv, p, c)
    <3>1. Forgotten
      BY <1>2, <1>6, <2>4, ClientForgets
    <3>2. UNCHANGED <<image, table, srv>> /\ row \in [Fd -> Entry \cup {Nil}] /\ fd' = [fd EXCEPT ![c] = row]
      BY <1>2, <2>3
    <3> QED BY <1>1, <1>3, <1>6, <3>1, <3>2, ClientShows
  <2>6. PendingOf(s, x, c) = Nil
    BY <1>8, NothingPending
  <2>7. SameResults
    BY <1>4, <1>5, <2>5, <2>6 DEF SameResults
  <2>8. FdOf(c, d) # Nil /\ \A y \in Client, z \in Fd : FdOf(y, z)' = IF y = c /\ z = d THEN Nil ELSE FdOf(y, z)
    BY <2>1, <2>3, <2>5
  <2> QED BY <1>6, <2>5, <2>7, <2>8, AbstractClose
<1>9. CASE x.req.type \notin {"read", "flush"}
  <2>1. UNCHANGED <<image, table, srv, fd>>
    BY <1>2, <1>4, <1>9
  <2>2. PendingOf(s, x, c) = Nil
    BY <1>9, NothingPending
  <2> QED BY <1>1, <1>3, <1>4, <1>5, <2>1, <2>2, ClientStutter
<1> QED BY <1>7, <1>8, <1>9

LEMMA ForkShows ==
  ASSUME ServerInv, ~Over, NEW c \in Client, NEW child \in Client, Fork(c, child)
  PROVE  AbstractStep
<1>1. /\ ServerTypes /\ HeldGood /\ DeadHoldNothing
      /\ fd \in [Client -> [Fd -> Entry \cup {Nil}]]
  BY DEF ServerInv, ServerTypes
<1>2. /\ pc[child] = Unborn /\ UNCHANGED <<image, table, srv>> /\ srv' = srv /\ pc' = [pc EXCEPT ![child] = Idle]
      /\ fd' = [fd EXCEPT ![child] = fd[c]]
  BY DEF Fork, Goto
<1>3. PICK p : p = Idle /\ p.at = "idle" /\ p # Gone /\ pc' = [pc EXCEPT ![child] = p]
  BY <1>2, StateIs
<1>4. PICK x, s : x = pc[child] /\ s = srv /\ x.at = "unborn" /\ x # Gone
  BY <1>2, StateIs
<1>5. PendingOf(s, p, child) = Nil /\ PendingOf(s, x, child) = Nil
  BY <1>3, <1>4, NothingPending
<1>6. ~Over'
  BY <1>1, <1>2, <1>3, <1>4, ClientOver
<1>7. PICK row \in [Fd -> Entry \cup {Nil}] : row = fd[c] /\ fd' = [fd EXCEPT ![child] = row]
  BY <1>1, <1>2
<1>8. \A d \in Fd : fd[child][d] = Nil
  BY <1>1, <1>2 DEF DeadHoldNothing
<1>9. ASSUME NEW i \in Entry PROVE Held(i)' = Held(i)
  <2>1. ASSUME Held(i) PROVE Held(i)'
    <3>1. PICK y \in Client, z \in Fd : fd[y][z] = i
      BY <2>1 DEF Held
    <3>2. y # child
      BY <1>8, <3>1, NilIsNone
    <3>3. fd'[y][z] = i
      BY <1>1, <1>7, <3>1, <3>2
    <3> QED BY <3>3 DEF Held
  <2>2. ASSUME Held(i)' PROVE Held(i)
    <3>1. PICK y \in Client, z \in Fd : fd'[y][z] = i
      BY <2>2 DEF Held
    <3>2. fd[y][z] = i \/ fd[c][z] = i
      BY <1>1, <1>7, <3>1
    <3> QED BY <3>2 DEF Held
  <2> QED BY <2>1, <2>2 DEF Held
<1>10. /\ SameTree /\ SameFiles /\ SamePos
       /\ \A y \in Client, z \in Fd : FdOf(y, z) = fd[y][z] /\ FdOf(y, z)' = IF y = child THEN row[z] ELSE FdOf(y, z)
       /\ \A y \in Client : y # child => ResultOf(y)' = ResultOf(y)
       /\ ResultOf(child) = PendingOf(srv, pc[child], child) /\ ResultOf(child)' = PendingOf(srv, p, child)
  <2>1. SameFiles /\ SamePos
    BY <1>2, <1>6, <1>9, ClientKeeps
  <2>2. UNCHANGED <<image, table, srv>>
    BY <1>2
  <2> QED BY <1>1, <1>3, <1>6, <1>7, <2>1, <2>2, ClientShows
<1>11. SameResults
  BY <1>4, <1>5, <1>10 DEF SameResults
<1>12. /\ \A d \in Fd : FdOf(child, d) = Nil
       /\ \A y \in Client, z \in Fd : FdOf(y, z)' = IF y = child THEN FdOf(c, z) ELSE FdOf(y, z)
  BY <1>7, <1>8, <1>10
<1> QED BY <1>6, <1>10, <1>11, <1>12, AbstractFork

LEMMA DieShows ==
  ASSUME ServerInv, ~Over, NEW c \in Client, Die(c)
  PROVE  AbstractStep
<1>1. ServerTypes /\ HeldGood /\ fd \in [Client -> [Fd -> Entry \cup {Nil}]]
  BY DEF ServerInv, ServerTypes
<1>2. /\ pc[c] # Gone /\ UNCHANGED <<image, table, srv>> /\ srv' = srv /\ pc' = [pc EXCEPT ![c] = Gone]
      /\ fd' = [fd EXCEPT ![c] = [d \in Fd |-> Nil]] /\ ents' = ents
  BY DEF Die, Goto, image
<1>3. PICK p : p = Gone /\ p.at = "gone" /\ pc' = [pc EXCEPT ![c] = p]
  BY <1>2, StateIs
<1>4. CASE srv.at = "reply" /\ srv.whom = c
  <2>1. Over'
    BY <1>1, <1>2, <1>3, <1>4, ClientOver
  <2>2. SameTree
    BY <1>2, TreeKept
  <2> QED BY <2>1, <2>2, AbstractStop
<1>5. CASE ~(srv.at = "reply" /\ srv.whom = c)
  <2>1. ~Over'
    BY <1>1, <1>2, <1>3, <1>5, ClientOver
  <2>2. PICK row \in [Fd -> Entry \cup {Nil}] : row = [d \in Fd |-> Nil] /\ fd' = [fd EXCEPT ![c] = row]
    BY <1>2
  <2>3. ASSUME NEW i \in Entry, Held(i)' PROVE Held(i)
    <3>1. PICK y \in Client, z \in Fd : fd'[y][z] = i
      BY <2>3 DEF Held
    <3>2. y # c
      BY <1>1, <2>2, <3>1, NilIsNone
    <3>3. fd[y][z] = i
      BY <1>1, <2>2, <3>1, <3>2
    <3> QED BY <3>3 DEF Held
  <2>4. /\ SameTree /\ Forgotten
        /\ \A y \in Client, z \in Fd : FdOf(y, z) = fd[y][z] /\ FdOf(y, z)' = IF y = c THEN row[z] ELSE FdOf(y, z)
        /\ \A y \in Client : y # c => ResultOf(y)' = ResultOf(y)
        /\ ResultOf(c)' = PendingOf(srv, p, c)
    <3>1. Forgotten
      BY <1>2, <2>1, <2>3, ClientForgets
    <3>2. UNCHANGED <<image, table, srv>>
      BY <1>2
    <3> QED BY <1>1, <1>3, <2>1, <2>2, <3>1, <3>2, ClientShows
  <2>5. PendingOf(srv, p, c) = Nil
    BY <1>3, NothingPending
  <2>6. \A y \in Client : ResultOf(y)' = IF y = c THEN Nil ELSE ResultOf(y)
    BY <2>4, <2>5
  <2>7. \A y \in Client, z \in Fd : FdOf(y, z)' = IF y = c THEN Nil ELSE FdOf(y, z)
    BY <2>2, <2>4
  <2> QED BY <2>1, <2>4, <2>6, <2>7, AbstractEnd
<1> QED BY <1>4, <1>5

(* The server takes a request: a read shows, nothing else does.            *)
LEMMA AnswerShows ==
  ASSUME ServerTypes, ~Over, NEW c \in Client, srv = Recv, pc[c].at = "send",
         NEW r, NEW bytes, NEW pg, Answer(c, r, bytes, pg), UNCHANGED <<image, fd>>
  PROVE  /\ ~Over' /\ SameTree /\ SameFds
         /\ \A i \in Entry : Held(i)' = Held(i)
         /\ \A x \in Client : x # c => ResultOf(x)' = ResultOf(x)
         /\ ResultOf(c) = Nil
         /\ ResultOf(c)' = IF pc[c].req.type = "read" /\ r >= 0 THEN bytes ELSE Nil
<1>1. ents' = ents /\ fd' = fd
  BY DEF image
<1>2. pc[c] \in Call_ /\ pc \in [Client -> State_]
  BY StateCases DEF ServerTypes
<1>3. PICK p : p = [pc[c] EXCEPT !.at = "sent"]
  OBVIOUS
<1>4. p.at = "sent" /\ p.req = pc[c].req
  BY <1>2, <1>3 DEF Call_
<1>5. /\ pc' = [pc EXCEPT ![c] = p] /\ pc'[c] = p
      /\ srv'.at = "reply" /\ srv'.whom = c /\ srv'.r = r /\ srv'.bytes = bytes
  BY <1>2, <1>3 DEF Answer, Goto
<1>6. ~Over'
  BY <1>4, <1>5, StateIs DEF Over
<1>7. SameTree /\ \A i \in Entry : Held(i)' = Held(i)
  BY <1>1, TreeKept, HeldKept
<1>8. SameFds
  BY <1>1, <1>6 DEF SameFds, FdOf
<1>9. /\ \A x \in Client : x # c => ResultOf(x)' = ResultOf(x)
      /\ ResultOf(c) = PendingOf(srv, pc[c], c) /\ ResultOf(c)' = PendingOf(srv', p, c)
  BY <1>5, <1>6, ResultsOfOthers
<1>10. PendingOf(srv, pc[c], c) = Nil
  BY DEF PendingOf
<1>11. PendingOf(srv', p, c) = IF pc[c].req.type = "read" /\ r >= 0 THEN bytes ELSE Nil
  BY <1>4, <1>5 DEF PendingOf
<1> QED BY <1>6, <1>7, <1>8, <1>9, <1>10, <1>11

LEMMA AnswerStutter ==
  ASSUME ServerTypes, ~Over, NEW c \in Client, srv = Recv, pc[c].at = "send", pc[c].req.type # "read",
         NEW r, NEW bytes, NEW pg, Answer(c, r, bytes, pg), UNCHANGED <<image, fd>>,
         \A i \in Entry : Held(i) => o_file'[i] = o_file[i] /\ o_fd'[i] = o_fd[i]
  PROVE  AbstractStep
<1>1. /\ ~Over' /\ SameTree /\ SameFds
      /\ \A i \in Entry : Held(i)' = Held(i)
      /\ \A x \in Client : x # c => ResultOf(x)' = ResultOf(x)
      /\ ResultOf(c) = Nil /\ ResultOf(c)' = Nil
  BY AnswerShows
<1>2. SameFiles /\ SamePos
  BY <1>1, FilesKept, PosKept
<1>3. SameResults
  BY <1>1 DEF SameResults
<1>4. Over' = Over
  BY <1>1 DEF Over
<1> QED BY <1>1, <1>2, <1>3, <1>4, AbstractStutter

LEMMA ServeOpenFailsShows ==
  ASSUME ServerInv, ~Over, NEW c \in Client, ServeOpenFails(c)
  PROVE  AbstractStep
<1>1. ServerTypes /\ srv = Recv /\ pc[c].at = "send" /\ pc[c].req.type # "read"
  BY RequestFacts DEF ServeOpenFails
<1>2. PICK r, bytes, pg : Answer(c, r, bytes, pg)
  BY DEF ServeOpenFails
<1>3. UNCHANGED <<image, fd>> /\ o_file' = o_file /\ o_fd' = o_fd
  BY DEF ServeOpenFails, table
<1> QED BY <1>1, <1>2, <1>3, AnswerStutter

LEMMA ServeFlushShows ==
  ASSUME ServerInv, ~Over, NEW c \in Client, ServeFlush(c)
  PROVE  AbstractStep
<1>1. ServerTypes /\ srv = Recv /\ pc[c].at = "send" /\ pc[c].req.type # "read"
  BY RequestFacts DEF ServeFlush
<1>2. PICK r, bytes, pg : Answer(c, r, bytes, pg)
  BY DEF ServeFlush
<1>3. UNCHANGED <<image, fd>> /\ o_file' = o_file /\ o_fd' = o_fd
  BY DEF ServeFlush, table
<1> QED BY <1>1, <1>2, <1>3, AnswerStutter

LEMMA ServeStatShows ==
  ASSUME ServerInv, ~Over, NEW c \in Client, ServeStat(c)
  PROVE  AbstractStep
<1>1. ServerTypes /\ srv = Recv /\ pc[c].at = "send" /\ pc[c].req.type # "read"
  BY RequestFacts DEF ServeStat
<1>2. PICK r, bytes, pg : Answer(c, r, bytes, pg)
  BY DEF ServeStat
<1>3. UNCHANGED <<image, fd>> /\ o_file' = o_file /\ o_fd' = o_fd
  BY DEF ServeStat, table
<1> QED BY <1>1, <1>2, <1>3, AnswerStutter

(* openfile_alloc takes an entry that no descriptor shows.                 *)
LEMMA ServeOpenShows ==
  ASSUME ServerInv, ~Over, NEW c \in Client, ServeOpen(c)
  PROVE  AbstractStep
<1>1. ServerTypes /\ TableTypes /\ HeldGood /\ srv = Recv /\ pc[c].at = "send" /\ pc[c].req.type # "read"
  BY RequestFacts DEF ServeOpen
<1>2. PICK i \in Entry : i = Min(Available) /\ ~Held(i)
  BY <1>1, AvailableIs DEF ServeOpen
<1>3. PICK f, v, e :
        /\ o_fd' = [o_fd EXCEPT ![i] = v]
        /\ o_file' = IF f = NoFile THEN o_file ELSE [o_file EXCEPT ![i] = f]
        /\ IF f = NoFile THEN Answer(c, e, <<>>, Nil) ELSE Answer(c, 0, <<>>, i)
        /\ UNCHANGED <<image, fd>>
  BY <1>2 DEF ServeOpen
<1>4. PICK r, bytes, pg : Answer(c, r, bytes, pg)
  BY <1>3
<1>5. \A x \in Entry : x # i => o_fd'[x] = o_fd[x] /\ o_file'[x] = o_file[x]
  BY <1>1, <1>3 DEF TableTypes
<1>6. \A x \in Entry : Held(x) => o_file'[x] = o_file[x] /\ o_fd'[x] = o_fd[x]
  BY <1>2, <1>5
<1> QED BY <1>1, <1>3, <1>4, <1>6, AnswerStutter

(* The length of the file with the name of an entry.                       *)
LEMMA TreeAt ==
  ASSUME ImageInv, NEW j \in DOMAIN ents
  PROVE  TreeOf(ents[j].name) = ents[j].size /\ ents[j].size # Nil
<1>1. \A i \in DOMAIN ents : ents[i].name = ents[j].name => i = j
  BY EntFacts
<1>2. (CHOOSE i \in DOMAIN ents : ents[i].name = ents[j].name) = j
  BY <1>1
<1>3. ents[j].size # Nil
  BY EntFacts, NilIsNone
<1> QED BY <1>2, <1>3 DEF TreeOf

LEMMA ServeReadShows ==
  ASSUME ImageInv, ServerInv, ~Over, NEW c \in Client, ServeRead(c)
  PROVE  AbstractStep
<1>1. /\ srv = Recv /\ pc[c].at = "send" /\ pc[c].req.type = "read" /\ Requests(c, "read") /\ ServerTypes
      /\ TableTypes /\ pc[c].req \in Request_ /\ pc[c].req.fd \in Fd /\ RequestGood(c)
  BY RequestFacts DEF ServeRead
<1>2. PICK i \in Entry, j \in DOMAIN ents :
        /\ i = fd[c][pc[c].req.fd] /\ openfile_lookup(pc[c].req.fileid) = i /\ i # Nil /\ Held(i)
        /\ o_file[i] = ents[j] /\ o_fd[i].offset <= ents[j].size /\ o_fd[i].offset \in Nat
        /\ o_fd[i] \in [id : 0 .. IdMod - 1, offset : 0 .. MAXFILESIZE]
  BY <1>1, RequestFound
<1>3. PICK count \in Nat : count = Least(pc[c].req.n, BufSize) /\ count # 0
  <2>1. pc[c].req.n \in Nat /\ pc[c].req.n # 0
    BY <1>1, RequestCases DEF RequestGood
  <2>2. Least(pc[c].req.n, BufSize) \in Nat /\ Least(pc[c].req.n, BufSize) # 0
    BY <2>1, ServerSizes DEF Least
  <2> QED BY <2>2
<1>4. PICK offset \in Nat : offset = o_fd[i].offset
  BY <1>2
<1>5. PICK f : f = o_file[i] /\ f = ents[j]
  BY <1>2
<1>6. PICK bytes : bytes = file_read(f, count, offset)
  OBVIOUS
<1>7. /\ Answer(c, Len(bytes), bytes, Nil)
      /\ o_fd' = [o_fd EXCEPT ![i].offset = @ + Len(bytes)]
      /\ UNCHANGED <<image, fd>> /\ o_file' = o_file
  BY <1>2, <1>3, <1>4, <1>5, <1>6 DEF ServeRead
<1>8. offset <= ents[j].size
  BY <1>2, <1>4
<1>9. PICK l \in Nat : ReadIs(j, offset, count, l)
  BY <1>8, ReadAnswer
<1>10. f.size \in Nat /\ f.size < MAXFILESIZE
  BY <1>5, EntFacts
<1>11. PICK n \in Name : n = f.name
  BY <1>5, EntFacts
<1>12. TreeOf(n) = f.size
  BY <1>5, <1>11, TreeAt
<1>13. PICK k \in 0 .. MAXFILESIZE : k = l
  <2>1. offset + l <= ents[j].size
    BY <1>9 DEF ReadIs
  <2> QED BY <1>5, <1>10, <2>1, MaxFileSize
<1>14. /\ bytes = [x \in 1 .. k |-> <<n, offset + x - 1>>] /\ Len(bytes) = k
       /\ offset + k <= f.size /\ (k = 0 => offset = f.size)
  BY <1>3, <1>5, <1>6, <1>9, <1>11, <1>13 DEF ReadIs
<1>15. Answer(c, k, bytes, Nil) /\ k >= 0
  BY <1>7, <1>14
<1>16. /\ ~Over' /\ SameTree /\ SameFds
       /\ \A x \in Entry : Held(x)' = Held(x)
       /\ \A x \in Client : x # c => ResultOf(x)' = ResultOf(x)
       /\ ResultOf(c) = Nil /\ ResultOf(c)' = bytes
  BY <1>1, <1>7, <1>15, AnswerShows
<1>17. SameFiles
  BY <1>7, <1>16, FilesKept
<1>18. PICK d \in Fd : d = pc[c].req.fd /\ FdOf(c, d) = i
  BY <1>1, <1>2 DEF FdOf
<1>19. FileOf(i) = n /\ PosOf(i) = offset
  BY <1>2, <1>4, <1>5, <1>11 DEF FileOf, PosOf, Shown
<1>20. ASSUME NEW x \in Entry PROVE PosOf(x)' = IF x = i THEN PosOf(i) + k ELSE PosOf(x)
  <2>1. CASE x = i
    <3>1. o_fd'[i].offset = offset + k
      BY <1>1, <1>2, <1>4, <1>7, <1>14 DEF TableTypes
    <3>2. PosOf(i)' = o_fd'[i].offset
      BY <1>2, <1>16 DEF PosOf, Shown
    <3> QED BY <1>19, <2>1, <3>1, <3>2
  <2>2. CASE x # i
    <3>1. o_fd'[x] = o_fd[x]
      BY <1>1, <1>7, <2>2 DEF TableTypes
    <3> QED BY <1>16, <2>2, <3>1 DEF PosOf, Shown
  <2> QED BY <2>1, <2>2
<1>21. /\ bytes = [y \in 1 .. k |-> <<n, PosOf(i) + y - 1>>]
       /\ \A x \in Client : ResultOf(x)' = IF x = c THEN bytes ELSE ResultOf(x)
  BY <1>14, <1>16, <1>19
<1>22. PosOf(i) + k <= TreeOf(n) /\ (k = 0 => PosOf(i) = TreeOf(n))
  BY <1>12, <1>14, <1>19
<1>23. ~Over /\ ~Over' /\ SameTree /\ SameFds /\ SameFiles /\ ResultOf(c) = Nil
  BY <1>16, <1>17
<1>24. \A x \in Entry : PosOf(x)' = IF x = i THEN PosOf(i) + k ELSE PosOf(x)
  BY <1>20
<1>25. FdOf(c, d) = i /\ i # Nil /\ FileOf(i) = n
  BY <1>2, <1>18, <1>19
<1>26. ReadPoints(c, d, i, n, k, bytes)
  BY <1>21, <1>22, <1>23, <1>24, <1>25 DEF ReadPoints
<1> QED BY <1>23, <1>26, AbstractRead

LEMMA ReplyShows ==
  ASSUME ImageInv, ServerInv, ~Over, Reply
  PROVE  AbstractStep
<1>1. /\ Replies /\ pc' = [pc EXCEPT ![srv.whom] = Woken] /\ UNCHANGED <<image, table>> /\ srv' = Recv
      /\ fd' = IF srv.pg # Nil THEN [fd EXCEPT ![srv.whom][pc[srv.whom].req.fd] = srv.pg] ELSE fd
  BY DEF Reply, Goto
<1>2. PICK w \in Client, d \in Fd, p \in {Woken} :
        w = srv.whom /\ d = pc[srv.whom].req.fd /\ p = Woken /\ pc' = [pc EXCEPT ![w] = p]
  BY <1>1, RepliesFacts
<1>3. /\ ServerTypes /\ HeldGood /\ srv.pg \in Entry \cup {Nil} /\ RequestGood(w) /\ pc[w].at = "wait"
      /\ AnswerGood(pc[w].req, srv.r, srv.pg)
      /\ p.req = pc[w].req /\ p.r = srv.r /\ p.at = "done" /\ p.bytes = srv.bytes
  BY <1>1, <1>2, RepliesFacts
<1>4. /\ ents' = ents /\ o_file' = o_file /\ o_fd' = o_fd /\ fd \in [Client -> [Fd -> Entry \cup {Nil}]]
      /\ srv.at = "reply" /\ srv'.at = "recv"
  BY <1>1, <1>3, SrvIs DEF image, table, ServerTypes, Replies
<1>5. ~Over'
  BY <1>4 DEF Over
<1>6. SameTree
  BY <1>4, TreeKept
<1>7. /\ \A x \in Client : x # w => ResultOf(x)' = ResultOf(x)
      /\ ResultOf(w) = PendingOf(srv, pc[w], w) /\ ResultOf(w)' = PendingOf(srv', p, w)
  BY <1>1, <1>2, <1>3, <1>4, <1>5, ResultsOfOthers
<1>8. PendingOf(srv', p, w) = PendingOf(srv, pc[w], w)
  BY <1>2, <1>3, <1>4 DEF PendingOf
<1>9. SameResults
  BY <1>7, <1>8 DEF SameResults
<1>10. CASE srv.pg = Nil
  <2>1. fd' = fd
    BY <1>1, <1>10
  <2>2. SameFds
    BY <1>5, <2>1 DEF SameFds, FdOf
  <2>3. \A i \in Entry : Held(i)' = Held(i)
    BY <2>1, HeldKept
  <2>4. SameFiles /\ SamePos
    BY <1>4, <1>5, <2>3, FilesKept, PosKept
  <2>5. Over' = Over
    BY <1>5 DEF Over
  <2> QED BY <1>6, <1>9, <2>2, <2>4, <2>5, AbstractStutter
<1>11. CASE srv.pg # Nil
  <2>1. PICK h \in Entry : h = srv.pg /\ ~Held(h) /\ Good(h) /\ o_fd[h].offset = 0 /\ h # Nil
    BY <1>1, <1>3, <1>11, RepliesFacts
  <2>2. PICK j \in DOMAIN ents : o_file[h] = ents[j]
    BY <2>1 DEF Good
  <2>3. PICK n \in Name : n = o_file[h].name /\ TreeOf(n) # Nil
    BY <2>2, EntFacts, TreeAt
  <2>4. fd[w][d] = Nil
    BY <1>2, <1>3, <1>11 DEF RequestGood, AnswerGood
  <2>5. fd' = [fd EXCEPT ![w][d] = h]
    BY <1>1, <1>2, <1>11, <2>1
  <2>6. \A x \in Client, y \in Fd : fd'[x][y] = IF x = w /\ y = d THEN h ELSE fd[x][y]
    BY <1>4, <2>5
  <2>7. FdOf(w, d) = Nil /\ \A x \in Client, y \in Fd : FdOf(x, y)' = IF x = w /\ y = d THEN h ELSE FdOf(x, y)
    BY <1>5, <2>4, <2>6 DEF FdOf
  <2>8. ASSUME NEW i \in Entry
        PROVE  Held(i)' <=> (i = h \/ Held(i))
    <3>1. Held(h)'
      BY <2>6 DEF Held
    <3>2. ASSUME i # h, Held(i) PROVE Held(i)'
      <4>1. PICK x \in Client, y \in Fd : fd[x][y] = i
        BY <3>2 DEF Held
      <4>2. ~(x = w /\ y = d)
        BY <2>4, <4>1, NilIsNone
      <4>3. fd'[x][y] = i
        BY <2>6, <4>1, <4>2
      <4> QED BY <4>3 DEF Held
    <3>3. ASSUME i # h, Held(i)' PROVE Held(i)
      <4>1. PICK x \in Client, y \in Fd : fd'[x][y] = i
        BY <3>3 DEF Held
      <4>2. fd[x][y] = i
        BY <2>6, <3>3, <4>1
      <4> QED BY <4>2 DEF Held
    <3> QED BY <3>1, <3>2, <3>3
  <2>9. FileOf(h) = Nil
    BY <2>1 DEF FileOf, Shown
  <2>10. \A i \in Entry : FileOf(i)' = IF i = h THEN n ELSE FileOf(i)
    BY <1>4, <1>5, <2>3, <2>8 DEF FileOf, Shown
  <2>11. SamePos
    BY <1>4, <1>5, <2>1, <2>8 DEF SamePos, PosOf, Shown
  <2> QED BY <1>5, <1>6, <1>9, <2>3, <2>7, <2>9, <2>10, <2>11, AbstractOpen
<1> QED BY <1>10, <1>11

LEMMA ReplyNoMemShows ==
  ASSUME ~Over, ReplyNoMem
  PROVE  AbstractStep
<1>1. srv'.at = "panic" /\ ents' = ents
  BY DEF ReplyNoMem, image
<1>2. Over'
  BY <1>1 DEF Over
<1> QED BY <1>1, <1>2, TreeKept, AbstractStop

(* A file that fsformat writes has a new name.                             *)
LEMMA WriteTree ==
  ASSUME ImageInv, ImageInv', NEW len \in Sizes, writefile(len)
  PROVE  \E n \in Name : /\ TreeOf(n) = Nil
                         /\ \A m \in Name : TreeOf(m)' = IF m = n THEN len ELSE TreeOf(m)
<1>1. /\ ents \in Seq(File) /\ ents' \in Seq(File) /\ Len(ents) \in Nat /\ Len(ents) < Len(Argv)
      /\ Len(Argv) \in Nat /\ DOMAIN Argv = 1 .. Len(Argv)
  BY ImageAssumption DEF ImageInv, writefile
<1>2. PICK L \in Nat : L = Len(ents) /\ L + 1 \in DOMAIN Argv /\ DOMAIN ents = 1 .. L
  BY <1>1
<1>3. PICK n \in Name : n = Argv[L + 1]
  BY <1>2 DEF Name
<1>4. PICK f : f = finishfile(n, diskpos, len, diskpos + Blocks(len), Junk)
  OBVIOUS
<1>5. f.name = n /\ f.size = len
  BY <1>4 DEF finishfile
<1>6. ents' = Append(ents, f)
  BY <1>2, <1>3, <1>4 DEF writefile
<1>7. DOMAIN ents' = 1 .. L + 1 /\ ents'[L + 1] = f /\ \A i \in 1 .. L : ents'[i] = ents[i]
  BY <1>1, <1>2, <1>6
<1>8. ASSUME NEW i \in 1 .. L PROVE ents[i].name # n
  <2>1. PICK st, limit : FilesAt(st, limit)
    BY DEF ImageInv
  <2>2. ents[i].name = Argv[i] /\ i \in DOMAIN Argv
    BY <1>2, <2>1, EntryNames
  <2>3. i # L + 1
    BY <1>2
  <2> QED BY <1>2, <1>3, <2>2, <2>3, DirAssumption
<1>9. TreeOf(n) = Nil
  BY <1>2, <1>8 DEF TreeOf
<1>10. TreeOf(n)' = len
  <2>1. \A i \in DOMAIN ents' : ents'[i].name = n <=> i = L + 1
    BY <1>2, <1>5, <1>7, <1>8
  <2>2. L + 1 \in DOMAIN ents'
    BY <1>2, <1>7
  <2>3. (CHOOSE i \in DOMAIN ents' : ents'[i].name = n) = L + 1
    BY <2>1, <2>2
  <2> QED BY <1>5, <1>7, <2>1, <2>2, <2>3 DEF TreeOf
<1>11. ASSUME NEW m \in Name, m # n PROVE TreeOf(m)' = TreeOf(m)
  <2>1. ASSUME NEW j \in DOMAIN ents, ents[j].name = m PROVE TreeOf(m)' = TreeOf(m)
    <3>1. \A i \in DOMAIN ents : ents[i].name = m <=> i = j
      BY <2>1, EntFacts
    <3>2. j \in DOMAIN ents' /\ ents'[j] = ents[j]
      BY <1>2, <1>7
    <3>3. \A i \in DOMAIN ents' : ents'[i].name = m <=> i = j
      BY <1>2, <1>5, <1>7, <1>11, <2>1, <3>1
    <3>4. (CHOOSE i \in DOMAIN ents : ents[i].name = m) = j
      BY <3>1
    <3>5. (CHOOSE i \in DOMAIN ents' : ents'[i].name = m) = j
      BY <3>2, <3>3
    <3> QED BY <2>1, <3>2, <3>4, <3>5 DEF TreeOf
  <2>2. CASE ~ \E j \in DOMAIN ents : ents[j].name = m
    <3>1. ~ \E j \in DOMAIN ents' : ents'[j].name = m
      BY <1>2, <1>5, <1>7, <1>11, <2>2
    <3> QED BY <2>2, <3>1 DEF TreeOf
  <2> QED BY <2>1, <2>2
<1> QED BY <1>9, <1>10, <1>11

LEMMA QuietShows ==
  ASSUME Quiet
  PROVE  /\ ~Over
         /\ \A c \in Client, d \in Fd : FdOf(c, d) = Nil
         /\ \A i \in Entry : FileOf(i) = Nil /\ PosOf(i) = 0
         /\ \A c \in Client : ResultOf(c) = Nil
<1>1. srv.at = "recv" /\ \A c \in Client, d \in Fd : fd[c][d] = Nil
  BY SrvIs DEF Quiet
<1>2. ~Over
  BY <1>1 DEF Over
<1>3. \A i \in Entry : ~Held(i)
  BY <1>1, ServerSizes, NilIsNone DEF Held, Entry
<1>4. \A c \in Client : Pending(c) = Nil
  <2>1. \A c \in Client : pc[c].at \in {"idle", "unborn"}
    BY StateIs DEF Quiet
  <2> QED BY <1>1, <2>1 DEF Pending
<1>5. \A c \in Client, d \in Fd : FdOf(c, d) = Nil
  BY <1>1, <1>2 DEF FdOf
<1>6. \A i \in Entry : FileOf(i) = Nil /\ PosOf(i) = 0
  BY <1>3 DEF FileOf, PosOf, Shown
<1>7. \A c \in Client : ResultOf(c) = Nil
  BY <1>2, <1>4 DEF ResultOf
<1> QED BY <1>2, <1>5, <1>6, <1>7

LEMMA QuietPoints ==
  Quiet => /\ ~Over
           /\ \A c \in Client, d \in Fd : FdOf(c, d) = Nil
           /\ \A i \in Entry : FileOf(i) = Nil /\ PosOf(i) = 0
           /\ \A c \in Client : ResultOf(c) = Nil
BY QuietShows

LEMMA FormatShows ==
  ASSUME FsInv, Format
  PROVE  AbstractStep
<1>1. ImageInv /\ ServerInv /\ Formatting
  BY DEF FsInv, Format, writefile, finishdir
<1>2. Quiet
  BY <1>1 DEF ServerInv
<1>3. ImageInv' /\ Quiet'
  BY FormatStep
<1>4. /\ ~Over /\ (\A c \in Client, d \in Fd : FdOf(c, d) = Nil)
      /\ (\A i \in Entry : FileOf(i) = Nil /\ PosOf(i) = 0) /\ (\A c \in Client : ResultOf(c) = Nil)
  BY <1>2, QuietShows
<1>5. Quiet' => (/\ ~Over
                 /\ \A c \in Client, d \in Fd : FdOf(c, d) = Nil
                 /\ \A i \in Entry : FileOf(i) = Nil /\ PosOf(i) = 0
                 /\ \A c \in Client : ResultOf(c) = Nil)'
  BY QuietPoints, PTL
<1>6. /\ ~Over' /\ (\A c \in Client, d \in Fd : FdOf(c, d)' = Nil)
      /\ (\A i \in Entry : FileOf(i)' = Nil /\ PosOf(i)' = 0) /\ (\A c \in Client : ResultOf(c)' = Nil)
  BY <1>3, <1>5
<1>7. SameFds /\ SameFiles /\ SamePos /\ SameResults
  BY <1>4, <1>6 DEF SameFds, SameFiles, SamePos, SameResults
<1>8. ASSUME NEW len \in Sizes, writefile(len) PROVE AbstractStep
  <2>1. PICK n \in Name : /\ TreeOf(n) = Nil
                          /\ \A m \in Name : TreeOf(m)' = IF m = n THEN len ELSE TreeOf(m)
    BY <1>1, <1>3, <1>8, WriteTree
  <2>2. PICK k \in 0 .. MAXFILESIZE : k = len
    BY <1>8, ImageAssumption, MaxFileSize DEF writefile
  <2>3. \A m \in Name : TreeOf(m)' = IF m = n THEN k ELSE TreeOf(m)
    BY <2>1, <2>2
  <2>4. ~Over /\ ~Over'
    BY <1>4, <1>6
  <2> QED BY <1>7, <2>1, <2>3, <2>4, AbstractCreate
<1>9. CASE finishdir
  <2>1. SameTree
    BY <1>9, TreeKept DEF finishdir
  <2>2. Over' = Over
    BY <1>4, <1>6 DEF Over
  <2> QED BY <1>7, <2>1, <2>2, AbstractStutter
<1> QED BY <1>8, <1>9 DEF Format

(* Once the server has stopped, nothing is shown any more.                 *)
LEMMA OverShows ==
  ASSUME Over, Over', ents' = ents
  PROVE  AbstractStep
<1>1. SameFds /\ SameResults
  BY DEF SameFds, SameResults, FdOf, ResultOf
<1>2. SameFiles /\ SamePos
  BY DEF SameFiles, SamePos, FileOf, PosOf, Shown
<1>3. Over' = Over
  BY DEF Over
<1> QED BY <1>1, <1>2, <1>3, TreeKept, AbstractStutter

LEMMA OverStays ==
  ASSUME FsInv, [Next]_vars, Over
  PROVE  Over' /\ ents' = ents
<1>1. ServerInv /\ ServerTypes /\ (Formatting => Quiet)
  BY DEF FsInv, ServerInv
<1>2. srv.at \in {"reply", "panic"} /\ srv # Recv
  BY SrvIs DEF Over
<1>3. CASE Format
  <2>1. Formatting
    BY <1>3 DEF Format, writefile, finishdir
  <2> QED BY <1>1, <1>2, <2>1 DEF Quiet
<1>4. CASE Server
  <2>1. ASSUME NEW c \in Client, ServeOpen(c) \/ ServeOpenFails(c) \/ ServeRead(c) \/ ServeStat(c) \/ ServeFlush(c)
        PROVE  FALSE
    BY <1>2, <2>1 DEF ServeOpen, ServeOpenFails, ServeRead, ServeStat, ServeFlush, Requests
  <2>2. ~Replies
    BY StateIs DEF Over, Replies
  <2>3. ReplyToDead
    BY <1>4, <2>1, <2>2 DEF Server, Reply, ReplyNoMem
  <2> QED BY <2>3 DEF ReplyToDead, image, Over
<1>5. ASSUME NEW w \in Client, NEW p, pc' = [pc EXCEPT ![w] = p], pc[w] # Gone, UNCHANGED <<image, srv>>
      PROVE  Over' /\ ents' = ents
  <2>1. srv' = srv /\ ents' = ents
    BY <1>5 DEF image
  <2>2. Over'
    BY <1>1, <1>5, <2>1, ClientOver
  <2> QED BY <2>1, <2>2
<1>6. ASSUME NEW c \in Client, NEW q, Call(c, q) PROVE Over' /\ ents' = ents
  <2>1. PICK p : p = [at |-> "send", req |-> q]
    OBVIOUS
  <2>2. pc' = [pc EXCEPT ![c] = p] /\ pc[c] # Gone /\ UNCHANGED <<image, srv>>
    BY <1>6, <2>1, StateIs DEF Call, At, Goto
  <2> QED BY <1>5, <2>2
<1>7. ASSUME NEW c \in Client, NEW n \in Name, Open(c, n) PROVE Over' /\ ents' = ents
  <2>1. PICK q : Call(c, q)
    BY <1>7 DEF Open
  <2> QED BY <1>6, <2>1
<1>8. ASSUME NEW c \in Client, NEW d, NEW type, NEW n, FileCall(c, d, type, n) PROVE Over' /\ ents' = ents
  <2>1. PICK q : Call(c, q)
    BY <1>8 DEF FileCall
  <2> QED BY <1>6, <2>1
<1>9. ASSUME NEW c \in Client, Wait(c) PROVE Over' /\ ents' = ents
  <2>1. PICK p : p = [pc[c] EXCEPT !.at = "wait"]
    OBVIOUS
  <2>2. pc' = [pc EXCEPT ![c] = p] /\ pc[c] # Gone /\ UNCHANGED <<image, srv>>
    BY <1>9, <2>1, StateIs DEF Wait, At, Goto
  <2> QED BY <1>5, <2>2
<1>10. ASSUME NEW c \in Client, Return(c) PROVE Over' /\ ents' = ents
  <2>1. PICK p : p = Idle
    OBVIOUS
  <2>2. pc' = [pc EXCEPT ![c] = p] /\ pc[c] # Gone /\ UNCHANGED <<image, srv>>
    BY <1>10, <2>1, StateIs DEF Return, At, Goto
  <2> QED BY <1>5, <2>2
<1>11. ASSUME NEW c \in Client, NEW child \in Client, Fork(c, child) PROVE Over' /\ ents' = ents
  <2>1. PICK p : p = Idle
    OBVIOUS
  <2>2. pc' = [pc EXCEPT ![child] = p] /\ pc[child] # Gone /\ UNCHANGED <<image, srv>>
    BY <1>11, <2>1, StateIs DEF Fork, At, Goto
  <2> QED BY <1>5, <2>2
<1>12. ASSUME NEW c \in Client, Die(c) PROVE Over' /\ ents' = ents
  <2>1. PICK p : p = Gone
    OBVIOUS
  <2>2. pc' = [pc EXCEPT ![c] = p] /\ pc[c] # Gone /\ UNCHANGED <<image, srv>>
    BY <1>12, <2>1 DEF Die, Goto
  <2> QED BY <1>5, <2>2
<1>13. CASE UNCHANGED vars
  BY <1>13 DEF vars, image, Over
<1> QED BY <1>3, <1>4, <1>7, <1>8, <1>9, <1>10, <1>11, <1>12, <1>13 DEF Next

LEMMA StutterShows ==
  ASSUME ~Over, UNCHANGED vars
  PROVE  AbstractStep
<1>1. ents' = ents /\ o_file' = o_file /\ o_fd' = o_fd /\ fd' = fd /\ srv' = srv /\ pc' = pc
  BY DEF vars, image, table
<1>2. Over' = Over
  BY <1>1 DEF Over
<1>3. ~Over'
  BY <1>2
<1>4. \A i \in Entry : Held(i)' = Held(i)
  BY <1>1, HeldKept
<1>5. SameFiles
  BY <1>1, <1>3, <1>4, FilesKept
<1>6. SamePos
  BY <1>1, <1>3, <1>4, PosKept
<1>7. SameFds
  BY <1>1, <1>3 DEF SameFds, FdOf
<1>8. SameResults
  BY <1>1, <1>3 DEF SameResults, ResultOf, Pending
<1> QED BY <1>1, <1>2, <1>5, <1>6, <1>7, <1>8, TreeKept, AbstractStutter

(* One step per action.                                                    *)
LEMMA NextShows ==
  ASSUME FsInv, [Next]_vars
  PROVE  AbstractStep
<1>1. ImageInv /\ ServerInv
  BY DEF FsInv
<1>2. CASE Over
  BY <1>2, OverStays, OverShows
<1>3. CASE ~Over
  <2>1. CASE Format
    BY <2>1, FormatShows
  <2>2. CASE Server
    <3>1. ASSUME NEW c \in Client, ServeOpen(c) PROVE AbstractStep
      BY <1>1, <1>3, <3>1, ServeOpenShows
    <3>2. ASSUME NEW c \in Client, ServeOpenFails(c) PROVE AbstractStep
      BY <1>1, <1>3, <3>2, ServeOpenFailsShows
    <3>3. ASSUME NEW c \in Client, ServeRead(c) PROVE AbstractStep
      BY <1>1, <1>3, <3>3, ServeReadShows
    <3>4. ASSUME NEW c \in Client, ServeStat(c) PROVE AbstractStep
      BY <1>1, <1>3, <3>4, ServeStatShows
    <3>5. ASSUME NEW c \in Client, ServeFlush(c) PROVE AbstractStep
      BY <1>1, <1>3, <3>5, ServeFlushShows
    <3>6. CASE Reply
      BY <1>1, <1>3, <3>6, ReplyShows
    <3>7. CASE ReplyNoMem
      BY <1>3, <3>7, ReplyNoMemShows
    <3>8. ~ReplyToDead
      BY <1>3 DEF ReplyToDead, Over
    <3> QED BY <2>2, <3>1, <3>2, <3>3, <3>4, <3>5, <3>6, <3>7, <3>8 DEF Server
  <2>3. ASSUME NEW c \in Client, NEW n \in Name, Open(c, n) PROVE AbstractStep
    <3>1. PICK q : Call(c, q)
      BY <2>3 DEF Open
    <3> QED BY <1>1, <1>3, <3>1, CallShows
  <2>4. ASSUME NEW c \in Client, NEW d, NEW type, NEW n, FileCall(c, d, type, n) PROVE AbstractStep
    <3>1. PICK q : Call(c, q)
      BY <2>4 DEF FileCall
    <3> QED BY <1>1, <1>3, <3>1, CallShows
  <2>5. ASSUME NEW c \in Client, Wait(c) PROVE AbstractStep
    BY <1>1, <1>3, <2>5, WaitShows
  <2>6. ASSUME NEW c \in Client, Return(c) PROVE AbstractStep
    BY <1>1, <1>3, <2>6, ReturnShows
  <2>7. ASSUME NEW c \in Client, NEW child \in Client, Fork(c, child) PROVE AbstractStep
    BY <1>1, <1>3, <2>7, ForkShows
  <2>8. ASSUME NEW c \in Client, Die(c) PROVE AbstractStep
    BY <1>1, <1>3, <2>8, DieShows
  <2>9. CASE UNCHANGED vars
    BY <1>3, <2>9, StutterShows
  <2> QED BY <2>1, <2>2, <2>3, <2>4, <2>5, <2>6, <2>7, <2>8, <2>9 DEF Next
<1> QED BY <1>2, <1>3

LEMMA InitShows == ASSUME Init PROVE F!Init
<1>1. Quiet /\ ents = <<>>
  BY DEF Init, Quiet, ImageInit
<1>2. /\ ~Over /\ (\A c \in Client, d \in Fd : FdOf(c, d) = Nil)
      /\ (\A i \in Entry : FileOf(i) = Nil /\ PosOf(i) = 0) /\ (\A c \in Client : ResultOf(c) = Nil)
  BY <1>1, QuietShows
<1>3. \A n \in Name : TreeOf(n) = Nil
  BY <1>1 DEF TreeOf
<1>4. TreeF = [n \in Name |-> Nil] /\ FdF = [c \in Client |-> [d \in Fd |-> Nil]]
  BY <1>2, <1>3 DEF TreeF, FdF
<1>5. FileF = [i \in Entry |-> Nil] /\ PosF = [i \in Entry |-> 0] /\ ResultF = [c \in Client |-> Nil]
  BY <1>2 DEF FileF, PosF, ResultF
<1>6. Over = FALSE
  BY <1>2 DEF Over
<1>7. F!NoFiles
  BY <1>4, <1>5 DEF F!NoFiles, FdF, FileF, PosF, ResultF, FdOf, FileOf, PosOf, ResultOf
<1> QED BY <1>4, <1>6, <1>7 DEF F!Init, TreeF, TreeOf

(* The server of serv.c with the clients of file.c and fd.c implements     *)
(* OpenFiles, for every image that fsformat can write, any table and any   *)
(* number of clients: openfile_alloc never gives away an entry that a      *)
(* descriptor refers to, and all who share an entry, by fork, read the     *)
(* bytes of its file in order and each once, until the server stops, for   *)
(* good, because a client died under its request or memory ran out.        *)
THEOREM ServesOpenFiles == Spec => ImplementsOpenFiles
<1>1. Init => F!Init
  BY InitShows
<1>2. FsInv /\ [Next]_vars => [F!Next]_(F!vars)
  BY NextShows DEF AbstractStep
<1> QED BY <1>1, <1>2, FileServerInvariant, PTL DEF Spec, ImplementsOpenFiles, F!Spec
=============================================================================
