------------------------------ MODULE FsImage -------------------------------
(***************************************************************************)
(* The file system image: how fs/fsformat.c lays it out on the host, and   *)
(* how the file server finds its way in it (fs/fs.c).  Byte j of file n is *)
(* <<n, j>>; a name is one model value, and all files are in the root      *)
(* directory, as fsformat puts them.                                       *)
(***************************************************************************)
EXTENDS Integers, Sequences, FiniteSetsExt

CONSTANTS
  BLKSIZE, NDIRECT, NINDIRECT,
  BLKFILES,   \* directory entries in a block
  nblocks,
  Argv,       \* the names of the files that fsformat is given, a sequence
  Sizes,      \* BOUND: the sizes of these files
  Junk        \* what is in the memory that startdir gets from malloc

ASSUME ImageAssumption ==
  /\ {BLKSIZE, NDIRECT, NINDIRECT, BLKFILES, nblocks} \subseteq Nat \ {0}
  /\ Argv \in Seq(STRING) /\ Argv # <<>>
  /\ Sizes \subseteq Nat /\ Junk \in Nat

(* fs/Makefrag gives each name once; MAX_DIR_ENTS entries fit in a file.   *)
ASSUME DirAssumption ==
  /\ \A i, j \in DOMAIN Argv : Argv[i] = Argv[j] => i = j
  /\ \A i \in DOMAIN Argv : Argv[i] # ""
  /\ Len(Argv) <= BLKFILES * (NDIRECT + NINDIRECT)

MAXFILESIZE == (NDIRECT + NINDIRECT) * BLKSIZE
Block == 0 .. nblocks - 1
Blocks(bytes) == (bytes + BLKSIZE - 1) \div BLKSIZE

VARIABLES
  disk,     \* [Block -> contents]: [bytes], block [numbers] or directory [entries]
  bitmap,   \* SUBSET Block: the bits that are set
  diskpos,  \* the next block that alloc gives out
  ents,     \* Seq of struct File: the root directory as it grows
  root      \* struct File in the super block; size 0 until finishdir

image == <<disk, bitmap, diskpos, ents, root>>

NoByte == <<"", 0>>
Zeros == [bytes |-> [k \in 0 .. BLKSIZE - 1 |-> NoByte]]
NoBlocks == [k \in 0 .. NDIRECT - 1 |-> 0]

(* opendisk: block 0 is the boot block, 1 the super block, 2 the bitmap.   *)
ImageInit ==
  /\ disk = [b \in Block |-> Zeros]
  /\ bitmap = Block
  /\ diskpos = 3
  /\ ents = <<>>
  /\ root = [name |-> "/", size |-> 0, direct |-> NoBlocks, indirect |-> 0]

Formatting == root.size = 0

(* Variant: the last block of a file that does not fill it is forgotten.   *)
finishfile_RoundDown(name, start, len, ind, old) ==
  [name |-> name, size |-> len,
   direct |-> [i \in 0 .. NDIRECT - 1 |-> IF i < len \div BLKSIZE THEN start + i ELSE old],
   indirect |-> IF Blocks(len) >= NDIRECT THEN ind ELSE old]

(* The indirect block is allocated as soon as the direct ones are used up. *)
(* What the file does not need stays as it was.                            *)
finishfile(name, start, len, ind, old) ==
  [name |-> name, size |-> len,
   direct |-> [i \in 0 .. NDIRECT - 1 |-> IF i < Blocks(len) THEN start + i ELSE old],
   indirect |-> IF Blocks(len) >= NDIRECT THEN ind ELSE old]

(* Variant: the indirect block starts with the second block behind the     *)
(* direct ones.                                                            *)
IndirectBlock_Shifted(start, len) ==
  [numbers |-> [k \in 0 .. NINDIRECT - 1 |->
     IF NDIRECT + k < Blocks(len) THEN start + NDIRECT + k + 1 ELSE 0]]

IndirectBlock(start, len) ==
  [numbers |-> [k \in 0 .. NINDIRECT - 1 |->
     IF NDIRECT + k < Blocks(len) THEN start + NDIRECT + k ELSE 0]]

(* The disk with a file of len bytes at start, and its indirect block.     *)
Written(start, len, contents, ind) ==
  [b \in Block |->
     IF b \in start .. start + Blocks(len) - 1 THEN contents[b - start]
     ELSE IF b = ind /\ Blocks(len) >= NDIRECT THEN IndirectBlock(start, len)
     ELSE disk[b]]

(* What alloc has given out after a file of len bytes at diskpos.          *)
After(len) == diskpos + Blocks(len) + (IF Blocks(len) >= NDIRECT THEN 1 ELSE 0)

writefile(len) ==
  LET nb == Blocks(len)
      name == Argv[Len(ents) + 1] IN
  /\ Formatting
  /\ Len(ents) < Len(Argv)
  /\ len < MAXFILESIZE /\ After(len) < nblocks
  /\ disk' = Written(diskpos, len,
               [i \in 0 .. nb - 1 |-> [bytes |-> [k \in 0 .. BLKSIZE - 1 |->
                  IF i * BLKSIZE + k < len THEN <<name, i * BLKSIZE + k>> ELSE NoByte]]],
               diskpos + nb)
  /\ ents' = Append(ents, finishfile(name, diskpos, len, diskpos + nb, Junk))
  /\ diskpos' = After(len)
  /\ UNCHANGED <<bitmap, root>>

NoFile == [name |-> "", size |-> 0, direct |-> NoBlocks, indirect |-> 0]

(* finishdir and finishdisk: the size of a directory is a multiple of      *)
(* BLKSIZE; a bit is cleared for every block in use.                       *)
finishdir ==
  LET nb == (Len(ents) + BLKFILES - 1) \div BLKFILES IN
  /\ Formatting
  /\ Len(ents) = Len(Argv)
  /\ After(nb * BLKSIZE) < nblocks
  /\ disk' = Written(diskpos, nb * BLKSIZE,
               [i \in 0 .. nb - 1 |-> [entries |-> [k \in 0 .. BLKFILES - 1 |->
                  IF i * BLKFILES + k < Len(ents) THEN ents[i * BLKFILES + k + 1] ELSE NoFile]]],
               diskpos + nb)
  /\ root' = finishfile("/", diskpos, nb * BLKSIZE, diskpos + nb, 0)
  /\ diskpos' = After(nb * BLKSIZE)
  /\ bitmap' = Block \ (0 .. diskpos' - 1)
  /\ UNCHANGED ents

-----------------------------------------------------------------------------
(* fs/fs.c.  The walks are read-only here: ImageSound says that they never *)
(* meet a missing block, so that file_get_block has nothing to allocate.   *)

(* The number of a block of f, 0 for none.                                 *)
file_block_walk(f, filebno) ==
  IF filebno < NDIRECT THEN f.direct[filebno]
  ELSE IF filebno < NDIRECT + NINDIRECT /\ f.indirect # 0 THEN disk[f.indirect].numbers[filebno - NDIRECT]
  ELSE 0

file_get_block(f, filebno) == disk[file_block_walk(f, filebno)]

(* Block by block, entry by entry: the first one with this name.           *)
dir_lookup(dir, name) ==
  LET found == {x \in (0 .. dir.size \div BLKSIZE - 1) \X (0 .. BLKFILES - 1) :
                  file_get_block(dir, x[1]).entries[x[2]].name = name}
      first == CHOOSE x \in found : \A y \in found : x[1] * BLKFILES + x[2] <= y[1] * BLKFILES + y[2]
  IN  IF found = {} THEN NoFile ELSE file_get_block(dir, first[1]).entries[first[2]]

Least(x, y) == IF x < y THEN x ELSE y

(* Variant: every chunk is taken from the start of its block.              *)
Chunk_FromStart(f, pos, n) == SubSeq([k \in 1 .. BLKSIZE |-> file_get_block(f, pos \div BLKSIZE).bytes[k - 1]], 1, n)

(* n bytes of one block                                                    *)
Chunk(f, pos, n) ==
  [k \in 1 .. n |-> file_get_block(f, pos \div BLKSIZE).bytes[(pos % BLKSIZE) + k - 1]]

file_read(f, count, offset) ==
  LET end == offset + Least(count, f.size - offset)
      loop[pos \in offset .. end] ==
        IF pos = end THEN <<>>
        ELSE LET bn == Least(BLKSIZE - (pos % BLKSIZE), end - pos)
             IN  Chunk(f, pos, bn) \o loop[pos + bn]
  IN  IF offset >= f.size THEN <<>> ELSE loop[offset]

-----------------------------------------------------------------------------

(* The files of the image, and the root directory once it is there.        *)
Files == {ents[i] : i \in DOMAIN ents} \cup (IF Formatting THEN {} ELSE {root})
BlocksOf(f) ==
  {file_block_walk(f, i) : i \in 0 .. Blocks(f.size) - 1}
  \cup (IF Blocks(f.size) >= NDIRECT THEN {f.indirect} ELSE {})

(* file_read returns what fsformat was given, from every offset and for    *)
(* every length, across block boundaries and from direct to indirect       *)
(* blocks; dir_lookup finds every file.                                    *)
ReadsExact ==
  ~Formatting => \A i \in DOMAIN ents :
    /\ dir_lookup(root, ents[i].name) = ents[i]
    /\ \A offset, count \in 0 .. MAXFILESIZE :
         LET end == Least(ents[i].size, offset + count) IN
         file_read(ents[i], count, offset)
           = [k \in 1 .. end - offset |-> <<ents[i].name, offset + k - 1>>]

(* fsformat leaves no hole: every block of every file is there, belongs to *)
(* one file only and is not marked free.  file_get_block would fill a hole *)
(* with alloc_block, which takes set bits for used blocks where fsformat   *)
(* has set the bits of the free ones.                                      *)
ImageSound ==
  /\ \A f \in Files :
       /\ \A i \in 0 .. Blocks(f.size) - 1 : file_block_walk(f, i) \in 3 .. diskpos - 1
       /\ \A i, j \in 0 .. Blocks(f.size) - 1 : i # j => file_block_walk(f, i) # file_block_walk(f, j)
  /\ \A f, g \in Files : f # g => BlocksOf(f) \cap BlocksOf(g) = {}
  /\ ~Formatting => bitmap \cap UNION {BlocksOf(f) : f \in Files} = {}

(* The image that fsformat writes is the one that the server reads.        *)
ImageFaithful == ImageSound /\ ReadsExact
=============================================================================
