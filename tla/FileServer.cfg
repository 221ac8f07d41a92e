SPECIFICATION FairSpec
CONSTANTS
  BLKSIZE = 2
  NDIRECT = 1
  NINDIRECT = 2
  BLKFILES = 1
  nblocks = 15
  Argv <- Command
  Booted <- BootedSizes
  Missing = {"none"}
  Sizes = {0, 1, 2, 3, 4, 5}
  c1 = c1
  c2 = c2
  May <- Calls
  Client = {c1, c2}
  First = c1
  MAXOPEN = 2
  MAXFD = 2
  IdMod = 8
  BufSize = 3
  Counts = {3}
  Junk = 3
  Nil = Nil
INVARIANTS ImageFaithful DescriptorsGood
PROPERTIES ImplementsOpenFiles Answered
CHECK_DEADLOCK FALSE
