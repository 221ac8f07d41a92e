CONSTANTS
  NTXDESC = 3
  NRXDESC = 3
  Packet = {p1, p2}
  NoPacket = NoPacket
SPECIFICATION FairSpec
INVARIANTS RingsSound
PROPERTIES TxIsQueue RxIsQueue RingsDrain
