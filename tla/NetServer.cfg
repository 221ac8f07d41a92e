CONSTANTS
  c1 = c1
  c2 = c2
  Client = {c1, c2}
  First = c1
  Thread <- MCThread
  May <- MCMay
  NSEM = 5
  NMBOX = 2
  MBOXSLOTS = 1
  QUEUE_SIZE = 3
  MaxYields = 4
  MaxPackets = 3
  MaxSockets = 2
SPECIFICATION FairSpec
INVARIANTS AllCounted NoWorkLeft OneAhead 
PROPERTIES LostOnlyBy InOrder ListensAgain
CHECK_DEADLOCK FALSE
