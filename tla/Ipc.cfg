CONSTANTS
  Env = {e1, e2, e3}
  Sender = {e1, e2, e3}
  Receiver = {e1}
  Value = {v1}
  Page = {p1}
  Buf = {b1, b2}
  NoPage = NoPage
  BadPage = BadPage
  Nil = Nil
CHECK_DEADLOCK FALSE
SPECIFICATION FairSpec
PROPERTIES RendezvousOrTorn SendReachesReceiver
