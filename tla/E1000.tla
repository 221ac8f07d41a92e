------------------------------- MODULE E1000 --------------------------------
(***************************************************************************)
(* The network card driver (kern/e1000.c): a transmit and a receive ring   *)
(* of descriptors that driver and device share.  The driver moves the tail *)
(* registers, inside system calls that hold the big lock; the device moves *)
(* the head registers whenever it likes.  The device is modelled from what *)
(* the driver programs it to do: it owns the descriptors from head up to,  *)
(* not including, tail, and sets DD when it is done with one.              *)
(***************************************************************************)
EXTENDS Integers, Sequences, FiniteSets

CONSTANTS
  NTXDESC,
  NRXDESC,
  Packet,
  NoPacket

ASSUME RingAssumption == NTXDESC \in Nat \ {0, 1} /\ NRXDESC \in Nat \ {0, 1}
ASSUME PacketAssumption == NoPacket \notin Packet

VARIABLES
  tx_queue,   \* [0 .. NTXDESC - 1 -> [rs : BOOLEAN, dd : BOOLEAN, buf]]
  TDH, TDT,
  wire,       \* the packet the device put on the wire last
  rx_queue,   \* [0 .. NRXDESC - 1 -> [dd : BOOLEAN, buf]]
  RDH, RDT,
  delivered   \* the packet e1000_receive returned last

txVars == <<tx_queue, TDH, TDT, wire>>
rxVars == <<rx_queue, RDH, RDT, delivered>>
vars == <<txVars, rxVars>>

TxInit ==
  /\ tx_queue = [i \in 0 .. NTXDESC - 1 |-> [rs |-> FALSE, dd |-> FALSE, buf |-> NoPacket]]
  /\ TDH = 0 /\ TDT = 0
  /\ wire = NoPacket

(* Variant: the receive tail starts at 0, the device owns no descriptor.   *)
RxInit_TailZero ==
  /\ rx_queue = [i \in 0 .. NRXDESC - 1 |-> [dd |-> FALSE, buf |-> NoPacket]]
  /\ RDH = 0 /\ RDT = 0
  /\ delivered = NoPacket

RxInit ==
  /\ rx_queue = [i \in 0 .. NRXDESC - 1 |-> [dd |-> FALSE, buf |-> NoPacket]]
  /\ RDH = 0 /\ RDT = NRXDESC - 1
  /\ delivered = NoPacket

Init == TxInit /\ RxInit

-----------------------------------------------------------------------------

(* Variants: the driver does not look whether the device is done with the  *)
(* tail descriptor; the tail does not wrap; the device is not told.        *)
Transmit_NoCheck(p) ==
  /\ tx_queue' = [tx_queue EXCEPT ![TDT] = [rs |-> TRUE, dd |-> FALSE, buf |-> p]]
  /\ TDT' = (TDT + 1) % NTXDESC
  /\ UNCHANGED <<TDH, wire, rxVars>>

Transmit_NoWrap(p) ==
  /\ TDT < NTXDESC
  /\ ~(tx_queue[TDT].rs /\ ~tx_queue[TDT].dd)
  /\ tx_queue' = [tx_queue EXCEPT ![TDT] = [rs |-> TRUE, dd |-> FALSE, buf |-> p]]
  /\ TDT' = TDT + 1
  /\ UNCHANGED <<TDH, wire, rxVars>>

Transmit_NoTail(p) ==
  /\ ~(tx_queue[TDT].rs /\ ~tx_queue[TDT].dd)
  /\ tx_queue' = [tx_queue EXCEPT ![TDT] = [rs |-> TRUE, dd |-> FALSE, buf |-> p]]
  /\ UNCHANGED <<TDH, TDT, wire, rxVars>>

(* e1000_transmit, successful.  With a tail descriptor that is used and not*)
(* done it returns -E_TX_FULL, for a long packet -E_PKT_TOO_LARGE, and     *)
(* changes nothing.                                                        *)
Transmit(p) ==
  /\ ~(tx_queue[TDT].rs /\ ~tx_queue[TDT].dd)
  /\ tx_queue' = [tx_queue EXCEPT ![TDT] = [rs |-> TRUE, dd |-> FALSE, buf |-> p]]
  /\ TDT' = (TDT + 1) % NTXDESC
  /\ UNCHANGED <<TDH, wire, rxVars>>

(* The device: head = tail means that there is nothing to send.            *)
DeviceSend ==
  /\ TDH # TDT
  /\ wire' = tx_queue[TDH].buf
  /\ tx_queue' = [tx_queue EXCEPT ![TDH].dd = tx_queue[TDH].rs]
  /\ TDH' = (TDH + 1) % NTXDESC
  /\ UNCHANGED <<TDT, rxVars>>

(* The device: head = tail means that there is no room; the packet is lost.*)
DeviceReceive(p) ==
  /\ RDH # RDT
  /\ rx_queue' = [rx_queue EXCEPT ![RDH] = [dd |-> TRUE, buf |-> p]]
  /\ RDH' = (RDH + 1) % NRXDESC
  /\ UNCHANGED <<RDT, delivered, txVars>>

(* Variants: DD stays set; the driver takes the next but one descriptor.   *)
Receive_KeepDD ==
  LET next == (RDT + 1) % NRXDESC IN
  /\ rx_queue[next].dd
  /\ delivered' = rx_queue[next].buf
  /\ RDT' = next
  /\ UNCHANGED <<rx_queue, RDH, txVars>>

Receive_Skip ==
  LET next == (RDT + 2) % NRXDESC IN
  /\ rx_queue[next].dd
  /\ delivered' = rx_queue[next].buf
  /\ rx_queue' = [rx_queue EXCEPT ![next].dd = FALSE]
  /\ RDT' = next
  /\ UNCHANGED <<RDH, txVars>>

(* e1000_receive, successful; without DD it returns -E_RX_EMPTY.  (The     *)
(* caller's buffer is as long as the device's, so -E_PKT_TOO_LARGE does    *)
(* not happen.)                                                            *)
Receive ==
  LET next == (RDT + 1) % NRXDESC IN
  /\ rx_queue[next].dd
  /\ delivered' = rx_queue[next].buf
  /\ rx_queue' = [rx_queue EXCEPT ![next].dd = FALSE]
  /\ RDT' = next
  /\ UNCHANGED <<RDH, txVars>>

Next ==
  \/ \E p \in Packet : Transmit(p)
  \/ DeviceSend
  \/ \E p \in Packet : DeviceReceive(p)
  \/ Receive

Spec == Init /\ [][Next]_vars

(* The device works on what it owns; net/input.c polls without end.        *)
FairSpec == Spec /\ WF_vars(DeviceSend) /\ WF_vars(Receive)

-----------------------------------------------------------------------------
(* Properties.                                                             *)

TypeOK ==
  /\ tx_queue \in [0 .. NTXDESC - 1 ->
                     [rs : BOOLEAN, dd : BOOLEAN, buf : Packet \cup {NoPacket}]]
  /\ rx_queue \in [0 .. NRXDESC - 1 -> [dd : BOOLEAN, buf : Packet \cup {NoPacket}]]
  /\ TDH \in 0 .. NTXDESC - 1 /\ TDT \in 0 .. NTXDESC - 1
  /\ RDH \in 0 .. NRXDESC - 1 /\ RDT \in 0 .. NRXDESC - 1
  /\ wire \in Packet \cup {NoPacket} /\ delivered \in Packet \cup {NoPacket}

TxPending == {i \in 0 .. NTXDESC - 1 : tx_queue[i].rs /\ ~tx_queue[i].dd}
RxPending == {i \in 0 .. NRXDESC - 1 : rx_queue[i].dd}

(* The transmit ring is a queue of NTXDESC packets: what e1000_transmit    *)
(* accepts goes out once, in order, also when all descriptors are used and *)
(* head and tail meet again.                                               *)
Tx == INSTANCE BoundedQueue WITH
  Item <- Packet, Capacity <- NTXDESC, last <- wire,
  queue <- [k \in 1 .. Cardinality(TxPending) |-> tx_queue[(TDH + k - 1) % NTXDESC].buf]

TxIsQueue == Tx!Spec

(* The receive ring is a queue of NRXDESC - 1 packets: e1000_receive       *)
(* returns what the device stored, once, in order, and the device never    *)
(* stores over a packet that has not been returned.                        *)
Rx == INSTANCE BoundedQueue WITH
  Item <- Packet, Capacity <- NRXDESC - 1, last <- delivered,
  queue <- [k \in 1 .. Cardinality(RxPending) |-> rx_queue[(RDT + k) % NRXDESC].buf]

RxIsQueue == Rx!Spec

(* The device drops a packet only when NRXDESC - 1 wait for the driver.    *)
DropOnlyWhenFull == RDH = RDT => Cardinality(RxPending) = NRXDESC - 1

(* Heads and tails stay in their rings, and the device does not take a     *)
(* ring for full that is not.                                              *)
RingsSound == TypeOK /\ DropOnlyWhenFull

(* A packet that e1000_transmit accepted is sent in the end.               *)
TxDrains == \A i \in 0 .. NTXDESC - 1 : i \in TxPending ~> i \notin TxPending

(* A packet that e1000_transmit accepted is sent in the end, as long as    *)
(* the driver leaves the device one descriptor: filled completely, the     *)
(* ring looks empty to the device (TDT = TDH), which then stops for ever.  *)
TxDrainsUnlessFull == [](Cardinality(TxPending) < NTXDESC) => TxDrains

(* A packet that was received is returned in the end.                      *)
RxDrains == \A i \in 0 .. NRXDESC - 1 : i \in RxPending ~> i \notin RxPending

(* Both rings drain, the one of the transmitter under its condition.       *)
RingsDrain == TxDrainsUnlessFull /\ RxDrains
=============================================================================
