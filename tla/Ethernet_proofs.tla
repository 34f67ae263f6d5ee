--------------------------- MODULE Ethernet_proofs ---------------------------
(***************************************************************************)
(* Proofs about Ethernet, for any mailbox, frames and memory of the chip.  *)
(***************************************************************************)
EXTENDS Ethernet, TLAPS

(* Packets moved to the chip whose sem_ack is not taken yet.                *)
Moved == IF etx \in {"unmask", "ack"} THEN 1 ELSE 0

(* sem_ack counts against packet_cnt: the thread moves a packet only when   *)
(* at most one is before it, and even a completion that the receiving       *)
(* thread clears, or a reset, does not set it ahead.                        *)
AckAgrees == sem_ack + packet_cnt = 1 + Moved

(* A packet the chip sends, or has sent without the handler's knowledge.    *)
InFlight == sending # {} \/ "PTS" \in ISR \/ "PTS" \in status

(* One packet is in flight, and packet_cnt counts it and the one behind it, *)
(* whose length queue_packet_len is.                                        *)
Flight ==
  /\ sending # {} => "PTS" \notin ISR /\ "PTS" \notin status
  /\ InFlight => packet_cnt = 1 + Len(ram)
  /\ ram = <<>> \/ (packet_cnt = 2 /\ ram = <<queue_packet_len>>)

RxHolds == IF erx \in {"check", "clear", "restore", "unmask", "spin"} THEN 1 ELSE 0
TxHolds == IF etx \in {"move", "unmask"} THEN 1 ELSE 0

(* sem_lock lets one thread in.                                             *)
LockAgrees == sem_lock + RxHolds + TxHolds = 1

(* The handler masks receptions only with a message to the thread, which    *)
(* enables them again before it waits for the next one.                     *)
MaskedForThread ==
  "PRS" \notin imr_all => rxmb > 0 \/ erx \notin {"recv", "unmask"}

(* A frame is latched until the handler has told the thread, or the thread  *)
(* is yet to look.                                                          *)
Latched ==
  ~upset /\ rx > 0
    => rxmb > 0 \/ "PRS" \in status \/ "PRS" \in ISR
       \/ erx \notin {"recv", "clear", "restore", "unmask"}

Taken == etx \in {"lock", "move"} => msg \in Senders

IInv ==
  /\ TypeOK /\ AckAgrees /\ Flight /\ LockAgrees /\ OwnLength
  /\ MaskedForThread /\ Latched /\ Taken

-----------------------------------------------------------------------------

LEMMA InitIInv == Init => IInv
<1> SUFFICES ASSUME Init PROVE IInv
  OBVIOUS
<1>1. TypeOK
  <2>1. rxon \in BOOLEAN /\ upset \in BOOLEAN
    BY Zenon DEF Init
  <2>2. status \in (SUBSET Bits) \cup {NoStatus}
    BY DEF Init
  <2>3. /\ rx \in 0..FifoMax /\ rxmb \in 0..MboxMax /\ Len(txmb) <= MboxMax
        /\ ram \in Seq(Senders) /\ txmb \in Seq(Senders) /\ waiters \in Seq(Senders)
    BY EthernetAssumption DEF Init
  <2>4. /\ ISR \subseteq Bits /\ IMR \subseteq Bits /\ imr_all \subseteq Bits
        /\ sending \subseteq [data : Senders, len : Senders]
        /\ packet_cnt \in 0..2 /\ sem_lock \in 0..1 /\ sem_ack \in 0..2 /\ tx_ack \in Nat
        /\ queue_packet_len \in Senders \cup {NoPacket} /\ msg \in Senders \cup {NoPacket}
    BY DEF Init
  <2>5. /\ erx \in RxAt /\ etx \in TxAt
        /\ out \in [Senders -> {"idle", "posted", "waiting"}]
    BY DEF Init, RxAt, TxAt
  <2> QED
    BY <2>1, <2>2, <2>3, <2>4, <2>5 DEF TypeOK
<1>2. AckAgrees /\ LockAgrees
  BY DEF Init, AckAgrees, LockAgrees, Moved, RxHolds, TxHolds
<1>3. Flight /\ OwnLength
  BY DEF Init, Flight, InFlight, OwnLength, NoStatus
<1>4. MaskedForThread /\ Latched /\ Taken
  BY DEF Init, MaskedForThread, Latched, Taken, Bits
<1> QED
  BY <1>1, <1>2, <1>3, <1>4 DEF IInv


LEMMA ChipIInv ==
  ASSUME IInv, FrameArrives \/ PacketSent \/ IsrReads
  PROVE  IInv'
<1>1. CASE FrameArrives
  <2>1. TypeOK'
    BY <1>1, EthernetAssumption DEF FrameArrives, IInv, TypeOK, Bits, driver,
       netif
  <2>2. AckAgrees' /\ LockAgrees'
    BY <1>1 DEF FrameArrives, IInv, TypeOK, AckAgrees, LockAgrees, Moved,
       RxHolds, TxHolds, driver, netif
  <2>3. Flight' /\ OwnLength'
    BY <1>1 DEF FrameArrives, IInv, TypeOK, Flight, InFlight, OwnLength,
       NoStatus, driver, netif
  <2>4. MaskedForThread' /\ Latched' /\ Taken'
    BY <1>1 DEF FrameArrives, IInv, TypeOK, MaskedForThread, Latched, Taken,
       NoStatus, driver, netif
  <2> QED
    BY <2>1, <2>2, <2>3, <2>4 DEF IInv
<1>2. CASE PacketSent
  <2>1. TypeOK'
    BY <1>2 DEF PacketSent, IInv, TypeOK, Bits, driver, netif
  <2>2. AckAgrees' /\ LockAgrees'
    BY <1>2 DEF PacketSent, IInv, TypeOK, AckAgrees, LockAgrees, Moved,
       RxHolds, TxHolds, driver, netif
  <2>3. Flight' /\ OwnLength'
    BY <1>2 DEF PacketSent, IInv, TypeOK, Flight, InFlight, OwnLength,
       NoStatus, driver, netif
  <2>4. MaskedForThread' /\ Latched' /\ Taken'
    BY <1>2 DEF PacketSent, IInv, TypeOK, MaskedForThread, Latched, Taken,
       NoStatus, driver, netif
  <2> QED
    BY <2>1, <2>2, <2>3, <2>4 DEF IInv
<1>3. CASE IsrReads
  <2>1. TypeOK'
    BY <1>3 DEF IsrReads, IInv, TypeOK, Bits, NoStatus, chip, driver, netif
  <2>2. AckAgrees' /\ LockAgrees'
    BY <1>3 DEF IsrReads, IInv, TypeOK, AckAgrees, LockAgrees, Moved, RxHolds,
       TxHolds, chip, driver, netif
  <2>3. Flight' /\ OwnLength'
    BY <1>3 DEF IsrReads, IInv, TypeOK, Flight, InFlight, OwnLength, NoStatus,
       chip, driver, netif
  <2>4. MaskedForThread' /\ Latched' /\ Taken'
    BY <1>3 DEF IsrReads, IInv, TypeOK, MaskedForThread, Latched, Taken,
       NoStatus, chip, driver, netif
  <2> QED
    BY <2>1, <2>2, <2>3, <2>4 DEF IInv
<1> QED
  BY <1>1, <1>2, <1>3


LEMMA TransmitIInv ==
  ASSUME IInv, Transmit \/ TxLocks
  PROVE  IInv'
<1>1. CASE TxTakesMessage
  <2>1. TypeOK'
    BY <1>1, EthernetAssumption DEF TxTakesMessage, IInv, TypeOK, TxAt, chip, driver
  <2>2. AckAgrees' /\ LockAgrees'
    BY <1>1 DEF TxTakesMessage, IInv, TypeOK, AckAgrees, LockAgrees, Moved,
       RxHolds, TxHolds, chip, driver
  <2>3. Flight' /\ OwnLength'
    BY <1>1 DEF TxTakesMessage, IInv, Flight, InFlight, OwnLength, ThreadRuns,
       CpuFree, NoStatus, chip, driver
  <2>4. MaskedForThread' /\ Latched' /\ Taken'
    BY <1>1 DEF TxTakesMessage, IInv, TypeOK, MaskedForThread, Latched, Taken,
       NoStatus, chip, driver
  <2> QED
    BY <2>1, <2>2, <2>3, <2>4 DEF IInv
<1>2. CASE TxLocks
  <2>1. TypeOK'
    BY <1>2 DEF TxLocks, IInv, TypeOK, LockAgrees, RxHolds, TxHolds, TxAt,
       Bits, netif
  <2>2. AckAgrees' /\ LockAgrees'
    BY <1>2 DEF TxLocks, IInv, TypeOK, AckAgrees, LockAgrees, Moved, RxHolds,
       TxHolds, netif
  <2>3. Flight' /\ OwnLength'
    BY <1>2 DEF TxLocks, IInv, TypeOK, Flight, InFlight, OwnLength,
       ThreadRuns, CpuFree, NoStatus, netif
  <2>4. MaskedForThread' /\ Latched' /\ Taken'
    BY <1>2 DEF TxLocks, IInv, TypeOK, MaskedForThread, Latched, Taken,
       NoStatus, netif
  <2> QED
    BY <2>1, <2>2, <2>3, <2>4 DEF IInv
<1>3. CASE TxMoves
  <2>1. /\ msg \in Senders /\ packet_cnt \in {0, 1} /\ packet_cnt' = packet_cnt + 1
        /\ ram = <<>> /\ status = NoStatus /\ (InFlight => packet_cnt = 1)
    BY <1>3 DEF TxMoves, IInv, TypeOK, AckAgrees, Moved, Taken, Flight, InFlight,
       ThreadRuns, CpuFree
  <2>2. ASSUME packet_cnt = 0 PROVE TypeOK' /\ Flight' /\ OwnLength'
    <3>1. /\ sending' = {[data |-> msg, len |-> msg]} /\ ram' = <<>>
          /\ UNCHANGED <<ISR, IMR, status, queue_packet_len>> /\ ~InFlight
      BY <1>3, <2>1, <2>2 DEF TxMoves, Request
    <3>2. TypeOK'
      BY <1>3, <2>1, <2>2, <3>1 DEF TxMoves, IInv, TypeOK, TxAt, netif
    <3>3. Flight' /\ OwnLength'
      <4>1. packet_cnt' = 1 /\ Len(ram') = 0 /\ "PTS" \notin ISR' /\ "PTS" \notin status'
        BY <2>1, <2>2, <3>1 DEF InFlight
      <4>2. OwnLength'
        BY <3>1 DEF OwnLength
      <4> QED
        BY <3>1, <4>1, <4>2 DEF Flight
    <3> QED
      BY <3>2, <3>3
  <2>3. ASSUME packet_cnt = 1 PROVE TypeOK' /\ Flight' /\ OwnLength'
    <3>1. /\ ram' = <<msg>> /\ queue_packet_len' = msg
          /\ UNCHANGED <<ISR, IMR, status, sending>>
      BY <1>3, <2>1, <2>3 DEF TxMoves
    <3>2. TypeOK'
      BY <1>3, <2>1, <2>3, <3>1 DEF TxMoves, IInv, TypeOK, TxAt, netif
    <3>3. Flight' /\ OwnLength'
      <4>1. packet_cnt' = 2 /\ Len(ram') = 1 /\ ram' = <<queue_packet_len'>>
        BY <2>1, <2>3, <3>1
      <4>2. OwnLength'
        BY <3>1 DEF IInv, OwnLength
      <4>3. /\ sending' # {} => "PTS" \notin ISR' /\ "PTS" \notin status'
        BY <3>1 DEF IInv, Flight
      <4> QED
        BY <4>1, <4>2, <4>3 DEF Flight
    <3> QED
      BY <3>2, <3>3
  <2>4. AckAgrees' /\ LockAgrees'
    BY <1>3 DEF TxMoves, IInv, TypeOK, AckAgrees, LockAgrees, Moved, RxHolds,
       TxHolds, netif
  <2>5. MaskedForThread' /\ Latched' /\ Taken'
    BY <1>3 DEF TxMoves, IInv, TypeOK, MaskedForThread, Latched, Taken,
       NoStatus, netif
  <2> QED
    BY <2>1, <2>2, <2>3, <2>4, <2>5 DEF IInv
<1>4. CASE TxUnlocks
  <2>1. TypeOK'
    BY <1>4 DEF TxUnlocks, IInv, TypeOK, LockAgrees, RxHolds, TxHolds, TxAt,
       Bits, netif
  <2>2. AckAgrees' /\ LockAgrees'
    BY <1>4 DEF TxUnlocks, IInv, TypeOK, AckAgrees, LockAgrees, Moved,
       RxHolds, TxHolds, netif
  <2>3. Flight' /\ OwnLength'
    BY <1>4 DEF TxUnlocks, IInv, TypeOK, Flight, InFlight, OwnLength,
       ThreadRuns, CpuFree, NoStatus, netif
  <2>4. MaskedForThread' /\ Latched' /\ Taken'
    BY <1>4 DEF TxUnlocks, IInv, TypeOK, MaskedForThread, Latched, Taken,
       NoStatus, netif
  <2> QED
    BY <2>1, <2>2, <2>3, <2>4 DEF IInv
<1>5. CASE TxAcks
  <2>1. TypeOK'
    <3>1. /\ waiters' \in Seq(Senders) /\ tx_ack' \in Nat
          /\ out' \in [Senders -> {"idle", "posted", "waiting"}]
      <4>1. CASE waiters = <<>>
        BY <1>5, <4>1 DEF TxAcks, IInv, TypeOK
      <4>2. CASE waiters # <<>>
        <5>1. Head(waiters) \in Senders /\ Tail(waiters) \in Seq(Senders)
          BY <4>2 DEF IInv, TypeOK
        <5> QED
          BY <1>5, <4>2, <5>1 DEF TxAcks, IInv, TypeOK
      <4> QED
        BY <4>1, <4>2
    <3>2. sem_ack' \in 0..2 /\ etx' \in TxAt
      BY <1>5 DEF TxAcks, IInv, TypeOK, TxAt
    <3> QED
      BY <3>1, <3>2, <1>5 DEF TxAcks, IInv, TypeOK, chip
  <2>2. AckAgrees' /\ LockAgrees'
    BY <1>5 DEF TxAcks, IInv, TypeOK, AckAgrees, LockAgrees, Moved, RxHolds,
       TxHolds, chip
  <2>3. Flight' /\ OwnLength'
    BY <1>5 DEF TxAcks, IInv, TypeOK, Flight, InFlight, OwnLength, ThreadRuns,
       CpuFree, NoStatus, chip
  <2>4. MaskedForThread' /\ Latched' /\ Taken'
    BY <1>5 DEF TxAcks, IInv, TypeOK, MaskedForThread, Latched, Taken,
       NoStatus, chip
  <2> QED
    BY <2>1, <2>2, <2>3, <2>4 DEF IInv
<1> QED
  BY <1>1, <1>2, <1>3, <1>4, <1>5 DEF Transmit


LEMMA ReceiveIInv ==
  ASSUME IInv, Receive \/ RxLocks
  PROVE  IInv'
<1>1. CASE RxTakesMessage
  <2>1. TypeOK'
    BY <1>1, EthernetAssumption DEF RxTakesMessage, IInv, TypeOK, RxAt, chip, driver, netif
  <2>2. AckAgrees' /\ LockAgrees'
    BY <1>1 DEF RxTakesMessage, IInv, TypeOK, AckAgrees, LockAgrees, Moved,
       RxHolds, TxHolds, chip, driver, netif
  <2>3. Flight' /\ OwnLength'
    BY <1>1 DEF RxTakesMessage, IInv, TypeOK, Flight, InFlight, OwnLength,
       ThreadRuns, CpuFree, NoStatus, chip, driver, netif
  <2>4. MaskedForThread' /\ Latched' /\ Taken'
    BY <1>1 DEF RxTakesMessage, IInv, TypeOK, MaskedForThread, Latched, Taken,
       NoStatus, chip, driver, netif
  <2> QED
    BY <2>1, <2>2, <2>3, <2>4 DEF IInv
<1>2. CASE RxLocks
  <2>1. TypeOK'
    BY <1>2 DEF RxLocks, IInv, TypeOK, LockAgrees, RxHolds, TxHolds, RxAt,
       Bits, chip, netif
  <2>2. AckAgrees' /\ LockAgrees'
    BY <1>2 DEF RxLocks, IInv, TypeOK, AckAgrees, LockAgrees, Moved, RxHolds,
       TxHolds, chip, netif
  <2>3. Flight' /\ OwnLength'
    BY <1>2 DEF RxLocks, IInv, TypeOK, Flight, InFlight, OwnLength,
       ThreadRuns, CpuFree, NoStatus, chip, netif
  <2>4. MaskedForThread' /\ Latched' /\ Taken'
    BY <1>2 DEF RxLocks, IInv, TypeOK, MaskedForThread, Latched, Taken,
       NoStatus, chip, netif
  <2> QED
    BY <2>1, <2>2, <2>3, <2>4 DEF IInv
<1>3. CASE RxFindsNone
  <2>1. TypeOK'
    BY <1>3 DEF RxFindsNone, IInv, TypeOK, RxAt, chip, driver, netif
  <2>2. AckAgrees' /\ LockAgrees'
    BY <1>3 DEF RxFindsNone, IInv, TypeOK, AckAgrees, LockAgrees, Moved,
       RxHolds, TxHolds, chip, driver, netif
  <2>3. Flight' /\ OwnLength'
    BY <1>3 DEF RxFindsNone, IInv, TypeOK, Flight, InFlight, OwnLength,
       ThreadRuns, CpuFree, NoStatus, chip, driver, netif
  <2>4. MaskedForThread' /\ Latched' /\ Taken'
    BY <1>3 DEF RxFindsNone, IInv, TypeOK, MaskedForThread, Latched, Taken,
       NoStatus, chip, driver, netif
  <2> QED
    BY <2>1, <2>2, <2>3, <2>4 DEF IInv
<1>4. CASE RxFrame
  <2>1. TypeOK'
    BY <1>4, EthernetAssumption DEF RxFrame, IInv, TypeOK, LockAgrees, RxHolds, TxHolds, RxAt,
       Bits, RxReads, netif
  <2>2. AckAgrees' /\ LockAgrees'
    BY <1>4 DEF RxFrame, IInv, TypeOK, AckAgrees, LockAgrees, Moved, RxHolds,
       TxHolds, RxReads, netif
  <2>3. Flight' /\ OwnLength'
    BY <1>4 DEF RxFrame, IInv, TypeOK, Flight, InFlight, OwnLength, RxReads,
       ThreadRuns, CpuFree, NoStatus, netif
  <2>4. MaskedForThread' /\ Latched' /\ Taken'
    BY <1>4 DEF RxFrame, IInv, TypeOK, MaskedForThread, Latched, Taken,
       NoStatus, RxReads, netif
  <2> QED
    BY <2>1, <2>2, <2>3, <2>4 DEF IInv
<1>5. CASE RxError
  <2>1. TypeOK'
    BY <1>5, EthernetAssumption DEF RxError, IInv, TypeOK, Bits, RxReads, driver, netif
  <2>2. AckAgrees' /\ LockAgrees'
    BY <1>5 DEF RxError, IInv, TypeOK, AckAgrees, LockAgrees, Moved, RxHolds,
       TxHolds, RxReads, driver, netif
  <2>3. Flight' /\ OwnLength'
    BY <1>5 DEF RxError, IInv, TypeOK, Flight, InFlight, OwnLength, RxReads,
       ThreadRuns, CpuFree, NoStatus, driver, netif
  <2>4. MaskedForThread' /\ Latched' /\ Taken'
    BY <1>5 DEF RxError, IInv, TypeOK, MaskedForThread, Latched, Taken,
       NoStatus, RxReads, driver, netif
  <2> QED
    BY <2>1, <2>2, <2>3, <2>4 DEF IInv
<1>6. CASE RxStop
  <2>1. TypeOK'
    <3>1. rxon' \in BOOLEAN /\ upset' \in BOOLEAN
      BY <1>6, Zenon DEF RxStop
    <3> QED
      BY <3>1, <1>6, EthernetAssumption DEF RxStop, IInv, TypeOK, Bits, RxReads, driver,
         netif
  <2>2. AckAgrees' /\ LockAgrees'
    BY <1>6 DEF RxStop, IInv, TypeOK, AckAgrees, LockAgrees, Moved, RxHolds,
       TxHolds, RxReads, driver, netif
  <2>3. Flight' /\ OwnLength'
    BY <1>6 DEF RxStop, IInv, TypeOK, Flight, InFlight, OwnLength, RxReads,
       ThreadRuns, CpuFree, NoStatus, driver, netif
  <2>4. MaskedForThread' /\ Latched' /\ Taken'
    BY <1>6 DEF RxStop, IInv, TypeOK, MaskedForThread, Latched, Taken,
       NoStatus, RxReads, driver, netif
  <2> QED
    BY <2>1, <2>2, <2>3, <2>4 DEF IInv
<1>7. CASE RxReset
  <2>1. TypeOK'
    <3>1. rxon' \in BOOLEAN /\ upset' \in BOOLEAN
      BY <1>7, Zenon DEF RxReset
    <3> QED
      BY <3>1, <1>7, EthernetAssumption DEF RxReset, IInv, TypeOK, Bits, RxReads, driver,
         netif
  <2>2. AckAgrees' /\ LockAgrees'
    BY <1>7 DEF RxReset, IInv, TypeOK, AckAgrees, LockAgrees, Moved, RxHolds,
       TxHolds, RxReads, driver, netif
  <2>3. Flight' /\ OwnLength'
    BY <1>7 DEF RxReset, IInv, TypeOK, Flight, InFlight, OwnLength, RxReads,
       ThreadRuns, CpuFree, NoStatus, driver, netif
  <2>4. MaskedForThread' /\ Latched' /\ Taken'
    BY <1>7 DEF RxReset, IInv, TypeOK, MaskedForThread, Latched, Taken,
       NoStatus, RxReads, driver, netif
  <2> QED
    BY <2>1, <2>2, <2>3, <2>4 DEF IInv
<1>8. CASE RxSpins
  <2>1. TypeOK'
    BY <1>8 DEF RxSpins, IInv, TypeOK, RxAt, RxReads, chip, driver, netif
  <2>2. AckAgrees' /\ LockAgrees'
    BY <1>8 DEF RxSpins, IInv, TypeOK, AckAgrees, LockAgrees, Moved, RxHolds,
       TxHolds, RxReads, chip, driver, netif
  <2>3. Flight' /\ OwnLength'
    BY <1>8 DEF RxSpins, IInv, TypeOK, Flight, InFlight, OwnLength, RxReads,
       ThreadRuns, CpuFree, NoStatus, chip, driver, netif
  <2>4. MaskedForThread' /\ Latched' /\ Taken'
    BY <1>8 DEF RxSpins, IInv, TypeOK, MaskedForThread, Latched, Taken,
       NoStatus, RxReads, chip, driver, netif
  <2> QED
    BY <2>1, <2>2, <2>3, <2>4 DEF IInv
<1>9. CASE RxClears
  <2>1. TypeOK'
    BY <1>9 DEF RxClears, IInv, TypeOK, RxAt, Bits, driver, netif
  <2>2. AckAgrees' /\ LockAgrees'
    BY <1>9 DEF RxClears, IInv, TypeOK, AckAgrees, LockAgrees, Moved, RxHolds,
       TxHolds, driver, netif
  <2>3. Flight' /\ OwnLength'
    BY <1>9 DEF RxClears, IInv, TypeOK, Flight, InFlight, OwnLength,
       ThreadRuns, CpuFree, NoStatus, driver, netif
  <2>4. MaskedForThread' /\ Latched' /\ Taken'
    BY <1>9 DEF RxClears, IInv, TypeOK, MaskedForThread, Latched, Taken,
       NoStatus, driver, netif
  <2> QED
    BY <2>1, <2>2, <2>3, <2>4 DEF IInv
<1>10. CASE RxRestores
  <2>1. TypeOK'
    BY <1>10 DEF RxRestores, IInv, TypeOK, RxAt, Bits, chip, netif
  <2>2. AckAgrees' /\ LockAgrees'
    BY <1>10 DEF RxRestores, IInv, TypeOK, AckAgrees, LockAgrees, Moved,
       RxHolds, TxHolds, chip, netif
  <2>3. Flight' /\ OwnLength'
    BY <1>10 DEF RxRestores, IInv, TypeOK, Flight, InFlight, OwnLength,
       ThreadRuns, CpuFree, NoStatus, chip, netif
  <2>4. MaskedForThread' /\ Latched' /\ Taken'
    BY <1>10 DEF RxRestores, IInv, TypeOK, MaskedForThread, Latched, Taken,
       Bits, NoStatus, chip, netif
  <2> QED
    BY <2>1, <2>2, <2>3, <2>4 DEF IInv
<1>11. CASE RxUnmasks
  <2>1. TypeOK'
    BY <1>11 DEF RxUnmasks, IInv, TypeOK, LockAgrees, RxHolds, TxHolds, RxAt,
       Bits, netif
  <2>2. AckAgrees' /\ LockAgrees'
    BY <1>11 DEF RxUnmasks, IInv, TypeOK, AckAgrees, LockAgrees, Moved,
       RxHolds, TxHolds, netif
  <2>3. Flight' /\ OwnLength'
    BY <1>11 DEF RxUnmasks, IInv, TypeOK, Flight, InFlight, OwnLength,
       ThreadRuns, CpuFree, NoStatus, netif
  <2>4. MaskedForThread' /\ Latched' /\ Taken'
    BY <1>11 DEF RxUnmasks, IInv, TypeOK, MaskedForThread, Latched, Taken,
       Bits, NoStatus, netif
  <2> QED
    BY <2>1, <2>2, <2>3, <2>4 DEF IInv
<1>12. CASE RxInput
  <2>1. TypeOK'
    BY <1>12, EthernetAssumption DEF RxInput, IInv, TypeOK, RxAt, chip,
       driver, netif
  <2>2. AckAgrees' /\ LockAgrees'
    BY <1>12 DEF RxInput, IInv, TypeOK, AckAgrees, LockAgrees, Moved, RxHolds,
       TxHolds, chip, driver, netif
  <2>3. Flight' /\ OwnLength'
    BY <1>12 DEF RxInput, IInv, TypeOK, Flight, InFlight, OwnLength,
       ThreadRuns, CpuFree, NoStatus, chip, driver, netif
  <2>4. MaskedForThread' /\ Latched' /\ Taken'
    BY <1>12 DEF RxInput, IInv, TypeOK, MaskedForThread, Latched, Taken,
       NoStatus, chip, driver, netif
  <2> QED
    BY <2>1, <2>2, <2>3, <2>4 DEF IInv
<1> QED
  BY <1>1, <1>2, <1>3, <1>4, <1>5, <1>6, <1>7, <1>8, <1>9, <1>10, <1>11,
     <1>12 DEF Receive

(* The handler: only here a second packet is requested.                     *)
LEMMA HandlerIInv ==
  ASSUME IInv, rt_dm9000_isr
  PROVE  IInv'
<1>1. /\ status' = NoStatus /\ ISR' = ISR \ status
      /\ UNCHANGED <<rx, rxon, queue_packet_len, sem_lock, netif, erx, etx, upset>>
  BY DEF rt_dm9000_isr
<1>2. /\ IMR' \subseteq Bits /\ imr_all' \subseteq Bits /\ rxmb' \in 0..MboxMax
      /\ "PRS" \in status => rxmb' > 0
      /\ "PRS" \notin status => UNCHANGED <<imr_all, IMR, rxmb>>
  <2>1. CASE "PRS" \in status
    BY <2>1, EthernetAssumption DEF rt_dm9000_isr, IsrReceived, IInv, TypeOK, Bits
  <2>2. CASE "PRS" \notin status
    BY <2>2 DEF rt_dm9000_isr, IsrReceived, IInv, TypeOK
  <2> QED
    BY <2>1, <2>2
<1>3. CASE "PTS" \in status /\ packet_cnt > 1
  <2>1. /\ packet_cnt = 2 /\ ram = <<queue_packet_len>> /\ sending = {}
        /\ queue_packet_len \in Senders
    BY <1>3 DEF IInv, TypeOK, Flight, InFlight
  <2>2. /\ sending' = {[data |-> queue_packet_len, len |-> queue_packet_len]}
        /\ ram' = <<>> /\ packet_cnt' = 1 /\ sem_ack' = sem_ack + 1
    BY <1>3, <2>1 DEF rt_dm9000_isr, IsrSent, Request
  <2>3. AckAgrees' /\ LockAgrees'
    BY <1>1, <2>1, <2>2 DEF IInv, TypeOK, AckAgrees, LockAgrees, Moved, RxHolds, TxHolds
  <2>4. TypeOK'
    BY <1>1, <1>2, <2>1, <2>2, <2>3 DEF IInv, TypeOK, AckAgrees, Moved, netif
  <2>5. Flight' /\ OwnLength'
    BY <1>1, <1>3, <2>2 DEF Flight, InFlight, OwnLength, NoStatus
  <2> QED
    BY <1>1, <1>2, <2>3, <2>4, <2>5
       DEF IInv, MaskedForThread, Latched, Taken, netif
<1>4. CASE "PTS" \in status /\ ~(packet_cnt > 1)
  <2>1. packet_cnt = 1 /\ ram = <<>> /\ sending = {}
    BY <1>4 DEF IInv, TypeOK, Flight, InFlight
  <2>2. packet_cnt' = 0 /\ sem_ack' = sem_ack + 1 /\ UNCHANGED <<ram, sending>>
    BY <1>4, <2>1 DEF rt_dm9000_isr, IsrSent
  <2>3. AckAgrees' /\ LockAgrees'
    BY <1>1, <2>1, <2>2 DEF IInv, TypeOK, AckAgrees, LockAgrees, Moved, RxHolds, TxHolds
  <2>4. TypeOK'
    BY <1>1, <1>2, <2>1, <2>2, <2>3 DEF IInv, TypeOK, AckAgrees, Moved, netif
  <2>5. Flight' /\ OwnLength'
    BY <1>1, <1>4, <2>1, <2>2 DEF Flight, InFlight, OwnLength, NoStatus
  <2> QED
    BY <1>1, <1>2, <2>3, <2>4, <2>5
       DEF IInv, MaskedForThread, Latched, Taken, netif
<1>5. CASE "PTS" \notin status
  <2>1. UNCHANGED <<packet_cnt, sem_ack, ram, sending>>
    BY <1>5 DEF rt_dm9000_isr, IsrSent
  <2>2. TypeOK' /\ AckAgrees' /\ LockAgrees'
    BY <1>1, <1>2, <2>1
       DEF IInv, TypeOK, AckAgrees, LockAgrees, Moved, RxHolds, TxHolds, netif
  <2>3. Flight' /\ OwnLength'
    BY <1>1, <1>5, <2>1 DEF IInv, Flight, InFlight, OwnLength, NoStatus
  <2> QED
    BY <1>1, <1>2, <2>2, <2>3
       DEF IInv, MaskedForThread, Latched, Taken, netif
<1> QED
  BY <1>3, <1>4, <1>5

LEMMA SendIInv ==
  ASSUME IInv, NEW s \in Senders, Post(s) \/ AwaitAck(s)
  PROVE  IInv'
<1>1. /\ UNCHANGED <<chip, status, driver, rxmb, msg, erx, etx, upset>>
      /\ txmb' \in Seq(Senders) /\ Len(txmb') <= MboxMax
      /\ tx_ack' \in Nat /\ waiters' \in Seq(Senders)
      /\ out' \in [Senders -> {"idle", "posted", "waiting"}]
  <2>1. CASE Post(s)
    <3>1. txmb' = Append(txmb, s) /\ Len(txmb) < MboxMax /\ txmb \in Seq(Senders)
      BY <2>1 DEF Post, IInv, TypeOK
    <3>2. txmb' \in Seq(Senders) /\ Len(txmb') <= MboxMax
      BY <3>1, EthernetAssumption
    <3>3. out' \in [Senders -> {"idle", "posted", "waiting"}]
      BY <2>1 DEF Post, IInv, TypeOK
    <3>4. tx_ack' \in Nat /\ waiters' \in Seq(Senders)
      BY <2>1 DEF Post, IInv, TypeOK
    <3> QED
      BY <2>1, <3>2, <3>3, <3>4 DEF Post
  <2>2. CASE AwaitAck(s)
    <3>1. CASE tx_ack > 0
      BY <2>2, <3>1 DEF AwaitAck, IInv, TypeOK
    <3>2. CASE tx_ack = 0
      <4>1. waiters' = Append(waiters, s) /\ waiters \in Seq(Senders)
        BY <2>2, <3>2 DEF AwaitAck, IInv, TypeOK
      <4>2. out' \in [Senders -> {"idle", "posted", "waiting"}]
        BY <2>2, <3>2 DEF AwaitAck, IInv, TypeOK
      <4> QED
        BY <2>2, <3>2, <4>1, <4>2 DEF AwaitAck, IInv, TypeOK
    <3> QED
      BY <3>1, <3>2 DEF IInv, TypeOK
  <2> QED
    BY <2>1, <2>2
<1>2. TypeOK' /\ AckAgrees' /\ LockAgrees'
  BY <1>1 DEF IInv, TypeOK, AckAgrees, LockAgrees, Moved, RxHolds, TxHolds, chip, driver
<1>3. Flight' /\ OwnLength'
  BY <1>1 DEF IInv, Flight, InFlight, OwnLength, chip, driver
<1> QED
  BY <1>1, <1>2, <1>3
     DEF IInv, MaskedForThread, Latched, Taken, chip, driver

LEMMA NextIInv == IInv /\ [Next]_vars => IInv'
<1>1. ASSUME IInv, Next PROVE IInv'
  BY <1>1, ChipIInv, HandlerIInv, TransmitIInv, ReceiveIInv, SendIInv
     DEF Next, Chip, Interrupt
<1>2. ASSUME IInv, UNCHANGED vars PROVE IInv'
  <2>1. TypeOK' /\ AckAgrees' /\ LockAgrees'
    BY <1>2 DEF vars, chip, driver, netif, IInv, TypeOK, AckAgrees, LockAgrees, Moved,
       RxHolds, TxHolds
  <2> QED
    BY <1>2, <2>1 DEF vars, chip, driver, netif, IInv, Flight, InFlight, OwnLength,
       MaskedForThread, Latched, Taken
<1> QED
  BY <1>1, <1>2

LEMMA Invariance == Spec => []IInv
BY NextIInv, InitIInv, PTL DEF Spec

(* The driver's counters, semaphores and mailboxes stay in their ranges: at *)
(* most two packets are in the chip (dm9000a.c:463).                        *)
THEOREM TypeCorrect == Spec => []TypeOK
<1>1. IInv => TypeOK
  BY DEF IInv
<1> QED
  BY <1>1, Invariance, PTL

(* Every packet is sent with its own length (dm9000a.c, packet_cnt and      *)
(* queue_packet_len), whatever happens to the chip.                         *)
THEOREM SentWithOwnLength == Spec => []OwnLength
<1>1. IInv => OwnLength
  BY DEF IInv
<1> QED
  BY <1>1, Invariance, PTL

(* A frame in the chip will be looked at (dm9000a.c, the handler's masking  *)
(* and the thread's unmasking), for any number of frames.                   *)
THEOREM FramesNotForgotten == Spec => []RxNotForgotten
<1>1. IInv => RxNotForgotten
  BY DEF IInv, TypeOK, RxNotForgotten, Latched, MaskedForThread, RxAt
<1> QED
  BY <1>1, Invariance, PTL
-----------------------------------------------------------------------------
(* The safety half of Transmitted.                                          *)

(* While nothing has upset the driver, what packet_cnt counts is in flight. *)
Pending == ~upset /\ packet_cnt > 0 => InFlight

(* Completions are masked only while a packet is moved.                     *)
Enabled ==
  /\ "PTS" \in imr_all
  /\ ~upset /\ etx \notin {"move", "unmask"} => "PTS" \in IMR

AckInv == IInv /\ Pending /\ Enabled

LEMMA InitAckInv == Init => AckInv
<1> SUFFICES ASSUME Init PROVE AckInv
  OBVIOUS
<1>1. Pending /\ Enabled
  BY DEF Init, Pending, Enabled, Bits
<1> QED
  BY <1>1, InitIInv DEF AckInv

LEMMA ChipAckInv ==
  ASSUME AckInv, FrameArrives \/ PacketSent \/ IsrReads
  PROVE  Pending' /\ Enabled'
<1>1. CASE FrameArrives
  BY <1>1 DEF FrameArrives, AckInv, Pending, Enabled, InFlight, driver, netif
<1>2. CASE PacketSent
  BY <1>2 DEF PacketSent, AckInv, Pending, Enabled, InFlight, driver, netif
<1>3. CASE IsrReads
  BY <1>3 DEF IsrReads, AckInv, Pending, Enabled, InFlight, NoStatus, chip, driver, netif
<1> QED
  BY <1>1, <1>2, <1>3

(* The handler counts a packet down with the request of the next.           *)
LEMMA HandlerAckInv ==
  ASSUME AckInv, rt_dm9000_isr
  PROVE  Pending' /\ Enabled'
<1>1. TypeOK /\ Flight /\ AckAgrees
  BY DEF AckInv, IInv
<1>2. Pending'
  <2>1. CASE "PTS" \in status
    <3>1. packet_cnt \in 0..2 /\ packet_cnt' = packet_cnt - 1
      BY <1>1, <2>1 DEF rt_dm9000_isr, IsrSent, TypeOK
    <3>2. packet_cnt > 1 => sending' # {}
      BY <2>1 DEF rt_dm9000_isr, IsrSent, Request
    <3> QED
      BY <3>1, <3>2 DEF Pending, InFlight
  <2>2. CASE "PTS" \notin status
    BY <2>2 DEF rt_dm9000_isr, IsrSent, AckInv, Pending, InFlight, NoStatus
  <2> QED
    BY <2>1, <2>2
<1>3. Enabled'
  BY DEF rt_dm9000_isr, IsrReceived, AckInv, Enabled
<1> QED
  BY <1>2, <1>3

LEMMA TransmitAckInv ==
  ASSUME AckInv, Transmit \/ TxLocks
  PROVE  Pending' /\ Enabled'
<1>1. CASE TxTakesMessage
  BY <1>1 DEF TxTakesMessage, AckInv, Pending, Enabled, InFlight, chip, driver
<1>2. CASE TxLocks
  BY <1>2 DEF TxLocks, AckInv, Pending, Enabled, InFlight, netif
<1>3. CASE TxMoves
  <2>1. packet_cnt \in 0..2
    BY DEF AckInv, IInv, TypeOK
  <2>2. packet_cnt = 0 => sending' # {}
    BY <1>3 DEF TxMoves, Request
  <2>3. packet_cnt # 0 => packet_cnt > 0 /\ sending' = sending
    BY <1>3, <2>1 DEF TxMoves
  <2>4. Pending'
    BY <1>3, <2>2, <2>3 DEF TxMoves, AckInv, Pending, InFlight
  <2>5. Enabled'
    BY <1>3 DEF TxMoves, AckInv, Enabled
  <2> QED
    BY <2>4, <2>5
<1>4. CASE TxUnlocks
  BY <1>4 DEF TxUnlocks, AckInv, Pending, Enabled, InFlight, netif
<1>5. CASE TxAcks
  BY <1>5 DEF TxAcks, AckInv, Pending, Enabled, InFlight, chip
<1> QED
  BY <1>1, <1>2, <1>3, <1>4, <1>5 DEF Transmit

LEMMA ReceiveAckInv ==
  ASSUME AckInv, Receive \/ RxLocks
  PROVE  Pending' /\ Enabled'
<1>1. CASE RxTakesMessage \/ RxFindsNone \/ RxInput
  BY <1>1 DEF RxTakesMessage, RxFindsNone, RxInput, AckInv, Pending, Enabled, InFlight,
     chip, driver, netif
<1>2. CASE RxLocks
  BY <1>2 DEF RxLocks, AckInv, Pending, Enabled, InFlight, chip, netif
<1>3. CASE RxFrame \/ RxError
  BY <1>3 DEF RxFrame, RxError, AckInv, Pending, Enabled, InFlight, driver, netif
<1>4. CASE RxStop \/ RxReset \/ RxSpins
  BY <1>4 DEF RxStop, RxReset, RxSpins, AckInv, Pending, Enabled, driver, chip
<1>5. CASE RxClears
  BY <1>5 DEF RxClears, AckInv, Pending, Enabled, InFlight, driver
<1>6. CASE RxRestores
  BY <1>6 DEF RxRestores, AckInv, Pending, Enabled, InFlight, chip, Bits
<1>7. CASE RxUnmasks
  <2>1. "PTS" \in IMR'
    BY <1>7 DEF RxUnmasks, AckInv, Enabled, Bits
  <2> QED
    BY <1>7, <2>1 DEF RxUnmasks, AckInv, Pending, Enabled, InFlight
<1> QED
  BY <1>1, <1>2, <1>3, <1>4, <1>5, <1>6, <1>7 DEF Receive

LEMMA SendAckInv ==
  ASSUME AckInv, NEW s \in Senders, Post(s) \/ AwaitAck(s)
  PROVE  Pending' /\ Enabled'
BY DEF Post, AwaitAck, AckInv, Pending, Enabled, InFlight, chip, driver

(* The transmitting thread waits for a completion only while one is to      *)
(* come: a packet is being sent, or the handler has its latch, or it is     *)
(* latched and enabled (ethernetif.c:177, dm9000a.c, sem_ack).              *)
AckToCome ==
  ~upset /\ etx = "ack" /\ sem_ack = 0
    => sending # {} \/ "PTS" \in status \/ ("PTS" \in ISR /\ "PTS" \in IMR)

THEOREM AckComes == Spec => []AckToCome
<1>1. ASSUME AckInv, [Next]_vars PROVE AckInv'
  <2>1. IInv'
    BY <1>1, NextIInv DEF AckInv
  <2>2. CASE Next
    BY <1>1, <2>1, <2>2, ChipAckInv, HandlerAckInv, TransmitAckInv, ReceiveAckInv, SendAckInv
       DEF Next, Chip, Interrupt, AckInv
  <2>3. CASE UNCHANGED vars
    BY <1>1, <2>1, <2>3 DEF vars, chip, driver, AckInv, Pending, Enabled, InFlight
  <2> QED
    BY <1>1, <2>2, <2>3
<1>2. AckInv => AckToCome
  <2> SUFFICES ASSUME AckInv, ~upset, etx = "ack", sem_ack = 0
               PROVE  sending # {} \/ "PTS" \in status \/ ("PTS" \in ISR /\ "PTS" \in IMR)
    BY DEF AckToCome
  <2>1. packet_cnt > 0
    BY DEF AckInv, IInv, TypeOK, AckAgrees, Moved
  <2>2. InFlight /\ "PTS" \in IMR
    BY <2>1 DEF AckInv, Pending, Enabled
  <2> QED
    BY <2>2 DEF InFlight
<1> QED
  BY <1>1, <1>2, InitAckInv, PTL DEF Spec
=============================================================================
