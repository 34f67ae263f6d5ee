------------------------------- MODULE Ethernet -------------------------------
(***************************************************************************)
(* The way of a frame through the network driver: rt_dm9000_tx, _rx and    *)
(* _isr of dm9000a.c, driven by the two threads of ethernetif.c.  The tcpip*)
(* thread sends, and so does the receiving thread when it answers an ARP   *)
(* request; each hands the transmitting thread a pointer to a message on   *)
(* its own stack and waits for tx_ack.                                     *)
(*                                                                         *)
(* The chip is external.  It receives frames into a memory of its own,     *)
(* sends what TCR requests, latches PRS and PTS in its ISR register until  *)
(* they are written back, and drives the interrupt line while a latched    *)
(* bit is enabled in IMR.  EXTI4_IRQHandler calls rt_dm9000_isr as long as *)
(* the line is high.                                                       *)
(***************************************************************************)
EXTENDS Integers, Sequences, FiniteSets

CONSTANTS
  Senders, \* the threads that call ethernetif_linkoutput: "tcpip", "erx"
  Frames,  \* the kinds of frames received: "ok", "bad", "long", "stop", "odd"
  FifoMax, \* bound on the frames in the chip's receive memory
  MboxMax, \* RT_LWIP_ETHTHREAD_MBOX_SIZE
  Latency  \* an interrupt may come one register access late

(* bad: a status error, or a length below 0x40, or discarded for want of a  *)
(* pbuf.  long: longer than DM9000_PKT_MAX.  stop: the first byte is above  *)
(* 1.  odd: of odd length, and there is no pbuf.                            *)
ASSUME EthernetAssumption ==
  /\ Senders \subseteq {"tcpip", "erx"} /\ "tcpip" \in Senders
  /\ Frames \subseteq {"ok", "bad", "long", "stop", "odd"}
  /\ FifoMax \in Nat \ {0} /\ MboxMax \in Nat \ {0}
  /\ Latency \in BOOLEAN

VARIABLES
  rx,       \* chip: the number of frames received; what each is, is seen
            \* when it is read
  rxon,     \* chip: RCR_RXEN
  ISR,      \* chip: the latched status bits
  IMR,      \* chip: the enabled ones
  ram,      \* chip: packets moved to the transmit memory and not requested
  sending,  \* chip: the packet being sent, if any: its data and its length
  status,   \* int_status inside the interrupt handler, else NoStatus
  imr_all,          \* dm9000_device.imr_all
  packet_cnt,       \* dm9000_device.packet_cnt
  queue_packet_len, \* dm9000_device.queue_packet_len
  sem_lock, sem_ack,
  rxmb,     \* messages in eth_rx_thread_mb
  txmb,     \* the messages in eth_tx_thread_mb: who sent them
  tx_ack,   \* enetif->tx_ack: its value
  waiters,  \* and the threads suspended on it, first come first served
  erx, etx, \* where the receiving and the transmitting thread are
  msg,      \* the message the transmitting thread is working on
  out,      \* Senders -> where each is in ethernetif_linkoutput
  upset     \* history: a completion was cleared unserved, the chip was reset
            \* or stopped, or the driver spins

chip == <<rx, rxon, ISR, IMR, ram, sending>>
driver == <<imr_all, packet_cnt, queue_packet_len, sem_lock, sem_ack>>
netif == <<txmb, tx_ack, waiters, msg, out>>
vars == <<chip, status, driver, rxmb, netif, erx, etx, upset>>

NoStatus == {"none"}
NoPacket == "none"
Bits == {"PRS", "PTS"}

Line == ISR \cap IMR # {}

(* A thread runs when no interrupt does; an interrupt comes at once, unless *)
(* the thread's access to the chip is already under way.  The tcpip thread, *)
(* of priority 10, does not stop between posting a message and waiting; the *)
(* other two share priority 12.                                             *)
CpuFree == status = NoStatus /\ (Latency \/ ~Line)

ThreadRuns == CpuFree /\ out["tcpip"] # "posted"

-----------------------------------------------------------------------------
(* The chip.                                                                *)

FrameArrives ==
  /\ rxon /\ rx < FifoMax
  /\ rx' = rx + 1
  /\ ISR' = ISR \cup {"PRS"}
  /\ UNCHANGED <<rxon, IMR, ram, sending, status, driver, rxmb, netif, erx, etx, upset>>

PacketSent ==
  /\ sending # {}
  /\ sending' = {}
  /\ ISR' = ISR \cup {"PTS"}
  /\ UNCHANGED <<rx, rxon, IMR, ram, status, driver, rxmb, netif, erx, etx, upset>>

(* TCR_TXREQ: the next packet of the memory, with this length.              *)
Request(memory, length) ==
  /\ sending' = {[data |-> Head(memory), len |-> length]}
  /\ ram' = Tail(memory)

-----------------------------------------------------------------------------
(* The interrupt: rt_dm9000_isr.                                            *)

IsrReads ==
  /\ status = NoStatus /\ Line
  /\ status' = ISR
  /\ UNCHANGED <<chip, driver, rxmb, netif, erx, etx, upset>>

IsrReceived ==
  IF "PRS" \in status
  THEN /\ imr_all' = {"PTS"} /\ IMR' = {"PTS"}
       /\ rxmb' = IF rxmb < MboxMax THEN rxmb + 1 ELSE rxmb
  ELSE UNCHANGED <<imr_all, IMR, rxmb>>

(* Fault: the packets counted after the decrement.                          *)
IsrSentLate ==
  IF "PTS" \in status
  THEN /\ packet_cnt' = packet_cnt - 1
       /\ IF packet_cnt' > 1
          THEN Request(ram, queue_packet_len)
          ELSE UNCHANGED <<ram, sending>>
       /\ sem_ack' = sem_ack + 1
  ELSE UNCHANGED <<packet_cnt, sem_ack, ram, sending>>

IsrSent ==
  IF "PTS" \in status
  THEN /\ packet_cnt' = packet_cnt - 1
       /\ IF packet_cnt > 1
          THEN Request(ram, queue_packet_len)
          ELSE UNCHANGED <<ram, sending>>
       /\ sem_ack' = sem_ack + 1
  ELSE UNCHANGED <<packet_cnt, sem_ack, ram, sending>>

(* What was read is cleared, what has been latched since is not.            *)
rt_dm9000_isr ==
  /\ status # NoStatus
  /\ ISR' = ISR \ status
  /\ IsrReceived /\ IsrSent
  /\ status' = NoStatus
  /\ UNCHANGED <<rx, rxon, queue_packet_len, sem_lock, netif, erx, etx, upset>>

-----------------------------------------------------------------------------
(* ethernetif_linkoutput, and the transmitting thread.                      *)

(* The receiving thread sends only while it handles a frame.                *)
Post(s) ==
  /\ ThreadRuns
  /\ out[s] = "idle" /\ (s = "erx" => erx = "input")
  /\ Len(txmb) < MboxMax
  /\ txmb' = Append(txmb, s)
  /\ out' = [out EXCEPT ![s] = "posted"]
  /\ UNCHANGED <<chip, status, driver, rxmb, tx_ack, waiters, msg, erx, etx, upset>>

AwaitAck(s) ==
  /\ IF s = "tcpip" THEN CpuFree ELSE ThreadRuns
  /\ out[s] = "posted"
  /\ \/ /\ tx_ack > 0
        /\ tx_ack' = tx_ack - 1
        /\ out' = [out EXCEPT ![s] = "idle"]
        /\ UNCHANGED waiters
     \/ /\ tx_ack = 0
        /\ waiters' = Append(waiters, s)
        /\ out' = [out EXCEPT ![s] = "waiting"]
        /\ UNCHANGED tx_ack
  /\ UNCHANGED <<chip, status, driver, rxmb, txmb, msg, erx, etx, upset>>

(* rt_mb_recv, then rt_sem_take(&sem_lock).                                 *)
TxTakesMessage ==
  /\ ThreadRuns
  /\ etx = "recv" /\ txmb # <<>>
  /\ msg' = Head(txmb) /\ txmb' = Tail(txmb)
  /\ etx' = "lock"
  /\ UNCHANGED <<chip, status, driver, rxmb, tx_ack, waiters, out, erx, upset>>

TxLocks ==
  /\ ThreadRuns
  /\ etx = "lock" /\ sem_lock > 0
  /\ sem_lock' = sem_lock - 1 /\ IMR' = {}
  /\ etx' = "move"
  /\ UNCHANGED <<rx, rxon, ISR, ram, sending, status, imr_all, packet_cnt,
                 queue_packet_len, sem_ack, rxmb, netif, erx, upset>>

(* The first packet is requested at once, the second by the interrupt.      *)
TxMoves ==
  /\ ThreadRuns
  /\ etx = "move"
  /\ packet_cnt' = packet_cnt + 1
  /\ IF packet_cnt = 0
     THEN Request(Append(ram, msg), msg) /\ UNCHANGED queue_packet_len
     ELSE /\ queue_packet_len' = msg
          /\ ram' = Append(ram, msg) /\ UNCHANGED sending
  /\ etx' = "unmask"
  /\ UNCHANGED <<rx, rxon, ISR, IMR, status, imr_all, sem_lock, sem_ack, rxmb,
                 netif, erx, upset>>

TxUnlocks ==
  /\ ThreadRuns
  /\ etx = "unmask"
  /\ IMR' = imr_all /\ sem_lock' = sem_lock + 1
  /\ etx' = "ack"
  /\ UNCHANGED <<rx, rxon, ISR, ram, sending, status, imr_all, packet_cnt,
                 queue_packet_len, sem_ack, rxmb, netif, erx, upset>>

(* sem_ack starts at 1: the thread waits for the packet before this one.    *)
(* Then rt_sem_release(&tx_ack) wakes the first that waits.                 *)
TxAcks ==
  /\ ThreadRuns
  /\ etx = "ack" /\ sem_ack > 0
  /\ sem_ack' = sem_ack - 1
  /\ IF waiters = <<>>
     THEN tx_ack' = tx_ack + 1 /\ UNCHANGED <<waiters, out>>
     ELSE /\ waiters' = Tail(waiters)
          /\ out' = [out EXCEPT ![Head(waiters)] = "idle"]
          /\ UNCHANGED tx_ack
  /\ etx' = "recv"
  /\ UNCHANGED <<chip, status, imr_all, packet_cnt, queue_packet_len, sem_lock,
                 rxmb, txmb, msg, erx, upset>>

-----------------------------------------------------------------------------
(* The receiving thread and rt_dm9000_rx.                                   *)

RxTakesMessage ==
  /\ ThreadRuns
  /\ erx = "recv" /\ rxmb > 0
  /\ rxmb' = rxmb - 1
  /\ erx' = "lock"
  /\ UNCHANGED <<chip, status, driver, netif, etx, upset>>

RxLocks ==
  /\ ThreadRuns
  /\ erx = "lock" /\ sem_lock > 0
  /\ sem_lock' = sem_lock - 1
  /\ erx' = "check"
  /\ UNCHANGED <<chip, status, imr_all, packet_cnt, queue_packet_len, sem_ack,
                 rxmb, netif, etx, upset>>

RxFindsNone ==
  /\ ThreadRuns
  /\ erx = "check" /\ rx = 0
  /\ erx' = "clear"
  /\ UNCHANGED <<chip, status, driver, rxmb, netif, etx, upset>>

RxReads(kind) == ThreadRuns /\ erx = "check" /\ rx > 0 /\ kind \in Frames

RxFrame ==
  /\ RxReads("ok")
  /\ rx' = rx - 1
  /\ sem_lock' = sem_lock + 1
  /\ erx' = "input"
  /\ UNCHANGED <<rxon, ISR, IMR, ram, sending, status, imr_all, packet_cnt,
                 queue_packet_len, sem_ack, rxmb, netif, etx, upset>>

(* goto __error_retry: the loop looks for the next frame.                   *)
RxError ==
  /\ RxReads("bad")
  /\ rx' = rx - 1
  /\ UNCHANGED <<rxon, ISR, IMR, ram, sending, status, driver, rxmb, netif, erx,
                 etx, upset>>

(* The receiver is stopped, and the frame still read, as a bad one.         *)
RxStop ==
  /\ RxReads("stop")
  /\ rx' = rx - 1 /\ rxon' = FALSE
  /\ upset' = TRUE
  /\ UNCHANGED <<ISR, IMR, ram, sending, status, driver, rxmb, netif, erx, etx>>

(* NCR_RST: the chip forgets all, the packet it sends included.             *)
RxReset ==
  /\ RxReads("long")
  /\ rx' = 0 /\ rxon' = FALSE /\ ISR' = {} /\ IMR' = {}
  /\ ram' = <<>> /\ sending' = {}
  /\ upset' = TRUE
  /\ UNCHANGED <<status, driver, rxmb, netif, erx, etx>>

(* Without a pbuf, rx_len is counted down by two until it is zero: from an  *)
(* odd number it never is.                                                  *)
RxSpins ==
  /\ RxReads("odd")
  /\ erx' = "spin"
  /\ upset' = TRUE
  /\ UNCHANGED <<chip, status, driver, rxmb, netif, etx>>

(* Fault: the latch is cleared that the comment speaks of.                  *)
RxClearsPRS ==
  /\ ThreadRuns
  /\ erx = "clear"
  /\ ISR' = ISR \ {"PRS"}
  /\ erx' = "restore"
  /\ UNCHANGED <<rx, rxon, IMR, ram, sending, status, driver, rxmb, netif, etx, upset>>

(* dm9000_io_write(DM9000_ISR, ISR_PTS).                                    *)
RxClears ==
  /\ ThreadRuns
  /\ erx = "clear"
  /\ ISR' = ISR \ {"PTS"}
  /\ erx' = "restore"
  /\ upset' = (upset \/ "PTS" \in ISR)
  /\ UNCHANGED <<rx, rxon, IMR, ram, sending, status, driver, rxmb, netif, etx>>

RxRestores ==
  /\ ThreadRuns
  /\ erx = "restore"
  /\ imr_all' = Bits
  /\ erx' = "unmask"
  /\ UNCHANGED <<chip, status, packet_cnt, queue_packet_len, sem_lock, sem_ack,
                 rxmb, netif, etx, upset>>

(* imr_all is read again, or not: it is not volatile.                       *)
RxUnmasks ==
  /\ ThreadRuns
  /\ erx = "unmask"
  /\ IMR' \in {imr_all, Bits}
  /\ sem_lock' = sem_lock + 1
  /\ erx' = "recv"
  /\ UNCHANGED <<rx, rxon, ISR, ram, sending, status, imr_all, packet_cnt,
                 queue_packet_len, sem_ack, rxmb, netif, etx, upset>>

(* eth_input has returned, the answer it may have sent acknowledged.        *)
RxInput ==
  /\ ThreadRuns
  /\ erx = "input"
  /\ "erx" \in Senders => out["erx"] = "idle"
  /\ erx' = "lock"
  /\ UNCHANGED <<chip, status, driver, rxmb, netif, etx, upset>>

-----------------------------------------------------------------------------

(* Fault: the transmitting thread runs two packets ahead.                   *)
InitAhead ==
  /\ rx = 0 /\ rxon = TRUE /\ ISR = {} /\ IMR = Bits
  /\ ram = <<>> /\ sending = {} /\ status = NoStatus
  /\ imr_all = Bits /\ packet_cnt = 0 /\ queue_packet_len = NoPacket
  /\ sem_lock = 1 /\ sem_ack = 2
  /\ rxmb = 0 /\ txmb = <<>> /\ tx_ack = 0 /\ waiters = <<>>
  /\ erx = "recv" /\ etx = "recv" /\ msg = NoPacket /\ upset = FALSE
  /\ out = [s \in Senders |-> "idle"]

Init ==
  /\ rx = 0 /\ rxon = TRUE /\ ISR = {} /\ IMR = Bits
  /\ ram = <<>> /\ sending = {} /\ status = NoStatus
  /\ imr_all = Bits /\ packet_cnt = 0 /\ queue_packet_len = NoPacket
  /\ sem_lock = 1 /\ sem_ack = 1
  /\ rxmb = 0 /\ txmb = <<>> /\ tx_ack = 0 /\ waiters = <<>>
  /\ erx = "recv" /\ etx = "recv" /\ msg = NoPacket /\ upset = FALSE
  /\ out = [s \in Senders |-> "idle"]

Chip == FrameArrives \/ PacketSent

Interrupt == IsrReads \/ rt_dm9000_isr

Transmit == TxTakesMessage \/ TxMoves \/ TxUnlocks \/ TxAcks

Receive ==
  \/ RxTakesMessage \/ RxFindsNone \/ RxFrame \/ RxError \/ RxStop \/ RxReset
  \/ RxSpins \/ RxClears \/ RxRestores \/ RxUnmasks \/ RxInput

Next ==
  \/ Chip \/ Interrupt \/ Transmit \/ TxLocks \/ Receive \/ RxLocks
  \/ \E s \in Senders : Post(s) \/ AwaitAck(s)

Spec == Init /\ [][Next]_vars

(* Packets are sent and interrupts served.  An interrupt delays a thread by *)
(* a few microseconds and the threads share the processor in time slices:   *)
(* one that is able to run again and again runs.  The lock is handed to who *)
(* waits longest.  Frames are read faster than the wire brings them: the    *)
(* loop over bad ones ends, with a good one or with none.                   *)
FairSpec ==
  /\ Spec
  /\ WF_vars(PacketSent) /\ WF_vars(Interrupt)
  /\ SF_vars(Transmit) /\ SF_vars(TxLocks)
  /\ SF_vars(Receive) /\ SF_vars(RxLocks) /\ SF_vars(RxFrame \/ RxFindsNone)
  /\ \A s \in Senders : SF_vars(AwaitAck(s))

-----------------------------------------------------------------------------
(* Properties.                                                              *)

RxAt == {"recv", "lock", "check", "clear", "restore", "unmask", "input", "spin"}
TxAt == {"recv", "lock", "move", "unmask", "ack"}

(* The values of the variables.                                             *)
TypeOK ==
  /\ rx \in 0..FifoMax /\ rxon \in BOOLEAN
  /\ ISR \subseteq Bits /\ IMR \subseteq Bits /\ imr_all \subseteq Bits
  /\ ram \in Seq(Senders)
  /\ sending \subseteq [data : Senders, len : Senders]
  /\ status \in (SUBSET Bits) \cup {NoStatus}
  /\ packet_cnt \in 0..2 /\ sem_lock \in 0..1 /\ sem_ack \in 0..2
  /\ queue_packet_len \in Senders \cup {NoPacket} /\ msg \in Senders \cup {NoPacket}
  /\ rxmb \in 0..MboxMax /\ txmb \in Seq(Senders) /\ Len(txmb) <= MboxMax
  /\ tx_ack \in Nat /\ waiters \in Seq(Senders)
  /\ erx \in RxAt /\ etx \in TxAt
  /\ out \in [Senders -> {"idle", "posted", "waiting"}]
  /\ upset \in BOOLEAN

(* Every packet that is sent is sent with its own length: the transmitting  *)
(* thread is never so far ahead that it overwrites queue_packet_len before  *)
(* the interrupt has used it.                                               *)
OwnLength == \A packet \in sending : packet.data = packet.len

(* A frame in the chip will be looked at: its latch is set and enabled, or  *)
(* the handler has it, or the receiving thread has a message or is yet to   *)
(* look or to enable the interrupt again.                                   *)
RxNotForgotten ==
  ~upset /\ rx > 0
    => \/ rxmb > 0 \/ erx # "recv"
       \/ "PRS" \in status
       \/ "PRS" \in ISR /\ "PRS" \in imr_all

(* A packet taken from the mailbox is sent and acknowledged.                *)
Transmitted == etx # "recv" ~> etx = "recv" \/ upset
=============================================================================
