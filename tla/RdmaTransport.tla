---------------------------- MODULE RdmaTransport ----------------------------
(***************************************************************************)
(* One RDMA flow: the sender's queue pair (rdma-queue-pair.cc) and the     *)
(* receiver's (RdmaRxQueuePair), with the go-back-N of rdma-hw.cc.  The    *)
(* network between them is in order, as one path through FIFO queues is,   *)
(* and may lose frames of either direction.                                *)
(*                                                                         *)
(* Left out: congestion control, which changes m_rate and with it only     *)
(* when a packet is sent, and the choice among flows (one flow here).      *)
(***************************************************************************)
EXTENDS Integers, Sequences

CONSTANTS
  m_size,            \* bytes of the flow
  m_mtu, m_chunk, m_ack_interval, m_backto0,
  Win,               \* GetWin(): INT_MAX as AddQueuePair sets it
  W32, W64,          \* moduli of sequence numbers on the wire and of uint64_t
  MayStop,           \* may the flow's stopTime pass?
  NetCap,            \* bound: frames in flight in each direction
  MaxLosses          \* bound: frames lost

ASSUME TransportAssumption ==
  /\ m_size \in Nat \ {0} /\ m_mtu \in Nat \ {0} /\ m_chunk \in Nat \ {0}
  /\ m_ack_interval \in Nat /\ m_backto0 \in BOOLEAN
  /\ Win \in Nat /\ W32 \in Nat \ {0} /\ W64 \in Nat \ {0}
  /\ MayStop \in BOOLEAN /\ NetCap \in Nat \ {0} /\ MaxLosses \in Nat

VARIABLES
  snd_nxt, snd_una,  \* next byte to send, lowest byte not acknowledged
  inMap,             \* is the queue pair in m_qpMap (not completed)?
  inGroup,           \* is it in the NIC's qpGrp, which the scheduler scans?
  expired,           \* Simulator::Now() > stopTime
  rxQp,              \* does the receiver have a queue pair for the flow?
  ReceiverNextExpectedSeq, m_lastNACK,
  nackHeld,          \* Simulator::Now() < m_nackTimer
  data, acks,        \* frames in flight
  received,          \* history: bytes received in order
  losses

sender == <<snd_nxt, snd_una, inMap, inGroup, expired>>
receiver == <<rxQp, ReceiverNextExpectedSeq, m_lastNACK, nackHeld>>
vars == <<sender, receiver, data, acks, received, losses>>

Init ==
  /\ snd_nxt = 0 /\ snd_una = 0
  /\ inMap = TRUE /\ inGroup = TRUE /\ expired = FALSE
  /\ rxQp = FALSE /\ ReceiverNextExpectedSeq = 0 /\ m_lastNACK = 0 /\ nackHeld = FALSE
  /\ data = <<>> /\ acks = <<>>
  /\ received = 0 /\ losses = 0

-----------------------------------------------------------------------------
(* The sender's queue pair *)

Larger(a, b) == IF a >= b THEN a ELSE b
ChunkStart(seq) == (seq \div m_chunk) * m_chunk

GetBytesLeft == IF m_size >= snd_nxt THEN m_size - snd_nxt ELSE 0
GetOnTheFly == (snd_nxt - snd_una) % W64
IsWinBound == Win # 0 /\ GetOnTheFly >= Win
FinishedOnceSent(una) == expired \/ snd_nxt >= m_size      \* faulty

Finished(una) == expired \/ una >= m_size

CanSend == inGroup /\ GetBytesLeft > 0 /\ ~IsWinBound

(* Faulty: the last packet is as long as the others.                        *)
SendPacketPadded ==
  /\ CanSend
  /\ Len(data) < NetCap
  /\ data' = Append(data, [seq |-> snd_nxt % W32, size |-> m_mtu])
  /\ snd_nxt' = snd_nxt + m_mtu
  /\ UNCHANGED <<snd_una, inMap, inGroup, expired, receiver, acks, received, losses>>

(* GetNxtPacket, which keeps the bytes left in 32 bits.                     *)
SendPacket ==
  LET left == GetBytesLeft % W32
      payload == IF m_mtu < left THEN m_mtu ELSE left
  IN  /\ CanSend
      /\ Len(data) < NetCap
      /\ data' = Append(data, [seq |-> snd_nxt % W32, size |-> payload])
      /\ snd_nxt' = snd_nxt + payload
      /\ UNCHANGED <<snd_una, inMap, inGroup, expired, receiver, acks, received, losses>>

ForgetQp ==
  /\ inGroup' = FALSE
  /\ UNCHANGED <<snd_nxt, snd_una, inMap, expired, receiver, data, acks, received, losses>>

(* Faulty: stopTime does not count.                                         *)
ClearAcknowledged == inGroup /\ ~CanSend /\ snd_una >= m_size /\ ForgetQp

(* GetNextQindex drops a finished queue pair that it does not send for,     *)
(* because nothing is left or because PFC has paused its class.  Only a     *)
(* queue pair past its stopTime can be finished and have something to send. *)
ClearFinished == inGroup /\ Finished(snd_una) /\ (CanSend => expired) /\ ForgetQp

Acknowledge(seq) ==
  IF m_ack_interval = 0 THEN snd_una
  ELSE Larger(snd_una, IF m_backto0 THEN ChunkStart(seq) ELSE seq)

(* QpComplete tells the application, has the receiver's queue pair deleted  *)
(* and takes the sender's out of m_qpMap.                                   *)
QpComplete ==
  /\ inMap' = FALSE
  /\ rxQp' = FALSE
  /\ ReceiverNextExpectedSeq' = 0 /\ m_lastNACK' = 0 /\ nackHeld' = FALSE

ReceiveAck ==
  /\ acks # <<>>
  /\ acks' = Tail(acks)
  /\ IF inMap
     THEN LET una == Acknowledge(Head(acks).seq)
          IN  /\ snd_una' = una
              /\ IF m_ack_interval # 0 /\ Finished(una)
                 THEN QpComplete
                 ELSE UNCHANGED <<inMap, receiver>>
              /\ snd_nxt' = IF Head(acks).nack THEN una ELSE snd_nxt     \* RecoverQueue
     ELSE UNCHANGED <<snd_nxt, snd_una, inMap, receiver>>
  /\ UNCHANGED <<inGroup, expired, data, received, losses>>

StopTimePasses ==
  /\ MayStop /\ ~expired
  /\ expired' = TRUE
  /\ UNCHANGED <<snd_nxt, snd_una, inMap, inGroup, receiver, data, acks, received, losses>>

-----------------------------------------------------------------------------
(* The receiver: ReceiveUdp and ReceiverCheckSeq.  ReceiveUdp sets          *)
(* m_milestone_rx to m_ack_interval for every packet, so once that many     *)
(* bytes have come each further packet is acknowledged.                     *)

Reply(nack, seq) == Append(acks, [nack |-> nack, seq |-> seq])

(* Faulty: acknowledges whole chunks only.                                  *)
InOrderByChunk(packet) ==
  LET next == (ReceiverNextExpectedSeq + packet.size) % W32
  IN  /\ packet.seq = ReceiverNextExpectedSeq
      /\ ReceiverNextExpectedSeq' = next
      /\ acks' = IF next % m_chunk = 0 THEN Reply(FALSE, next) ELSE acks
      /\ received' = Larger(received, packet.seq + packet.size)
      /\ UNCHANGED <<m_lastNACK, nackHeld>>

InOrder(packet) ==
  LET next == (ReceiverNextExpectedSeq + packet.size) % W32
      acked == next >= m_ack_interval \/ next % m_chunk = 0
  IN  /\ packet.seq = ReceiverNextExpectedSeq
      /\ ReceiverNextExpectedSeq' = next
      /\ acks' = IF acked THEN Reply(FALSE, next) ELSE acks
      /\ received' = Larger(received, packet.seq + packet.size)
      /\ UNCHANGED <<m_lastNACK, nackHeld>>

(* Faulty: names the packet that came, not the one that is missing.         *)
OutOfOrderNamesIt(packet) ==
  /\ packet.seq > ReceiverNextExpectedSeq
  /\ nackHeld' = TRUE /\ m_lastNACK' = ReceiverNextExpectedSeq
  /\ acks' = Reply(TRUE, packet.seq)
  /\ UNCHANGED <<ReceiverNextExpectedSeq, received>>

OutOfOrder(packet) ==
  LET expected == ReceiverNextExpectedSeq
      next == IF m_backto0 THEN ChunkStart(expected) ELSE expected
  IN  /\ packet.seq > expected
      /\ IF ~nackHeld \/ m_lastNACK # expected
         THEN /\ nackHeld' = TRUE /\ m_lastNACK' = expected
              /\ ReceiverNextExpectedSeq' = next
              /\ acks' = Reply(TRUE, next)
         ELSE UNCHANGED <<nackHeld, m_lastNACK, ReceiverNextExpectedSeq, acks>>
      /\ UNCHANGED received

Duplicate(packet) ==
  /\ packet.seq < ReceiverNextExpectedSeq
  /\ UNCHANGED <<ReceiverNextExpectedSeq, m_lastNACK, nackHeld, acks, received>>

(* A packet without a queue pair creates one that expects byte 0.           *)
ReceiveUdp ==
  /\ data # <<>> /\ Len(acks) < NetCap
  /\ data' = Tail(data)
  /\ rxQp' = TRUE
  /\ InOrder(Head(data)) \/ OutOfOrder(Head(data)) \/ Duplicate(Head(data))
  /\ UNCHANGED <<sender, losses>>

NackTimerExpires ==
  /\ nackHeld /\ nackHeld' = FALSE
  /\ UNCHANGED <<sender, rxQp, ReceiverNextExpectedSeq, m_lastNACK, data, acks, received, losses>>

-----------------------------------------------------------------------------
(* The network *)

LoseData ==
  /\ data # <<>> /\ losses < MaxLosses
  /\ data' = Tail(data) /\ losses' = losses + 1
  /\ UNCHANGED <<sender, receiver, acks, received>>

LoseAck ==
  /\ acks # <<>> /\ losses < MaxLosses
  /\ acks' = Tail(acks) /\ losses' = losses + 1
  /\ UNCHANGED <<sender, receiver, data, received>>

Next ==
  \/ SendPacket \/ ClearFinished \/ ReceiveAck \/ StopTimePasses
  \/ ReceiveUdp \/ NackTimerExpires
  \/ LoseData \/ LoseAck

Spec == Init /\ [][Next]_vars

(* The NIC polls its queue pairs whenever it is free and not paused, and    *)
(* pauses end; what is in flight arrives, and time passes.                  *)
FairSpec ==
  /\ Spec
  /\ WF_vars(SendPacket) /\ WF_vars(~CanSend /\ ClearFinished)
  /\ WF_vars(ReceiveUdp) /\ WF_vars(ReceiveAck) /\ WF_vars(NackTimerExpires)

-----------------------------------------------------------------------------
(* Properties *)

(* Every variable has its type.                                             *)
TypeOK ==
  /\ snd_nxt \in 0..m_size /\ snd_una \in 0..m_size
  /\ {inMap, inGroup, expired, rxQp, nackHeld} \subseteq BOOLEAN
  /\ ReceiverNextExpectedSeq \in 0..(W32 - 1) /\ m_lastNACK \in 0..(W32 - 1)
  /\ data \in Seq([seq: 0..(W32 - 1), size: 1..m_mtu])
  /\ acks \in Seq([nack: BOOLEAN, seq: 0..(W32 - 1)])
  /\ received \in 0..m_size /\ losses \in 0..MaxLosses

(* The sender never takes for delivered what the receiver does not have,    *)
(* whatever was lost, and whatever the receiver forgets when it goes back   *)
(* to the start of a chunk.                                                 *)
AckedIsReceived ==
  /\ snd_una <= received
  /\ rxQp /\ inMap => snd_una <= ReceiverNextExpectedSeq
  /\ \A i \in DOMAIN acks : acks[i].seq <= received

(* The flow keeps the promise of ReliableTransfer.                          *)
Transfer == INSTANCE ReliableTransfer WITH completed <- ~inMap
IsReliable == Transfer!Spec

(* Without loss, and before its stop time, every flow whose last packet is  *)
(* acknowledged completes: it is at least L2AckInterval long or ends with a *)
(* chunk, and in back-to-zero mode, where only whole chunks count as        *)
(* acknowledged, it ends with a chunk.                                      *)
LastIsAcked ==
  /\ m_ack_interval # 0 /\ m_size < W32
  /\ m_size >= m_ack_interval \/ m_size % m_chunk = 0
  /\ m_backto0 => m_size % m_chunk = 0

CompletesWithoutLoss == LastIsAcked /\ [](losses = 0 /\ ~expired) => <>~inMap

(* A completed flow dies out: nothing of it stays in flight, and the NIC    *)
(* forgets it, though packets sent before completion revive the receiver's  *)
(* queue pair and make it ask for byte 0.                                   *)
DiesOut == ~inMap ~> [](data = <<>> /\ acks = <<>> /\ ~inGroup)

(* "Calculates the number of packets (or bytes) that have been sent but not *)
(* yet acknowledged" (rdma-queue-pair.h, GetOnTheFly): at most the flow.    *)
OnTheFlyIsUnacknowledged == GetOnTheFly <= m_size

=============================================================================
