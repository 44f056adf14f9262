------------------------- MODULE RdmaTransportProofs -------------------------
(***************************************************************************)
(* Go-back-N is reliable for every flow size, packet size, chunk size and  *)
(* acknowledgement interval, in both recovery modes, whatever the network  *)
(* loses: as long as the flow does not exhaust the sequence numbers of the *)
(* wire, the sender takes for delivered only what the receiver has.        *)
(***************************************************************************)
EXTENDS RdmaTransport, SequenceTheorems, TLAPS

(* Integer division, for a divisor that is not a constant.                  *)
LEMMA DivBounds ==
  ASSUME NEW a \in Nat, NEW c \in Nat \ {0}
  PROVE  /\ a \div c \in Nat
         /\ (a \div c) * c <= a
         /\ a < (a \div c) * c + c
BY SMT

(* What is below the modulus does not wrap.                                 *)
LEMMA ModSmall ==
  ASSUME NEW a \in Nat, NEW w \in Nat \ {0}, a < w
  PROVE  a % w = a
BY SMT

(* Multiples of a positive number are ordered as their factors are.         *)
LEMMA Multiples ==
  ASSUME NEW m \in Nat, NEW n \in Nat, NEW c \in Nat \ {0}
  PROVE  /\ m <= n => m * c <= n * c
         /\ m * c \in Nat
         /\ m * c < n * c + c => m <= n
BY SMT

(* The start of the chunk is not beyond the byte, and rounding is monotone. *)
LEMMA ChunkStartBelow ==
  ASSUME NEW a \in Nat
  PROVE  ChunkStart(a) \in Nat /\ ChunkStart(a) <= a
BY TransportAssumption, DivBounds, Multiples DEF ChunkStart

(* A later byte lies in the same chunk or in a later one.                   *)
LEMMA ChunkStartMonotone ==
  ASSUME NEW a \in Nat, NEW b \in Nat, a <= b
  PROVE  ChunkStart(a) <= ChunkStart(b)
<1>1. (a \div m_chunk) * m_chunk < (b \div m_chunk) * m_chunk + m_chunk
  BY TransportAssumption, DivBounds
<1> QED
  BY <1>1, TransportAssumption, DivBounds, Multiples DEF ChunkStart

(* The start of a chunk lies in that chunk.                                 *)
LEMMA ChunkStartIdempotent ==
  ASSUME NEW a \in Nat
  PROVE  ChunkStart(ChunkStart(a)) = ChunkStart(a)
<1> DEFINE n == a \div m_chunk
<1>1. n \in Nat
  BY TransportAssumption, DivBounds
<1>2. (n * m_chunk) \div m_chunk = n
  <2> HIDE DEF n
  <2> QED
    BY <1>1, TransportAssumption, SMT
<1> QED
  BY <1>2 DEF ChunkStart

(* What the sender makes of an acknowledged sequence number.                *)
Floor(seq) == IF m_backto0 THEN ChunkStart(seq) ELSE seq

(* Rounding to what counts as acknowledged.                                 *)
LEMMA FloorFacts ==
  /\ \A a \in Nat : Floor(a) \in Nat /\ Floor(a) <= a /\ Floor(Floor(a)) = Floor(a)
  /\ \A a, b \in Nat : a <= b => Floor(a) <= Floor(b)
<1>1. ASSUME NEW a \in Nat
      PROVE  Floor(a) \in Nat /\ Floor(a) <= a /\ Floor(Floor(a)) = Floor(a)
  BY ChunkStartBelow, ChunkStartIdempotent DEF Floor
<1>2. ASSUME NEW a \in Nat, NEW b \in Nat, a <= b PROVE Floor(a) <= Floor(b)
  BY <1>2, ChunkStartMonotone DEF Floor
<1> QED
  BY <1>1, <1>2

-----------------------------------------------------------------------------
(* The inductive invariant *)

(* Frames as the network carries them: a packet is a piece of the flow, and *)
(* an acknowledgement names no byte beyond n.                               *)
Packet == {f \in [seq: 0..(W32 - 1), size: 1..m_mtu] : f.seq + f.size <= m_size}
AckType == [nack: BOOLEAN, seq: 0..(W32 - 1)]
AckUpTo(n) == {a \in AckType : a.seq <= n}
AckFor(n) == {a \in AckType : Floor(a.seq) <= n}

(* AckedIsReceived is not inductive: it needs to know that packets in       *)
(* flight lie within the flow, that every acknowledgement in flight will    *)
(* be honest on arrival - also after the receiver has gone back to the      *)
(* start of a chunk, which is why it is stated of the rounded number - and  *)
(* that a sender that still has a queue pair has not made the receiver      *)
(* forget its own.                                                          *)
HonestFrames ==
  /\ data \in Seq(Packet)
  /\ acks \in Seq(AckUpTo(received))
  /\ inMap => acks \in Seq(AckFor(ReceiverNextExpectedSeq))

HonestCounters ==
  /\ snd_una <= received /\ Floor(snd_una) = snd_una
  /\ ReceiverNextExpectedSeq <= received
  /\ inMap => snd_una <= ReceiverNextExpectedSeq

CompletedIsReceived == inMap \/ expired \/ received = m_size

IInv == TypeOK /\ HonestFrames /\ HonestCounters /\ CompletedIsReceived

(* The sequence numbers of the wire suffice for the flow.                   *)
NoWrap == m_size < W32

(* A frame leaves a FIFO, or enters it.                                     *)
LEMMA Fifo ==
  ASSUME NEW S, NEW s \in Seq(S)
  PROVE  /\ s # <<>> => Head(s) \in S /\ Tail(s) \in Seq(S)
         /\ \A e \in S : Append(s, e) \in Seq(S)
OBVIOUS

(* The types a step of one side has to restore.                             *)
LEMMA FrameTypes ==
  /\ \A n : AckUpTo(n) \subseteq AckType
  /\ \A m, n \in Nat : m <= n => AckUpTo(m) \subseteq AckUpTo(n)
  /\ \A m, n \in Nat : m <= n => AckFor(m) \subseteq AckFor(n)
  /\ Packet \subseteq [seq: 0..(W32 - 1), size: 1..m_mtu]
<1>1. \A m, n \in Nat : m <= n => AckUpTo(m) \subseteq AckUpTo(n)
  BY TransportAssumption DEF AckUpTo, AckType
<1>2. \A m, n \in Nat : m <= n => AckFor(m) \subseteq AckFor(n)
  BY TransportAssumption, FloorFacts DEF AckFor, AckType
<1> QED
  BY <1>1, <1>2 DEF AckUpTo, Packet

-----------------------------------------------------------------------------
(* One lemma per action *)

(* A packet is cut from what is left of the flow, which 32 bits can hold.   *)
LEMMA SendPacketHonest ==
  ASSUME NoWrap, IInv, SendPacket
  PROVE  IInv'
<1> DEFINE left == GetBytesLeft % W32
           payload == IF m_mtu < left THEN m_mtu ELSE left
<1>0. snd_nxt \in Nat /\ GetBytesLeft \in Nat \ {0} /\ snd_nxt + GetBytesLeft = m_size
  BY TransportAssumption DEF IInv, TypeOK, SendPacket, CanSend, GetBytesLeft
<1>1. /\ payload \in 1..m_mtu
      /\ snd_nxt + payload <= m_size
      /\ snd_nxt % W32 = snd_nxt
  <2>1. left = GetBytesLeft
    BY <1>0, ModSmall, TransportAssumption DEF NoWrap
  <2>2. payload \in 1..m_mtu /\ payload <= GetBytesLeft
    BY <1>0, <2>1, TransportAssumption
  <2>3. snd_nxt < W32
    BY <1>0, TransportAssumption DEF NoWrap
  <2> QED
    BY <1>0, <2>2, <2>3, ModSmall, TransportAssumption
<1> HIDE DEF left, payload
<1>2. [seq |-> snd_nxt % W32, size |-> payload] \in Packet
  BY <1>0, <1>1, TransportAssumption DEF NoWrap, Packet
<1>3. data' \in Seq(Packet)
  BY <1>2, Fifo DEF SendPacket, IInv, HonestFrames, left, payload
<1>4. data' \in Seq([seq: 0..(W32 - 1), size: 1..m_mtu])
  BY <1>3, FrameTypes, SeqMonotonic
<1>5. snd_nxt' \in 0..m_size
  <2>1. snd_nxt' = snd_nxt + payload
    BY DEF SendPacket, left, payload
  <2> QED
    BY <1>0, <1>1, <2>1, TransportAssumption
<1>6. TypeOK'
  BY <1>4, <1>5 DEF SendPacket, receiver, IInv, TypeOK
<1>7. HonestFrames'
  BY <1>3 DEF SendPacket, receiver, IInv, HonestFrames, AckUpTo, AckFor
<1>8. HonestCounters'
  BY DEF SendPacket, receiver, IInv, HonestCounters
<1>9. CompletedIsReceived'
  BY DEF SendPacket, IInv, CompletedIsReceived
<1> QED
  BY <1>6, <1>7, <1>8, <1>9 DEF IInv

(* Steps that touch neither counters nor frames.                            *)
LEMMA QuietStepsHonest ==
  ASSUME IInv, ClearFinished \/ StopTimePasses \/ NackTimerExpires
  PROVE  IInv'
<1>1. /\ UNCHANGED <<snd_nxt, snd_una, inMap, ReceiverNextExpectedSeq, m_lastNACK,
                     data, acks, received, losses>>
      /\ expired => expired'
  BY DEF ClearFinished, ForgetQp, StopTimePasses, NackTimerExpires, receiver, sender
<1>2. {inMap, inGroup, expired, rxQp, nackHeld}' \subseteq BOOLEAN
  BY DEF IInv, TypeOK, ClearFinished, ForgetQp, StopTimePasses, NackTimerExpires, receiver, sender
<1>3. TypeOK'
  BY <1>1, <1>2 DEF IInv, TypeOK
<1>4. HonestFrames' /\ HonestCounters' /\ CompletedIsReceived'
  BY <1>1 DEF IInv, HonestFrames, HonestCounters, CompletedIsReceived, AckUpTo, AckFor
<1> QED
  BY <1>3, <1>4 DEF IInv

(* The network loses a frame of either direction.                           *)
LEMMA LossHonest ==
  ASSUME IInv, LoseData \/ LoseAck
  PROVE  IInv'
<1>1. UNCHANGED <<sender, receiver, received>> /\ losses' \in 0..MaxLosses
  BY TransportAssumption DEF IInv, TypeOK, LoseData, LoseAck
<1>2. data' \in Seq(Packet) /\ data' \in Seq([seq: 0..(W32 - 1), size: 1..m_mtu])
  BY Fifo DEF IInv, TypeOK, HonestFrames, LoseData, LoseAck
<1>3. acks' \in Seq(AckUpTo(received)) /\ acks' \in Seq([nack: BOOLEAN, seq: 0..(W32 - 1)])
  BY Fifo DEF IInv, TypeOK, HonestFrames, LoseData, LoseAck
<1>4. inMap => acks' \in Seq(AckFor(ReceiverNextExpectedSeq))
  BY Fifo DEF IInv, HonestFrames, LoseData, LoseAck
<1>5. TypeOK'
  BY <1>1, <1>2, <1>3 DEF IInv, TypeOK, sender, receiver
<1>6. HonestFrames'
  BY <1>1, <1>2, <1>3, <1>4 DEF HonestFrames, AckUpTo, AckFor, sender, receiver
<1>7. HonestCounters' /\ CompletedIsReceived'
  BY <1>1 DEF IInv, HonestCounters, CompletedIsReceived, sender, receiver
<1> QED
  BY <1>5, <1>6, <1>7 DEF IInv

(* A receiver that moves on, or goes back no further than to the start of   *)
(* the chunk, and acknowledges at most what it then expects, stays honest.  *)
LEMMA ReceiverStepHonest ==
  ASSUME NoWrap, IInv,
         UNCHANGED <<sender, losses>>,
         data' \in Seq(Packet), rxQp' = TRUE,
         m_lastNACK' \in 0..(W32 - 1), nackHeld' \in BOOLEAN,
         received' \in 0..m_size, received <= received',
         ReceiverNextExpectedSeq' \in 0..(W32 - 1),
         Floor(ReceiverNextExpectedSeq) <= ReceiverNextExpectedSeq',
         ReceiverNextExpectedSeq' <= received',
         \/ acks' = acks
         \/ \E nack \in BOOLEAN :
              acks' = Append(acks, [nack |-> nack, seq |-> ReceiverNextExpectedSeq'])
  PROVE  IInv'
<1> DEFINE expected == ReceiverNextExpectedSeq
<1>1. /\ expected \in Nat /\ expected' \in Nat /\ received \in Nat /\ received' \in Nat
      /\ snd_una \in Nat
  BY TransportAssumption DEF IInv, TypeOK
<1>2. \A nack \in BOOLEAN :
        [nack |-> nack, seq |-> expected'] \in AckUpTo(received') \cap AckFor(expected')
  BY <1>1, FloorFacts DEF AckUpTo, AckFor, AckType
<1>3. acks' \in Seq(AckUpTo(received'))
  <2>1. acks \in Seq(AckUpTo(received'))
    BY <1>1, FrameTypes, SeqMonotonic DEF IInv, HonestFrames
  <2> QED
    BY <1>2, <2>1, Fifo
<1>4. inMap => acks' \in Seq(AckFor(expected'))
  <2>1. ASSUME NEW a \in AckFor(expected) PROVE a \in AckFor(expected')
    <3>1. a \in AckType /\ a.seq \in Nat /\ Floor(a.seq) <= expected
      BY TransportAssumption DEF AckFor, AckType
    <3>2. Floor(a.seq) <= Floor(expected) /\ Floor(a.seq) \in Nat /\ Floor(expected) \in Nat
      BY <1>1, <3>1, FloorFacts
    <3>3. Floor(a.seq) <= expected'
      BY <1>1, <3>2
    <3> QED
      BY <3>1, <3>3 DEF AckFor
  <2>2. AckFor(expected) \subseteq AckFor(expected')
    BY <2>1
  <2>3. inMap => acks \in Seq(AckFor(expected'))
    BY <2>2, SeqMonotonic DEF IInv, HonestFrames
  <2> QED
    BY <1>2, <2>3, Fifo
<1>5. inMap => snd_una <= expected'
  <2>1. inMap => Floor(snd_una) <= Floor(expected)
    BY <1>1, FloorFacts DEF IInv, HonestCounters
  <2>2. Floor(snd_una) = snd_una /\ Floor(expected) \in Nat
    BY <1>1, FloorFacts DEF IInv, HonestCounters
  <2> QED
    BY <1>1, <2>1, <2>2
<1>6. data' \in Seq([seq: 0..(W32 - 1), size: 1..m_mtu])
  BY FrameTypes, SeqMonotonic
<1>7. acks' \in Seq([nack: BOOLEAN, seq: 0..(W32 - 1)])
  <2>1. AckUpTo(received') \subseteq [nack: BOOLEAN, seq: 0..(W32 - 1)]
    BY DEF AckUpTo, AckType
  <2> QED
    BY <1>3, <2>1, SeqMonotonic
<1>8. TypeOK'
  BY <1>6, <1>7 DEF IInv, TypeOK, sender
<1>9. HonestFrames'
  BY <1>3, <1>4 DEF HonestFrames, AckUpTo, AckFor, sender
<1>10. HonestCounters'
  BY <1>1, <1>5 DEF IInv, HonestCounters, sender
<1>11. CompletedIsReceived'
  BY <1>1, TransportAssumption DEF IInv, CompletedIsReceived, sender
<1> QED
  BY <1>8, <1>9, <1>10, <1>11 DEF IInv

(* The receiver takes the packet it expects, asks for the one it misses, or *)
(* ignores one it has.                                                      *)
LEMMA ReceiveUdpHonest ==
  ASSUME NoWrap, IInv, ReceiveUdp
  PROVE  IInv'
<1> DEFINE packet == Head(data)
           expected == ReceiverNextExpectedSeq
<1>1. packet \in Packet /\ data' \in Seq(Packet)
  BY Fifo DEF IInv, HonestFrames, ReceiveUdp
<1>2. data' \in Seq([seq: 0..(W32 - 1), size: 1..m_mtu])
  BY <1>1, FrameTypes, SeqMonotonic
<1>3. UNCHANGED <<sender, losses>>
  BY DEF ReceiveUdp
<1>4. expected \in Nat /\ received \in Nat /\ expected <= received /\ received <= m_size
  BY TransportAssumption DEF IInv, TypeOK, HonestCounters
<1>5. CASE InOrder(packet)
  <2>1. /\ packet.seq = expected
        /\ packet.size \in Nat \ {0}
        /\ expected + packet.size <= m_size
    BY <1>1, <1>5, TransportAssumption DEF Packet, InOrder
  <2>2. (expected + packet.size) % W32 = expected + packet.size
    BY <1>4, <2>1, ModSmall, TransportAssumption DEF NoWrap
  <2>3. ReceiverNextExpectedSeq' = expected + packet.size
    BY <1>5, <2>2 DEF InOrder
  <2>4. received' = Larger(received, expected + packet.size)
    BY <1>5, <2>1 DEF InOrder
  <2>5. /\ received' \in 0..m_size
        /\ received <= received'
        /\ ReceiverNextExpectedSeq' <= received'
        /\ expected <= ReceiverNextExpectedSeq'
        /\ ReceiverNextExpectedSeq' \in 0..(W32 - 1)
    BY <1>4, <2>1, <2>3, <2>4, TransportAssumption DEF Larger, NoWrap
  <2>6. \/ acks' = acks
        \/ acks' = Append(acks, [nack |-> FALSE, seq |-> ReceiverNextExpectedSeq'])
    BY <1>5 DEF InOrder, Reply
  <2>7. Floor(expected) <= ReceiverNextExpectedSeq'
    BY <1>4, <2>1, <2>3, FloorFacts
  <2>8. UNCHANGED <<m_lastNACK, nackHeld>>
    BY <1>5 DEF InOrder
  <2> QED
    BY <1>1, <1>3, <2>5, <2>6, <2>7, <2>8, ReceiverStepHonest DEF IInv, TypeOK, ReceiveUdp
<1>6. CASE OutOfOrder(packet)
  <2>1. /\ UNCHANGED received
        /\ m_lastNACK' \in 0..(W32 - 1) /\ nackHeld' \in BOOLEAN
    BY <1>6 DEF OutOfOrder, IInv, TypeOK
  <2>2. \/ /\ ReceiverNextExpectedSeq' = Floor(expected)
           /\ acks' = Append(acks, [nack |-> TRUE, seq |-> ReceiverNextExpectedSeq'])
        \/ UNCHANGED <<ReceiverNextExpectedSeq, acks>>
    BY <1>6 DEF OutOfOrder, Reply, Floor
  <2>3. /\ Floor(expected) <= ReceiverNextExpectedSeq'
        /\ ReceiverNextExpectedSeq' <= received'
        /\ ReceiverNextExpectedSeq' \in 0..(W32 - 1)
    BY <1>4, <2>1, <2>2, FloorFacts, TransportAssumption DEF NoWrap
  <2>4. \/ acks' = acks
        \/ \E nack \in BOOLEAN :
             acks' = Append(acks, [nack |-> nack, seq |-> ReceiverNextExpectedSeq'])
    BY <2>2
  <2>5. received' \in 0..m_size /\ received <= received'
    BY <1>4, <2>1
  <2>6. rxQp' = TRUE
    BY DEF ReceiveUdp
  <2> QED
    BY <1>1, <1>3, <2>1, <2>3, <2>4, <2>5, <2>6, ReceiverStepHonest
<1>7. CASE Duplicate(packet)
  <2>1. UNCHANGED <<ReceiverNextExpectedSeq, m_lastNACK, nackHeld, acks, received>>
    BY <1>7 DEF Duplicate
  <2>2. Floor(expected) <= ReceiverNextExpectedSeq'
    BY <1>4, <2>1, FloorFacts
  <2> QED
    BY <1>1, <1>3, <1>4, <2>1, <2>2, ReceiverStepHonest DEF IInv, TypeOK, ReceiveUdp
<1> QED
  BY <1>5, <1>6, <1>7 DEF ReceiveUdp

(* What an acknowledgement makes of snd_una.                                *)
LEMMA AcknowledgeHonest ==
  ASSUME IInv, inMap, acks # <<>>
  PROVE  LET una == Acknowledge(Head(acks).seq)
         IN  /\ una \in Nat /\ una <= received /\ una <= ReceiverNextExpectedSeq
             /\ Floor(una) = una
<1> DEFINE seq == Head(acks).seq
           una == Acknowledge(seq)
<1>1. /\ snd_una \in Nat /\ received \in Nat /\ ReceiverNextExpectedSeq \in Nat
      /\ snd_una <= received /\ snd_una <= ReceiverNextExpectedSeq /\ Floor(snd_una) = snd_una
      /\ ReceiverNextExpectedSeq <= received
  BY TransportAssumption DEF IInv, TypeOK, HonestCounters
<1>2. Head(acks) \in AckFor(ReceiverNextExpectedSeq)
  BY Fifo DEF IInv, HonestFrames
<1>3. seq \in Nat /\ Floor(seq) <= ReceiverNextExpectedSeq
  BY <1>2, TransportAssumption DEF AckFor, AckType
<1>4. Floor(seq) \in Nat /\ Floor(Floor(seq)) = Floor(seq)
  BY <1>3, FloorFacts
<1>5. una = snd_una \/ una = Floor(seq)
  BY DEF Acknowledge, Floor, Larger
<1> QED
  BY <1>1, <1>3, <1>4, <1>5

(* An ACK or NACK arrives, advances snd_una, may complete the flow and may  *)
(* send the sender back.                                                    *)
LEMMA ReceiveAckHonest ==
  ASSUME IInv, ReceiveAck
  PROVE  IInv'
<1> DEFINE una == Acknowledge(Head(acks).seq)
<1>1. acks' \in Seq(AckUpTo(received)) /\ acks' \in Seq([nack: BOOLEAN, seq: 0..(W32 - 1)])
  BY Fifo DEF IInv, TypeOK, HonestFrames, ReceiveAck
<1>2. inMap => acks' \in Seq(AckFor(ReceiverNextExpectedSeq))
  BY Fifo DEF IInv, HonestFrames, ReceiveAck
<1>3. UNCHANGED <<inGroup, expired, data, received, losses>>
  BY DEF ReceiveAck
<1>4. CASE ~inMap
  <2>1. UNCHANGED <<snd_nxt, snd_una, inMap, receiver>>
    BY <1>4 DEF ReceiveAck
  <2>2. TypeOK'
    BY <1>1, <1>3, <2>1 DEF IInv, TypeOK, receiver
  <2>3. HonestFrames' /\ HonestCounters' /\ CompletedIsReceived'
    BY <1>1, <1>3, <1>4, <2>1 DEF IInv, HonestFrames, HonestCounters, CompletedIsReceived,
                                  AckUpTo, receiver
  <2> QED
    BY <2>2, <2>3 DEF IInv
<1>5. CASE inMap
  <2>1. /\ snd_una' = una
        /\ snd_nxt' = una \/ snd_nxt' = snd_nxt
    BY <1>5 DEF ReceiveAck
  <2>2. /\ una \in Nat /\ una <= received /\ una <= ReceiverNextExpectedSeq
        /\ Floor(una) = una
    BY <1>5, AcknowledgeHonest DEF ReceiveAck
  <2>3. received \in Nat /\ received <= m_size
    BY TransportAssumption DEF IInv, TypeOK
  <2>4. snd_una' \in 0..m_size /\ snd_nxt' \in 0..m_size
    BY <2>1, <2>2, <2>3, TransportAssumption DEF IInv, TypeOK
  <2>5. CASE m_ack_interval # 0 /\ Finished(una)
    <3>1. QpComplete
      BY <1>5, <2>5 DEF ReceiveAck
    <3>2. expired \/ received = m_size
      BY <2>2, <2>3, <2>5, TransportAssumption DEF Finished
    <3>3. TypeOK'
      <4>1. 0 \in 0..(W32 - 1)
        BY TransportAssumption
      <4>2. {inMap, inGroup, expired, rxQp, nackHeld}' \subseteq BOOLEAN
        BY <1>3, <3>1 DEF IInv, TypeOK, QpComplete
      <4>3. ReceiverNextExpectedSeq' = 0 /\ m_lastNACK' = 0
        BY <3>1 DEF QpComplete
      <4> QED
        BY <1>1, <1>3, <2>4, <4>1, <4>2, <4>3 DEF IInv, TypeOK
    <3>4. HonestFrames' /\ HonestCounters' /\ CompletedIsReceived'
      BY <1>1, <1>3, <2>1, <2>2, <2>3, <3>1, <3>2
         DEF IInv, HonestFrames, HonestCounters, CompletedIsReceived, AckUpTo, QpComplete
    <3> QED
      BY <3>3, <3>4 DEF IInv
  <2>6. CASE ~(m_ack_interval # 0 /\ Finished(una))
    <3>1. UNCHANGED <<inMap, receiver>>
      BY <1>5, <2>6 DEF ReceiveAck
    <3>2. TypeOK'
      BY <1>1, <1>3, <2>4, <3>1 DEF IInv, TypeOK, receiver
    <3>3. HonestFrames' /\ HonestCounters' /\ CompletedIsReceived'
      BY <1>1, <1>2, <1>3, <1>5, <2>1, <2>2, <3>1
         DEF IInv, HonestFrames, HonestCounters, CompletedIsReceived, AckUpTo, AckFor, receiver
    <3> QED
      BY <3>2, <3>3 DEF IInv
  <2> QED
    BY <2>5, <2>6
<1> QED
  BY <1>4, <1>5

-----------------------------------------------------------------------------
(* The theorems *)

(* The invariant is inductive, for every flow the sequence numbers suffice  *)
(* for.                                                                     *)
THEOREM Inductive ==
  ASSUME NoWrap
  PROVE  Spec => []IInv
<1>1. Init => IInv
  <2> SUFFICES ASSUME Init PROVE IInv
    OBVIOUS
  <2>0. 0 \in 0..(W32 - 1) /\ 0 \in 0..m_size /\ 0 \in 0..MaxLosses
    BY TransportAssumption
  <2>1. TypeOK
    <3>1. {inMap, inGroup, expired, rxQp, nackHeld} \subseteq BOOLEAN
      BY DEF Init
    <3>2. /\ data \in Seq([seq: 0..(W32 - 1), size: 1..m_mtu])
          /\ acks \in Seq([nack: BOOLEAN, seq: 0..(W32 - 1)])
      BY DEF Init
    <3> QED
      BY <2>0, <3>1, <3>2 DEF Init, TypeOK
  <2>2. HonestFrames
    BY DEF Init, HonestFrames
  <2>3. HonestCounters /\ CompletedIsReceived
    BY FloorFacts DEF Init, HonestCounters, CompletedIsReceived
  <2> QED
    BY <2>1, <2>2, <2>3 DEF IInv
<1>2. IInv /\ [Next]_vars => IInv'
  <2> SUFFICES ASSUME IInv, [Next]_vars PROVE IInv'
    OBVIOUS
  <2>1. CASE SendPacket
    BY <2>1, SendPacketHonest
  <2>2. CASE ClearFinished \/ StopTimePasses \/ NackTimerExpires
    BY <2>2, QuietStepsHonest
  <2>3. CASE ReceiveAck
    BY <2>3, ReceiveAckHonest
  <2>4. CASE ReceiveUdp
    BY <2>4, ReceiveUdpHonest
  <2>5. CASE LoseData \/ LoseAck
    BY <2>5, LossHonest
  <2>6. CASE UNCHANGED vars
    BY <2>6 DEF vars, sender, receiver, IInv, TypeOK, HonestFrames, HonestCounters,
                CompletedIsReceived, AckUpTo, AckFor
  <2> QED
    BY <2>1, <2>2, <2>3, <2>4, <2>5, <2>6 DEF Next
<1> QED
  BY <1>1, <1>2, PTL DEF Spec

(* Type correctness of a flow: the counters stay within it.                 *)
THEOREM TransportTypes ==
  ASSUME NoWrap
  PROVE  Spec => []TypeOK
<1>1. IInv => TypeOK
  BY DEF IInv
<1> QED
  BY <1>1, Inductive, PTL

(* Go-back-N never takes for delivered what the receiver does not have, nor *)
(* what it has gone back on.                                                *)
THEOREM NothingAckedTooEarly ==
  ASSUME NoWrap
  PROVE  Spec => []AckedIsReceived
<1>1. IInv => AckedIsReceived
  <2> SUFFICES ASSUME IInv PROVE AckedIsReceived
    OBVIOUS
  <2>1. ASSUME NEW i \in DOMAIN acks PROVE acks[i].seq <= received
    BY ElementOfSeq, LenProperties DEF IInv, HonestFrames, AckUpTo
  <2> QED
    BY <2>1 DEF IInv, HonestCounters, AckedIsReceived
<1> QED
  BY <1>1, Inductive, PTL

(* The receiver's history only grows, within the flow, and not after the    *)
(* flow was reported complete, unless it had expired.                       *)
LEMMA ReceiveDelivers ==
  ASSUME IInv, IInv', ReceiveUdp
  PROVE  \/ Transfer!Deliver
         \/ UNCHANGED <<received, expired, inMap>>
<1>1. UNCHANGED <<expired, inMap>>
  BY DEF ReceiveUdp, sender
<1>2. received \in Nat /\ received' \in Nat /\ received' <= m_size
  BY TransportAssumption DEF IInv, TypeOK
<1>3. received' = received \/ received' > received
  <2>1. CASE InOrder(Head(data))
    <3>1. Head(data).seq \in Nat /\ Head(data).size \in Nat
      <4>1. data # <<>> /\ data \in Seq(Packet)
        BY DEF ReceiveUdp, IInv, HonestFrames
      <4>2. Head(data) \in Packet
        BY <4>1, Fifo
      <4> QED
        BY <4>2, TransportAssumption DEF Packet
    <3> QED
      BY <1>2, <2>1, <3>1 DEF InOrder, Larger
  <2>2. CASE OutOfOrder(Head(data)) \/ Duplicate(Head(data))
    BY <2>2 DEF OutOfOrder, Duplicate
  <2> QED
    BY <2>1, <2>2 DEF ReceiveUdp
<1>4. CASE received' = received
  BY <1>1, <1>4
<1>5. CASE received' > received
  <2>1. inMap \/ expired
    BY <1>2, <1>5 DEF IInv, CompletedIsReceived
  <2>2. received' \in (received + 1)..m_size
    BY <1>2, <1>5, TransportAssumption
  <2> QED
    BY <1>1, <2>1, <2>2 DEF Transfer!Deliver
<1> QED
  BY <1>3, <1>4, <1>5

(* A flow is reported complete when all of it was received, or too late.    *)
LEMMA AckCompletes ==
  ASSUME IInv, IInv', ReceiveAck
  PROVE  \/ Transfer!Complete
         \/ UNCHANGED <<received, expired, inMap>>
<1>1. UNCHANGED <<received, expired>>
  BY DEF ReceiveAck
<1>2. inMap' = inMap \/ (inMap /\ inMap' = FALSE)
  BY DEF ReceiveAck, QpComplete
<1>3. CASE inMap /\ inMap' = FALSE
  <2>1. received = m_size \/ expired
    BY <1>1, <1>3 DEF IInv, CompletedIsReceived
  <2> QED
    BY <1>1, <1>3, <2>1 DEF Transfer!Complete
<1> QED
  BY <1>1, <1>2, <1>3

(* The flow implements ReliableTransfer: go-back-N, lost frames, duplicates *)
(* and a receiver that forgets are invisible behind it.                     *)
THEOREM FlowIsReliable ==
  ASSUME NoWrap
  PROVE  Spec => IsReliable
<1>1. Init => Transfer!Init
  BY DEF Init, Transfer!Init
<1>2. IInv /\ IInv' /\ [Next]_vars => [Transfer!Next]_<<received, expired, ~inMap>>
  <2> SUFFICES ASSUME IInv, IInv', [Next]_vars
               PROVE  Transfer!Next \/ UNCHANGED <<received, expired, ~inMap>>
    OBVIOUS
  <2>1. CASE SendPacket \/ ClearFinished \/ NackTimerExpires \/ LoseData \/ LoseAck
    BY <2>1 DEF SendPacket, ClearFinished, ForgetQp, NackTimerExpires, LoseData, LoseAck,
                sender, receiver
  <2>2. CASE ReceiveAck
    BY <2>2, AckCompletes DEF Transfer!Next
  <2>3. CASE ReceiveUdp
    BY <2>3, ReceiveDelivers DEF Transfer!Next
  <2>4. CASE StopTimePasses
    BY <2>4 DEF StopTimePasses, receiver, Transfer!Next, Transfer!Expire
  <2>5. CASE UNCHANGED vars
    BY <2>5 DEF vars, sender
  <2> QED
    BY <2>1, <2>2, <2>3, <2>4, <2>5 DEF Next
<1> QED
  BY <1>1, <1>2, Inductive, PTL DEF Spec, IsReliable, Transfer!Spec

=============================================================================
