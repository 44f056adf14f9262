------------------------------ MODULE SwitchNode ------------------------------
(***************************************************************************)
(* A switch: the node that forwards and accounts (switch-node.cc), its     *)
(* ports (the switch side of qbb-net-device.cc), each with the egress      *)
(* queue of broadcom-egress-queue.cc, and the MMU of module SwitchMmu.     *)
(* Each port has a link to a peer; PFC frames travel on the same links as  *)
(* the packets.  The peer is what the same device class does at the other  *)
(* end: it obeys PFC, but only once the frame has reached it.              *)
(*                                                                         *)
(* A handler calls DequeueAndTransmit of one or two devices before it      *)
(* returns to the event loop.  `calls' holds the devices still to be       *)
(* called; while it is not empty nothing else may happen.                  *)
(*                                                                         *)
(* Left out: ECN marks and INT telemetry (data of the packets that no      *)
(* step of the switch reads back), m_txBytes and its likes, and time.      *)
(* What time decides is a bound: WireCap and Reaction.                     *)
(***************************************************************************)
EXTENDS EgressScheduler

CONSTANTS
  Ports, Queues, Packets, W64,              \* see SwitchMmu
  bufferPool, ingressPool, egressPool, reserveIngress, xoff, xon, xon_offset,
  alphaIngress, alphaEgress, AlphaUnit, alphaHigh, ingressAlg, egressAlg,
  ControlPackets,    \* ACK, NACK and CNP: they travel in queue 0
  PausingPeers,      \* <<port, queue>>: the peer may send PFC frames for it
  W32,               \* 2^32 in the code: modulus of m_bytes
  WireCap,           \* bound: frames in flight on one direction of a link
  PfcCap,            \* bound: PFC frames for one queue on the way to a peer
                     \* that sends in it
  ControlCap,        \* bound: control frames in the node and on its links
  Reaction,          \* bound: packets a peer sends in one queue while the PAUSE
                     \* the switch issued for it is on the way
  MaxLosses,         \* bound: frames the error model may corrupt
  MaxTakeDowns       \* bound: links taken down

ControlType == [in: Ports, out: Ports, q: {0}, size: Nat \ {0}]

ASSUME NodeAssumption ==
  /\ 0 \notin Queues /\ Queues \subseteq Nat
  /\ ControlPackets \subseteq ControlType
  /\ \A pkt \in Packets \cup ControlPackets : pkt.in # pkt.out
  /\ PausingPeers \subseteq (Ports \X Queues)
  /\ W32 \in Nat \ {0} /\ WireCap \in Nat \ {0}
  /\ {PfcCap, ControlCap, Reaction, MaxLosses, MaxTakeDowns} \subseteq Nat

VARIABLES
  ingress_bytes, egress_bytes, xoffUsed, paused, totalUsed, xoffTotalUsed,
  totalIngressReservedUsed, sharedPoolUsed, egressPoolUsed,   \* the MMU's
  m_queue,       \* [Ports -> [QIndex -> frames]]: the egress queues
  busy,          \* m_txMachineState = BUSY
  m_paused,      \* the egress queues a port's peer has paused
  m_linkUp,
  m_bytes,       \* [in -> [out -> [QIndex -> bytes]]]
  calls,         \* devices whose DequeueAndTransmit is pending
  wireIn, wireOut,   \* frames on the link, from the peer and to the peer
  peerPaused,    \* the peer's m_paused, as the switch's PFC frames left it
  peerAsks,      \* the queues the peer wants paused: what its PFC frames said last
  sentSince,     \* packets sent since the PAUSE in force was issued, up to Reaction
  losses, takeDowns

mmuVars == <<ingress_bytes, egress_bytes, xoffUsed, paused, totalUsed, xoffTotalUsed,
             totalIngressReservedUsed, sharedPoolUsed, egressPoolUsed>>
portVars == <<m_queue, busy, m_paused, m_linkUp>>
peerVars == <<peerPaused, peerAsks, sentSince>>
bounds == <<losses, takeDowns>>
vars == <<mmuVars, portVars, m_bytes, calls, wireIn, wireOut, peerVars, bounds>>

QIndex == {0} \cup Queues
PerPort(S) == [Ports -> S]

Pfc(q, pause) == [pfcQueue |-> q, pause |-> pause]
PfcFrames == [pfcQueue: Queues, pause: BOOLEAN]
IsPfc(frame) == "pfcQueue" \in DOMAIN frame

(* Copies of a packet the switch holds: those in the queue it was sent to.  *)
Copies(pkt) ==
  LET queue == m_queue[pkt.out][pkt.q] IN Cardinality({i \in DOMAIN queue : queue[i] = pkt})

Mmu == INSTANCE SwitchMmu WITH held <- [pkt \in Packets |-> Copies(pkt)]

ASSUME MmuAssumption == Mmu!PacketAssumption /\ Mmu!ConfigAssumption

Init ==
  /\ m_queue = [p \in Ports |-> [q \in QIndex |-> <<>>]]
  /\ Mmu!Init
  /\ busy = [p \in Ports |-> FALSE]
  /\ m_paused = [p \in Ports |-> [q \in QIndex |-> FALSE]]
  /\ m_linkUp = [p \in Ports |-> TRUE]
  /\ m_bytes = [p \in Ports |-> [o \in Ports |-> [q \in QIndex |-> 0]]]
  /\ calls = <<>>
  /\ wireIn = [p \in Ports |-> <<>>] /\ wireOut = [p \in Ports |-> <<>>]
  /\ peerPaused = [p \in Ports |-> [q \in Queues |-> FALSE]]
  /\ peerAsks = [p \in Ports |-> [q \in Queues |-> FALSE]]
  /\ sentSince = [p \in Ports |-> [q \in Queues |-> 0]]
  /\ losses = 0 /\ takeDowns = 0

-----------------------------------------------------------------------------
(* Receiving: QbbNetDevice::Receive and SwitchNode::SendToDev *)

Arrived(p, frame) ==
  /\ calls = <<>> /\ m_linkUp[p]
  /\ wireIn[p] # <<>> /\ frame = Head(wireIn[p])
  /\ wireIn' = [wireIn EXCEPT ![p] = Tail(@)]

(* The PFC frames that a change of an ingress queue's pause state sends to  *)
(* its peer: SendPfc puts them in queue 0 of the queue's own port.          *)
PfcSentPauseOnly(p, q) == IF paused'[p][q] /\ ~paused[p][q] THEN <<Pfc(q, TRUE)>> ELSE <<>>
PfcSentResumeOnly(p, q) == IF paused[p][q] /\ ~paused'[p][q] THEN <<Pfc(q, FALSE)>> ELSE <<>>

PfcSent(p, q) == IF paused'[p][q] # paused[p][q] THEN <<Pfc(q, paused'[p][q])>> ELSE <<>>

AddBytesSwapped(in, out, q, n) == m_bytes' = [m_bytes EXCEPT ![out][in][q] = (@ + n) % W32]
AddBytesUnbounded(in, out, q, n) == m_bytes' = [m_bytes EXCEPT ![in][out][q] = @ + n]

AddBytes(in, out, q, n) ==
  m_bytes' = [m_bytes EXCEPT ![in][out][q] = (@ + n) % W32]

(* Faulty: a RESUME that does not restart the transmitter.                  *)
ReceivePfcSilently(p) == \E frame \in PfcFrames :
  /\ Arrived(p, frame)
  /\ m_paused' = [m_paused EXCEPT ![p][frame.pfcQueue] = frame.pause]
  /\ UNCHANGED <<mmuVars, m_queue, busy, m_linkUp, m_bytes, calls, wireOut, peerVars, bounds>>

ReceivePfc(p) == \E frame \in PfcFrames :
  /\ Arrived(p, frame)
  /\ m_paused' = [m_paused EXCEPT ![p][frame.pfcQueue] = frame.pause]
  /\ calls' = IF frame.pause THEN <<>> ELSE <<p>>           \* Resume
  /\ UNCHANGED <<mmuVars, m_queue, busy, m_linkUp, m_bytes, wireOut, peerVars, bounds>>

(* Routing only returns a port whose link is up.                            *)
ForwardPacket(p) == \E pkt \in Packets :
  /\ Arrived(p, pkt)
  /\ m_linkUp[pkt.out]
  /\ Mmu!ChargePacket(pkt)
  /\ LET pfc == PfcSent(p, pkt.q)
     IN  /\ m_queue' = [m_queue EXCEPT ![p][0] = @ \o pfc, ![pkt.out][pkt.q] = Append(@, pkt)]
         /\ calls' = IF pfc = <<>> THEN <<pkt.out>> ELSE <<p, pkt.out>>
  /\ AddBytes(p, pkt.out, pkt.q, pkt.size)
  /\ UNCHANGED <<busy, m_paused, m_linkUp, wireOut, peerVars, bounds>>

(* Faulty: charges the packet before it finds out that it does not fit.     *)
DropPacketCharged(p) == \E pkt \in Packets :
  /\ Arrived(p, pkt)
  /\ ~Mmu!Admissible(pkt)
  /\ Mmu!UpdateIngressAdmission(p, pkt.q, pkt.size, pkt.type, pkt.unsched)
  /\ Mmu!UpdateEgressAdmission(pkt.out, pkt.q, pkt.size, pkt.type)
  /\ UNCHANGED <<paused, portVars, m_bytes, calls, wireOut, peerVars, bounds>>

(* A control frame is dropped only when no port leads on.                    *)
DropPacket(p) == \E pkt \in Packets \cup ControlPackets :
  /\ Arrived(p, pkt)
  /\ m_linkUp[pkt.out] => pkt \in Packets /\ ~Mmu!Admissible(pkt)
  /\ UNCHANGED <<mmuVars, portVars, m_bytes, calls, wireOut, peerVars, bounds>>

(* Queue 0 bypasses the MMU, but not m_bytes.                               *)
ForwardControl(p) == \E pkt \in ControlPackets :
  /\ Arrived(p, pkt)
  /\ m_linkUp[pkt.out]
  /\ m_queue' = [m_queue EXCEPT ![pkt.out][0] = Append(@, pkt)]
  /\ calls' = <<pkt.out>>
  /\ AddBytes(p, pkt.out, 0, pkt.size)
  /\ UNCHANGED <<mmuVars, busy, m_paused, m_linkUp, wireOut, peerVars, bounds>>

-----------------------------------------------------------------------------
(* Sending: QbbNetDevice::DequeueAndTransmit and SwitchNotifyDequeue *)

CanTransmit(p) ==
  m_linkUp[p] /\ ~busy[p] /\ CanDequeue(m_queue[p], m_paused[p])

Returns(p) ==
  /\ ~CanTransmit(p)
  /\ calls' = Tail(calls)
  /\ UNCHANGED <<mmuVars, portVars, m_bytes, wireIn, wireOut, peerVars, bounds>>

TransmitStart(p, frame) ==
  /\ busy' = [busy EXCEPT ![p] = TRUE]
  /\ wireOut' = [wireOut EXCEPT ![p] = Append(@, frame)]

TransmitControl(p) ==
  /\ CanTransmit(p) /\ NextQueue(m_queue[p], m_paused[p]) = 0
  /\ TransmitStart(p, Head(m_queue[p][0]))
  /\ m_queue' = [m_queue EXCEPT ![p][0] = Tail(@)]
  /\ calls' = Tail(calls)
  /\ UNCHANGED <<mmuVars, m_paused, m_linkUp, m_bytes, wireIn, peerVars, bounds>>

TransmitPacket(p) ==
  LET q == NextQueue(m_queue[p], m_paused[p])
      pkt == Head(m_queue[p][q])
      pfc == PfcSent(pkt.in, q)
  IN  /\ CanTransmit(p) /\ q # 0
      /\ Mmu!DischargePacket(pkt)
      /\ AddBytes(pkt.in, p, q, -pkt.size)
      /\ TransmitStart(p, pkt)
      /\ m_queue' = [m_queue EXCEPT ![p][q] = Tail(@), ![pkt.in][0] = @ \o pfc]
      /\ calls' = IF pfc = <<>> THEN Tail(calls) ELSE <<pkt.in>> \o Tail(calls)
      /\ sentSince' = IF pfc = <<>> THEN sentSince
                      ELSE [sentSince EXCEPT ![pkt.in][q] = 0]
      /\ UNCHANGED <<m_paused, m_linkUp, wireIn, peerPaused, peerAsks, bounds>>

DequeueAndTransmit ==
  /\ calls # <<>>
  /\ \/ Returns(Head(calls))
     \/ TransmitControl(Head(calls))
     \/ TransmitPacket(Head(calls))

TransmitComplete(p) ==
  /\ calls = <<>> /\ busy[p]
  /\ Len(wireOut[p]) <= WireCap
  /\ busy' = [busy EXCEPT ![p] = FALSE]
  /\ calls' = <<p>>
  /\ UNCHANGED <<mmuVars, m_queue, m_paused, m_linkUp, m_bytes, wireIn, wireOut, peerVars, bounds>>

(* Faulty: clears the node's total though other ports still hold packets.   *)
TakeDownResets(p) ==
  /\ calls = <<>> /\ m_linkUp[p] /\ takeDowns < MaxTakeDowns
  /\ takeDowns' = takeDowns + 1
  /\ m_linkUp' = [m_linkUp EXCEPT ![p] = FALSE]
  /\ m_paused' = [m_paused EXCEPT ![p] = [q \in QIndex |-> FALSE]]
  /\ m_queue' = [m_queue EXCEPT ![p] = [q \in QIndex |-> <<>>]]
  /\ totalUsed' = 0
  /\ UNCHANGED <<ingress_bytes, egress_bytes, xoffUsed, paused, xoffTotalUsed,
                 totalIngressReservedUsed, sharedPoolUsed, egressPoolUsed,
                 busy, m_bytes, calls, wireIn, wireOut, peerVars, losses>>

(* TakeDown unpauses and drains the egress queues, without a word to the    *)
(* node.  What is in the queues of the other ports is forwarded still.      *)
TakeDown(p) ==
  /\ calls = <<>> /\ m_linkUp[p] /\ takeDowns < MaxTakeDowns
  /\ takeDowns' = takeDowns + 1
  /\ m_linkUp' = [m_linkUp EXCEPT ![p] = FALSE]
  /\ m_paused' = [m_paused EXCEPT ![p] = [q \in QIndex |-> FALSE]]
  /\ m_queue' = [m_queue EXCEPT ![p] = [q \in QIndex |-> <<>>]]
  /\ UNCHANGED <<mmuVars, busy, m_bytes, calls, wireIn, wireOut, peerVars, losses>>

-----------------------------------------------------------------------------
(* The peers and the links *)

PeerCanSend(p) == calls = <<>> /\ m_linkUp[p] /\ Len(wireIn[p]) < WireCap
Onto(wire, p, frame) == [wire EXCEPT ![p] = Append(@, frame)]

(* What is on the way to a peer, oldest first, the data in the port's other *)
(* queues left out; and where in it the PFC frames for one queue are.       *)
OnTheWay(p) == wireOut[p] \o m_queue[p][0]
PfcAt(line, q) == {i \in DOMAIN line : IsPfc(line[i]) /\ line[i].pfcQueue = q}
PfcOnTheWay(p, q) == PfcAt(OnTheWay(p), q)

PeerSend(p) == \E pkt \in Packets :
  /\ pkt.in = p /\ PeerCanSend(p)
  /\ ~peerPaused[p][pkt.q]
  /\ paused[p][pkt.q] /\ PfcOnTheWay(p, pkt.q) # {} => sentSince[p][pkt.q] < Reaction
  /\ Cardinality(PfcOnTheWay(p, pkt.q)) < PfcCap
  /\ wireIn' = Onto(wireIn, p, pkt)
  /\ sentSince' = IF paused[p][pkt.q]
                  THEN [sentSince EXCEPT ![p][pkt.q] = Mmu!Lesser(@ + 1, Reaction)]
                  ELSE sentSince
  /\ UNCHANGED <<mmuVars, portVars, m_bytes, calls, wireOut, peerPaused, peerAsks, bounds>>

(* Control frames in the node and on its links.                             *)
ControlIn(line) == Cardinality({i \in DOMAIN line : line[i] \in ControlPackets})
ControlFrames ==
  SumFunction([p \in Ports |-> ControlIn(wireIn[p]) + ControlIn(m_queue[p][0]) + ControlIn(wireOut[p])])

PeerSendControl(p) == \E pkt \in ControlPackets :
  /\ pkt.in = p /\ PeerCanSend(p)
  /\ ControlFrames < ControlCap
  /\ wireIn' = Onto(wireIn, p, pkt)
  /\ UNCHANGED <<mmuVars, portVars, m_bytes, calls, wireOut, peerVars, bounds>>

PeerSendPfc(p, q, pause) ==
  /\ <<p, q>> \in PausingPeers /\ PeerCanSend(p)
  /\ peerAsks[p][q] # pause
  /\ peerAsks' = [peerAsks EXCEPT ![p][q] = pause]
  /\ wireIn' = Onto(wireIn, p, Pfc(q, pause))
  /\ UNCHANGED <<mmuVars, portVars, m_bytes, calls, wireOut, peerPaused, sentSince, bounds>>

(* A frame arrives after its last bit was sent.                             *)
LeavesWire(p, frame) ==
  /\ calls = <<>>
  /\ Len(wireOut[p]) > (IF busy[p] THEN 1 ELSE 0) /\ frame = Head(wireOut[p])
  /\ wireOut' = [wireOut EXCEPT ![p] = Tail(@)]

PeerReceivePfc(p) == \E frame \in PfcFrames :
  /\ LeavesWire(p, frame) /\ m_linkUp[p]
  /\ peerPaused' = [peerPaused EXCEPT ![p][frame.pfcQueue] = frame.pause]
  /\ UNCHANGED <<mmuVars, portVars, m_bytes, calls, wireIn, peerAsks, sentSince, bounds>>

PeerReceivePacket(p) == \E pkt \in Packets \cup ControlPackets :
  /\ LeavesWire(p, pkt) /\ m_linkUp[p]
  /\ UNCHANGED <<mmuVars, portVars, m_bytes, calls, wireIn, peerVars, bounds>>

(* The receive error model of either end drops a frame.                     *)
Corrupt(p) ==
  /\ calls = <<>> /\ m_linkUp[p] /\ losses < MaxLosses
  /\ losses' = losses + 1
  /\ \/ /\ wireIn[p] # <<>>
        /\ wireIn' = [wireIn EXCEPT ![p] = Tail(@)]
        /\ UNCHANGED wireOut
     \/ /\ \E frame \in PfcFrames \cup Packets \cup ControlPackets : LeavesWire(p, frame)
        /\ UNCHANGED wireIn
  /\ UNCHANGED <<mmuVars, portVars, m_bytes, calls, peerVars, takeDowns>>

(* Both ends drop what arrives over a link that is down.                    *)
DeadLink(p) ==
  /\ calls = <<>> /\ ~m_linkUp[p]
  /\ wireIn[p] # <<>> \/ wireOut[p] # <<>>
  /\ wireIn' = [wireIn EXCEPT ![p] = <<>>]
  /\ wireOut' = [wireOut EXCEPT ![p] = <<>>]
  /\ UNCHANGED <<mmuVars, portVars, m_bytes, calls, peerVars, bounds>>

-----------------------------------------------------------------------------
Next ==
  \/ DequeueAndTransmit
  \/ \E p \in Ports :
       \/ ReceivePfc(p) \/ ForwardPacket(p) \/ DropPacket(p) \/ ForwardControl(p)
       \/ TransmitComplete(p) \/ TakeDown(p)
       \/ PeerSend(p) \/ PeerSendControl(p)
       \/ PeerReceivePfc(p) \/ PeerReceivePacket(p)
       \/ Corrupt(p) \/ DeadLink(p)
       \/ \E q \in Queues, pause \in BOOLEAN : PeerSendPfc(p, q, pause)

Spec == Init /\ [][Next]_vars

(* Events fire at their time: calls return, transmissions complete, frames  *)
(* arrive, though other handlers run in between (so `calls' is no part of   *)
(* what must persist).  A peer that has paused the switch resumes it at     *)
(* last, unless the link goes down.                                         *)
Transmitting(p) == busy[p] /\ Len(wireOut[p]) <= WireCap
FrameComing(p) == m_linkUp[p] /\ wireIn[p] # <<>>
Leaving(p) == m_linkUp[p] /\ Len(wireOut[p]) > (IF busy[p] THEN 1 ELSE 0)
Receive(p) == ReceivePfc(p) \/ ForwardPacket(p) \/ DropPacket(p) \/ ForwardControl(p)
PeerReceive(p) == PeerReceivePfc(p) \/ PeerReceivePacket(p)

Fairness ==
  /\ WF_vars(DequeueAndTransmit)
  /\ \A p \in Ports :
       /\ []<>~Transmitting(p) \/ []<><<TransmitComplete(p)>>_vars
       /\ []<>~FrameComing(p) \/ []<><<Receive(p)>>_vars
       /\ []<>~Leaving(p) \/ []<><<PeerReceive(p)>>_vars
  /\ \A pq \in PausingPeers : []<>~(m_linkUp[pq[1]] /\ peerAsks[pq[1]][pq[2]])

FairSpec == Spec /\ Fairness

-----------------------------------------------------------------------------
(* Properties *)

Idle == calls = <<>>

(* Every variable of the node has its type.                                 *)
TypeOK ==
  /\ Mmu!TypeOK
  /\ \A p \in Ports :
       /\ \A q \in Queues : \A i \in DOMAIN m_queue[p][q] : m_queue[p][q][i] \in Packets
       /\ \A i \in DOMAIN m_queue[p][0] : m_queue[p][0][i] \in PfcFrames \cup ControlPackets
  /\ busy \in PerPort(BOOLEAN) /\ m_linkUp \in PerPort(BOOLEAN)
  /\ m_paused \in PerPort([QIndex -> BOOLEAN])
  /\ m_bytes \in PerPort(PerPort([QIndex -> 0..(W32 - 1)]))
  /\ \A i \in DOMAIN calls : calls[i] \in Ports
  /\ peerPaused \in PerPort([Queues -> BOOLEAN])
  /\ sentSince \in PerPort([Queues -> 0..Reaction])

(* The node keeps its part of the contract with the MMU: every dequeue      *)
(* discharges the packet that was charged, and nothing else touches it.     *)
UsesMmu == Mmu!Spec

(* PFC does what it is for: with a headroom for the packets already on the  *)
(* wire and those sent before the peer reacts, no lossless packet that      *)
(* arrives is ever dropped.                                                 *)
PacketsInFlight == WireCap + Reaction
LosslessOf(p, q) == {pkt \in Packets : pkt.type = "LOSSLESS" /\ pkt.in = p /\ pkt.q = q}

Provisioned ==
  /\ bufferPool >= ingressPool + Mmu!xoffTotal
  /\ \A p \in Ports, q \in Queues : \A pkt \in LosslessOf(p, q) :
       xoff[p][q] >= PacketsInFlight * pkt.size

NoLosslessDrop ==
  Provisioned /\ Idle =>
    \A p \in Ports : \A pkt \in Packets :
      /\ wireIn[p] # <<>> /\ pkt.type = "LOSSLESS" /\ m_linkUp[pkt.out]
      /\ pkt = Head(wireIn[p])
      => Mmu!Admissible(pkt)

(* A port that could send is sending: no handler forgets to start the       *)
(* transmitter after it changes a queue or a pause state.                   *)
WorkConserving == Idle => \A p \in Ports : ~CanTransmit(p)

(* The peer and the MMU keep two copies of one pause state.  The frames in  *)
(* flight account for every difference: they alternate, the oldest changes  *)
(* what the peer believes and the newest says what the MMU believes.  So    *)
(* "Must be PAUSEd" (qbb-net-device.cc:596) holds whenever a RESUME arrives.*)
SignalsAgree(line, q, believed, meant) ==
  LET signals == PfcAt(line, q)
  IN  /\ signals = {} => believed = meant
      /\ \A i \in signals :
           /\ (\A j \in signals : i <= j) => line[i].pause # believed
           /\ (\A j \in signals : j <= i) => line[i].pause = meant
           /\ \A j \in signals :
                i < j /\ (\A k \in signals : k <= i \/ j <= k) => line[i].pause # line[j].pause

PauseSignalsAgree ==
  \A p \in Ports, q \in Queues :
    SignalsAgree(OnTheWay(p), q, peerPaused[p][q], paused[p][q])

(* NS_ASSERT_MSG(m_paused[qIndex], "Must be PAUSEd") in Resume, at the peer. *)
MustBePaused ==
  \A p \in Ports, q \in Queues :
    Idle /\ wireOut[p] # <<>> /\ Head(wireOut[p]) = Pfc(q, FALSE) => peerPaused[p][q]

(* "m_bytes[inDev][outDev][qidx] is the bytes from inDev enqueued for       *)
(* outDev at qidx" (switch-node.h:26).  Not so for queue 0: what is added   *)
(* when a control packet enters is never taken away when it leaves.         *)
QueuedBytes(in, out, q) ==
  LET queue == m_queue[out][q]
  IN  SumFunction([i \in DOMAIN queue |-> IF queue[i].in = in THEN queue[i].size ELSE 0])

BytesEnqueued ==
  \A in, out \in Ports, q \in Queues : m_bytes[in][out][q] = QueuedBytes(in, out, q)

(* Frames lost and links taken down can leave the counters too high, never  *)
(* too low: the MMU never lets in more than the buffer holds.               *)
NeverUndercounts ==
  /\ \A p \in Ports, q \in Queues :
       /\ ingress_bytes[p][q] >= Mmu!BytesHeld({pkt \in Packets : pkt.in = p /\ pkt.q = q})
       /\ egress_bytes[p][q] >= Mmu!BytesHeld({pkt \in Packets : pkt.out = p /\ pkt.q = q})
  /\ totalUsed >= Mmu!BytesHeld(Packets)
  /\ totalUsed <= bufferPool

(* Port o goes on serving its other queues, and q, though backlogged, never *)
(* again.                                                                   *)
TakenFrom(o, q) == Len(m_queue'[o][q]) < Len(m_queue[o][q])
PassedOver(o, q) == m_queue[o][q] # <<>> /\ \E other \in QIndex \ {q} : TakenFrom(o, other)
Starved(o, q) == []<><<PassedOver(o, q)>>_vars /\ <>[][~TakenFrom(o, q)]_vars

LosslessQueues == {<<pkt.in, pkt.q>> : pkt \in {pkt \in Packets : pkt.type = "LOSSLESS"}}

(* No peer stays paused, while no frame is lost, no link is taken down and  *)
(* no port starves the egress queue that keeps the peer paused, as the      *)
(* strict priority of DoDequeueRR may: what holds the ingress queue above   *)
(* its threshold drains, and the RESUME gets through.                       *)
PausedPeerResumes ==
  [](losses = 0 /\ takeDowns = 0) =>
    \A pq \in LosslessQueues :
      \/ \E o \in {pkt.out : pkt \in LosslessOf(pq[1], pq[2])} : Starved(o, pq[2])
      \/ paused[pq[1]][pq[2]] ~> ~peerPaused[pq[1]][pq[2]]

(* "this is round-robin" (qbb-net-device.cc:537): of the queues the peer    *)
(* lets through, each that stays backlogged is served again and again.      *)
EveryQueueServed ==
  \A p \in Ports, q \in Queues :
    <>[](m_queue[p][q] # <<>> /\ ~m_paused[p][q] /\ m_queue[p][0] = <<>>)
      => []<><<TakenFrom(p, q)>>_vars

=============================================================================
