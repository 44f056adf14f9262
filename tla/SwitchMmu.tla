------------------------------ MODULE SwitchMmu ------------------------------
(***************************************************************************)
(* The memory management unit of a switch (switch-mmu.cc, the "sonic"      *)
(* buffer model): one shared buffer, seen at the ingress as reserve +      *)
(* shared pool + headroom and at the egress as one pool per traffic class. *)
(* It decides admission, and when an ingress queue must pause or resume    *)
(* its peer.  The caller is the switch node (switch-node.cc): it charges a *)
(* packet when it enters the switch and discharges it when it leaves;      *)
(* `held' is the caller's side of that contract.                           *)
(*                                                                         *)
(* Queue 0 bypasses the MMU and is not in Queues.  The thresholds are      *)
(* DT and FAB; ABM keeps state of its own and is not modelled here.        *)
(***************************************************************************)
EXTENDS Integers, FiniteSets, Functions

CONSTANTS
  Ports, Queues,        \* ports of the switch, MMU-managed queues of a port
  Packets,              \* packets that may cross: see PacketType
  W64,                  \* 2^64 in the code: modulus of its unsigned arithmetic
  bufferPool,           \* bytes of buffer on the chip
  ingressPool,          \* bytes of it for reserve and shared use at the ingress
  egressPool,           \* [Classes -> bytes]
  reserveIngress, xoff, xon, xon_offset,    \* [Ports -> [Queues -> bytes]]
  alphaIngress, alphaEgress,                \* same, in units of 1 / AlphaUnit
  AlphaUnit, alphaHigh,
  ingressAlg, egressAlg                     \* [Classes -> {"DT", "FAB"}]

Classes == {"LOSSLESS", "LOSSY"}
PerQueue(S) == [Ports -> [Queues -> S]]
PacketType == [in: Ports, out: Ports, q: Queues, size: Nat \ {0},
               type: Classes, unsched: BOOLEAN]

ASSUME PacketAssumption == Packets \subseteq PacketType /\ IsFiniteSet(Packets)
ASSUME ConfigAssumption ==
  /\ IsFiniteSet(Ports) /\ IsFiniteSet(Queues)
  /\ W64 \in Nat \ {0}
  /\ bufferPool \in Nat /\ bufferPool < W64 /\ ingressPool \in Nat
  /\ egressPool \in [Classes -> Nat]
  /\ reserveIngress \in PerQueue(Nat) /\ xoff \in PerQueue(Nat)
  /\ xon \in PerQueue(Nat) /\ xon_offset \in PerQueue(Nat)
  /\ alphaIngress \in PerQueue(Nat) /\ alphaEgress \in PerQueue(Nat)
  /\ AlphaUnit \in Nat \ {0} /\ alphaHigh \in Nat
  /\ ingressAlg \in [Classes -> {"DT", "FAB"}]
  /\ egressAlg \in [Classes -> {"DT", "FAB"}]

VARIABLES
  ingress_bytes,              \* bytes each ingress queue occupies, headroom included
  egress_bytes,               \* bytes each egress queue occupies
  xoffUsed,                   \* bytes of ingress_bytes charged to the headroom
  paused,                     \* has this ingress queue paused its peer?
  totalUsed,                  \* bytes in the whole buffer
  xoffTotalUsed,              \* bytes in the whole headroom
  totalIngressReservedUsed,   \* bytes within the reserves
  sharedPoolUsed,             \* bytes outside the headroom
  egressPoolUsed,             \* bytes per traffic class
  held                        \* packets charged and not yet discharged: a count each

counters == <<ingress_bytes, egress_bytes, xoffUsed, paused, totalUsed,
              xoffTotalUsed, totalIngressReservedUsed, sharedPoolUsed,
              egressPoolUsed>>
vars == <<counters, held>>

-----------------------------------------------------------------------------
(* Arithmetic and totals *)

Wrap(n) == n % W64                              \* uint64_t
(* Faulty: unguarded, or a guard that skips where it should clamp.           *)
MonusUnguarded(a, b) == a - b
MonusSkips(a, b) == IF a >= b THEN a - b ELSE a

Monus(a, b) == IF a >= b THEN a - b ELSE 0      \* the guarded subtractions
Lesser(a, b) == IF a <= b THEN a ELSE b
OverQueues(f(_, _)) == SumFunction([pq \in Ports \X Queues |-> f(pq[1], pq[2])])

xoffTotal == OverQueues(LAMBDA p, q : xoff[p][q])
totalIngressReserved == OverQueues(LAMBDA p, q : reserveIngress[p][q])

ReservedPart(bytes, p, q) == Lesser(bytes, reserveIngress[p][q])
GetIngressReservedUsed(p, q) == ReservedPart(ingress_bytes[p][q], p, q)
IngressSharedUsed(used, headroom, reserved) == Wrap(used - headroom - reserved)
GetIngressSharedUsed ==
  IngressSharedUsed(totalUsed, xoffTotalUsed, totalIngressReservedUsed)

-----------------------------------------------------------------------------
(* Thresholds: alpha times what remains of the pool *)

Remaining(pool, used) == IF pool > used THEN pool - used ELSE 0

Alpha(configured, alg, unsched) ==
  IF alg = "FAB" /\ unsched THEN alphaHigh ELSE configured

IngressThreshold(p, q, type, unsched, sharedUsed) ==
  (Alpha(alphaIngress[p][q], ingressAlg[type], unsched)
     * Remaining(Wrap(ingressPool - totalIngressReserved), sharedUsed)) \div AlphaUnit

EgressThreshold(p, q, type, unsched) ==
  (Alpha(alphaEgress[p][q], egressAlg[type], unsched)
     * Remaining(egressPool[type], egressPoolUsed[type])) \div AlphaUnit

-----------------------------------------------------------------------------
(* Admission *)

LossyIngressFits(p, q, psize, unsched) ==
  /\ \/ psize + ingress_bytes[p][q]
          <= IngressThreshold(p, q, "LOSSY", unsched, GetIngressSharedUsed)
     \/ psize + ingress_bytes[p][q] <= reserveIngress[p][q]
  /\ psize + Wrap(totalUsed - xoffTotalUsed) <= ingressPool
  /\ psize + totalUsed <= bufferPool

(* A queue outside the headroom passes whatever its threshold: the packet   *)
(* that crosses the threshold is the first one charged to the headroom.     *)
LosslessFitsAnywhere(p, q, psize) ==       \* faulty: forgets the headroom limits
  psize + totalUsed <= bufferPool

LosslessIngressFits(p, q, psize) ==
  /\ xoffUsed[p][q] > 0 =>
       /\ \/ psize + ingress_bytes[p][q] <= reserveIngress[p][q]
          \/ psize + xoffUsed[p][q] <= xoff[p][q]
       /\ psize + xoffTotalUsed <= xoffTotal
  /\ psize + totalUsed <= ingressPool + xoffTotal
  /\ psize + totalUsed <= bufferPool

CheckIngressAdmission(p, q, psize, type, unsched) ==
  IF type = "LOSSY" THEN LossyIngressFits(p, q, psize, unsched)
                    ELSE LosslessIngressFits(p, q, psize)

EgressFitsThreshold(p, q, psize, type, unsched) ==     \* faulty: no pool limit
  psize + egress_bytes[p][q] <= EgressThreshold(p, q, type, unsched)

CheckEgressAdmission(p, q, psize, type, unsched) ==
  /\ psize + egress_bytes[p][q] <= EgressThreshold(p, q, type, unsched)
  /\ psize + egressPoolUsed[type] <= egressPool[type]
  /\ psize + totalUsed <= bufferPool

Admissible(pkt) ==
  /\ CheckIngressAdmission(pkt.in, pkt.q, pkt.size, pkt.type, pkt.unsched)
  /\ CheckEgressAdmission(pkt.out, pkt.q, pkt.size, pkt.type, pkt.unsched)

-----------------------------------------------------------------------------
(* Charging a packet *)

ReservedAddedTwice(p, q, bytes) ==         \* faulty: keeps the queue's old share
  totalIngressReservedUsed + ReservedPart(bytes, p, q)

ReservedAfter(p, q, bytes) ==
  Monus(totalIngressReservedUsed, GetIngressReservedUsed(p, q)) + ReservedPart(bytes, p, q)

(* The threshold is read after the packet is counted in totalUsed and the   *)
(* reserve, before it is counted in the headroom.                           *)
GoesToHeadroom(p, q, psize, unsched) ==
  LET bytes == ingress_bytes[p][q] + psize
      sharedUsed == IngressSharedUsed(totalUsed + psize, xoffTotalUsed,
                                      ReservedAfter(p, q, bytes))
  IN  \/ xoffUsed[p][q] > 0
      \/ bytes > IngressThreshold(p, q, "LOSSLESS", unsched, sharedUsed)

UpdateIngressAdmission(p, q, psize, type, unsched) ==
  LET toHeadroom == type = "LOSSLESS" /\ GoesToHeadroom(p, q, psize, unsched)
  IN  /\ ingress_bytes' = [ingress_bytes EXCEPT ![p][q] = @ + psize]
      /\ totalUsed' = totalUsed + psize
      /\ totalIngressReservedUsed' = ReservedAfter(p, q, ingress_bytes[p][q] + psize)
      /\ xoffUsed' = IF toHeadroom THEN [xoffUsed EXCEPT ![p][q] = @ + psize] ELSE xoffUsed
      /\ xoffTotalUsed' = IF toHeadroom THEN xoffTotalUsed + psize ELSE xoffTotalUsed
      /\ type = "LOSSLESS" =>
           sharedPoolUsed' = IF toHeadroom THEN sharedPoolUsed ELSE sharedPoolUsed + psize

UpdateEgressAdmission(p, q, psize, type) ==
  /\ egress_bytes' = [egress_bytes EXCEPT ![p][q] = @ + psize]
  /\ egressPoolUsed' = [egressPoolUsed EXCEPT ![type] = @ + psize]
  /\ type = "LOSSY" => sharedPoolUsed' = sharedPoolUsed + psize

CheckShouldPauseLate(p, q, headroom) == ~paused[p][q] /\ headroom > 1    \* faulty

CheckShouldPause(p, q, headroom) == ~paused[p][q] /\ headroom > 0

(* SetPause after the update; switch-node.cc sends the PFC frame with it. *)
PauseIfNeeded(p, q) ==
  paused' = [paused EXCEPT ![p][q] = @ \/ CheckShouldPause(p, q, xoffUsed'[p][q])]

-----------------------------------------------------------------------------
(* Discharging a packet: headroom is given back before the shared pool *)

RemoveFromIngressAdmission(p, q, psize, type) ==
  /\ ingress_bytes' = [ingress_bytes EXCEPT ![p][q] = Monus(@, psize)]
  /\ totalUsed' = Monus(totalUsed, psize)
  /\ totalIngressReservedUsed' = ReservedAfter(p, q, Monus(ingress_bytes[p][q], psize))
  /\ IF type = "LOSSLESS"
     THEN /\ xoffUsed' = [xoffUsed EXCEPT ![p][q] = Monus(@, psize)]
          /\ xoffTotalUsed' = Monus(xoffTotalUsed, xoffUsed[p][q]) + Monus(xoffUsed[p][q], psize)
          /\ sharedPoolUsed' =
               IF xoffUsed[p][q] > 0
               THEN Wrap(sharedPoolUsed - Monus(psize, xoffUsed[p][q]))
               ELSE Monus(sharedPoolUsed, psize)
     ELSE UNCHANGED <<xoffUsed, xoffTotalUsed>>

(* Faulty: the shared pool never gets the bytes of a lossy packet back.      *)
RemoveKeepsShared(p, q, psize, type) ==
  /\ egress_bytes' = [egress_bytes EXCEPT ![p][q] = Monus(@, psize)]
  /\ egressPoolUsed' = [egressPoolUsed EXCEPT ![type] = Monus(@, psize)]
  /\ type = "LOSSY" => sharedPoolUsed' = sharedPoolUsed

RemoveFromEgressAdmission(p, q, psize, type) ==
  /\ egress_bytes' = [egress_bytes EXCEPT ![p][q] = Monus(@, psize)]
  /\ egressPoolUsed' = [egressPoolUsed EXCEPT ![type] = Monus(@, psize)]
  /\ type = "LOSSY" => sharedPoolUsed' = Monus(sharedPoolUsed, psize)

CheckShouldResumeNoXon(p, q, bytes, headroom, sharedUsed) ==              \* faulty
  /\ paused[p][q]
  /\ headroom = 0
  /\ bytes + xon_offset[p][q] <= IngressThreshold(p, q, "LOSSLESS", FALSE, sharedUsed)

(* Read after the discharge: bytes and headroom are the queue's new ones. *)
CheckShouldResume(p, q, bytes, headroom, sharedUsed) ==
  /\ paused[p][q]
  /\ headroom = 0
  /\ \/ bytes < xon[p][q]
     \/ bytes + xon_offset[p][q] <= IngressThreshold(p, q, "LOSSLESS", FALSE, sharedUsed)

ResumeIfPossible(p, q) ==
  LET sharedUsed ==
        IngressSharedUsed(totalUsed', xoffTotalUsed', totalIngressReservedUsed')
  IN  paused' = [paused EXCEPT ![p][q] =
                   @ /\ ~CheckShouldResume(p, q, ingress_bytes'[p][q], xoffUsed'[p][q], sharedUsed)]

-----------------------------------------------------------------------------
(* What the switch node does to the MMU for one packet *)

ChargePacket(pkt) ==
  /\ Admissible(pkt)
  /\ UpdateIngressAdmission(pkt.in, pkt.q, pkt.size, pkt.type, pkt.unsched)
  /\ UpdateEgressAdmission(pkt.out, pkt.q, pkt.size, pkt.type)
  /\ PauseIfNeeded(pkt.in, pkt.q)

DischargePacket(pkt) ==
  /\ RemoveFromIngressAdmission(pkt.in, pkt.q, pkt.size, pkt.type)
  /\ RemoveFromEgressAdmission(pkt.out, pkt.q, pkt.size, pkt.type)
  /\ ResumeIfPossible(pkt.in, pkt.q)

Admit(pkt) ==
  /\ ChargePacket(pkt)
  /\ held' = [held EXCEPT ![pkt] = @ + 1]

Release(pkt) ==
  /\ held[pkt] > 0
  /\ DischargePacket(pkt)
  /\ held' = [held EXCEPT ![pkt] = @ - 1]

Init ==
  /\ ingress_bytes = [p \in Ports |-> [q \in Queues |-> 0]]
  /\ egress_bytes = [p \in Ports |-> [q \in Queues |-> 0]]
  /\ xoffUsed = [p \in Ports |-> [q \in Queues |-> 0]]
  /\ paused = [p \in Ports |-> [q \in Queues |-> FALSE]]
  /\ totalUsed = 0 /\ xoffTotalUsed = 0
  /\ totalIngressReservedUsed = 0 /\ sharedPoolUsed = 0
  /\ egressPoolUsed = [c \in Classes |-> 0]
  /\ held = [pkt \in Packets |-> 0]

Next == \E pkt \in Packets : Admit(pkt) \/ Release(pkt)

Spec == Init /\ [][Next]_vars

-----------------------------------------------------------------------------
(* Properties *)

(* Every counter has its type: no guarded subtraction goes below zero.      *)
TypeOK ==
  /\ ingress_bytes \in PerQueue(Nat) /\ egress_bytes \in PerQueue(Nat)
  /\ xoffUsed \in PerQueue(Nat) /\ paused \in PerQueue(BOOLEAN)
  /\ totalUsed \in Nat /\ xoffTotalUsed \in Nat
  /\ totalIngressReservedUsed \in Nat /\ sharedPoolUsed \in Nat
  /\ egressPoolUsed \in [Classes -> Nat]
  /\ held \in [Packets -> Nat]

BytesHeld(S) == SumFunctionOnSet([pkt \in Packets |-> held[pkt] * pkt.size], S)

(* The ten counters, updated by four handlers, tell the same story: what is *)
(* charged to each queue, class and total is exactly what is in the buffer. *)
ChargedExactly ==
  /\ \A p \in Ports, q \in Queues :
       /\ ingress_bytes[p][q] = BytesHeld({pkt \in Packets : pkt.in = p /\ pkt.q = q})
       /\ egress_bytes[p][q] = BytesHeld({pkt \in Packets : pkt.out = p /\ pkt.q = q})
  /\ \A c \in Classes : egressPoolUsed[c] = BytesHeld({pkt \in Packets : pkt.type = c})
  /\ totalUsed = BytesHeld(Packets)
  /\ xoffTotalUsed = OverQueues(LAMBDA p, q : xoffUsed[p][q])
  /\ totalIngressReservedUsed = OverQueues(GetIngressReservedUsed)

(* Headroom is only ever spent on lossless bytes that are still buffered,   *)
(* also when a lossy packet shares the queue.                               *)
HeadroomHoldsLossless ==
  \A p \in Ports, q \in Queues :
    xoffUsed[p][q] <= BytesHeld({pkt \in Packets :
                         pkt.in = p /\ pkt.q = q /\ pkt.type = "LOSSLESS"})

(* The shared pool counter, kept by ingress for one class and by egress for *)
(* the other, is the buffer that is not headroom (comment at lines 85-87).  *)
SharedPoolIsTheRest == sharedPoolUsed + xoffTotalUsed = totalUsed

(* "any incoming packets can use upto a maximum of xoff[port][q] headroom"  *)
(* (line 49): the first packet charged to the headroom skips the limit, so  *)
(* the claim is for a headroom that holds one packet and the reserve.       *)
HeadroomSized ==
  \A pkt \in Packets :
    pkt.type = "LOSSLESS" =>
      /\ pkt.size <= xoff[pkt.in][pkt.q]
      /\ reserveIngress[pkt.in][pkt.q] <= xoff[pkt.in][pkt.q]

HeadroomWithinXoff ==
  HeadroomSized => \A p \in Ports, q \in Queues : xoffUsed[p][q] <= xoff[p][q]

(* Whoever fills the headroom has been told to stop, and stays told until   *)
(* the headroom is empty.                                                   *)
HeadroomPausesPeer ==
  \A p \in Ports, q \in Queues : xoffUsed[p][q] > 0 => paused[p][q]

(* A queue that keeps its peer paused holds at least xon bytes or headroom: *)
(* resume is only examined when a packet of that very queue leaves, so a    *)
(* paused queue without bytes would stay paused for ever.                   *)
PausedQueueHoldsBytes ==
  \A p \in Ports, q \in Queues :
    paused[p][q] => \/ xoffUsed[p][q] > 0
                    \/ ingress_bytes[p][q] >= xon[p][q]

(* The buffer, the headroom and each egress pool stay within their sizes,   *)
(* though the first packet into the headroom is checked against neither.    *)
BufferNotOverrun ==
  /\ totalUsed <= bufferPool
  /\ \A c \in Classes : egressPoolUsed[c] <= egressPool[c]

PoolsNotOverrun ==
  /\ BufferNotOverrun
  /\ HeadroomSized => /\ totalUsed <= ingressPool + xoffTotal
                      /\ xoffTotalUsed <= xoffTotal

=============================================================================
