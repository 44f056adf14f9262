--------------------------- MODULE SwitchMmuProofs ---------------------------
(***************************************************************************)
(* What the MMU guarantees for every configuration and every traffic:      *)
(* types, the pause discipline, that the counters agree with the packets   *)
(* in the buffer (with the sums of module SumTheorems), and the limits of  *)
(* headroom and pools that follow.                                         *)
(***************************************************************************)
EXTENDS SwitchMmu, SumTheorems

(* Unsigned arithmetic yields naturals, whatever is subtracted.             *)
LEMMA WrapIsNat == ASSUME NEW n \in Int PROVE Wrap(n) \in Nat
BY ConfigAssumption DEF Wrap

(* A guarded subtraction is a natural no larger than what it started from.  *)
LEMMA MonusIsNat ==
  ASSUME NEW a \in Nat, NEW b \in Nat
  PROVE  Monus(a, b) \in Nat /\ Monus(a, b) <= a /\ a <= Monus(a, b) + b
BY DEF Monus

(* One queue's entry changes, the rest and the type stay.                   *)
LEMMA PerQueueUpdate ==
  ASSUME NEW S, NEW f \in PerQueue(S), NEW p \in Ports, NEW q \in Queues, NEW v \in S
  PROVE  /\ [f EXCEPT ![p][q] = v] \in PerQueue(S)
         /\ [f EXCEPT ![p][q] = v][p][q] = v
         /\ \A p1 \in Ports, q1 \in Queues :
              <<p1, q1>> # <<p, q>> => [f EXCEPT ![p][q] = v][p1][q1] = f[p1][q1]
BY DEF PerQueue

(* What a queue occupies within its reserve.                                *)
LEMMA ReservedPartIsNat ==
  ASSUME NEW p \in Ports, NEW q \in Queues, NEW n \in Nat
  PROVE  ReservedPart(n, p, q) \in Nat
BY ConfigAssumption DEF ReservedPart, Lesser, PerQueue

(* The total reserve in use stays a natural when one queue's part changes.  *)
LEMMA ReservedAfterIsNat ==
  ASSUME TypeOK, NEW p \in Ports, NEW q \in Queues, NEW n \in Nat
  PROVE  ReservedAfter(p, q, n) \in Nat
<1>1. GetIngressReservedUsed(p, q) \in Nat
  BY ReservedPartIsNat DEF TypeOK, PerQueue, GetIngressReservedUsed
<1>2. Monus(totalIngressReservedUsed, GetIngressReservedUsed(p, q)) \in Nat
  BY <1>1, MonusIsNat DEF TypeOK
<1> QED
  BY <1>2, ReservedPartIsNat DEF ReservedAfter

(* Admitting a packet keeps every counter a natural.                        *)
LEMMA AdmitType ==
  ASSUME TypeOK, NEW pkt \in Packets, Admit(pkt)
  PROVE  TypeOK'
<1> DEFINE p == pkt.in  q == pkt.q  psize == pkt.size
<1>1. pkt \in PacketType
  BY PacketAssumption
<1>2. /\ p \in Ports /\ pkt.out \in Ports /\ q \in Queues
      /\ psize \in Nat /\ pkt.type \in Classes
  BY <1>1 DEF PacketType
<1>3. ReservedAfter(p, q, ingress_bytes[p][q] + psize) \in Nat
  BY <1>2, ReservedAfterIsNat DEF TypeOK, PerQueue
<1>4. ingress_bytes' \in PerQueue(Nat) /\ xoffUsed' \in PerQueue(Nat)
  BY <1>2 DEF TypeOK, PerQueue, Admit, ChargePacket, UpdateIngressAdmission
<1>5. egress_bytes' \in PerQueue(Nat) /\ egressPoolUsed' \in [Classes -> Nat]
  BY <1>2 DEF TypeOK, PerQueue, Admit, ChargePacket, UpdateEgressAdmission
<1>6. totalUsed' \in Nat /\ xoffTotalUsed' \in Nat /\ totalIngressReservedUsed' \in Nat
  BY <1>2, <1>3 DEF TypeOK, Admit, ChargePacket, UpdateIngressAdmission
<1>7. sharedPoolUsed' \in Nat
  BY <1>2 DEF TypeOK, Classes, Admit, ChargePacket, UpdateIngressAdmission, UpdateEgressAdmission
<1>8. paused' \in PerQueue(BOOLEAN)
  BY <1>2 DEF TypeOK, PerQueue, Admit, ChargePacket, PauseIfNeeded, CheckShouldPause
<1>9. held' \in [Packets -> Nat]
  BY DEF TypeOK, Admit
<1> QED
  BY <1>4, <1>5, <1>6, <1>7, <1>8, <1>9 DEF TypeOK

(* So does releasing one.                                                   *)
LEMMA ReleaseType ==
  ASSUME TypeOK, NEW pkt \in Packets, Release(pkt)
  PROVE  TypeOK'
<1> DEFINE p == pkt.in  q == pkt.q  psize == pkt.size
<1>1. pkt \in PacketType
  BY PacketAssumption
<1>2. /\ p \in Ports /\ pkt.out \in Ports /\ q \in Queues
      /\ psize \in Nat /\ pkt.type \in Classes
  BY <1>1 DEF PacketType
<1>3. ReservedAfter(p, q, Monus(ingress_bytes[p][q], psize)) \in Nat
  BY <1>2, ReservedAfterIsNat, MonusIsNat DEF TypeOK, PerQueue
<1>4. ingress_bytes' \in PerQueue(Nat) /\ xoffUsed' \in PerQueue(Nat)
  <2>1. Monus(ingress_bytes[p][q], psize) \in Nat /\ Monus(xoffUsed[p][q], psize) \in Nat
    BY <1>2, MonusIsNat DEF TypeOK, PerQueue
  <2>2. ingress_bytes' \in PerQueue(Nat)
    BY <1>2, <2>1 DEF TypeOK, PerQueue, Release, DischargePacket, RemoveFromIngressAdmission
  <2>3. \/ xoffUsed' = xoffUsed
        \/ xoffUsed' = [xoffUsed EXCEPT ![p][q] = Monus(xoffUsed[p][q], psize)]
    BY Zenon DEF Release, DischargePacket, RemoveFromIngressAdmission
  <2>4. xoffUsed \in PerQueue(Nat)
    BY DEF TypeOK
  <2>5. [xoffUsed EXCEPT ![p][q] = Monus(xoffUsed[p][q], psize)] \in PerQueue(Nat)
    BY <1>2, <2>1, <2>4, PerQueueUpdate
  <2>6. xoffUsed' \in PerQueue(Nat)
    BY <2>3, <2>4, <2>5
  <2> QED
    BY <2>2, <2>6
<1>5. egress_bytes' \in PerQueue(Nat) /\ egressPoolUsed' \in [Classes -> Nat]
  BY <1>2 DEF TypeOK, PerQueue, Release, DischargePacket, RemoveFromEgressAdmission, Monus
<1>6. totalUsed' \in Nat /\ xoffTotalUsed' \in Nat /\ totalIngressReservedUsed' \in Nat
  BY <1>2, <1>3 DEF TypeOK, PerQueue, Release, DischargePacket, RemoveFromIngressAdmission, Monus
<1>7. sharedPoolUsed' \in Nat
  <2>1. Wrap(sharedPoolUsed - Monus(psize, xoffUsed[p][q])) \in Nat
    BY <1>2, WrapIsNat DEF TypeOK, PerQueue, Monus
  <2>2. Monus(sharedPoolUsed, psize) \in Nat
    BY <1>2, MonusIsNat DEF TypeOK
  <2> QED
    BY <1>2, <2>1, <2>2 DEF Classes, Release, DischargePacket,
                            RemoveFromIngressAdmission, RemoveFromEgressAdmission
<1>8. paused' \in PerQueue(BOOLEAN)
  BY <1>2 DEF TypeOK, PerQueue, Release, DischargePacket, ResumeIfPossible, CheckShouldResume
<1>9. held' \in [Packets -> Nat]
  BY DEF TypeOK, Release
<1> QED
  BY <1>4, <1>5, <1>6, <1>7, <1>8, <1>9 DEF TypeOK

(* No step of the MMU takes a counter out of its type.                      *)
LEMMA TypeStep == TypeOK /\ [Next]_vars => TypeOK'
<1> SUFFICES ASSUME TypeOK, [Next]_vars PROVE TypeOK'
  OBVIOUS
<1>1. CASE UNCHANGED vars
  BY <1>1 DEF TypeOK, vars, counters
<1>2. CASE Next
  BY <1>2, AdmitType, ReleaseType DEF Next
<1> QED
  BY <1>1, <1>2

(* Type correctness of the MMU: no counter of switch-mmu.cc goes negative.  *)
THEOREM TypeCorrect == Spec => []TypeOK
<1>1. Init => TypeOK
  BY DEF Init, TypeOK, PerQueue
<1> QED
  BY <1>1, TypeStep, PTL DEF Spec

-----------------------------------------------------------------------------
(* What the two operations do to the queue of the packet and to the others *)

(* A queue the step leaves alone.                                           *)
Same(p, q) ==
  /\ ingress_bytes'[p][q] = ingress_bytes[p][q]
  /\ xoffUsed'[p][q] = xoffUsed[p][q]
  /\ paused'[p][q] = paused[p][q]

(* A packet names a port, a queue and a class, and is not empty.            *)
LEMMA PacketFields ==
  ASSUME NEW pkt \in Packets
  PROVE  /\ pkt.in \in Ports /\ pkt.out \in Ports /\ pkt.q \in Queues
         /\ pkt.size \in Nat /\ pkt.size > 0 /\ pkt.type \in Classes
BY PacketAssumption DEF PacketType

(* The types of one queue's entries.                                        *)
LEMMA QueueTypes ==
  ASSUME TypeOK, NEW p \in Ports, NEW q \in Queues
  PROVE  /\ ingress_bytes[p][q] \in Nat /\ xoffUsed[p][q] \in Nat
         /\ paused[p][q] \in BOOLEAN /\ xoff[p][q] \in Nat
         /\ xon[p][q] \in Nat /\ reserveIngress[p][q] \in Nat
BY ConfigAssumption DEF TypeOK, PerQueue

(* An admission adds the packet to its queue and, if it adds to the         *)
(* headroom, pauses the peer.                                               *)
LEMMA AdmitEffect ==
  ASSUME TypeOK, NEW pkt \in Packets, Admit(pkt)
  PROVE  LET p == pkt.in  q == pkt.q IN
         /\ ingress_bytes'[p][q] = ingress_bytes[p][q] + pkt.size
         /\ \/ xoffUsed'[p][q] = xoffUsed[p][q]
            \/ /\ pkt.type = "LOSSLESS"
               /\ xoffUsed'[p][q] = xoffUsed[p][q] + pkt.size
         /\ paused'[p][q] <=> paused[p][q] \/ xoffUsed'[p][q] > 0
         /\ \A p1 \in Ports, q1 \in Queues : <<p1, q1>> # <<p, q>> => Same(p1, q1)
<1> DEFINE p == pkt.in  q == pkt.q
<1>1. p \in Ports /\ q \in Queues /\ pkt.size \in Nat
  BY PacketFields
<1>2. ingress_bytes \in PerQueue(Nat) /\ xoffUsed \in PerQueue(Nat) /\ paused \in PerQueue(BOOLEAN)
  BY DEF TypeOK
<1>3. ingress_bytes[p][q] \in Nat /\ xoffUsed[p][q] \in Nat /\ paused[p][q] \in BOOLEAN
  BY <1>1, QueueTypes
<1>4. ingress_bytes' = [ingress_bytes EXCEPT ![p][q] = ingress_bytes[p][q] + pkt.size]
  BY DEF Admit, ChargePacket, UpdateIngressAdmission
<1>5. \/ xoffUsed' = xoffUsed
      \/ /\ pkt.type = "LOSSLESS"
         /\ xoffUsed' = [xoffUsed EXCEPT ![p][q] = xoffUsed[p][q] + pkt.size]
  BY Zenon DEF Admit, ChargePacket, UpdateIngressAdmission
<1>6. paused' = [paused EXCEPT ![p][q] = paused[p][q] \/ CheckShouldPause(p, q, xoffUsed'[p][q])]
  BY DEF Admit, ChargePacket, PauseIfNeeded
<1>7. /\ ingress_bytes'[p][q] = ingress_bytes[p][q] + pkt.size
      /\ \A p1 \in Ports, q1 \in Queues :
           <<p1, q1>> # <<p, q>> => ingress_bytes'[p1][q1] = ingress_bytes[p1][q1]
  BY <1>1, <1>2, <1>3, <1>4, PerQueueUpdate
<1>8. /\ \/ xoffUsed'[p][q] = xoffUsed[p][q]
         \/ pkt.type = "LOSSLESS" /\ xoffUsed'[p][q] = xoffUsed[p][q] + pkt.size
      /\ \A p1 \in Ports, q1 \in Queues :
           <<p1, q1>> # <<p, q>> => xoffUsed'[p1][q1] = xoffUsed[p1][q1]
  <2>1. CASE xoffUsed' = xoffUsed
    BY <2>1
  <2>2. CASE /\ pkt.type = "LOSSLESS"
             /\ xoffUsed' = [xoffUsed EXCEPT ![p][q] = xoffUsed[p][q] + pkt.size]
    BY <1>1, <1>2, <1>3, <2>2, PerQueueUpdate
  <2> QED
    BY <1>5, <2>1, <2>2
<1>9. /\ paused'[p][q] <=> paused[p][q] \/ xoffUsed'[p][q] > 0
      /\ \A p1 \in Ports, q1 \in Queues :
           <<p1, q1>> # <<p, q>> => paused'[p1][q1] = paused[p1][q1]
  <2> DEFINE v == paused[p][q] \/ CheckShouldPause(p, q, xoffUsed'[p][q])
  <2>1. v \in BOOLEAN /\ (v <=> paused[p][q] \/ xoffUsed'[p][q] > 0)
    BY <1>3 DEF CheckShouldPause
  <2>2. paused' = [paused EXCEPT ![p][q] = v]
    BY <1>6
  <2> HIDE DEF v
  <2>3. /\ paused'[p][q] = v
        /\ \A p1 \in Ports, q1 \in Queues :
             <<p1, q1>> # <<p, q>> => paused'[p1][q1] = paused[p1][q1]
    BY <1>1, <1>2, <2>1, <2>2, PerQueueUpdate
  <2> QED
    BY <2>1, <2>3
<1> QED
  BY <1>7, <1>8, <1>9 DEF Same

(* A release takes the packet off its queue, from the headroom first, and   *)
(* resumes the peer only when headroom and xon allow it.                    *)
LEMMA ReleaseEffect ==
  ASSUME TypeOK, NEW pkt \in Packets, Release(pkt)
  PROVE  LET p == pkt.in  q == pkt.q IN
         /\ ingress_bytes'[p][q] = Monus(ingress_bytes[p][q], pkt.size)
         /\ xoffUsed'[p][q] = IF pkt.type = "LOSSLESS"
                              THEN Monus(xoffUsed[p][q], pkt.size) ELSE xoffUsed[p][q]
         /\ paused'[p][q] => /\ paused[p][q]
                             /\ xoffUsed'[p][q] > 0 \/ ingress_bytes'[p][q] >= xon[p][q]
         /\ paused[p][q] /\ ~paused'[p][q] => xoffUsed'[p][q] = 0
         /\ \A p1 \in Ports, q1 \in Queues : <<p1, q1>> # <<p, q>> => Same(p1, q1)
<1> DEFINE p == pkt.in  q == pkt.q
<1>1. p \in Ports /\ q \in Queues /\ pkt.size \in Nat /\ pkt.type \in Classes
  BY PacketFields
<1>2. ingress_bytes \in PerQueue(Nat) /\ xoffUsed \in PerQueue(Nat) /\ paused \in PerQueue(BOOLEAN)
  BY DEF TypeOK
<1>3. /\ ingress_bytes[p][q] \in Nat /\ xoffUsed[p][q] \in Nat
      /\ paused[p][q] \in BOOLEAN /\ xon[p][q] \in Nat
  BY <1>1, QueueTypes
<1>4. Monus(ingress_bytes[p][q], pkt.size) \in Nat /\ Monus(xoffUsed[p][q], pkt.size) \in Nat
  BY <1>1, <1>3, MonusIsNat
<1>5. ingress_bytes' = [ingress_bytes EXCEPT ![p][q] = Monus(ingress_bytes[p][q], pkt.size)]
  BY DEF Release, DischargePacket, RemoveFromIngressAdmission
<1>6. xoffUsed' = IF pkt.type = "LOSSLESS"
                  THEN [xoffUsed EXCEPT ![p][q] = Monus(xoffUsed[p][q], pkt.size)]
                  ELSE xoffUsed
  BY Zenon DEF Release, DischargePacket, RemoveFromIngressAdmission
<1>7. PICK sharedUsed :
        paused' = [paused EXCEPT ![p][q] =
          paused[p][q] /\ ~CheckShouldResume(p, q, ingress_bytes'[p][q], xoffUsed'[p][q], sharedUsed)]
  BY Zenon DEF Release, DischargePacket, ResumeIfPossible
<1>8. /\ ingress_bytes'[p][q] = Monus(ingress_bytes[p][q], pkt.size)
      /\ \A p1 \in Ports, q1 \in Queues :
           <<p1, q1>> # <<p, q>> => ingress_bytes'[p1][q1] = ingress_bytes[p1][q1]
  BY <1>1, <1>2, <1>4, <1>5, PerQueueUpdate
<1>9. /\ xoffUsed'[p][q] = IF pkt.type = "LOSSLESS"
                           THEN Monus(xoffUsed[p][q], pkt.size) ELSE xoffUsed[p][q]
      /\ \A p1 \in Ports, q1 \in Queues :
           <<p1, q1>> # <<p, q>> => xoffUsed'[p1][q1] = xoffUsed[p1][q1]
  <2>1. CASE pkt.type = "LOSSLESS"
    <3>1. xoffUsed' = [xoffUsed EXCEPT ![p][q] = Monus(xoffUsed[p][q], pkt.size)]
      BY <1>6, <2>1
    <3> QED
      BY <1>1, <1>2, <1>4, <2>1, <3>1, PerQueueUpdate
  <2>2. CASE pkt.type # "LOSSLESS"
    BY <1>6, <2>2
  <2> QED
    BY <2>1, <2>2
<1>10. xoffUsed'[p][q] \in Nat /\ ingress_bytes'[p][q] \in Nat
  BY <1>3, <1>4, <1>8, <1>9
<1>11. /\ paused'[p][q] => /\ paused[p][q]
                           /\ xoffUsed'[p][q] > 0 \/ ingress_bytes'[p][q] >= xon[p][q]
       /\ paused[p][q] /\ ~paused'[p][q] => xoffUsed'[p][q] = 0
       /\ \A p1 \in Ports, q1 \in Queues :
            <<p1, q1>> # <<p, q>> => paused'[p1][q1] = paused[p1][q1]
  <2> DEFINE resume == CheckShouldResume(p, q, ingress_bytes'[p][q], xoffUsed'[p][q], sharedUsed)
             v == paused[p][q] /\ ~resume
  <2>1. /\ resume => xoffUsed'[p][q] = 0
        /\ paused[p][q] /\ ~resume => xoffUsed'[p][q] # 0 \/ ~(ingress_bytes'[p][q] < xon[p][q])
    BY DEF CheckShouldResume
  <2>2. v \in BOOLEAN /\ (v <=> paused[p][q] /\ ~resume)
    BY Zenon
  <2>3. paused' = [paused EXCEPT ![p][q] = v]
    BY <1>7
  <2> HIDE DEF v, resume
  <2>4. /\ paused'[p][q] = v
        /\ \A p1 \in Ports, q1 \in Queues :
             <<p1, q1>> # <<p, q>> => paused'[p1][q1] = paused[p1][q1]
    BY <1>1, <1>2, <2>2, <2>3, PerQueueUpdate
  <2> QED
    BY <1>3, <1>10, <2>1, <2>2, <2>4
<1> QED
  BY <1>8, <1>9, <1>11 DEF Same

-----------------------------------------------------------------------------
(* The pause discipline *)

(* A step of the MMU admits a packet, releases one, or changes nothing.     *)
LEMMA StepCases ==
  ASSUME TypeOK, [Next]_vars
  PROVE  \/ \E pkt \in Packets : Admit(pkt)
         \/ \E pkt \in Packets : Release(pkt)
         \/ UNCHANGED vars
BY DEF Next

(* No step fills the headroom of a queue whose peer may send.               *)
LEMMA HeadroomPausesStep ==
  TypeOK /\ HeadroomPausesPeer /\ [Next]_vars => HeadroomPausesPeer'
<1> SUFFICES ASSUME TypeOK, HeadroomPausesPeer, [Next]_vars,
                    NEW p1 \in Ports, NEW q1 \in Queues, xoffUsed'[p1][q1] > 0
             PROVE  paused'[p1][q1]
  BY DEF HeadroomPausesPeer
<1>0. xoffUsed[p1][q1] \in Nat /\ (xoffUsed[p1][q1] > 0 => paused[p1][q1])
  BY QueueTypes DEF HeadroomPausesPeer
<1>1. ASSUME NEW pkt \in Packets, Admit(pkt) PROVE paused'[p1][q1]
  <2>1. CASE <<p1, q1>> = <<pkt.in, pkt.q>>
    BY <1>1, <2>1, AdmitEffect
  <2>2. CASE <<p1, q1>> # <<pkt.in, pkt.q>>
    BY <1>0, <1>1, <2>2, AdmitEffect DEF Same
  <2> QED
    BY <2>1, <2>2
<1>2. ASSUME NEW pkt \in Packets, Release(pkt) PROVE paused'[p1][q1]
  <2>1. CASE <<p1, q1>> = <<pkt.in, pkt.q>>
    <3>1. xoffUsed[p1][q1] > 0
      BY <1>0, <1>2, <2>1, ReleaseEffect, PacketFields DEF Monus
    <3> QED
      BY <1>0, <1>2, <2>1, <3>1, ReleaseEffect
  <2>2. CASE <<p1, q1>> # <<pkt.in, pkt.q>>
    BY <1>0, <1>2, <2>2, ReleaseEffect DEF Same
  <2> QED
    BY <2>1, <2>2
<1>3. CASE UNCHANGED vars
  BY <1>0, <1>3 DEF vars, counters
<1> QED
  BY <1>1, <1>2, <1>3, StepCases

(* Whoever fills the headroom has been paused, whatever the configuration:  *)
(* no order of admissions and releases leaves headroom in use and the peer  *)
(* sending.                                                                 *)
THEOREM HeadroomPauses == Spec => []HeadroomPausesPeer
<1>1. Init => HeadroomPausesPeer
  BY DEF Init, HeadroomPausesPeer
<1> QED
  BY <1>1, HeadroomPausesStep, TypeCorrect, PTL DEF Spec

(* A queue that keeps its peer paused holds headroom or at least xon bytes, *)
(* so a packet of that queue is still to leave and to examine the resume.   *)
THEOREM PausedHoldsBytes == Spec => []PausedQueueHoldsBytes
<1>1. Init => PausedQueueHoldsBytes
  BY DEF Init, PausedQueueHoldsBytes
<1>2. TypeOK /\ PausedQueueHoldsBytes /\ [Next]_vars => PausedQueueHoldsBytes'
  <2> SUFFICES ASSUME TypeOK, PausedQueueHoldsBytes, [Next]_vars,
                      NEW p1 \in Ports, NEW q1 \in Queues, paused'[p1][q1]
               PROVE  xoffUsed'[p1][q1] > 0 \/ ingress_bytes'[p1][q1] >= xon[p1][q1]
    BY DEF PausedQueueHoldsBytes
  <2>0. /\ xoffUsed[p1][q1] \in Nat /\ ingress_bytes[p1][q1] \in Nat /\ xon[p1][q1] \in Nat
        /\ paused[p1][q1] => xoffUsed[p1][q1] > 0 \/ ingress_bytes[p1][q1] >= xon[p1][q1]
    BY QueueTypes DEF PausedQueueHoldsBytes
  <2>1. ASSUME NEW pkt \in Packets, Admit(pkt)
        PROVE  xoffUsed'[p1][q1] > 0 \/ ingress_bytes'[p1][q1] >= xon[p1][q1]
    <3>1. CASE <<p1, q1>> = <<pkt.in, pkt.q>>
      BY <2>0, <2>1, <3>1, AdmitEffect, PacketFields
    <3>2. CASE <<p1, q1>> # <<pkt.in, pkt.q>>
      BY <2>0, <2>1, <3>2, AdmitEffect DEF Same
    <3> QED
      BY <3>1, <3>2
  <2>2. ASSUME NEW pkt \in Packets, Release(pkt)
        PROVE  xoffUsed'[p1][q1] > 0 \/ ingress_bytes'[p1][q1] >= xon[p1][q1]
    <3>1. CASE <<p1, q1>> = <<pkt.in, pkt.q>>
      BY <2>2, <3>1, ReleaseEffect
    <3>2. CASE <<p1, q1>> # <<pkt.in, pkt.q>>
      BY <2>0, <2>2, <3>2, ReleaseEffect DEF Same
    <3> QED
      BY <3>1, <3>2
  <2>3. CASE UNCHANGED vars
    BY <2>0, <2>3 DEF vars, counters
  <2> QED
    BY <2>1, <2>2, <2>3, StepCases
<1> QED
  BY <1>1, <1>2, TypeCorrect, PTL DEF Spec

-----------------------------------------------------------------------------
(* The limits *)

LEMMA BufferStep == TypeOK /\ BufferNotOverrun /\ [Next]_vars => BufferNotOverrun'
<1> SUFFICES ASSUME TypeOK, BufferNotOverrun, [Next]_vars PROVE BufferNotOverrun'
  OBVIOUS
<1>0. /\ totalUsed \in Nat /\ totalUsed <= bufferPool /\ bufferPool \in Nat
      /\ egressPoolUsed \in [Classes -> Nat] /\ egressPool \in [Classes -> Nat]
      /\ \A c \in Classes : egressPoolUsed[c] <= egressPool[c]
  BY ConfigAssumption DEF TypeOK, BufferNotOverrun
<1>1. ASSUME NEW pkt \in Packets, Admit(pkt) PROVE BufferNotOverrun'
  <2>1. CheckEgressAdmission(pkt.out, pkt.q, pkt.size, pkt.type, pkt.unsched)
    BY <1>1 DEF Admit, ChargePacket, Admissible
  <2>2. totalUsed' <= bufferPool
    BY <1>0, <1>1, <2>1, PacketFields
       DEF Admit, ChargePacket, UpdateIngressAdmission, CheckEgressAdmission
  <2>3. egressPoolUsed' = [egressPoolUsed EXCEPT ![pkt.type] = @ + pkt.size]
    BY <1>1 DEF Admit, ChargePacket, UpdateEgressAdmission
  <2>4. pkt.size + egressPoolUsed[pkt.type] <= egressPool[pkt.type]
    BY <2>1 DEF CheckEgressAdmission
  <2>5. \A c \in Classes : egressPoolUsed'[c] <= egressPool[c]
    BY <1>0, <2>3, <2>4, PacketFields
  <2> QED
    BY <2>2, <2>5 DEF BufferNotOverrun
<1>2. ASSUME NEW pkt \in Packets, Release(pkt) PROVE BufferNotOverrun'
  <2>1. totalUsed' = Monus(totalUsed, pkt.size)
    BY <1>2 DEF Release, DischargePacket, RemoveFromIngressAdmission
  <2>2. egressPoolUsed' = [egressPoolUsed EXCEPT ![pkt.type] = Monus(@, pkt.size)]
    BY <1>2 DEF Release, DischargePacket, RemoveFromEgressAdmission
  <2> QED
    BY <1>0, <2>1, <2>2, PacketFields DEF BufferNotOverrun, Monus
<1>3. CASE UNCHANGED vars
  BY <1>3 DEF vars, counters, BufferNotOverrun
<1> QED
  BY <1>1, <1>2, <1>3, StepCases

(* The buffer and the egress pools are never overrun: both are checked for  *)
(* the very bytes that are then charged.                                    *)
THEOREM BufferBound == Spec => []BufferNotOverrun
<1>1. Init => BufferNotOverrun
  BY ConfigAssumption DEF Init, BufferNotOverrun
<1> QED
  BY <1>1, BufferStep, TypeCorrect, PTL DEF Spec

-----------------------------------------------------------------------------
(* Totals *)

QueueSum(f) ==
  SumFunctionOnSet([pq \in Ports \X Queues |-> f[pq[1]][pq[2]]], Ports \X Queues)

ReservedUsed == [p \in Ports |-> [q \in Queues |-> GetIngressReservedUsed(p, q)]]

(* What the packets of S in the switch weigh, packet by packet.             *)
Weight == [pkt \in Packets |-> held[pkt] * pkt.size]

(* The totals over all queues that the model adds up are such sums.         *)
LEMMA TotalsAreQueueSums ==
  /\ xoffTotal = QueueSum(xoff)
  /\ OverQueues(LAMBDA p, q : xoffUsed[p][q]) = QueueSum(xoffUsed)
  /\ OverQueues(GetIngressReservedUsed) = QueueSum(ReservedUsed)
<1>1. OverQueues(GetIngressReservedUsed) = QueueSum(ReservedUsed)
  <2>1. [pq \in Ports \X Queues |-> GetIngressReservedUsed(pq[1], pq[2])]
          = [pq \in Ports \X Queues |-> ReservedUsed[pq[1]][pq[2]]]
    BY DEF ReservedUsed
  <2> QED BY <2>1 DEF OverQueues, QueueSum, SumFunction
<1> QED
  BY <1>1 DEF OverQueues, QueueSum, SumFunction, xoffTotal

(* There are finitely many queues to add up.                                *)
LEMMA AllQueuesFinite == IsFiniteSet(Ports \X Queues)
BY ConfigAssumption, FS_Product

(* A handler that changes one queue's counter changes the sum by as much.   *)
LEMMA QueueSumUpdate ==
  ASSUME NEW f \in PerQueue(Nat), NEW p \in Ports, NEW q \in Queues, NEW v \in Nat
  PROVE  QueueSum([f EXCEPT ![p][q] = v]) = QueueSum(f) + (v - f[p][q])
<1> DEFINE g == [f EXCEPT ![p][q] = v]
           F == [pq \in Ports \X Queues |-> f[pq[1]][pq[2]]]
           G == [pq \in Ports \X Queues |-> g[pq[1]][pq[2]]]
<1>1. \A pq \in Ports \X Queues : F[pq] \in Int /\ G[pq] \in Int
  BY DEF PerQueue
<1>2. \A pq \in Ports \X Queues : pq # <<p, q>> => G[pq] = F[pq]
  BY DEF PerQueue
<1>3. <<p, q>> \in Ports \X Queues
  OBVIOUS
<1>4. F[<<p, q>>] = f[p][q] /\ G[<<p, q>>] = v
  BY DEF PerQueue
<1> HIDE DEF F, G
<1>5. SumFunctionOnSet(G, Ports \X Queues) = SumFunctionOnSet(F, Ports \X Queues) + (v - f[p][q])
  BY <1>1, <1>2, <1>3, <1>4, AllQueuesFinite, SumChange
<1> QED
  BY <1>5 DEF QueueSum, F, G

(* A sum of counters is a number, and no counter exceeds it.                *)
LEMMA QueueSumIsNat ==
  ASSUME NEW f \in PerQueue(Nat)
  PROVE  /\ QueueSum(f) \in Nat
         /\ \A p \in Ports, q \in Queues : f[p][q] <= QueueSum(f)
<1> DEFINE F == [pq \in Ports \X Queues |-> f[pq[1]][pq[2]]]
<1>1. \A pq \in Ports \X Queues : F[pq] \in Nat
  BY DEF PerQueue
<1>2. \A p \in Ports, q \in Queues : <<p, q>> \in Ports \X Queues /\ F[<<p, q>>] = f[p][q]
  OBVIOUS
<1> HIDE DEF F
<1>3. SumFunctionOnSet(F, Ports \X Queues) \in Nat
  BY <1>1, AllQueuesFinite, SumNat
<1>4. \A pq \in Ports \X Queues : F[pq] <= SumFunctionOnSet(F, Ports \X Queues)
  BY <1>1, AllQueuesFinite, TermWithinSum
<1> QED
  BY <1>2, <1>3, <1>4 DEF QueueSum, F

(* What is held of a kind of packet is a number of bytes, at least one      *)
(* packet's if there is one.                                                *)
LEMMA WeightIsNat ==
  ASSUME TypeOK
  PROVE  \A pkt \in Packets : /\ Weight[pkt] \in Nat
                              /\ held[pkt] > 0 => Weight[pkt] >= pkt.size
<1> SUFFICES ASSUME NEW pkt \in Packets
             PROVE  held[pkt] * pkt.size \in Nat /\ (held[pkt] > 0 => held[pkt] * pkt.size >= pkt.size)
  BY DEF Weight
<1>1. held[pkt] \in Nat /\ pkt.size \in Nat
  BY PacketFields DEF TypeOK
<1>2. ASSUME NEW a \in Nat, NEW b \in Nat
      PROVE  a * b \in Nat /\ (a > 0 => a * b >= b)
  <2>1. a * b \in Nat
    OBVIOUS
  <2>2. a > 0 => a * b = (a - 1) * b + b /\ (a - 1) * b \in Nat
    OBVIOUS
  <2> QED BY <2>1, <2>2
<1> QED
  BY <1>1, <1>2

(* The bytes of a set of packets in the switch: a natural that changes by    *)
(* the size of the packet that comes or goes.                                *)
LEMMA BytesHeldIsNat ==
  ASSUME TypeOK, NEW S \in SUBSET Packets
  PROVE  /\ BytesHeld(S) \in Nat
         /\ \A pkt \in S : held[pkt] > 0 => BytesHeld(S) >= pkt.size
<1>1. IsFiniteSet(S)
  BY PacketAssumption, FS_Subset
<1>2. \A pkt \in S : Weight[pkt] \in Nat /\ (held[pkt] > 0 => Weight[pkt] >= pkt.size)
  BY WeightIsNat
<1>3. SumFunctionOnSet(Weight, S) \in Nat
  BY <1>1, <1>2, SumNat
<1>4. \A pkt \in S : Weight[pkt] <= SumFunctionOnSet(Weight, S)
  BY <1>1, <1>2, TermWithinSum
<1>5. BytesHeld(S) = SumFunctionOnSet(Weight, S)
  BY DEF BytesHeld, Weight
<1>6. ASSUME NEW pkt \in S, held[pkt] > 0 PROVE BytesHeld(S) >= pkt.size
  <2>1. Weight[pkt] >= pkt.size /\ Weight[pkt] \in Nat /\ pkt.size \in Nat
    BY <1>2, <1>6, PacketFields
  <2>2. Weight[pkt] <= SumFunctionOnSet(Weight, S)
    BY <1>4
  <2> QED BY <1>3, <1>5, <2>1, <2>2
<1> QED
  BY <1>3, <1>5, <1>6

(* Fewer packets, no more bytes.                                             *)
LEMMA BytesHeldPart ==
  ASSUME TypeOK, NEW S \in SUBSET Packets
  PROVE  BytesHeld(S) <= BytesHeld(Packets)
<1>1. IsFiniteSet(Packets) /\ \A pkt \in Packets : Weight[pkt] \in Nat
  BY PacketAssumption, WeightIsNat
<1>2. SumFunctionOnSet(Weight, S) <= SumFunctionOnSet(Weight, Packets)
  BY <1>1, PartWithinSum
<1> QED
  BY <1>2 DEF BytesHeld, Weight

(* One copy of a packet more or less changes the bytes of its sets.          *)
LEMMA BytesHeldChange ==
  ASSUME TypeOK, NEW pkt \in Packets, NEW d \in {-1, 1}, held[pkt] + d \in Nat,
         held' = [held EXCEPT ![pkt] = held[pkt] + d], NEW S \in SUBSET Packets
  PROVE  BytesHeld(S)' = BytesHeld(S) + (IF pkt \in S THEN d * pkt.size ELSE 0)
<1>1. IsFiniteSet(S)
  BY PacketAssumption, FS_Subset
<1>2. \A x \in Packets : held[x] \in Nat /\ x.size \in Nat
  BY PacketFields DEF TypeOK
<1>3. /\ held'[pkt] = held[pkt] + d
      /\ \A x \in Packets : x # pkt => held'[x] = held[x]
  BY DEF TypeOK
<1> DEFINE W == [x \in Packets |-> held'[x] * x.size]
<1>4. \A x \in Packets : x # pkt => W[x] = Weight[x]
  BY <1>3 DEF Weight
<1>5. W[pkt] - Weight[pkt] = d * pkt.size /\ W[pkt] \in Int
  <2>1. W[pkt] = (held[pkt] + d) * pkt.size /\ Weight[pkt] = held[pkt] * pkt.size
    BY <1>3 DEF Weight
  <2>2. ASSUME NEW a \in Int, NEW b \in Int, NEW c \in Int
        PROVE  (a + c) * b - a * b = c * b /\ (a + c) * b \in Int
    OBVIOUS
  <2>3. held[pkt] \in Int /\ pkt.size \in Int /\ d \in Int
    BY <1>2
  <2> HIDE DEF W
  <2> QED BY <2>1, <2>2, <2>3
<1>6. \A x \in Packets : Weight[x] \in Int
  BY WeightIsNat
<1>7. \A x \in Packets : W[x] \in Int
  <2> HIDE DEF W
  <2> QED BY <1>4, <1>5, <1>6
<1>8. BytesHeld(S)' = SumFunctionOnSet(W, S)
  BY DEF BytesHeld
<1>9. BytesHeld(S) = SumFunctionOnSet(Weight, S)
  BY DEF BytesHeld, Weight
<1>10. SumFunctionOnSet(Weight, S) \in Int
  BY <1>1, <1>6, SumInt
<1> HIDE DEF W
<1>11. CASE pkt \in S
  <2>1. SumFunctionOnSet(W, S) = SumFunctionOnSet(Weight, S) + (W[pkt] - Weight[pkt])
    BY <1>1, <1>4, <1>6, <1>7, <1>11, SumChange
  <2> QED BY <1>5, <1>8, <1>9, <1>11, <2>1
<1>12. CASE pkt \notin S
  <2>1. SumFunctionOnSet(W, S) = SumFunctionOnSet(Weight, S)
    <3>1. \A x \in S : Weight[x] \in Int /\ W[x] = Weight[x]
      BY <1>4, <1>6, <1>12
    <3> QED BY <1>1, <3>1, SumSame
  <2> QED BY <1>8, <1>9, <1>10, <1>12, <2>1
<1> QED
  BY <1>11, <1>12

(* What is held outside a set of packets, in particular any one packet.      *)
LEMMA BytesHeldOutside ==
  ASSUME TypeOK, NEW pkt \in Packets, held[pkt] > 0, NEW S \in SUBSET Packets, pkt \notin S
  PROVE  BytesHeld(S) + pkt.size <= BytesHeld(Packets)
<1>1. IsFiniteSet(S) /\ IsFiniteSet(S \cup {pkt}) /\ IsFiniteSet(Packets)
  BY PacketAssumption, FS_Subset
<1>2. \A x \in Packets : Weight[x] \in Nat
  BY WeightIsNat
<1>3. SumFunctionOnSet(Weight, S \cup {pkt}) <= SumFunctionOnSet(Weight, Packets)
  BY <1>1, <1>2, PartWithinSum
<1>4. SumFunctionOnSet(Weight, S \cup {pkt})
        = Weight[pkt] + SumFunctionOnSet(Weight, (S \cup {pkt}) \ {pkt})
  BY <1>1, <1>2, SumAnyOrder
<1>5. (S \cup {pkt}) \ {pkt} = S
  OBVIOUS
<1>6. SumFunctionOnSet(Weight, S) \in Nat /\ SumFunctionOnSet(Weight, Packets) \in Nat
  BY <1>1, <1>2, SumNat
<1>7. Weight[pkt] >= pkt.size /\ Weight[pkt] \in Nat /\ pkt.size \in Nat
  BY WeightIsNat, PacketFields
<1>8. BytesHeld(S) = SumFunctionOnSet(Weight, S) /\ BytesHeld(Packets) = SumFunctionOnSet(Weight, Packets)
  BY DEF BytesHeld, Weight
<1>9. Weight[pkt] + SumFunctionOnSet(Weight, S) <= SumFunctionOnSet(Weight, Packets)
  BY <1>3, <1>4, <1>5, Zenon
<1> QED
  BY <1>6, <1>7, <1>8, <1>9

(* The headroom of some queues holds no more than their lossless packets.    *)
LEMMA HeadroomIsPart ==
  ASSUME TypeOK, HeadroomHoldsLossless, NEW E \in SUBSET (Ports \X Queues)
  PROVE  SumFunctionOnSet([pq \in Ports \X Queues |-> xoffUsed[pq[1]][pq[2]]], E)
           <= BytesHeld({pkt \in Packets : <<pkt.in, pkt.q>> \in E /\ pkt.type = "LOSSLESS"})
<1> DEFINE H == [pq \in Ports \X Queues |-> xoffUsed[pq[1]][pq[2]]]
           L == {pkt \in Packets : pkt.type = "LOSSLESS"}
           key == [pkt \in Packets |-> <<pkt.in, pkt.q>>]
<1>1. IsFiniteSet(E) /\ IsFiniteSet(L)
  BY AllQueuesFinite, PacketAssumption, FS_Subset
<1>2. \A pq \in E : H[pq] \in Nat
  BY DEF TypeOK, PerQueue
<1>3. \A pkt \in L : Weight[pkt] \in Nat
  BY WeightIsNat
<1>4. ASSUME NEW pq \in E
      PROVE  H[pq] <= SumFunctionOnSet(Weight, {pkt \in L : key[pkt] = pq})
  <2>1. PICK p \in Ports, q \in Queues : pq = <<p, q>>
    OBVIOUS
  <2>2. H[pq] = xoffUsed[p][q]
    BY <2>1
  <2>3. {pkt \in L : key[pkt] = pq}
          = {pkt \in Packets : pkt.in = p /\ pkt.q = q /\ pkt.type = "LOSSLESS"}
    BY <2>1
  <2>4. xoffUsed[p][q] <= BytesHeld({pkt \in Packets :
                                        pkt.in = p /\ pkt.q = q /\ pkt.type = "LOSSLESS"})
    BY DEF HeadroomHoldsLossless
  <2>5. BytesHeld({pkt \in L : key[pkt] = pq})
          = SumFunctionOnSet(Weight, {pkt \in L : key[pkt] = pq})
    BY DEF BytesHeld, Weight
  <2> QED BY <2>2, <2>3, <2>4, <2>5, Zenon
<1>5. {pkt \in L : key[pkt] \in E}
        = {pkt \in Packets : <<pkt.in, pkt.q>> \in E /\ pkt.type = "LOSSLESS"}
  OBVIOUS
<1>6. SumFunctionOnSet(H, E) <= SumFunctionOnSet(Weight, {pkt \in L : key[pkt] \in E})
  <2> HIDE DEF H, L, key
  <2> QED BY <1>1, <1>2, <1>3, <1>4, SumByKey
<1>7. BytesHeld({pkt \in L : key[pkt] \in E})
        = SumFunctionOnSet(Weight, {pkt \in L : key[pkt] \in E})
  BY DEF BytesHeld, Weight
<1> QED
  BY <1>5, <1>6, <1>7, Zenon

(* The packet that leaves is not in the headroom of the other queues, and,   *)
(* if it is lossy, in none.                                                  *)
LEMMA HeadroomElsewhere ==
  ASSUME TypeOK, HeadroomHoldsLossless, NEW pkt \in Packets, held[pkt] > 0
  PROVE  QueueSum(xoffUsed) + pkt.size
           <= BytesHeld(Packets)
                + (IF pkt.type = "LOSSLESS" THEN xoffUsed[pkt.in][pkt.q] ELSE 0)
<1> DEFINE All == Ports \X Queues
           here == <<pkt.in, pkt.q>>
           H == [pq \in All |-> xoffUsed[pq[1]][pq[2]]]
           E == IF pkt.type = "LOSSLESS" THEN All \ {here} ELSE All
           L == {x \in Packets : <<x.in, x.q>> \in E /\ x.type = "LOSSLESS"}
<1>1. here \in All /\ pkt.size \in Nat /\ pkt.type \in Classes
  BY PacketFields
<1>2. SumFunctionOnSet(H, E) <= BytesHeld(L)
  BY HeadroomIsPart
<1>3. pkt \notin L
  OBVIOUS
<1>4. BytesHeld(L) + pkt.size <= BytesHeld(Packets)
  <2> HIDE DEF L
  <2>1. L \in SUBSET Packets
    BY DEF L
  <2> QED BY <1>3, <2>1, BytesHeldOutside
<1>5. BytesHeld(L) \in Nat /\ BytesHeld(Packets) \in Nat
  BY BytesHeldIsNat
<1>6. \A pq \in All : H[pq] \in Nat
  BY DEF TypeOK, PerQueue
<1>7. H[here] = xoffUsed[pkt.in][pkt.q] /\ H[here] \in Nat
  BY <1>1, <1>6
<1>8. QueueSum(xoffUsed) = SumFunctionOnSet(H, All)
  BY DEF QueueSum
<1>9. SumFunctionOnSet(H, All) = H[here] + SumFunctionOnSet(H, All \ {here})
  <2> HIDE DEF H, here, All
  <2>1. IsFiniteSet(All)
    BY AllQueuesFinite DEF All
  <2> QED BY <1>1, <1>6, <2>1, SumAnyOrder
<1>10. SumFunctionOnSet(H, E) \in Nat
  <2>1. IsFiniteSet(E) /\ E \subseteq All
    BY AllQueuesFinite, FS_Subset
  <2> HIDE DEF H, E, All
  <2> QED BY <1>6, <2>1, SumNat
<1>11. CASE pkt.type = "LOSSLESS"
  <2>1. SumFunctionOnSet(H, All) = H[here] + SumFunctionOnSet(H, E)
    BY <1>9, <1>11, Zenon
  <2> HIDE DEF H, E, All, L, here
  <2> QED BY <1>1, <1>2, <1>4, <1>5, <1>7, <1>8, <1>10, <1>11, <2>1
<1>12. CASE pkt.type # "LOSSLESS"
  <2>1. SumFunctionOnSet(H, All) = SumFunctionOnSet(H, E)
    BY <1>12, Zenon
  <2> HIDE DEF H, E, All, L, here
  <2> QED BY <1>1, <1>2, <1>4, <1>5, <1>8, <1>10, <1>12, <2>1
<1> QED
  BY <1>11, <1>12


(* The two halves of ChargedExactly: queue by queue, and in total.           *)
QueuesCharged ==
  /\ \A p \in Ports, q \in Queues :
       /\ ingress_bytes[p][q] = BytesHeld({pkt \in Packets : pkt.in = p /\ pkt.q = q})
       /\ egress_bytes[p][q] = BytesHeld({pkt \in Packets : pkt.out = p /\ pkt.q = q})
  /\ \A c \in Classes : egressPoolUsed[c] = BytesHeld({pkt \in Packets : pkt.type = c})
  /\ totalUsed = BytesHeld(Packets)

TotalsCharged ==
  /\ xoffTotalUsed = QueueSum(xoffUsed)
  /\ totalIngressReservedUsed = QueueSum(ReservedUsed)

(* ChargedExactly, split into what is said of queues and of totals.         *)
LEMMA ChargedHalves == ChargedExactly <=> QueuesCharged /\ TotalsCharged
BY TotalsAreQueueSums DEF ChargedExactly, QueuesCharged, TotalsCharged

(* One packet more or less of a set, and a counter that follows it.          *)
LEMMA HeldAfterAdmit ==
  ASSUME TypeOK, NEW pkt \in Packets, Admit(pkt), NEW S \in SUBSET Packets
  PROVE  BytesHeld(S)' = BytesHeld(S) + (IF pkt \in S THEN pkt.size ELSE 0)
<1>1. held' = [held EXCEPT ![pkt] = held[pkt] + 1] /\ held[pkt] + 1 \in Nat
  BY DEF Admit, TypeOK
<1>2. BytesHeld(S)' = BytesHeld(S) + (IF pkt \in S THEN 1 * pkt.size ELSE 0)
  BY <1>1, BytesHeldChange
<1> QED
  BY <1>2, PacketFields

(* A departure takes the packet's bytes from the sets it belongs to.        *)
LEMMA HeldAfterRelease ==
  ASSUME TypeOK, NEW pkt \in Packets, Release(pkt), NEW S \in SUBSET Packets
  PROVE  BytesHeld(S)' = IF pkt \in S THEN Monus(BytesHeld(S), pkt.size) ELSE BytesHeld(S)
<1>1. held' = [held EXCEPT ![pkt] = held[pkt] + (-1)] /\ held[pkt] + (-1) \in Nat /\ held[pkt] > 0
  <2>1. held' = [held EXCEPT ![pkt] = held[pkt] - 1] /\ held[pkt] > 0 /\ held[pkt] \in Nat
    BY DEF Release, TypeOK
  <2>2. held[pkt] - 1 = held[pkt] + (-1) /\ held[pkt] + (-1) \in Nat
    BY <2>1
  <2> QED BY <2>1, <2>2, Zenon
<1>2. BytesHeld(S)' = BytesHeld(S) + (IF pkt \in S THEN (-1) * pkt.size ELSE 0)
  BY <1>1, BytesHeldChange
<1>3. /\ BytesHeld(S) \in Nat
      /\ pkt \in S => BytesHeld(S) >= pkt.size
  BY <1>1, BytesHeldIsNat
<1> QED
  BY <1>2, <1>3, PacketFields DEF Monus

(* The bytes charged to the two queues of a packet are those it brings.     *)
LEMMA AdmitCharges ==
  ASSUME TypeOK, QueuesCharged, NEW pkt \in Packets, Admit(pkt)
  PROVE  QueuesCharged'
<1> DEFINE In(p, q) == {x \in Packets : x.in = p /\ x.q = q}
           Out(p, q) == {x \in Packets : x.out = p /\ x.q = q}
           Of(c) == {x \in Packets : x.type = c}
<1>1. \A S \in SUBSET Packets : BytesHeld(S)' = BytesHeld(S) + (IF pkt \in S THEN pkt.size ELSE 0)
  BY HeldAfterAdmit
<1>2. /\ pkt.in \in Ports /\ pkt.out \in Ports /\ pkt.q \in Queues
      /\ pkt.size \in Nat /\ pkt.type \in Classes
  BY PacketFields
<1>3. ASSUME NEW p \in Ports, NEW q \in Queues
      PROVE  ingress_bytes'[p][q] = BytesHeld(In(p, q))'
  <2>1. BytesHeld(In(p, q))' = BytesHeld(In(p, q)) + (IF pkt \in In(p, q) THEN pkt.size ELSE 0)
    BY <1>1
  <2>2. pkt \in In(p, q) <=> pkt.in = p /\ pkt.q = q
    OBVIOUS
  <2>3. ingress_bytes'[p][q]
          = ingress_bytes[p][q] + (IF pkt.in = p /\ pkt.q = q THEN pkt.size ELSE 0)
    <3>1. CASE pkt.in = p /\ pkt.q = q
      BY <3>1, AdmitEffect
    <3>2. CASE ~(pkt.in = p /\ pkt.q = q)
      BY <1>2, <3>2, AdmitEffect, QueueTypes DEF Same
    <3> QED BY <3>1, <3>2
  <2>4. ingress_bytes[p][q] = BytesHeld(In(p, q))
    BY DEF QueuesCharged
  <2> HIDE DEF In
  <2> QED BY <2>1, <2>2, <2>3, <2>4
<1>4. ASSUME NEW p \in Ports, NEW q \in Queues
      PROVE  egress_bytes'[p][q] = BytesHeld(Out(p, q))'
  <2>1. BytesHeld(Out(p, q))' = BytesHeld(Out(p, q)) + (IF pkt \in Out(p, q) THEN pkt.size ELSE 0)
    BY <1>1
  <2>2. pkt \in Out(p, q) <=> pkt.out = p /\ pkt.q = q
    OBVIOUS
  <2>3. egress_bytes \in PerQueue(Nat) /\ egress_bytes[p][q] \in Nat
    BY DEF TypeOK, PerQueue
  <2>4. egress_bytes'[p][q]
          = egress_bytes[p][q] + (IF pkt.out = p /\ pkt.q = q THEN pkt.size ELSE 0)
    BY <1>2, <2>3 DEF Admit, ChargePacket, UpdateEgressAdmission, PerQueue
  <2>5. egress_bytes[p][q] = BytesHeld(Out(p, q))
    BY DEF QueuesCharged
  <2> HIDE DEF Out
  <2> QED BY <2>1, <2>2, <2>4, <2>5
<1>5. ASSUME NEW c \in Classes
      PROVE  egressPoolUsed'[c] = BytesHeld(Of(c))'
  <2>1. BytesHeld(Of(c))' = BytesHeld(Of(c)) + (IF pkt \in Of(c) THEN pkt.size ELSE 0)
    BY <1>1
  <2>2. pkt \in Of(c) <=> pkt.type = c
    OBVIOUS
  <2>3. egressPoolUsed \in [Classes -> Nat] /\ egressPoolUsed[c] \in Nat
    BY DEF TypeOK
  <2>4. egressPoolUsed'[c] = egressPoolUsed[c] + (IF pkt.type = c THEN pkt.size ELSE 0)
    BY <1>2, <2>3 DEF Admit, ChargePacket, UpdateEgressAdmission
  <2>5. egressPoolUsed[c] = BytesHeld(Of(c))
    BY DEF QueuesCharged
  <2> HIDE DEF Of
  <2> QED BY <2>1, <2>2, <2>4, <2>5
<1>6. totalUsed' = BytesHeld(Packets)'
  <2>1. totalUsed' = totalUsed + pkt.size
    BY DEF Admit, ChargePacket, UpdateIngressAdmission
  <2>2. totalUsed = BytesHeld(Packets)
    BY DEF QueuesCharged
  <2>3. BytesHeld(Packets)' = BytesHeld(Packets) + pkt.size
    BY <1>1
  <2> QED BY <2>1, <2>2, <2>3
<1> QED
  BY <1>3, <1>4, <1>5, <1>6 DEF QueuesCharged

(* The bytes discharged from the two queues of a packet are those it takes. *)
LEMMA ReleaseDischarges ==
  ASSUME TypeOK, QueuesCharged, NEW pkt \in Packets, Release(pkt)
  PROVE  QueuesCharged'
<1> DEFINE In(p, q) == {x \in Packets : x.in = p /\ x.q = q}
           Out(p, q) == {x \in Packets : x.out = p /\ x.q = q}
           Of(c) == {x \in Packets : x.type = c}
<1>1. \A S \in SUBSET Packets :
        BytesHeld(S)' = IF pkt \in S THEN Monus(BytesHeld(S), pkt.size) ELSE BytesHeld(S)
  BY HeldAfterRelease
<1>2. /\ pkt.in \in Ports /\ pkt.out \in Ports /\ pkt.q \in Queues
      /\ pkt.size \in Nat /\ pkt.type \in Classes
  BY PacketFields
<1>3. ASSUME NEW p \in Ports, NEW q \in Queues
      PROVE  ingress_bytes'[p][q] = BytesHeld(In(p, q))'
  <2>1. BytesHeld(In(p, q))' = IF pkt \in In(p, q) THEN Monus(BytesHeld(In(p, q)), pkt.size)
                                                   ELSE BytesHeld(In(p, q))
    BY <1>1
  <2>2. pkt \in In(p, q) <=> pkt.in = p /\ pkt.q = q
    OBVIOUS
  <2>3. ingress_bytes'[p][q]
          = IF pkt.in = p /\ pkt.q = q THEN Monus(ingress_bytes[p][q], pkt.size)
                                       ELSE ingress_bytes[p][q]
    <3>1. CASE pkt.in = p /\ pkt.q = q
      BY <3>1, ReleaseEffect
    <3>2. CASE ~(pkt.in = p /\ pkt.q = q)
      BY <1>2, <3>2, ReleaseEffect DEF Same
    <3> QED BY <3>1, <3>2
  <2>4. ingress_bytes[p][q] = BytesHeld(In(p, q))
    BY DEF QueuesCharged
  <2> HIDE DEF In
  <2> QED BY <2>1, <2>2, <2>3, <2>4
<1>4. ASSUME NEW p \in Ports, NEW q \in Queues
      PROVE  egress_bytes'[p][q] = BytesHeld(Out(p, q))'
  <2>1. BytesHeld(Out(p, q))' = IF pkt \in Out(p, q) THEN Monus(BytesHeld(Out(p, q)), pkt.size)
                                                     ELSE BytesHeld(Out(p, q))
    BY <1>1
  <2>2. pkt \in Out(p, q) <=> pkt.out = p /\ pkt.q = q
    OBVIOUS
  <2>3. egress_bytes \in PerQueue(Nat)
    BY DEF TypeOK
  <2>4. egress_bytes'[p][q]
          = IF pkt.out = p /\ pkt.q = q THEN Monus(egress_bytes[p][q], pkt.size)
                                        ELSE egress_bytes[p][q]
    BY <1>2, <2>3 DEF Release, DischargePacket, RemoveFromEgressAdmission, PerQueue
  <2>5. egress_bytes[p][q] = BytesHeld(Out(p, q))
    BY DEF QueuesCharged
  <2> HIDE DEF Out
  <2> QED BY <2>1, <2>2, <2>4, <2>5
<1>5. ASSUME NEW c \in Classes
      PROVE  egressPoolUsed'[c] = BytesHeld(Of(c))'
  <2>1. BytesHeld(Of(c))' = IF pkt \in Of(c) THEN Monus(BytesHeld(Of(c)), pkt.size)
                                             ELSE BytesHeld(Of(c))
    BY <1>1
  <2>2. pkt \in Of(c) <=> pkt.type = c
    OBVIOUS
  <2>3. egressPoolUsed \in [Classes -> Nat]
    BY DEF TypeOK
  <2>4. egressPoolUsed'[c] = IF pkt.type = c THEN Monus(egressPoolUsed[c], pkt.size)
                                             ELSE egressPoolUsed[c]
    BY <1>2, <2>3 DEF Release, DischargePacket, RemoveFromEgressAdmission
  <2>5. egressPoolUsed[c] = BytesHeld(Of(c))
    BY DEF QueuesCharged
  <2> HIDE DEF Of
  <2> QED BY <2>1, <2>2, <2>4, <2>5
<1>6. totalUsed' = BytesHeld(Packets)'
  <2>1. totalUsed' = Monus(totalUsed, pkt.size)
    BY DEF Release, DischargePacket, RemoveFromIngressAdmission
  <2>2. totalUsed = BytesHeld(Packets)
    BY DEF QueuesCharged
  <2>3. BytesHeld(Packets)' = Monus(BytesHeld(Packets), pkt.size)
    BY <1>1
  <2> QED BY <2>1, <2>2, <2>3
<1> QED
  BY <1>3, <1>4, <1>5, <1>6 DEF QueuesCharged

-----------------------------------------------------------------------------
(* Counters that are never too low *)

(* A node that loses packets without telling the MMU can only make the      *)
(* counters too high.                                                       *)
NotTooLow ==
  /\ \A p \in Ports, q \in Queues :
       /\ ingress_bytes[p][q] >= BytesHeld({pkt \in Packets : pkt.in = p /\ pkt.q = q})
       /\ egress_bytes[p][q] >= BytesHeld({pkt \in Packets : pkt.out = p /\ pkt.q = q})
  /\ totalUsed >= BytesHeld(Packets)

(* Exact counters are not too low.                                          *)
LEMMA ExactNotTooLow == TypeOK /\ ChargedExactly => NotTooLow
<1> SUFFICES ASSUME TypeOK, ChargedExactly PROVE NotTooLow
  OBVIOUS
<1>1. ASSUME NEW p \in Ports, NEW q \in Queues
      PROVE  /\ ingress_bytes[p][q] >= BytesHeld({pkt \in Packets : pkt.in = p /\ pkt.q = q})
             /\ egress_bytes[p][q] >= BytesHeld({pkt \in Packets : pkt.out = p /\ pkt.q = q})
  <2> DEFINE In == BytesHeld({pkt \in Packets : pkt.in = p /\ pkt.q = q})
             Out == BytesHeld({pkt \in Packets : pkt.out = p /\ pkt.q = q})
  <2>1. ingress_bytes[p][q] = In /\ egress_bytes[p][q] = Out
    BY DEF ChargedExactly
  <2>2. ingress_bytes[p][q] \in Nat /\ egress_bytes[p][q] \in Nat
    BY DEF TypeOK, PerQueue
  <2> HIDE DEF In, Out
  <2>3. ingress_bytes[p][q] >= In /\ egress_bytes[p][q] >= Out
    BY <2>1, <2>2
  <2> QED BY <2>3 DEF In, Out
<1>2. totalUsed >= BytesHeld(Packets)
  <2>1. totalUsed = BytesHeld(Packets)
    BY DEF ChargedExactly
  <2>2. totalUsed \in Nat
    BY DEF TypeOK
  <2> QED
    BY <2>1, <2>2
<1> QED
  BY <1>1, <1>2 DEF NotTooLow

(* Admitting a packet adds its size to the same counters and sets.          *)
LEMMA AdmitNotTooLow ==
  ASSUME TypeOK, NotTooLow, NEW pkt \in Packets, Admit(pkt)
  PROVE  NotTooLow'
<1> DEFINE In(p, q) == {x \in Packets : x.in = p /\ x.q = q}
           Out(p, q) == {x \in Packets : x.out = p /\ x.q = q}
<1>1. \A S \in SUBSET Packets :
        /\ BytesHeld(S)' = BytesHeld(S) + (IF pkt \in S THEN pkt.size ELSE 0)
        /\ BytesHeld(S) \in Nat
  BY HeldAfterAdmit, BytesHeldIsNat
<1>2. /\ pkt.in \in Ports /\ pkt.out \in Ports /\ pkt.q \in Queues
      /\ pkt.size \in Nat /\ totalUsed \in Nat
  BY PacketFields DEF TypeOK
<1>3. ASSUME NEW p \in Ports, NEW q \in Queues
      PROVE  ingress_bytes'[p][q] >= BytesHeld(In(p, q))'
  <2>1. /\ BytesHeld(In(p, q))' = BytesHeld(In(p, q)) + (IF pkt \in In(p, q) THEN pkt.size ELSE 0)
        /\ BytesHeld(In(p, q)) \in Nat
    BY <1>1
  <2>2. pkt \in In(p, q) <=> pkt.in = p /\ pkt.q = q
    OBVIOUS
  <2>3. ingress_bytes[p][q] \in Nat
    BY QueueTypes
  <2>4. ingress_bytes'[p][q]
          = ingress_bytes[p][q] + (IF pkt.in = p /\ pkt.q = q THEN pkt.size ELSE 0)
    <3>1. CASE pkt.in = p /\ pkt.q = q
      BY <3>1, AdmitEffect
    <3>2. CASE ~(pkt.in = p /\ pkt.q = q)
      BY <1>2, <2>3, <3>2, AdmitEffect DEF Same
    <3> QED BY <3>1, <3>2
  <2>5. ingress_bytes[p][q] >= BytesHeld(In(p, q))
    BY DEF NotTooLow
  <2> HIDE DEF In
  <2> QED BY <1>2, <2>1, <2>2, <2>3, <2>4, <2>5
<1>4. ASSUME NEW p \in Ports, NEW q \in Queues
      PROVE  egress_bytes'[p][q] >= BytesHeld(Out(p, q))'
  <2>1. /\ BytesHeld(Out(p, q))' = BytesHeld(Out(p, q)) + (IF pkt \in Out(p, q) THEN pkt.size ELSE 0)
        /\ BytesHeld(Out(p, q)) \in Nat
    BY <1>1
  <2>2. pkt \in Out(p, q) <=> pkt.out = p /\ pkt.q = q
    OBVIOUS
  <2>3. egress_bytes \in PerQueue(Nat) /\ egress_bytes[p][q] \in Nat
    BY DEF TypeOK, PerQueue
  <2>4. egress_bytes'[p][q]
          = egress_bytes[p][q] + (IF pkt.out = p /\ pkt.q = q THEN pkt.size ELSE 0)
    BY <1>2, <2>3 DEF Admit, ChargePacket, UpdateEgressAdmission, PerQueue
  <2>5. egress_bytes[p][q] >= BytesHeld(Out(p, q))
    BY DEF NotTooLow
  <2> HIDE DEF Out
  <2> QED BY <1>2, <2>1, <2>2, <2>3, <2>4, <2>5
<1>5. totalUsed' >= BytesHeld(Packets)'
  <2>1. totalUsed' = totalUsed + pkt.size
    BY DEF Admit, ChargePacket, UpdateIngressAdmission
  <2>2. totalUsed >= BytesHeld(Packets)
    BY DEF NotTooLow
  <2>3. BytesHeld(Packets)' = BytesHeld(Packets) + pkt.size /\ BytesHeld(Packets) \in Nat
    BY <1>1
  <2> QED BY <1>2, <2>1, <2>2, <2>3
<1> QED
  BY <1>3, <1>4, <1>5 DEF NotTooLow

(* Releasing one subtracts it from both, and the guarded subtraction from   *)
(* the larger number stays the larger.                                      *)
LEMMA MonusKeepsOrder ==
  ASSUME NEW a \in Nat, NEW b \in Nat, NEW n \in Nat, a >= b
  PROVE  Monus(a, n) >= Monus(b, n)
BY DEF Monus

(* So releasing a packet leaves no counter too low.                         *)
LEMMA ReleaseNotTooLow ==
  ASSUME TypeOK, NotTooLow, NEW pkt \in Packets, Release(pkt)
  PROVE  NotTooLow'
<1> DEFINE In(p, q) == {x \in Packets : x.in = p /\ x.q = q}
           Out(p, q) == {x \in Packets : x.out = p /\ x.q = q}
<1>1. \A S \in SUBSET Packets :
        /\ BytesHeld(S)' = IF pkt \in S THEN Monus(BytesHeld(S), pkt.size) ELSE BytesHeld(S)
        /\ BytesHeld(S) \in Nat
  BY HeldAfterRelease, BytesHeldIsNat
<1>2. /\ pkt.in \in Ports /\ pkt.out \in Ports /\ pkt.q \in Queues
      /\ pkt.size \in Nat /\ totalUsed \in Nat
  BY PacketFields DEF TypeOK
<1>3. ASSUME NEW p \in Ports, NEW q \in Queues
      PROVE  ingress_bytes'[p][q] >= BytesHeld(In(p, q))'
  <2>1. /\ BytesHeld(In(p, q))' = IF pkt \in In(p, q) THEN Monus(BytesHeld(In(p, q)), pkt.size)
                                                     ELSE BytesHeld(In(p, q))
        /\ BytesHeld(In(p, q)) \in Nat
    BY <1>1
  <2>2. pkt \in In(p, q) <=> pkt.in = p /\ pkt.q = q
    OBVIOUS
  <2>3. ingress_bytes'[p][q]
          = IF pkt.in = p /\ pkt.q = q THEN Monus(ingress_bytes[p][q], pkt.size)
                                       ELSE ingress_bytes[p][q]
    <3>1. CASE pkt.in = p /\ pkt.q = q
      BY <3>1, ReleaseEffect
    <3>2. CASE ~(pkt.in = p /\ pkt.q = q)
      BY <1>2, <3>2, ReleaseEffect DEF Same
    <3> QED BY <3>1, <3>2
  <2>4. ingress_bytes[p][q] >= BytesHeld(In(p, q)) /\ ingress_bytes[p][q] \in Nat
    BY QueueTypes DEF NotTooLow
  <2> HIDE DEF In
  <2> QED BY <1>2, <2>1, <2>2, <2>3, <2>4, MonusKeepsOrder
<1>4. ASSUME NEW p \in Ports, NEW q \in Queues
      PROVE  egress_bytes'[p][q] >= BytesHeld(Out(p, q))'
  <2>1. /\ BytesHeld(Out(p, q))' = IF pkt \in Out(p, q) THEN Monus(BytesHeld(Out(p, q)), pkt.size)
                                                       ELSE BytesHeld(Out(p, q))
        /\ BytesHeld(Out(p, q)) \in Nat
    BY <1>1
  <2>2. pkt \in Out(p, q) <=> pkt.out = p /\ pkt.q = q
    OBVIOUS
  <2>3. egress_bytes \in PerQueue(Nat) /\ egress_bytes[p][q] \in Nat
    BY DEF TypeOK, PerQueue
  <2>4. egress_bytes'[p][q]
          = IF pkt.out = p /\ pkt.q = q THEN Monus(egress_bytes[p][q], pkt.size)
                                        ELSE egress_bytes[p][q]
    BY <1>2, <2>3 DEF Release, DischargePacket, RemoveFromEgressAdmission, PerQueue
  <2>5. egress_bytes[p][q] >= BytesHeld(Out(p, q))
    BY DEF NotTooLow
  <2> HIDE DEF Out
  <2> QED BY <1>2, <2>1, <2>2, <2>3, <2>4, <2>5, MonusKeepsOrder
<1>5. totalUsed' >= BytesHeld(Packets)'
  <2>1. totalUsed' = Monus(totalUsed, pkt.size)
    BY DEF Release, DischargePacket, RemoveFromIngressAdmission
  <2>2. totalUsed >= BytesHeld(Packets)
    BY DEF NotTooLow
  <2>3. BytesHeld(Packets)' = Monus(BytesHeld(Packets), pkt.size) /\ BytesHeld(Packets) \in Nat
    BY <1>1
  <2> QED BY <1>2, <2>1, <2>2, <2>3, MonusKeepsOrder
<1> QED
  BY <1>3, <1>4, <1>5 DEF NotTooLow

(* Fewer copies weigh less.                                                 *)
LEMMA FewerHeld ==
  ASSUME TypeOK, TypeOK', \A pkt \in Packets : held'[pkt] <= held[pkt],
         NEW S \in SUBSET Packets
  PROVE  BytesHeld(S)' <= BytesHeld(S) /\ BytesHeld(S)' \in Nat /\ BytesHeld(S) \in Nat
<1> DEFINE W == [x \in Packets |-> held[x] * x.size]
           V == [x \in Packets |-> held'[x] * x.size]
<1>1. IsFiniteSet(S)
  BY PacketAssumption, FS_Subset
<1>2. ASSUME NEW x \in S PROVE V[x] \in Nat /\ W[x] \in Nat /\ V[x] <= W[x]
  <2>1. held[x] \in Nat /\ held'[x] \in Nat /\ held'[x] <= held[x] /\ x.size \in Nat
    BY PacketFields DEF TypeOK
  <2>2. ASSUME NEW a \in Nat, NEW b \in Nat, NEW n \in Nat, a <= b
        PROVE  a * n \in Nat /\ b * n \in Nat /\ a * n <= b * n
    <3>1. b * n = a * n + (b - a) * n /\ (b - a) * n \in Nat /\ a * n \in Nat
      BY <2>2
    <3> QED BY <3>1
  <2>3. V[x] = held'[x] * x.size /\ W[x] = held[x] * x.size
    OBVIOUS
  <2> HIDE DEF V, W
  <2> QED BY <2>1, <2>2, <2>3
<1>3. BytesHeld(S)' = SumFunctionOnSet(V, S) /\ BytesHeld(S) = SumFunctionOnSet(W, S)
  BY DEF BytesHeld
<1> HIDE DEF V, W
<1>4. SumFunctionOnSet(V, S) <= SumFunctionOnSet(W, S)
  BY <1>1, <1>2, SumMonotone
<1>5. SumFunctionOnSet(V, S) \in Nat /\ SumFunctionOnSet(W, S) \in Nat
  BY <1>1, <1>2, SumNat
<1> QED
  BY <1>3, <1>4, <1>5

(* Packets that vanish while the counters stay leave none too low.          *)
LEMMA VanishNotTooLow ==
  ASSUME TypeOK, TypeOK', NotTooLow, UNCHANGED counters,
         \A pkt \in Packets : held'[pkt] <= held[pkt]
  PROVE  NotTooLow'
<1>1. \A S \in SUBSET Packets :
        BytesHeld(S)' <= BytesHeld(S) /\ BytesHeld(S)' \in Nat /\ BytesHeld(S) \in Nat
  BY FewerHeld
<1> DEFINE In(p, q) == {x \in Packets : x.in = p /\ x.q = q}
           Out(p, q) == {x \in Packets : x.out = p /\ x.q = q}
<1>2. ASSUME NEW p \in Ports, NEW q \in Queues
      PROVE  /\ ingress_bytes'[p][q] >= BytesHeld(In(p, q))'
             /\ egress_bytes'[p][q] >= BytesHeld(Out(p, q))'
  <2>1. /\ ingress_bytes[p][q] >= BytesHeld(In(p, q)) /\ ingress_bytes[p][q] \in Nat
        /\ egress_bytes[p][q] >= BytesHeld(Out(p, q)) /\ egress_bytes[p][q] \in Nat
    BY DEF NotTooLow, TypeOK, PerQueue
  <2>2. /\ BytesHeld(In(p, q))' <= BytesHeld(In(p, q))
        /\ BytesHeld(In(p, q))' \in Nat /\ BytesHeld(In(p, q)) \in Nat
        /\ BytesHeld(Out(p, q))' <= BytesHeld(Out(p, q))
        /\ BytesHeld(Out(p, q))' \in Nat /\ BytesHeld(Out(p, q)) \in Nat
    BY <1>1
  <2> HIDE DEF In, Out
  <2> QED BY <2>1, <2>2 DEF counters
<1>3. totalUsed' >= BytesHeld(Packets)'
  BY <1>1 DEF NotTooLow, TypeOK, counters
<1> QED
  BY <1>2, <1>3 DEF NotTooLow

-----------------------------------------------------------------------------
(* The reserve, the headroom and the shared pool *)

(* The reserve in use is recomputed for the packet's queue alone.            *)
LEMMA ReservedUpdate ==
  ASSUME TypeOK, NEW p \in Ports, NEW q \in Queues,
         totalIngressReservedUsed = QueueSum(ReservedUsed),
         totalIngressReservedUsed' = ReservedAfter(p, q, ingress_bytes'[p][q]),
         ingress_bytes'[p][q] \in Nat,
         \A p1 \in Ports, q1 \in Queues :
           <<p1, q1>> # <<p, q>> => ingress_bytes'[p1][q1] = ingress_bytes[p1][q1]
  PROVE  totalIngressReservedUsed' = QueueSum(ReservedUsed)'
<1> DEFINE new == ReservedPart(ingress_bytes'[p][q], p, q)
<1>1. ReservedUsed \in PerQueue(Nat)
  BY ReservedPartIsNat, QueueTypes DEF ReservedUsed, GetIngressReservedUsed, PerQueue
<1>2. new \in Nat
  BY ReservedPartIsNat
<1>3. ReservedUsed' = [ReservedUsed EXCEPT ![p][q] = new]
  BY DEF ReservedUsed, GetIngressReservedUsed
<1>4. QueueSum(ReservedUsed)' = QueueSum(ReservedUsed')
  BY DEF QueueSum
<1>5. QueueSum(ReservedUsed') = QueueSum(ReservedUsed) + (new - ReservedUsed[p][q])
  <2> HIDE DEF new
  <2> QED BY <1>1, <1>2, <1>3, QueueSumUpdate
<1>6. /\ ReservedUsed[p][q] <= QueueSum(ReservedUsed)
      /\ QueueSum(ReservedUsed) \in Nat /\ ReservedUsed[p][q] \in Nat
  BY <1>1, QueueSumIsNat DEF PerQueue
<1>7. ReservedUsed[p][q] = GetIngressReservedUsed(p, q)
  BY DEF ReservedUsed
<1>8. totalIngressReservedUsed' = Monus(QueueSum(ReservedUsed), ReservedUsed[p][q]) + new
  BY <1>7 DEF ReservedAfter
<1> HIDE DEF new
<1> QED
  BY <1>2, <1>4, <1>5, <1>6, <1>8 DEF Monus

(* An arrival adds the same bytes to the totals of buffer and pools.        *)
LEMMA AdmitTotals ==
  ASSUME TypeOK, TotalsCharged, NEW pkt \in Packets, Admit(pkt)
  PROVE  TotalsCharged'
<1> DEFINE p == pkt.in  q == pkt.q
<1>1. p \in Ports /\ q \in Queues /\ pkt.size \in Nat
  BY PacketFields
<1>2. xoffUsed \in PerQueue(Nat) /\ xoffUsed[p][q] \in Nat /\ QueueSum(xoffUsed) \in Nat
  BY <1>1, QueueTypes, QueueSumIsNat DEF TypeOK
<1>3. \/ xoffUsed' = xoffUsed /\ xoffTotalUsed' = xoffTotalUsed
      \/ /\ xoffUsed' = [xoffUsed EXCEPT ![p][q] = xoffUsed[p][q] + pkt.size]
         /\ xoffTotalUsed' = xoffTotalUsed + pkt.size
  BY Zenon DEF Admit, ChargePacket, UpdateIngressAdmission
<1>4. QueueSum(xoffUsed)' = QueueSum(xoffUsed')
  BY DEF QueueSum
<1>5. xoffTotalUsed = QueueSum(xoffUsed) /\ totalIngressReservedUsed = QueueSum(ReservedUsed)
  BY DEF TotalsCharged
<1>6. xoffTotalUsed' = QueueSum(xoffUsed)'
  <2>1. CASE xoffUsed' = xoffUsed /\ xoffTotalUsed' = xoffTotalUsed
    BY <1>4, <1>5, <2>1
  <2>2. CASE /\ xoffUsed' = [xoffUsed EXCEPT ![p][q] = xoffUsed[p][q] + pkt.size]
             /\ xoffTotalUsed' = xoffTotalUsed + pkt.size
    <3> DEFINE more == xoffUsed[p][q] + pkt.size
    <3>1. more \in Nat /\ xoffUsed' = [xoffUsed EXCEPT ![p][q] = more]
      BY <1>1, <1>2, <2>2
    <3>2. more = xoffUsed[p][q] + pkt.size
      OBVIOUS
    <3> HIDE DEF more
    <3>3. QueueSum(xoffUsed') = QueueSum(xoffUsed) + (more - xoffUsed[p][q])
      BY <1>1, <1>2, <3>1, QueueSumUpdate
    <3> QED BY <1>1, <1>2, <1>4, <1>5, <2>2, <3>2, <3>3
  <2> QED BY <1>3, <2>1, <2>2
<1>7. totalIngressReservedUsed' = QueueSum(ReservedUsed)'
  <2>1. totalIngressReservedUsed' = ReservedAfter(p, q, ingress_bytes[p][q] + pkt.size)
    BY DEF Admit, ChargePacket, UpdateIngressAdmission
  <2>2. /\ ingress_bytes'[p][q] = ingress_bytes[p][q] + pkt.size
        /\ \A p1 \in Ports, q1 \in Queues :
             <<p1, q1>> # <<p, q>> => ingress_bytes'[p1][q1] = ingress_bytes[p1][q1]
    BY AdmitEffect DEF Same
  <2>3. ingress_bytes'[p][q] \in Nat
    BY <1>1, <2>2, QueueTypes
  <2> QED BY <1>1, <1>5, <2>1, <2>2, <2>3, ReservedUpdate
<1> QED
  BY <1>6, <1>7 DEF TotalsCharged

(* A departure takes the same bytes from the totals of buffer and pools.    *)
LEMMA ReleaseTotals ==
  ASSUME TypeOK, TotalsCharged, NEW pkt \in Packets, Release(pkt)
  PROVE  TotalsCharged'
<1> DEFINE p == pkt.in  q == pkt.q  left == Monus(xoffUsed[p][q], pkt.size)
<1>1. p \in Ports /\ q \in Queues /\ pkt.size \in Nat /\ pkt.type \in Classes
  BY PacketFields
<1>2. /\ xoffUsed \in PerQueue(Nat) /\ xoffUsed[p][q] \in Nat
      /\ QueueSum(xoffUsed) \in Nat /\ xoffUsed[p][q] <= QueueSum(xoffUsed)
  BY <1>1, QueueTypes, QueueSumIsNat DEF TypeOK
<1>3. /\ pkt.type # "LOSSLESS" => xoffUsed' = xoffUsed /\ xoffTotalUsed' = xoffTotalUsed
      /\ pkt.type = "LOSSLESS" =>
           /\ xoffUsed' = [xoffUsed EXCEPT ![p][q] = left]
           /\ xoffTotalUsed' = Monus(xoffTotalUsed, xoffUsed[p][q]) + left
  BY Zenon DEF Release, DischargePacket, RemoveFromIngressAdmission
<1>4. QueueSum(xoffUsed)' = QueueSum(xoffUsed')
  BY DEF QueueSum
<1>5. xoffTotalUsed = QueueSum(xoffUsed) /\ totalIngressReservedUsed = QueueSum(ReservedUsed)
  BY DEF TotalsCharged
<1>6. xoffTotalUsed' = QueueSum(xoffUsed)'
  <2>1. CASE pkt.type # "LOSSLESS"
    BY <1>3, <1>4, <1>5, <2>1
  <2>2. CASE pkt.type = "LOSSLESS"
    <3>1. left \in Nat
      BY <1>1, <1>2, MonusIsNat
    <3> HIDE DEF left
    <3>2. QueueSum(xoffUsed') = QueueSum(xoffUsed) + (left - xoffUsed[p][q])
      BY <1>1, <1>2, <1>3, <2>2, <3>1, QueueSumUpdate
    <3> QED BY <1>2, <1>3, <1>4, <1>5, <2>2, <3>1, <3>2 DEF Monus
  <2> QED BY <2>1, <2>2
<1>7. totalIngressReservedUsed' = QueueSum(ReservedUsed)'
  <2>1. totalIngressReservedUsed' = ReservedAfter(p, q, Monus(ingress_bytes[p][q], pkt.size))
    BY DEF Release, DischargePacket, RemoveFromIngressAdmission
  <2>2. /\ ingress_bytes'[p][q] = Monus(ingress_bytes[p][q], pkt.size)
        /\ \A p1 \in Ports, q1 \in Queues :
             <<p1, q1>> # <<p, q>> => ingress_bytes'[p1][q1] = ingress_bytes[p1][q1]
    BY ReleaseEffect DEF Same
  <2>3. ingress_bytes'[p][q] \in Nat
    <3>1. ingress_bytes[p][q] \in Nat
      BY <1>1, QueueTypes
    <3> QED BY <1>1, <2>2, <3>1, MonusIsNat
  <2> QED BY <1>1, <1>5, <2>1, <2>2, <2>3, ReservedUpdate
<1> QED
  BY <1>6, <1>7 DEF TotalsCharged

(* A queue's headroom grows with its lossless packets, and gives way first.  *)
LEMMA AdmitKeepsLossless ==
  ASSUME TypeOK, HeadroomHoldsLossless, NEW pkt \in Packets, Admit(pkt)
  PROVE  HeadroomHoldsLossless'
<1> SUFFICES ASSUME NEW p \in Ports, NEW q \in Queues
             PROVE  xoffUsed'[p][q] <= BytesHeld({x \in Packets :
                                          x.in = p /\ x.q = q /\ x.type = "LOSSLESS"})'
  BY DEF HeadroomHoldsLossless
<1> DEFINE L == {x \in Packets : x.in = p /\ x.q = q /\ x.type = "LOSSLESS"}
<1>1. BytesHeld(L)' = BytesHeld(L) + (IF pkt \in L THEN pkt.size ELSE 0)
  BY HeldAfterAdmit
<1>2. BytesHeld(L) \in Nat /\ xoffUsed[p][q] \in Nat /\ pkt.size \in Nat
  BY BytesHeldIsNat, QueueTypes, PacketFields
<1>3. xoffUsed[p][q] <= BytesHeld(L)
  BY DEF HeadroomHoldsLossless
<1>4. \/ xoffUsed'[p][q] = xoffUsed[p][q]
      \/ pkt \in L /\ xoffUsed'[p][q] = xoffUsed[p][q] + pkt.size
  BY AdmitEffect, PacketFields DEF Same
<1> HIDE DEF L
<1>5. xoffUsed'[p][q] <= BytesHeld(L)'
  BY <1>1, <1>2, <1>3, <1>4
<1> QED
  BY <1>5 DEF L

(* A departure never takes headroom from another class than the lossless    *)
(* one.                                                                     *)
LEMMA ReleaseKeepsLossless ==
  ASSUME TypeOK, HeadroomHoldsLossless, NEW pkt \in Packets, Release(pkt)
  PROVE  HeadroomHoldsLossless'
<1> SUFFICES ASSUME NEW p \in Ports, NEW q \in Queues
             PROVE  xoffUsed'[p][q] <= BytesHeld({x \in Packets :
                                          x.in = p /\ x.q = q /\ x.type = "LOSSLESS"})'
  BY DEF HeadroomHoldsLossless
<1> DEFINE L == {x \in Packets : x.in = p /\ x.q = q /\ x.type = "LOSSLESS"}
<1>1. BytesHeld(L)' = IF pkt \in L THEN Monus(BytesHeld(L), pkt.size) ELSE BytesHeld(L)
  BY HeldAfterRelease
<1>2. BytesHeld(L) \in Nat /\ xoffUsed[p][q] \in Nat /\ pkt.size \in Nat
  BY BytesHeldIsNat, QueueTypes, PacketFields
<1>3. xoffUsed[p][q] <= BytesHeld(L)
  BY DEF HeadroomHoldsLossless
<1>4. xoffUsed'[p][q] = IF pkt \in L THEN Monus(xoffUsed[p][q], pkt.size) ELSE xoffUsed[p][q]
  BY ReleaseEffect, PacketFields DEF Same
<1> HIDE DEF L
<1>5. xoffUsed'[p][q] <= BytesHeld(L)'
  BY <1>1, <1>2, <1>3, <1>4 DEF Monus
<1> QED
  BY <1>5 DEF L


(* The shared pool and the headroom together are the buffer in use; the      *)
(* counter of unsigned subtractions never wraps.                             *)
LEMMA AdmitShares ==
  ASSUME TypeOK, SharedPoolIsTheRest, NEW pkt \in Packets, Admit(pkt)
  PROVE  SharedPoolIsTheRest'
<1>1. pkt.size \in Nat /\ pkt.type \in Classes
  BY PacketFields
<1>2. totalUsed' = totalUsed + pkt.size
  BY DEF Admit, ChargePacket, UpdateIngressAdmission
<1>3. \/ /\ xoffTotalUsed' = xoffTotalUsed
         /\ pkt.type = "LOSSLESS" => sharedPoolUsed' = sharedPoolUsed + pkt.size
      \/ /\ pkt.type = "LOSSLESS"
         /\ xoffTotalUsed' = xoffTotalUsed + pkt.size
         /\ sharedPoolUsed' = sharedPoolUsed
  BY Zenon DEF Admit, ChargePacket, UpdateIngressAdmission
<1>4. pkt.type = "LOSSY" => sharedPoolUsed' = sharedPoolUsed + pkt.size
  BY DEF Admit, ChargePacket, UpdateEgressAdmission
<1>5. totalUsed \in Nat /\ sharedPoolUsed \in Nat /\ xoffTotalUsed \in Nat
  BY DEF TypeOK
<1> QED
  BY <1>1, <1>2, <1>3, <1>4, <1>5 DEF SharedPoolIsTheRest, Classes

(* A departure takes from the headroom first, then from the shared pool,    *)
(* what it takes from the buffer.                                           *)
LEMMA ReleaseShares ==
  ASSUME TypeOK, ChargedExactly, HeadroomHoldsLossless, SharedPoolIsTheRest,
         BufferNotOverrun, NEW pkt \in Packets, Release(pkt)
  PROVE  SharedPoolIsTheRest'
<1> DEFINE h == xoffUsed[pkt.in][pkt.q]
<1>1. pkt.size \in Nat /\ pkt.type \in Classes /\ h \in Nat
  BY PacketFields, QueueTypes
<1>2. totalUsed' = Monus(totalUsed, pkt.size)
  BY DEF Release, DischargePacket, RemoveFromIngressAdmission
<1>3. /\ pkt.type # "LOSSLESS" => xoffTotalUsed' = xoffTotalUsed
      /\ pkt.type = "LOSSLESS" =>
           /\ xoffTotalUsed' = Monus(xoffTotalUsed, h) + Monus(h, pkt.size)
           /\ sharedPoolUsed' = IF h > 0 THEN Wrap(sharedPoolUsed - Monus(pkt.size, h))
                                         ELSE Monus(sharedPoolUsed, pkt.size)
  BY Zenon DEF Release, DischargePacket, RemoveFromIngressAdmission
<1>4. pkt.type = "LOSSY" => sharedPoolUsed' = Monus(sharedPoolUsed, pkt.size)
  BY DEF Release, DischargePacket, RemoveFromEgressAdmission
<1>5. totalUsed \in Nat /\ sharedPoolUsed \in Nat /\ xoffTotalUsed \in Nat
  BY DEF TypeOK
<1>6. /\ sharedPoolUsed + xoffTotalUsed = totalUsed
      /\ totalUsed <= bufferPool /\ bufferPool < W64 /\ bufferPool \in Nat
  BY ConfigAssumption DEF SharedPoolIsTheRest, BufferNotOverrun
<1>7. totalUsed = BytesHeld(Packets) /\ xoffTotalUsed = QueueSum(xoffUsed)
  BY ChargedHalves DEF QueuesCharged, TotalsCharged
<1>8. h <= xoffTotalUsed
  BY <1>7, PacketFields, QueueSumIsNat DEF TypeOK
<1>9. xoffTotalUsed + pkt.size <= totalUsed + (IF pkt.type = "LOSSLESS" THEN h ELSE 0)
  <2>1. held[pkt] > 0
    BY DEF Release
  <2> QED BY <1>7, <2>1, HeadroomElsewhere
<1> HIDE DEF h
<1>10. \A n \in Nat : n < W64 => Wrap(n) = n
  BY ConfigAssumption DEF Wrap
<1>11. CASE pkt.type = "LOSSY"
  <2>1. xoffTotalUsed' = xoffTotalUsed /\ sharedPoolUsed' = Monus(sharedPoolUsed, pkt.size)
    BY <1>3, <1>4, <1>11
  <2>2. xoffTotalUsed + pkt.size <= totalUsed
    BY <1>5, <1>9, <1>11
  <2>3. sharedPoolUsed' + xoffTotalUsed' = totalUsed'
    BY <1>1, <1>2, <1>5, <1>6, <2>1, <2>2 DEF Monus
  <2> QED BY <2>3 DEF SharedPoolIsTheRest
<1>12. CASE pkt.type = "LOSSLESS"
  <2>1. xoffTotalUsed + pkt.size <= totalUsed + h
    BY <1>9, <1>12
  <2>2. Monus(pkt.size, h) \in Nat /\ Monus(pkt.size, h) <= sharedPoolUsed
    BY <1>1, <1>5, <1>6, <1>8, <2>1 DEF Monus
  <2>3. sharedPoolUsed' = sharedPoolUsed - Monus(pkt.size, h)
    <3>1. CASE h > 0
      <4> DEFINE n == sharedPoolUsed - Monus(pkt.size, h)
      <4>1. n \in Nat /\ n < W64
        BY <1>5, <1>6, <2>2, ConfigAssumption
      <4>2. Wrap(n) = n
        BY <1>10, <4>1
      <4> QED BY <1>3, <1>12, <3>1, <4>2
    <3>2. CASE ~(h > 0)
      BY <1>1, <1>3, <1>5, <1>12, <2>2, <3>2 DEF Monus
    <3> QED BY <3>1, <3>2
  <2>4. xoffTotalUsed' = Monus(xoffTotalUsed, h) + Monus(h, pkt.size)
    BY <1>3, <1>12
  <2>5. sharedPoolUsed' + xoffTotalUsed' = totalUsed'
    BY <1>1, <1>2, <1>5, <1>6, <1>8, <2>1, <2>3, <2>4 DEF Monus
  <2> QED BY <2>5 DEF SharedPoolIsTheRest
<1> QED
  BY <1>1, <1>11, <1>12 DEF Classes

(* The books of the MMU: the counters, and what they count.                  *)
Books ==
  /\ TypeOK
  /\ BufferNotOverrun
  /\ ChargedExactly
  /\ HeadroomHoldsLossless
  /\ SharedPoolIsTheRest

(* The books are right while the buffer is empty.                           *)
LEMMA InitBooks == Init => Books
<1> SUFFICES ASSUME Init PROVE Books
  OBVIOUS
<1>1. TypeOK /\ BufferNotOverrun
  BY ConfigAssumption DEF Init, TypeOK, BufferNotOverrun, PerQueue
<1>2. ASSUME NEW S \in SUBSET Packets PROVE BytesHeld(S) = 0
  <2>1. IsFiniteSet(S)
    BY PacketAssumption, FS_Subset
  <2>2. \A pkt \in S : Weight[pkt] = 0
    BY PacketFields DEF Init, Weight
  <2>3. SumFunctionOnSet(Weight, S) = 0
    BY <2>1, <2>2, SumZero
  <2> QED BY <2>3 DEF BytesHeld, Weight
<1>3. ASSUME NEW f, \A p \in Ports, q \in Queues : f[p][q] = 0 PROVE QueueSum(f) = 0
  <2> DEFINE F == [pq \in Ports \X Queues |-> f[pq[1]][pq[2]]]
  <2>1. \A pq \in Ports \X Queues : F[pq] = 0
    BY <1>3
  <2> HIDE DEF F
  <2>2. SumFunctionOnSet(F, Ports \X Queues) = 0
    BY <2>1, AllQueuesFinite, SumZero
  <2> QED BY <2>2 DEF F, QueueSum
<1>4. QueuesCharged
  BY <1>2 DEF Init, QueuesCharged
<1>5. TotalsCharged
  <2>1. \A p \in Ports, q \in Queues : xoffUsed[p][q] = 0 /\ ReservedUsed[p][q] = 0
    BY ConfigAssumption DEF Init, ReservedUsed, GetIngressReservedUsed, ReservedPart, Lesser, PerQueue
  <2>2. QueueSum(xoffUsed) = 0 /\ QueueSum(ReservedUsed) = 0
    BY <1>3, <2>1
  <2> QED BY <2>2 DEF Init, TotalsCharged
<1>6. HeadroomHoldsLossless
  BY <1>2 DEF Init, HeadroomHoldsLossless
<1>7. SharedPoolIsTheRest
  BY DEF Init, SharedPoolIsTheRest
<1> QED
  BY <1>1, <1>4, <1>5, <1>6, <1>7, ChargedHalves DEF Books

(* The books are an inductive invariant.                                     *)
LEMMA BooksStep == Books /\ [Next]_vars => Books'
<1> SUFFICES ASSUME Books, [Next]_vars PROVE Books'
  OBVIOUS
<1>0. /\ TypeOK /\ QueuesCharged /\ TotalsCharged /\ ChargedExactly
      /\ HeadroomHoldsLossless /\ SharedPoolIsTheRest /\ BufferNotOverrun
  BY ChargedHalves DEF Books
<1>1. TypeOK' /\ BufferNotOverrun'
  BY <1>0, TypeStep, BufferStep
<1>2. ASSUME NEW pkt \in Packets, Admit(pkt)
      PROVE  QueuesCharged' /\ TotalsCharged' /\ HeadroomHoldsLossless' /\ SharedPoolIsTheRest'
  BY <1>0, <1>2, AdmitCharges, AdmitTotals, AdmitKeepsLossless, AdmitShares
<1>3. ASSUME NEW pkt \in Packets, Release(pkt)
      PROVE  QueuesCharged' /\ TotalsCharged' /\ HeadroomHoldsLossless' /\ SharedPoolIsTheRest'
  BY <1>0, <1>3, ReleaseDischarges, ReleaseTotals, ReleaseKeepsLossless, ReleaseShares
<1>4. CASE UNCHANGED vars
  <2>1. ChargedExactly'
    BY <1>0, <1>4 DEF vars, counters, ChargedExactly, BytesHeld, OverQueues,
                      GetIngressReservedUsed, ReservedPart
  <2>2. HeadroomHoldsLossless'
    BY <1>0, <1>4 DEF vars, counters, HeadroomHoldsLossless, BytesHeld
  <2>3. SharedPoolIsTheRest'
    BY <1>0, <1>4 DEF vars, counters, SharedPoolIsTheRest
  <2> QED BY <1>1, <2>1, <2>2, <2>3 DEF Books
<1>5. ChargedExactly' <=> QueuesCharged' /\ TotalsCharged'
  BY ChargedHalves, PTL
<1> QED
  BY <1>0, <1>1, <1>2, <1>3, <1>4, <1>5, StepCases DEF Books

(* The books are right in every reachable state.                            *)
LEMMA BooksKept == Spec => []Books
BY InitBooks, BooksStep, PTL DEF Spec

(* The ten counters are exact for every configuration and every sequence of  *)
(* admissions and releases: no guarded subtraction ever has to clamp.        *)
THEOREM CountersExact == Spec => []ChargedExactly
<1>1. Books => ChargedExactly
  BY DEF Books
<1> QED
  BY <1>1, BooksKept, PTL

(* Headroom is spent on lossless bytes in the buffer only, also when both    *)
(* classes share an ingress queue.                                           *)
THEOREM HeadroomIsLossless == Spec => []HeadroomHoldsLossless
<1>1. Books => HeadroomHoldsLossless
  BY DEF Books
<1> QED
  BY <1>1, BooksKept, PTL

(* The shared pool counter, unsigned and unguarded on one path, is what the  *)
(* headroom leaves of the buffer in use: it never wraps.                     *)
THEOREM SharedPoolExact == Spec => []SharedPoolIsTheRest
<1>1. Books => SharedPoolIsTheRest
  BY DEF Books
<1> QED
  BY <1>1, BooksKept, PTL

-----------------------------------------------------------------------------
(* The limits that follow from exact books *)

(* The headroom in use is part of what its queue occupies: HeadroomWithinXoff*)
(* needs this, for a packet inside the reserve passes whatever the headroom  *)
(* holds.                                                                    *)
LEMMA HeadroomWithinQueue ==
  ASSUME Books, NEW p \in Ports, NEW q \in Queues
  PROVE  xoffUsed[p][q] <= ingress_bytes[p][q]
<1> DEFINE All == {pkt \in Packets : pkt.in = p /\ pkt.q = q}
           L == {pkt \in Packets : pkt.in = p /\ pkt.q = q /\ pkt.type = "LOSSLESS"}
<1>0. TypeOK
  BY DEF Books
<1>1. xoffUsed[p][q] <= BytesHeld(L)
  BY DEF Books, HeadroomHoldsLossless
<1>2. ingress_bytes[p][q] = BytesHeld(All)
  BY DEF Books, ChargedExactly
<1>3. BytesHeld(L) <= BytesHeld(All)
  <2>1. IsFiniteSet(All) /\ L \in SUBSET All
    BY PacketAssumption, FS_Subset
  <2>2. \A pkt \in All : Weight[pkt] \in Nat
    BY <1>0, WeightIsNat
  <2>3. SumFunctionOnSet(Weight, L) <= SumFunctionOnSet(Weight, All)
    <3> HIDE DEF L, All
    <3> QED BY <2>1, <2>2, PartWithinSum
  <2> QED BY <2>3 DEF BytesHeld, Weight
<1>4. BytesHeld(L) \in Nat /\ BytesHeld(All) \in Nat /\ xoffUsed[p][q] \in Nat
  BY <1>0, BytesHeldIsNat, QueueTypes
<1> HIDE DEF L, All
<1> QED
  BY <1>1, <1>2, <1>3, <1>4

(* No step takes a queue beyond its xoff.                                   *)
LEMMA HeadroomStep ==
  Books /\ HeadroomWithinXoff /\ [Next]_vars => HeadroomWithinXoff'
<1> SUFFICES ASSUME Books, HeadroomWithinXoff, [Next]_vars, HeadroomSized,
                    NEW p \in Ports, NEW q \in Queues
             PROVE  xoffUsed'[p][q] <= xoff[p][q]
  BY DEF HeadroomWithinXoff, HeadroomSized
<1>0. TypeOK /\ xoffUsed[p][q] <= xoff[p][q]
  BY DEF Books, HeadroomWithinXoff
<1>1. /\ ingress_bytes[p][q] \in Nat /\ xoffUsed[p][q] \in Nat
      /\ xoff[p][q] \in Nat /\ reserveIngress[p][q] \in Nat
  BY <1>0, QueueTypes
<1>2. ASSUME NEW pkt \in Packets, Admit(pkt) PROVE xoffUsed'[p][q] <= xoff[p][q]
  <2>1. CASE <<p, q>> # <<pkt.in, pkt.q>>
    BY <1>0, <1>2, <2>1, AdmitEffect DEF Same
  <2>2. CASE <<p, q>> = <<pkt.in, pkt.q>> /\ xoffUsed'[p][q] = xoffUsed[p][q]
    BY <1>0, <2>2
  <2>3. CASE /\ <<p, q>> = <<pkt.in, pkt.q>> /\ pkt.type = "LOSSLESS"
             /\ xoffUsed'[p][q] = xoffUsed[p][q] + pkt.size
    <3>1. LosslessIngressFits(p, q, pkt.size)
      BY <1>2, <2>3 DEF Admit, ChargePacket, Admissible, CheckIngressAdmission
    <3>2. pkt.size <= xoff[p][q] /\ reserveIngress[p][q] <= xoff[p][q] /\ pkt.size \in Nat
      BY <2>3, PacketFields DEF HeadroomSized
    <3>3. xoffUsed[p][q] <= ingress_bytes[p][q]
      BY HeadroomWithinQueue
    <3> QED BY <1>1, <2>3, <3>1, <3>2, <3>3 DEF LosslessIngressFits
  <2> QED BY <1>0, <1>2, <2>1, <2>2, <2>3, AdmitEffect
<1>3. ASSUME NEW pkt \in Packets, Release(pkt) PROVE xoffUsed'[p][q] <= xoff[p][q]
  <2>1. CASE <<p, q>> # <<pkt.in, pkt.q>>
    BY <1>0, <1>3, <2>1, ReleaseEffect DEF Same
  <2>2. CASE <<p, q>> = <<pkt.in, pkt.q>>
    <3>1. xoffUsed'[p][q] = IF pkt.type = "LOSSLESS"
                            THEN Monus(xoffUsed[p][q], pkt.size) ELSE xoffUsed[p][q]
      BY <1>0, <1>3, <2>2, ReleaseEffect
    <3> QED BY <1>0, <1>1, <3>1, PacketFields DEF Monus
  <2> QED BY <2>1, <2>2
<1>4. CASE UNCHANGED vars
  BY <1>0, <1>4 DEF vars, counters
<1> QED
  BY <1>0, <1>2, <1>3, <1>4, StepCases

(* All headroom is free at first.                                           *)
LEMMA InitHeadroom == Init => HeadroomWithinXoff
BY ConfigAssumption DEF Init, HeadroomWithinXoff, PerQueue

(* A queue never takes more headroom than it was given, for every traffic    *)
(* and every headroom that holds one packet and the reserve.                 *)
THEOREM HeadroomLimit == Spec => []HeadroomWithinXoff
BY InitHeadroom, HeadroomStep, BooksKept, PTL DEF Spec

(* Queue by queue within xoff, in total within the headroom.                 *)
LEMMA HeadroomTotal ==
  Books /\ HeadroomWithinXoff /\ HeadroomSized => xoffTotalUsed <= xoffTotal /\ xoffTotal \in Nat
<1> SUFFICES ASSUME Books, HeadroomWithinXoff, HeadroomSized
             PROVE  xoffTotalUsed <= xoffTotal /\ xoffTotal \in Nat
  OBVIOUS
<1> DEFINE H == [pq \in Ports \X Queues |-> xoffUsed[pq[1]][pq[2]]]
           X == [pq \in Ports \X Queues |-> xoff[pq[1]][pq[2]]]
<1>1. \A pq \in Ports \X Queues : H[pq] \in Int /\ X[pq] \in Int /\ H[pq] <= X[pq]
  BY ConfigAssumption DEF Books, TypeOK, HeadroomWithinXoff, PerQueue
<1>2. QueueSum(xoffUsed) <= QueueSum(xoff)
  <2> HIDE DEF H, X
  <2>1. SumFunctionOnSet(H, Ports \X Queues) <= SumFunctionOnSet(X, Ports \X Queues)
    BY <1>1, AllQueuesFinite, SumMonotone
  <2> QED BY <2>1 DEF QueueSum, H, X
<1>3. xoffTotalUsed = QueueSum(xoffUsed) /\ xoffTotal = QueueSum(xoff)
  BY ChargedHalves, TotalsAreQueueSums DEF Books, TotalsCharged
<1>4. QueueSum(xoff) \in Nat
  BY ConfigAssumption, QueueSumIsNat
<1> QED
  BY <1>2, <1>3, <1>4

(* No step takes a pool beyond its size.                                    *)
LEMMA PoolsStep ==
  /\ Books /\ HeadroomWithinXoff /\ PoolsNotOverrun
  /\ Books' /\ HeadroomWithinXoff'
  /\ [Next]_vars
  => PoolsNotOverrun'
<1> SUFFICES ASSUME Books, HeadroomWithinXoff, PoolsNotOverrun, Books', HeadroomWithinXoff',
                    [Next]_vars
             PROVE  PoolsNotOverrun'
  OBVIOUS
<1>1. BufferNotOverrun' /\ TypeOK /\ TypeOK'
  BY DEF Books
<1>2. ASSUME HeadroomSized
      PROVE  totalUsed' <= ingressPool + xoffTotal /\ xoffTotalUsed' <= xoffTotal
  <2>1. xoffTotalUsed <= xoffTotal /\ xoffTotal \in Nat
    BY <1>2, HeadroomTotal
  <2>2. (Books /\ HeadroomWithinXoff /\ HeadroomSized
           => xoffTotalUsed <= xoffTotal /\ xoffTotal \in Nat)'
    BY HeadroomTotal, PTL
  <2>3. xoffTotalUsed' <= xoffTotal
    BY <1>2, <2>2 DEF HeadroomSized, xoffTotal, OverQueues
  <2>4. totalUsed <= ingressPool + xoffTotal /\ ingressPool \in Nat
    BY <1>2, ConfigAssumption DEF PoolsNotOverrun
  <2>5. totalUsed \in Nat /\ sharedPoolUsed \in Nat /\ xoffTotalUsed \in Nat
    BY DEF Books, TypeOK
  <2>6. ASSUME NEW pkt \in Packets, Admit(pkt) PROVE totalUsed' <= ingressPool + xoffTotal
    <3>1. totalUsed' = totalUsed + pkt.size /\ pkt.size \in Nat /\ pkt.type \in Classes
      BY <2>6, PacketFields DEF Admit, ChargePacket, UpdateIngressAdmission
    <3>2. CheckIngressAdmission(pkt.in, pkt.q, pkt.size, pkt.type, pkt.unsched)
      BY <2>6 DEF Admit, ChargePacket, Admissible
    <3>3. CASE pkt.type = "LOSSLESS"
      BY <2>1, <2>4, <2>5, <3>1, <3>2, <3>3 DEF CheckIngressAdmission, LosslessIngressFits
    <3>4. CASE pkt.type = "LOSSY"
      <4>1. pkt.size + Wrap(totalUsed - xoffTotalUsed) <= ingressPool
        BY <3>2, <3>4 DEF CheckIngressAdmission, LossyIngressFits
      <4>2. /\ totalUsed - xoffTotalUsed = sharedPoolUsed
            /\ sharedPoolUsed <= bufferPool
        BY <2>5, ConfigAssumption DEF Books, SharedPoolIsTheRest, BufferNotOverrun
      <4>3. Wrap(totalUsed - xoffTotalUsed) = totalUsed - xoffTotalUsed
        BY <2>5, <4>2, ConfigAssumption DEF Wrap
      <4> QED BY <2>1, <2>4, <2>5, <3>1, <4>1, <4>3
    <3> QED BY <3>1, <3>3, <3>4 DEF Classes
  <2>7. ASSUME NEW pkt \in Packets, Release(pkt) PROVE totalUsed' <= ingressPool + xoffTotal
    <3>1. totalUsed' = Monus(totalUsed, pkt.size) /\ pkt.size \in Nat
      BY <2>7, PacketFields DEF Release, DischargePacket, RemoveFromIngressAdmission
    <3> QED BY <2>1, <2>4, <2>5, <3>1 DEF Monus
  <2>8. ASSUME UNCHANGED vars PROVE totalUsed' <= ingressPool + xoffTotal
    BY <2>4, <2>8 DEF vars, counters
  <2>9. totalUsed' <= ingressPool + xoffTotal
    BY <1>1, <2>6, <2>7, <2>8, StepCases
  <2> QED BY <2>3, <2>9
<1> QED
  BY <1>1, <1>2 DEF PoolsNotOverrun, HeadroomSized, xoffTotal, OverQueues

(* The pools are empty at first.                                            *)
LEMMA InitPools == Init => PoolsNotOverrun
<1> SUFFICES ASSUME Init PROVE PoolsNotOverrun
  OBVIOUS
<1>1. BufferNotOverrun
  BY InitBooks DEF Books
<1>2. xoffTotal \in Nat
  BY ConfigAssumption, QueueSumIsNat, TotalsAreQueueSums
<1> QED
  BY <1>1, <1>2, ConfigAssumption DEF Init, PoolsNotOverrun

(* The pools hold, though the first packet into the headroom is checked      *)
(* against no headroom limit and a lossy packet only against the bytes       *)
(* outside the headroom: the two classes together stay within ingress pool   *)
(* and headroom.                                                             *)
THEOREM PoolsBound == Spec => []PoolsNotOverrun
BY InitPools, PoolsStep, HeadroomLimit, BooksKept, PTL DEF Spec

-----------------------------------------------------------------------------
(* Lossless packets are let in *)

(* Counters that are no larger, queue by queue, have no larger sum.         *)
LEMMA QueueSumMonotone ==
  ASSUME NEW f \in PerQueue(Nat), NEW g \in PerQueue(Nat),
         \A p \in Ports, q \in Queues : f[p][q] <= g[p][q]
  PROVE  QueueSum(f) <= QueueSum(g)
<1> DEFINE F == [pq \in Ports \X Queues |-> f[pq[1]][pq[2]]]
           G == [pq \in Ports \X Queues |-> g[pq[1]][pq[2]]]
<1>1. \A pq \in Ports \X Queues : F[pq] \in Int /\ G[pq] \in Int /\ F[pq] <= G[pq]
  BY DEF PerQueue
<1> HIDE DEF F, G
<1>2. SumFunctionOnSet(F, Ports \X Queues) <= SumFunctionOnSet(G, Ports \X Queues)
  BY <1>1, AllQueuesFinite, SumMonotone
<1> QED
  BY <1>2 DEF QueueSum, F, G

(* No more than what is reserved counts as reserve in use.                  *)
LEMMA ReservedWithinTotal ==
  Books => totalIngressReservedUsed <= totalIngressReserved /\ totalIngressReserved \in Nat
<1> SUFFICES ASSUME Books
             PROVE  totalIngressReservedUsed <= totalIngressReserved /\ totalIngressReserved \in Nat
  OBVIOUS
<1>0. TypeOK /\ reserveIngress \in PerQueue(Nat)
  BY ConfigAssumption DEF Books
<1>1. ReservedUsed \in PerQueue(Nat)
  BY <1>0, ReservedPartIsNat, QueueTypes DEF ReservedUsed, GetIngressReservedUsed, PerQueue
<1>2. ASSUME NEW p \in Ports, NEW q \in Queues
      PROVE  ReservedUsed[p][q] <= reserveIngress[p][q]
  BY <1>0, QueueTypes DEF ReservedUsed, GetIngressReservedUsed, ReservedPart, Lesser
<1>3. QueueSum(ReservedUsed) <= QueueSum(reserveIngress) /\ QueueSum(reserveIngress) \in Nat
  BY <1>0, <1>1, <1>2, QueueSumMonotone, QueueSumIsNat
<1>4. totalIngressReservedUsed = QueueSum(ReservedUsed)
  BY ChargedHalves DEF Books, TotalsCharged
<1>5. totalIngressReserved = QueueSum(reserveIngress)
  BY DEF totalIngressReserved, OverQueues, QueueSum, SumFunction
<1> QED
  BY <1>3, <1>4, <1>5

(* The part of the buffer outside the headroom stays within the ingress     *)
(* pool, which no check of a lossless packet says: below its threshold such *)
(* a packet leaves at least the reserve of the other queues.                *)
SharedWithinPool ==
  totalIngressReserved <= ingressPool => sharedPoolUsed <= ingressPool

(* A threshold that lets a byte in leaves something of the pool.            *)
LEMMA ThresholdLeavesRoom ==
  ASSUME NEW a \in Nat, NEW pool \in Int, NEW used \in Int, NEW bytes \in Nat, bytes > 0,
         bytes <= (a * Remaining(pool, used)) \div AlphaUnit
  PROVE  used < pool
<1> SUFFICES ASSUME ~(used < pool) PROVE FALSE
  OBVIOUS
<1>1. Remaining(pool, used) = 0
  BY DEF Remaining
<1>2. a * 0 = 0 /\ 0 \div AlphaUnit = 0
  BY ConfigAssumption
<1> QED
  BY <1>1, <1>2

(* A configured weight is a number.                                         *)
LEMMA AlphaIsNat ==
  ASSUME NEW configured \in Nat, NEW alg, NEW unsched
  PROVE  Alpha(configured, alg, unsched) \in Nat
BY ConfigAssumption DEF Alpha

(* Unsigned arithmetic never makes a natural number larger.                 *)
LEMMA WrapLowers ==
  /\ \A n \in Nat : n < W64 => Wrap(n) = n
  /\ \A n \in Nat : Wrap(n) <= n
<1>1. \A n \in Nat : n < W64 => Wrap(n) = n
  BY ConfigAssumption DEF Wrap
<1>2. \A n \in Nat : Wrap(n) < W64
  BY ConfigAssumption DEF Wrap
<1>3. \A n \in Nat : Wrap(n) \in Nat /\ W64 \in Nat
  BY ConfigAssumption DEF Wrap
<1> QED
  BY <1>1, <1>2, <1>3

(* No step takes the shared use beyond the ingress pool.                    *)
LEMMA SharedStep ==
  Books /\ Books' /\ SharedWithinPool /\ [Next]_vars => SharedWithinPool'
<1> SUFFICES ASSUME Books, Books', SharedWithinPool, [Next]_vars,
                    totalIngressReserved <= ingressPool
             PROVE  sharedPoolUsed' <= ingressPool
  BY DEF SharedWithinPool, totalIngressReserved, OverQueues
<1>0. TypeOK /\ TypeOK'
  BY DEF Books
<1>1. /\ totalUsed \in Nat /\ sharedPoolUsed \in Nat /\ xoffTotalUsed \in Nat
      /\ totalUsed' \in Nat /\ sharedPoolUsed' \in Nat /\ xoffTotalUsed' \in Nat
      /\ totalIngressReservedUsed' \in Nat
  BY <1>0 DEF TypeOK
<1>2. sharedPoolUsed + xoffTotalUsed = totalUsed /\ sharedPoolUsed' + xoffTotalUsed' = totalUsed'
  BY DEF Books, SharedPoolIsTheRest
<1>3. /\ sharedPoolUsed <= ingressPool /\ ingressPool \in Nat
      /\ bufferPool \in Nat /\ bufferPool < W64 /\ totalUsed <= bufferPool
  BY ConfigAssumption DEF SharedWithinPool, Books, BufferNotOverrun
<1>4. ASSUME NEW pkt \in Packets, Admit(pkt) PROVE sharedPoolUsed' <= ingressPool
  <2>0. pkt.size \in Nat /\ pkt.size > 0 /\ pkt.type \in Classes /\ pkt.in \in Ports /\ pkt.q \in Queues
    BY PacketFields
  <2>1. CheckIngressAdmission(pkt.in, pkt.q, pkt.size, pkt.type, pkt.unsched)
    BY <1>4 DEF Admit, ChargePacket, Admissible
  <2>2. CASE pkt.type = "LOSSY"
    <3>1. sharedPoolUsed' = sharedPoolUsed + pkt.size
      BY <1>4, <2>2 DEF Admit, ChargePacket, UpdateEgressAdmission
    <3>2. pkt.size + Wrap(totalUsed - xoffTotalUsed) <= ingressPool
      BY <2>1, <2>2 DEF CheckIngressAdmission, LossyIngressFits
    <3>3. Wrap(totalUsed - xoffTotalUsed) = sharedPoolUsed
      <4>1. totalUsed - xoffTotalUsed = sharedPoolUsed /\ sharedPoolUsed < W64
        BY <1>1, <1>2, <1>3, ConfigAssumption
      <4> QED BY <1>1, <4>1, WrapLowers
    <3> QED BY <3>1, <3>2, <3>3, <2>0, <1>1
  <2>3. CASE pkt.type = "LOSSLESS" /\ GoesToHeadroom(pkt.in, pkt.q, pkt.size, pkt.unsched)
    <3>1. sharedPoolUsed' = sharedPoolUsed
      BY <1>4, <2>3, Zenon DEF Admit, ChargePacket, UpdateIngressAdmission
    <3> QED BY <3>1, <1>3
  <2>4. CASE pkt.type = "LOSSLESS" /\ ~GoesToHeadroom(pkt.in, pkt.q, pkt.size, pkt.unsched)
    <3> DEFINE bytes == ingress_bytes[pkt.in][pkt.q] + pkt.size
               after == ReservedAfter(pkt.in, pkt.q, bytes)
               used == (totalUsed + pkt.size) - xoffTotalUsed - after
               pool == ingressPool - totalIngressReserved
               a == Alpha(alphaIngress[pkt.in][pkt.q], ingressAlg["LOSSLESS"], pkt.unsched)
    <3>1. sharedPoolUsed' = sharedPoolUsed + pkt.size
      BY <1>4, <2>4, Zenon DEF Admit, ChargePacket, UpdateIngressAdmission
    <3>2. totalIngressReservedUsed' = after
      BY <1>4 DEF Admit, ChargePacket, UpdateIngressAdmission
    <3>3. bytes \in Nat /\ bytes > 0
      BY <1>0, <2>0, QueueTypes
    <3>4. a \in Nat
      BY <2>0, AlphaIsNat, ConfigAssumption DEF PerQueue
    <3>5. ~(bytes > (a * Remaining(Wrap(pool), Wrap(used))) \div AlphaUnit)
      <4>1. ~(bytes > IngressThreshold(pkt.in, pkt.q, "LOSSLESS", pkt.unsched, Wrap(used)))
        BY <2>4 DEF GoesToHeadroom, IngressSharedUsed
      <4>2. IngressThreshold(pkt.in, pkt.q, "LOSSLESS", pkt.unsched, Wrap(used))
              = (a * Remaining(Wrap(pool), Wrap(used))) \div AlphaUnit
        BY DEF IngressThreshold
      <4> HIDE DEF bytes, used, pool, a
      <4> QED BY <4>1, <4>2
    <3>6. (Books => totalIngressReservedUsed <= totalIngressReserved /\ totalIngressReserved \in Nat)'
      BY ReservedWithinTotal, PTL
    <3>7. totalIngressReserved' = totalIngressReserved
      BY DEF totalIngressReserved, OverQueues
    <3>8. after \in Nat /\ after <= totalIngressReserved /\ totalIngressReserved \in Nat
      BY <1>1, <3>2, <3>6, <3>7
    <3>9. pkt.size + totalUsed <= bufferPool
      BY <2>1, <2>4 DEF CheckIngressAdmission, LosslessIngressFits
    <3>10. used \in Int /\ pool \in Nat /\ Wrap(pool) \in Int /\ Wrap(used) \in Int
      <4> HIDE DEF after
      <4>1. used \in Int /\ pool \in Nat
        BY <1>1, <1>3, <2>0, <3>8
      <4> HIDE DEF used, pool
      <4> QED BY <4>1, ConfigAssumption DEF Wrap
    <3> HIDE DEF a, bytes, after
    <3>11. Wrap(used) < Wrap(pool)
      <4> HIDE DEF used, pool
      <4>1. (a * Remaining(Wrap(pool), Wrap(used))) \div AlphaUnit \in Int
        <5>1. Remaining(Wrap(pool), Wrap(used)) \in Nat
          BY <3>10 DEF Remaining
        <5> QED BY <3>4, <5>1, ConfigAssumption
      <4>2. bytes <= (a * Remaining(Wrap(pool), Wrap(used))) \div AlphaUnit
        BY <3>3, <3>5, <4>1
      <4> QED BY <3>3, <3>4, <3>10, <4>2, ThresholdLeavesRoom
    <3>12. Wrap(pool) <= pool
      BY <3>10, WrapLowers
    <3>13. CASE used >= 0
      <4>1. Wrap(used) = used
        <5>1. used \in Nat /\ used < W64
          BY <1>1, <1>2, <1>3, <2>0, <3>8, <3>9, <3>10, <3>13, ConfigAssumption
        <5> HIDE DEF used
        <5> QED BY <5>1, WrapLowers
      <4> QED BY <1>1, <1>2, <1>3, <2>0, <3>1, <3>8, <3>10, <3>11, <3>12, <4>1
    <3>14. CASE ~(used >= 0)
      BY <1>1, <1>2, <1>3, <2>0, <3>1, <3>8, <3>14
    <3> QED BY <3>13, <3>14
  <2> QED BY <2>0, <2>2, <2>3, <2>4 DEF Classes
<1>5. ASSUME NEW pkt \in Packets, Release(pkt) PROVE sharedPoolUsed' <= ingressPool
  <2> DEFINE h == xoffUsed[pkt.in][pkt.q]
  <2>1. pkt.size \in Nat /\ pkt.type \in Classes /\ h \in Nat
    BY <1>0, PacketFields, QueueTypes
  <2>2. CASE pkt.type = "LOSSY"
    <3>1. sharedPoolUsed' = Monus(sharedPoolUsed, pkt.size)
      BY <1>5, <2>2 DEF Release, DischargePacket, RemoveFromEgressAdmission
    <3> QED BY <1>1, <1>3, <2>1, <3>1 DEF Monus
  <2>3. CASE pkt.type = "LOSSLESS"
    <3>1. /\ totalUsed' = Monus(totalUsed, pkt.size)
          /\ xoffTotalUsed' = Monus(xoffTotalUsed, h) + Monus(h, pkt.size)
      BY <1>5, <2>3, Zenon DEF Release, DischargePacket, RemoveFromIngressAdmission
    <3>2. h <= xoffTotalUsed
      <4>1. xoffTotalUsed = QueueSum(xoffUsed)
        BY ChargedHalves DEF Books, TotalsCharged
      <4> QED BY <1>0, <4>1, PacketFields, QueueSumIsNat DEF TypeOK
    <3> HIDE DEF h
    <3> QED BY <1>1, <1>2, <1>3, <2>1, <3>1, <3>2 DEF Monus
  <2> QED BY <2>1, <2>2, <2>3 DEF Classes
<1>6. CASE UNCHANGED vars
  BY <1>3, <1>6 DEF vars, counters
<1> QED
  BY <1>0, <1>4, <1>5, <1>6, StepCases

(* Egress limits that never bind for lossless packets, as the simulations   *)
(* configure them: a pool as large as the buffer and an alpha so high that  *)
(* the last packet that fits the buffer is still below the threshold.       *)
EgressOpen ==
  /\ egressPool["LOSSLESS"] >= bufferPool
  /\ \A pkt \in Packets : pkt.type = "LOSSLESS" =>
       Alpha(alphaEgress[pkt.out][pkt.q], egressAlg["LOSSLESS"], pkt.unsched) * pkt.size
         >= AlphaUnit * bufferPool

(* A threshold with enough of the pool left is at least the buffer.         *)
LEMMA ThresholdOfOpen ==
  ASSUME NEW a \in Nat, NEW size \in Nat, NEW r \in Nat, size <= r,
         a * size >= AlphaUnit * bufferPool
  PROVE  bufferPool <= (a * r) \div AlphaUnit
<1>1. /\ AlphaUnit \in Nat /\ AlphaUnit > 0 /\ bufferPool \in Nat
  BY ConfigAssumption
<1>2. a * r >= a * size
  <2>1. r - size \in Nat /\ a * (r - size) \in Nat
    OBVIOUS
  <2>2. a * r = a * size + a * (r - size)
    OBVIOUS
  <2>3. a * r \in Int /\ a * size \in Int
    OBVIOUS
  <2> QED BY <2>1, <2>2, <2>3
<1>3. \A n \in Nat, b \in Nat, u \in Nat : u > 0 /\ n >= u * b => b <= n \div u
  <2> SUFFICES ASSUME NEW n \in Nat, NEW b \in Nat, NEW u \in Nat, u > 0, n >= u * b, n \div u < b
               PROVE  FALSE
    OBVIOUS
  <2> DEFINE d == n \div u
  <2>1. d \in Nat /\ n < u * (d + 1)
    OBVIOUS
  <2>2. d + 1 <= b
    BY <2>1
  <2> HIDE DEF d
  <2>3. u * (b - (d + 1)) \in Nat
    BY <2>1, <2>2
  <2>4. u * b = u * (d + 1) + u * (b - (d + 1))
    BY <2>1
  <2>5. u * b \in Int /\ u * (d + 1) \in Int
    BY <2>1
  <2> QED BY <2>1, <2>3, <2>4, <2>5
<1>4. a * r \in Nat /\ a * size \in Int /\ AlphaUnit * bufferPool \in Int
  BY <1>1
<1>5. a * r >= AlphaUnit * bufferPool
  BY <1>2, <1>4
<1> QED
  BY <1>1, <1>3, <1>4, <1>5

(* The egress lets a lossless packet in whenever the buffer has room.       *)
LEMMA EgressAdmits ==
  ASSUME Books, EgressOpen, NEW pkt \in Packets, pkt.type = "LOSSLESS",
         pkt.size + totalUsed <= bufferPool
  PROVE  CheckEgressAdmission(pkt.out, pkt.q, pkt.size, pkt.type, pkt.unsched)
<1> DEFINE Out == {x \in Packets : x.out = pkt.out /\ x.q = pkt.q}
           Lossless == {x \in Packets : x.type = "LOSSLESS"}
           a == Alpha(alphaEgress[pkt.out][pkt.q], egressAlg["LOSSLESS"], pkt.unsched)
           r == Remaining(egressPool["LOSSLESS"], egressPoolUsed["LOSSLESS"])
<1>0. TypeOK /\ ChargedExactly
  BY DEF Books
<1>1. pkt.size \in Nat /\ pkt.out \in Ports /\ pkt.q \in Queues
  BY PacketFields
<1>2. /\ totalUsed \in Nat /\ bufferPool \in Nat /\ egressPool["LOSSLESS"] \in Nat
      /\ egress_bytes[pkt.out][pkt.q] \in Nat /\ egressPoolUsed["LOSSLESS"] \in Nat
  BY <1>0, <1>1, ConfigAssumption DEF TypeOK, PerQueue, Classes
<1>3. egress_bytes[pkt.out][pkt.q] <= totalUsed
  <2>1. egress_bytes[pkt.out][pkt.q] = BytesHeld(Out) /\ totalUsed = BytesHeld(Packets)
    BY <1>0, <1>1 DEF ChargedExactly
  <2> QED BY <1>0, <2>1, BytesHeldPart
<1>4. egressPoolUsed["LOSSLESS"] <= totalUsed
  <2>1. egressPoolUsed["LOSSLESS"] = BytesHeld(Lossless) /\ totalUsed = BytesHeld(Packets)
    BY <1>0 DEF ChargedExactly, Classes
  <2> QED BY <1>0, <2>1, BytesHeldPart
<1>5. egressPool["LOSSLESS"] >= bufferPool /\ a * pkt.size >= AlphaUnit * bufferPool
  BY DEF EgressOpen
<1>6. a \in Nat
  BY <1>1, AlphaIsNat, ConfigAssumption DEF PerQueue
<1> HIDE DEF a
<1>7. r \in Nat /\ pkt.size <= r
  BY <1>1, <1>2, <1>4, <1>5 DEF Remaining
<1>8. pkt.size + egressPoolUsed["LOSSLESS"] <= egressPool["LOSSLESS"]
  BY <1>1, <1>2, <1>4, <1>5
<1> HIDE DEF r
<1>9. bufferPool <= (a * r) \div AlphaUnit
  BY <1>1, <1>5, <1>6, <1>7, ThresholdOfOpen
<1>10. (a * r) \div AlphaUnit \in Int
  BY <1>6, <1>7, ConfigAssumption
<1>11. pkt.size + egress_bytes[pkt.out][pkt.q] <= (a * r) \div AlphaUnit
  BY <1>1, <1>2, <1>3, <1>9, <1>10
<1> QED
  BY <1>8, <1>11 DEF CheckEgressAdmission, EgressThreshold, a, r

(* A lossless packet that the headroom of its queue has room for is let in, *)
(* whatever threshold its queue has reached.                                *)
LEMMA LosslessAdmitted ==
  ASSUME Books, SharedWithinPool, EgressOpen,
         totalIngressReserved <= ingressPool, bufferPool >= ingressPool + xoffTotal,
         \A p \in Ports, q \in Queues : xoffUsed[p][q] <= xoff[p][q],
         NEW pkt \in Packets, pkt.type = "LOSSLESS",
         xoffUsed[pkt.in][pkt.q] + pkt.size <= xoff[pkt.in][pkt.q]
  PROVE  Admissible(pkt)
<1> DEFINE p == pkt.in  q == pkt.q
           more == [xoffUsed EXCEPT ![p][q] = xoffUsed[p][q] + pkt.size]
<1>0. TypeOK
  BY DEF Books
<1>1. p \in Ports /\ q \in Queues /\ pkt.size \in Nat
  BY PacketFields
<1>2. xoffUsed[p][q] \in Nat /\ xoff[p][q] \in Nat
  BY <1>0, <1>1, QueueTypes
<1>3. xoffUsed \in PerQueue(Nat) /\ xoff \in PerQueue(Nat)
  BY <1>0, ConfigAssumption DEF TypeOK
<1>4. QueueSum(more) = QueueSum(xoffUsed) + pkt.size
  <2>1. QueueSum(more) = QueueSum(xoffUsed) + ((xoffUsed[p][q] + pkt.size) - xoffUsed[p][q])
    <3>1. xoffUsed[p][q] + pkt.size \in Nat
      BY <1>1, <1>2
    <3> QED BY <1>1, <1>3, <3>1, QueueSumUpdate
  <2>2. QueueSum(xoffUsed) \in Nat
    BY <1>3, QueueSumIsNat
  <2> QED BY <1>1, <1>2, <2>1, <2>2
<1>5. more \in PerQueue(Nat)
  BY <1>1, <1>2, <1>3 DEF PerQueue
<1>6. \A p1 \in Ports, q1 \in Queues : more[p1][q1] <= xoff[p1][q1]
  BY <1>1, <1>3, <1>5 DEF PerQueue
<1>7. QueueSum(more) <= QueueSum(xoff)
  <2> HIDE DEF more
  <2> QED BY <1>3, <1>5, <1>6, QueueSumMonotone
<1>8. xoffTotalUsed = QueueSum(xoffUsed) /\ xoffTotal = QueueSum(xoff) /\ xoffTotal \in Nat
  BY <1>3, ChargedHalves, TotalsAreQueueSums, QueueSumIsNat DEF Books, TotalsCharged
<1>9. pkt.size + xoffTotalUsed <= xoffTotal
  <2> HIDE DEF more
  <2> QED BY <1>0, <1>1, <1>4, <1>7, <1>8 DEF TypeOK
<1>10. /\ totalUsed \in Nat /\ sharedPoolUsed \in Nat /\ xoffTotalUsed \in Nat
       /\ ingressPool \in Nat /\ bufferPool \in Nat
       /\ sharedPoolUsed + xoffTotalUsed = totalUsed /\ sharedPoolUsed <= ingressPool
  BY <1>0, ConfigAssumption DEF TypeOK, Books, SharedPoolIsTheRest, SharedWithinPool
<1>11. pkt.size + totalUsed <= ingressPool + xoffTotal /\ pkt.size + totalUsed <= bufferPool
  BY <1>1, <1>8, <1>9, <1>10
<1>12. CheckIngressAdmission(p, q, pkt.size, pkt.type, pkt.unsched)
  BY <1>1, <1>2, <1>9, <1>11 DEF CheckIngressAdmission, LosslessIngressFits
<1> QED
  BY <1>11, <1>12, EgressAdmits DEF Admissible
=============================================================================
