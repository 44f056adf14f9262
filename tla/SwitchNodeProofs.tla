--------------------------- MODULE SwitchNodeProofs ---------------------------
(***************************************************************************)
(* What the switch node guarantees for every topology, configuration and   *)
(* traffic: types, that it uses the MMU as SwitchMmu promises, that no     *)
(* port that could send is idle, and that PFC frames keep the peer's copy  *)
(* of a pause state in step with the MMU's.                                *)
(*                                                                         *)
(* P is the MMU with the theorems proved about it: the same instance as    *)
(* the model's Mmu, whose operators are shown equal where they are used.   *)
(***************************************************************************)
EXTENDS SwitchNode, SumTheorems, SequenceTheorems

P == INSTANCE SwitchMmuProofs WITH held <- [pkt \in Packets |-> Copies(pkt)]

-----------------------------------------------------------------------------
(* The model's MMU and the one with theorems are the same *)

(* What the node assumes of the constants is what the MMU assumes.          *)
LEMMA SamePackets == P!PacketAssumption
BY MmuAssumption DEF P!PacketAssumption, Mmu!PacketAssumption, P!PacketType, Mmu!PacketType,
                     P!Classes, Mmu!Classes, P!IsFiniteSet, Mmu!IsFiniteSet

(* The same for the configuration.                                          *)
LEMMA SameConfig == P!ConfigAssumption
BY MmuAssumption DEF P!ConfigAssumption, Mmu!ConfigAssumption, P!PerQueue, Mmu!PerQueue,
                     P!Classes, Mmu!Classes, P!IsFiniteSet, Mmu!IsFiniteSet

(* Both take the same sums.                                                 *)
LEMMA SameSums ==
  ASSUME NEW f, NEW S
  PROVE  Mmu!SumFunctionOnSet(f, S) = P!SumFunctionOnSet(f, S)
BY Zenon DEF Mmu!SumFunctionOnSet, P!SumFunctionOnSet, Mmu!FoldFunctionOnSet,
             P!FoldFunctionOnSet, Mmu!MapThenFoldSet, P!MapThenFoldSet

(* Headroom and reserve of all the queues.                                  *)
LEMMA SameTotals ==
  /\ Mmu!xoffTotal = P!xoffTotal
  /\ Mmu!totalIngressReserved = P!totalIngressReserved
BY SameSums, Zenon
   DEF Mmu!xoffTotal, P!xoffTotal, Mmu!totalIngressReserved, P!totalIngressReserved,
       Mmu!OverQueues, P!OverQueues, Mmu!SumFunction, P!SumFunction

(* The ingress threshold.                                                   *)
LEMMA SameThreshold ==
  ASSUME NEW p, NEW q, NEW type, NEW unsched, NEW used
  PROVE  Mmu!IngressThreshold(p, q, type, unsched, used)
           = P!IngressThreshold(p, q, type, unsched, used)
BY SameTotals, Zenon
   DEF Mmu!IngressThreshold, P!IngressThreshold, Mmu!Alpha, P!Alpha,
       Mmu!Remaining, P!Remaining, Mmu!Wrap, P!Wrap

(* What remains for the shared use of the ingress.                          *)
LEMMA SameSharedUsed ==
  /\ \A a, b, c : Mmu!IngressSharedUsed(a, b, c) = P!IngressSharedUsed(a, b, c)
  /\ Mmu!GetIngressSharedUsed = P!GetIngressSharedUsed
BY Zenon DEF Mmu!IngressSharedUsed, P!IngressSharedUsed, Mmu!Wrap, P!Wrap,
             Mmu!GetIngressSharedUsed, P!GetIngressSharedUsed

(* Admission.                                                               *)
LEMMA SameAdmissible ==
  ASSUME NEW pkt
  PROVE  Mmu!Admissible(pkt) <=> P!Admissible(pkt)
<1>1. Mmu!CheckIngressAdmission(pkt.in, pkt.q, pkt.size, pkt.type, pkt.unsched)
        <=> P!CheckIngressAdmission(pkt.in, pkt.q, pkt.size, pkt.type, pkt.unsched)
  BY SameTotals, SameThreshold, SameSharedUsed, Zenon
     DEF Mmu!CheckIngressAdmission, P!CheckIngressAdmission,
         Mmu!LossyIngressFits, P!LossyIngressFits,
         Mmu!LosslessIngressFits, P!LosslessIngressFits, Mmu!Wrap, P!Wrap
<1>2. Mmu!CheckEgressAdmission(pkt.out, pkt.q, pkt.size, pkt.type, pkt.unsched)
        <=> P!CheckEgressAdmission(pkt.out, pkt.q, pkt.size, pkt.type, pkt.unsched)
  BY Zenon DEF Mmu!CheckEgressAdmission, P!CheckEgressAdmission,
               Mmu!EgressThreshold, P!EgressThreshold, Mmu!Alpha, P!Alpha,
               Mmu!Remaining, P!Remaining
<1> QED
  BY <1>1, <1>2, Zenon DEF Mmu!Admissible, P!Admissible

(* Guarded subtraction and the reserve.                                     *)
LEMMA SameParts ==
  /\ \A a, b : Mmu!Monus(a, b) = P!Monus(a, b)
  /\ \A n, p, q : Mmu!ReservedAfter(p, q, n) = P!ReservedAfter(p, q, n)
BY Zenon DEF Mmu!Monus, P!Monus, Mmu!ReservedAfter, P!ReservedAfter,
             Mmu!ReservedPart, P!ReservedPart, Mmu!Lesser, P!Lesser,
             Mmu!GetIngressReservedUsed, P!GetIngressReservedUsed

(* Charging a packet.                                                       *)
LEMMA SameCharge ==
  ASSUME NEW pkt
  PROVE  Mmu!ChargePacket(pkt) <=> P!ChargePacket(pkt)
<1>1. ASSUME NEW p, NEW q, NEW n, NEW u
      PROVE  Mmu!GoesToHeadroom(p, q, n, u) <=> P!GoesToHeadroom(p, q, n, u)
  BY SameParts, SameThreshold, SameSharedUsed, Zenon
     DEF Mmu!GoesToHeadroom, P!GoesToHeadroom
<1>2. Mmu!UpdateIngressAdmission(pkt.in, pkt.q, pkt.size, pkt.type, pkt.unsched)
        <=> P!UpdateIngressAdmission(pkt.in, pkt.q, pkt.size, pkt.type, pkt.unsched)
  BY <1>1, SameParts, Zenon DEF Mmu!UpdateIngressAdmission, P!UpdateIngressAdmission
<1>3. Mmu!UpdateEgressAdmission(pkt.out, pkt.q, pkt.size, pkt.type)
        <=> P!UpdateEgressAdmission(pkt.out, pkt.q, pkt.size, pkt.type)
  BY Zenon DEF Mmu!UpdateEgressAdmission, P!UpdateEgressAdmission
<1>4. Mmu!PauseIfNeeded(pkt.in, pkt.q) <=> P!PauseIfNeeded(pkt.in, pkt.q)
  BY Zenon DEF Mmu!PauseIfNeeded, P!PauseIfNeeded, Mmu!CheckShouldPause, P!CheckShouldPause
<1> QED
  BY <1>2, <1>3, <1>4, SameAdmissible, Zenon DEF Mmu!ChargePacket, P!ChargePacket

(* Discharging one.                                                         *)
LEMMA SameDischarge ==
  ASSUME NEW pkt
  PROVE  Mmu!DischargePacket(pkt) <=> P!DischargePacket(pkt)
<1>1. Mmu!RemoveFromIngressAdmission(pkt.in, pkt.q, pkt.size, pkt.type)
        <=> P!RemoveFromIngressAdmission(pkt.in, pkt.q, pkt.size, pkt.type)
  BY SameParts, Zenon
     DEF Mmu!RemoveFromIngressAdmission, P!RemoveFromIngressAdmission, Mmu!Wrap, P!Wrap
<1>2. Mmu!RemoveFromEgressAdmission(pkt.out, pkt.q, pkt.size, pkt.type)
        <=> P!RemoveFromEgressAdmission(pkt.out, pkt.q, pkt.size, pkt.type)
  BY SameParts, Zenon DEF Mmu!RemoveFromEgressAdmission, P!RemoveFromEgressAdmission
<1>3. Mmu!ResumeIfPossible(pkt.in, pkt.q) <=> P!ResumeIfPossible(pkt.in, pkt.q)
  BY SameThreshold, SameSharedUsed, Zenon
     DEF Mmu!ResumeIfPossible, P!ResumeIfPossible, Mmu!CheckShouldResume, P!CheckShouldResume
<1> QED
  BY <1>1, <1>2, <1>3, Zenon DEF Mmu!DischargePacket, P!DischargePacket

(* The type invariant, the initial state and the two operations.            *)
LEMMA SameType == (Mmu!TypeOK <=> P!TypeOK) /\ (Mmu!TypeOK' <=> P!TypeOK')
BY Zenon DEF Mmu!TypeOK, P!TypeOK, Mmu!PerQueue, P!PerQueue, Mmu!Classes, P!Classes

(* The two instances of the MMU start alike.                                *)
LEMMA SameInit == Mmu!Init <=> P!Init
BY Zenon DEF Mmu!Init, P!Init, Mmu!Classes, P!Classes

(* The two instances of the MMU take the same steps.                        *)
LEMMA SameSteps ==
  ASSUME NEW pkt
  PROVE  /\ Mmu!Admit(pkt) <=> P!Admit(pkt)
         /\ Mmu!Release(pkt) <=> P!Release(pkt)
BY SameCharge, SameDischarge, Zenon DEF Mmu!Admit, P!Admit, Mmu!Release, P!Release

-----------------------------------------------------------------------------
(* Sequences: positions of an element, and queues as functions *)

(* How often an element occurs in a sequence.                               *)
Count(s, e) == Cardinality({i \in DOMAIN s : s[i] = e})

(* A count is a natural.                                                    *)
LEMMA CountIsNat ==
  ASSUME NEW S, NEW s \in Seq(S), NEW e
  PROVE  /\ IsFiniteSet({i \in DOMAIN s : s[i] = e}) /\ Count(s, e) \in Nat
<1> DEFINE At == {i \in DOMAIN s : s[i] = e}
<1>1. DOMAIN s = 1..Len(s) /\ Len(s) \in Nat
  BY LenProperties
<1>2. IsFiniteSet(1..Len(s))
  BY <1>1, FS_Interval
<1>3. At \in SUBSET (1..Len(s))
  BY <1>1
<1>4. IsFiniteSet(At)
  <2> HIDE DEF At
  <2> QED BY <1>2, <1>3, FS_Subset
<1> QED
  BY <1>4, FS_CardinalityType DEF Count

(* One more of what is appended.                                            *)
LEMMA CountAppend ==
  ASSUME NEW S, NEW s \in Seq(S), NEW x \in S, NEW e
  PROVE  Count(Append(s, x), e) = Count(s, e) + (IF x = e THEN 1 ELSE 0)
<1> DEFINE At == {i \in DOMAIN s : s[i] = e}
           After == {i \in DOMAIN Append(s, x) : Append(s, x)[i] = e}
           n == Len(s)
<1>1. DOMAIN s = 1..n /\ n \in Nat
  BY LenProperties
<1>2. /\ DOMAIN Append(s, x) = 1..(n + 1)
      /\ \A i \in 1..n : Append(s, x)[i] = s[i]
      /\ Append(s, x)[n + 1] = x
  BY AppendProperties, LenProperties, <1>1
<1>3. IsFiniteSet(At)
  BY CountIsNat
<1>4. CASE x = e
  <2>1. After = At \cup {n + 1} /\ n + 1 \notin At
    <3> HIDE DEF n
    <3> QED BY <1>1, <1>2, <1>4
  <2>2. Cardinality(After) = Cardinality(At) + 1
    <3> HIDE DEF At, After
    <3> QED BY <1>3, <2>1, FS_AddElement
  <2> QED BY <2>2, <1>4 DEF Count
<1>5. CASE x # e
  <2>1. After = At
    <3> HIDE DEF n
    <3> QED BY <1>1, <1>2, <1>5
  <2>2. Count(Append(s, x), e) = Count(s, e)
    BY <2>1, Zenon DEF Count
  <2>3. Count(s, e) \in Nat
    BY CountIsNat
  <2> QED BY <2>2, <2>3, <1>5
<1> QED
  BY <1>4, <1>5

(* Positions in a tail are positions in the sequence, less one.             *)
LEMMA CountShifted ==
  ASSUME NEW A \in SUBSET Nat, NEW B \in SUBSET Nat, IsFiniteSet(A),
         \A i \in Nat : i \in B <=> i + 1 \in A, 0 \notin A
  PROVE  Cardinality(B) = Cardinality(A)
<1> DEFINE f == [i \in A |-> i - 1]
<1>1. f \in [A -> B]
  <2> SUFFICES ASSUME NEW i \in A PROVE i - 1 \in B
    OBVIOUS
  <2>1. i - 1 \in Nat /\ i - 1 + 1 = i
    OBVIOUS
  <2> QED BY <2>1
<1>2. f \in Injection(A, B)
  <2>1. \A a, b \in A : f[a] = f[b] => a = b
    OBVIOUS
  <2> HIDE DEF f
  <2> QED BY <1>1, <2>1 DEF Injection, IsInjective
<1>3. f \in Surjection(A, B)
  <2>1. ASSUME NEW j \in B PROVE \E i \in A : f[i] = j
    <3>1. j + 1 \in A /\ (j + 1) - 1 = j
      OBVIOUS
    <3>2. f[j + 1] = j
      BY <3>1
    <3> QED BY <3>1, <3>2
  <2> HIDE DEF f
  <2> QED BY <1>1, <2>1 DEF Surjection
<1>4. ExistsBijection(A, B)
  BY <1>2, <1>3 DEF ExistsBijection, Bijection
<1> QED
  BY <1>4, FS_Bijection

(* One less of what was at the head.                                        *)
LEMMA CountTail ==
  ASSUME NEW S, NEW s \in Seq(S), s # <<>>, NEW e
  PROVE  Count(s, e) = Count(Tail(s), e) + (IF Head(s) = e THEN 1 ELSE 0)
<1> DEFINE At == {i \in DOMAIN s : s[i] = e}
           Left == {i \in DOMAIN Tail(s) : Tail(s)[i] = e}
           Rest == At \ {1}
           n == Len(s)
<1>1. DOMAIN s = 1..n /\ n \in Nat /\ n > 0 /\ Head(s) = s[1]
  BY LenProperties, EmptySeq
<1>2. DOMAIN Tail(s) = 1..(n - 1) /\ \A i \in 1..(n - 1) : Tail(s)[i] = s[i + 1]
  BY HeadTailProperties, LenProperties, <1>1
<1>3. IsFiniteSet(At)
  BY CountIsNat
<1>4. /\ IsFiniteSet(Rest)
      /\ Cardinality(Rest) = IF 1 \in At THEN Cardinality(At) - 1 ELSE Cardinality(At)
  <2> HIDE DEF At
  <2> QED BY <1>3, FS_RemoveElement
<1>5. Rest \in SUBSET Nat /\ Left \in SUBSET Nat /\ 0 \notin Rest
  <2> HIDE DEF n
  <2> QED BY <1>1, <1>2
<1>6. \A i \in Nat : i \in Left <=> i + 1 \in Rest
  <2> HIDE DEF n
  <2> QED BY <1>1, <1>2
<1>7. Cardinality(Left) = Cardinality(Rest)
  <2> HIDE DEF Left, Rest
  <2> QED BY <1>4, <1>5, <1>6, CountShifted
<1>8. 1 \in At <=> Head(s) = e
  <2> HIDE DEF n
  <2> QED BY <1>1
<1>9. Cardinality(At) \in Nat
  <2> HIDE DEF At
  <2> QED BY <1>3, FS_CardinalityType
<1> QED
  <2> HIDE DEF At, Left, Rest
  <2>1. Count(s, e) = Cardinality(At) /\ Count(Tail(s), e) = Cardinality(Left)
    BY Zenon DEF Count, At, Left
  <2> QED BY <2>1, <1>4, <1>7, <1>8, <1>9

-----------------------------------------------------------------------------
(* Types *)

Frames == PfcFrames \cup Packets \cup ControlPackets

(* What may stand in a queue, and what may arrive at a port.                *)
QueueFrames(p, q) ==
  IF q = 0 THEN PfcFrames \cup {pkt \in ControlPackets : pkt.out = p}
           ELSE {pkt \in Packets : pkt.out = p /\ pkt.q = q}
Arriving(p) == {frame \in Frames : IsPfc(frame) \/ frame.in = p}

QueuesTyped ==
  /\ m_queue \in PerPort([QIndex -> Seq(Frames)])
  /\ \A p \in Ports, q \in QIndex : m_queue[p][q] \in Seq(QueueFrames(p, q))

WiresTyped ==
  /\ wireIn \in PerPort(Seq(Frames)) /\ wireOut \in PerPort(Seq(Frames))
  /\ \A p \in Ports : wireIn[p] \in Seq(Arriving(p))

PortsTyped ==
  /\ busy \in PerPort(BOOLEAN) /\ m_linkUp \in PerPort(BOOLEAN)
  /\ m_paused \in PerPort([QIndex -> BOOLEAN])
  /\ calls \in Seq(Ports)

PeersTyped ==
  /\ peerPaused \in PerPort([Queues -> BOOLEAN])
  /\ peerAsks \in PerPort([Queues -> BOOLEAN])
  /\ sentSince \in PerPort([Queues -> 0..Reaction])

BytesTyped == m_bytes \in PerPort(PerPort([QIndex -> 0..(W32 - 1)]))

NodeType ==
  /\ Mmu!TypeOK /\ QueuesTyped /\ WiresTyped
  /\ PortsTyped /\ PeersTyped /\ BytesTyped

(* The fields of the packets, and that no packet is a PFC frame.            *)
LEMMA FrameFields ==
  /\ \A pkt \in Packets :
       /\ pkt.in \in Ports /\ pkt.out \in Ports /\ pkt.in # pkt.out
       /\ pkt.q \in Queues /\ pkt.q # 0 /\ pkt.q \in QIndex
       /\ pkt.size \in Nat /\ pkt.size > 0 /\ ~IsPfc(pkt)
  /\ \A pkt \in ControlPackets :
       /\ pkt.in \in Ports /\ pkt.out \in Ports /\ pkt.in # pkt.out
       /\ pkt.q = 0 /\ pkt.size \in Nat /\ pkt.size > 0 /\ ~IsPfc(pkt)
  /\ \A frame \in PfcFrames :
       /\ IsPfc(frame) /\ frame.pfcQueue \in Queues /\ frame.pause \in BOOLEAN
       /\ frame \notin Packets /\ frame \notin ControlPackets
  /\ \A q \in Queues, b \in BOOLEAN :
       Pfc(q, b) \in PfcFrames /\ Pfc(q, b).pfcQueue = q /\ Pfc(q, b).pause = b
<1>1. \A pkt \in Packets : pkt \in Mmu!PacketType
  BY MmuAssumption DEF Mmu!PacketAssumption
<1>2. \A pkt \in Packets :
       /\ pkt.in \in Ports /\ pkt.out \in Ports /\ pkt.in # pkt.out
       /\ pkt.q \in Queues /\ pkt.q # 0 /\ pkt.q \in QIndex
       /\ pkt.size \in Nat /\ pkt.size > 0 /\ ~IsPfc(pkt)
  BY <1>1, NodeAssumption DEF Mmu!PacketType, IsPfc, QIndex
<1>3. \A pkt \in ControlPackets :
       /\ pkt.in \in Ports /\ pkt.out \in Ports /\ pkt.in # pkt.out
       /\ pkt.q = 0 /\ pkt.size \in Nat /\ pkt.size > 0 /\ ~IsPfc(pkt)
  BY NodeAssumption DEF ControlType, IsPfc
<1>4. \A frame \in PfcFrames :
       IsPfc(frame) /\ frame.pfcQueue \in Queues /\ frame.pause \in BOOLEAN
  BY DEF PfcFrames, IsPfc
<1>5. \A frame \in PfcFrames : frame \notin Packets /\ frame \notin ControlPackets
  BY <1>2, <1>3, <1>4
<1>6. \A q \in Queues, b \in BOOLEAN :
       Pfc(q, b) \in PfcFrames /\ Pfc(q, b).pfcQueue = q /\ Pfc(q, b).pause = b
  BY DEF Pfc, PfcFrames
<1> QED
  BY <1>2, <1>3, <1>4, <1>5, <1>6

(* Frames of a queue are frames.                                            *)
LEMMA QueueFramesAreFrames ==
  ASSUME NEW p, NEW q
  PROVE  QueueFrames(p, q) \subseteq Frames
BY DEF QueueFrames, Frames

(* One queue is given another content.                                      *)
LEMMA QueueSet ==
  ASSUME QueuesTyped, NEW p \in Ports, NEW q \in QIndex,
         NEW v \in Seq(QueueFrames(p, q)),
         m_queue' = [m_queue EXCEPT ![p][q] = v]
  PROVE  /\ QueuesTyped'
         /\ m_queue'[p][q] = v
         /\ \A p1 \in Ports, q1 \in QIndex :
              <<p1, q1>> # <<p, q>> => m_queue'[p1][q1] = m_queue[p1][q1]
<1>1. v \in Seq(Frames)
  BY QueueFramesAreFrames, SeqMonotonic
<1> QED
  BY <1>1 DEF QueuesTyped, PerPort

TwoQueuesGet(p, q, v, o, k, w) ==
  m_queue' = [[m_queue EXCEPT ![p][q] = v] EXCEPT ![o][k] = w]

(* Two queues are: values first, then types.                                *)
LEMMA TwoQueuesSet ==
  ASSUME QueuesTyped, NEW p \in Ports, NEW q \in QIndex, NEW v,
         NEW o \in Ports, NEW k \in QIndex, NEW w, p # o,
         TwoQueuesGet(p, q, v, o, k, w)
  PROVE  /\ m_queue'[p][q] = v /\ m_queue'[o][k] = w
         /\ \A p1 \in Ports, q1 \in QIndex :
              <<p1, q1>> # <<p, q>> /\ <<p1, q1>> # <<o, k>> =>
                m_queue'[p1][q1] = m_queue[p1][q1]
         /\ v \in Seq(QueueFrames(p, q)) /\ w \in Seq(QueueFrames(o, k)) => QueuesTyped'
<1>1. /\ m_queue'[p][q] = v /\ m_queue'[o][k] = w
      /\ \A p1 \in Ports, q1 \in QIndex :
           <<p1, q1>> # <<p, q>> /\ <<p1, q1>> # <<o, k>> =>
             m_queue'[p1][q1] = m_queue[p1][q1]
  BY DEF QueuesTyped, PerPort, TwoQueuesGet
<1>2. ASSUME v \in Seq(QueueFrames(p, q)), w \in Seq(QueueFrames(o, k))
      PROVE  QueuesTyped'
  <2>1. v \in Seq(Frames) /\ w \in Seq(Frames)
    BY <1>2, QueueFramesAreFrames, SeqMonotonic
  <2>2. m_queue' \in PerPort([QIndex -> Seq(Frames)])
    BY <2>1 DEF QueuesTyped, PerPort, TwoQueuesGet
  <2> QED BY <1>1, <1>2, <2>2 DEF QueuesTyped
<1> QED
  BY <1>1, <1>2

(* A frame that arrives at a port came from that port's peer.               *)
LEMMA ArrivedFrame ==
  ASSUME WiresTyped, NEW p \in Ports, NEW frame, Arrived(p, frame)
  PROVE  /\ frame \in Frames
         /\ frame \in Packets \cup ControlPackets => frame.in = p
         /\ wireIn' \in PerPort(Seq(Frames))
         /\ \A o \in Ports : wireIn'[o] \in Seq(Arriving(o))
         /\ wireIn'[p] = Tail(wireIn[p])
         /\ \A o \in Ports : o # p => wireIn'[o] = wireIn[o]
<1>1. wireIn[p] \in Seq(Arriving(p)) /\ wireIn[p] # <<>> /\ frame = Head(wireIn[p])
  BY DEF WiresTyped, Arrived
<1>2. frame \in Arriving(p) /\ Tail(wireIn[p]) \in Seq(Arriving(p))
  BY <1>1, HeadTailProperties
<1>3. Tail(wireIn[p]) \in Seq(Frames)
  BY <1>1, HeadTailProperties DEF WiresTyped, PerPort
<1>4. /\ wireIn' \in PerPort(Seq(Frames)) /\ wireIn'[p] = Tail(wireIn[p])
      /\ \A o \in Ports : o # p => wireIn'[o] = wireIn[o]
  BY <1>3 DEF WiresTyped, Arrived, PerPort
<1>5. frame \in Frames /\ (IsPfc(frame) \/ frame.in = p)
  BY <1>2 DEF Arriving
<1>6. frame \in Packets \cup ControlPackets => frame.in = p
  <2>1. frame \in Packets \cup ControlPackets => ~IsPfc(frame)
    BY FrameFields, Zenon
  <2> QED BY <1>5, <2>1, Zenon
<1>7. \A o \in Ports : wireIn'[o] \in Seq(Arriving(o))
  BY <1>2, <1>4 DEF WiresTyped
<1> QED
  BY <1>4, <1>5, <1>6, <1>7, Zenon

(* Only the queue of the packet can change its pause state.                 *)
LEMMA PauseChange ==
  ASSUME Mmu!TypeOK, NEW pkt \in Packets, Mmu!ChargePacket(pkt) \/ Mmu!DischargePacket(pkt)
  PROVE  /\ paused' \in PerPort([Queues -> BOOLEAN])
         /\ \A p \in Ports, q \in Queues :
              <<p, q>> # <<pkt.in, pkt.q>> => paused'[p][q] = paused[p][q]
<1>1. pkt.in \in Ports /\ pkt.q \in Queues
  BY FrameFields
<1>2. PICK b \in BOOLEAN : paused' = [paused EXCEPT ![pkt.in][pkt.q] = b]
  <2>1. CASE Mmu!ChargePacket(pkt)
    BY <1>1, <2>1 DEF Mmu!ChargePacket, Mmu!PauseIfNeeded, Mmu!TypeOK, Mmu!PerQueue,
                      Mmu!CheckShouldPause
  <2>2. CASE Mmu!DischargePacket(pkt)
    BY <1>1, <2>2 DEF Mmu!DischargePacket, Mmu!ResumeIfPossible, Mmu!TypeOK, Mmu!PerQueue,
                      Mmu!CheckShouldResume
  <2> QED BY <2>1, <2>2
<1> QED
  BY <1>1, <1>2 DEF Mmu!TypeOK, Mmu!PerQueue, PerPort

(* The PFC frame a change of a pause state is told with, if it changes.     *)
LEMMA PfcSentCases ==
  ASSUME Mmu!TypeOK, paused' \in PerPort([Queues -> BOOLEAN]), NEW p \in Ports, NEW q \in Queues
  PROVE  /\ PfcSent(p, q) \in Seq(PfcFrames)
         /\ \/ PfcSent(p, q) = <<>> /\ paused'[p][q] = paused[p][q]
            \/ PfcSent(p, q) = <<Pfc(q, paused'[p][q])>> /\ paused'[p][q] # paused[p][q]
BY FrameFields DEF PfcSent, PerPort

-----------------------------------------------------------------------------
(* What the steps do to the queues and to the MMU *)

(* Copies of a packet, by its queue.                                        *)
LEMMA CopiesAreCounts ==
  /\ \A pkt : Copies(pkt) = Count(m_queue[pkt.out][pkt.q], pkt)
  /\ \A pkt : Copies(pkt)' = Count(m_queue'[pkt.out][pkt.q], pkt)
BY Zenon DEF Copies, Count

(* Forwarding adds the packet to the queue of its egress port and, if the   *)
(* pause state of its ingress queue changes, a PFC frame to queue 0 of its  *)
(* ingress port.                                                            *)
Forwards(p, pkt) ==
  /\ pkt.in = p /\ Arrived(p, pkt) /\ m_linkUp[pkt.out] /\ Mmu!ChargePacket(pkt)
  /\ paused' \in PerPort([Queues -> BOOLEAN])
  /\ QueuesTyped'
  /\ m_queue'[p][0] = m_queue[p][0] \o PfcSent(p, pkt.q)
  /\ m_queue'[pkt.out][pkt.q] = Append(m_queue[pkt.out][pkt.q], pkt)
  /\ \A o \in Ports, k \in QIndex :
       <<o, k>> # <<p, 0>> /\ <<o, k>> # <<pkt.out, pkt.q>> => m_queue'[o][k] = m_queue[o][k]
  /\ calls' = IF PfcSent(p, pkt.q) = <<>> THEN <<pkt.out>> ELSE <<p, pkt.out>>
  /\ AddBytes(p, pkt.out, pkt.q, pkt.size)
  /\ UNCHANGED <<busy, m_paused, m_linkUp, wireOut, peerVars, bounds>>

(* That is all ForwardPacket does.                                          *)
LEMMA ForwardEffect ==
  ASSUME Mmu!TypeOK, QueuesTyped, WiresTyped, NEW p \in Ports, ForwardPacket(p)
  PROVE  \E pkt \in Packets : Forwards(p, pkt)
<1>1. PICK pkt \in Packets :
        /\ Arrived(p, pkt) /\ m_linkUp[pkt.out] /\ Mmu!ChargePacket(pkt)
        /\ m_queue' = [m_queue EXCEPT ![p][0] = @ \o PfcSent(p, pkt.q),
                                      ![pkt.out][pkt.q] = Append(@, pkt)]
        /\ calls' = IF PfcSent(p, pkt.q) = <<>> THEN <<pkt.out>> ELSE <<p, pkt.out>>
        /\ AddBytes(p, pkt.out, pkt.q, pkt.size)
        /\ UNCHANGED <<busy, m_paused, m_linkUp, wireOut, peerVars, bounds>>
  BY Zenon DEF ForwardPacket
<1>2. pkt.in = p
  BY <1>1, ArrivedFrame
<1>3. pkt.out \in Ports /\ pkt.out # p /\ pkt.q \in QIndex /\ pkt.q \in Queues /\ 0 \in QIndex
  BY <1>2, FrameFields DEF QIndex
<1>4. paused' \in PerPort([Queues -> BOOLEAN])
  BY <1>1, PauseChange
<1> DEFINE v == m_queue[p][0] \o PfcSent(p, pkt.q)
           w == Append(m_queue[pkt.out][pkt.q], pkt)
<1>5. v \in Seq(QueueFrames(p, 0))
  <2>1. PfcSent(p, pkt.q) \in Seq(PfcFrames)
    BY <1>3, <1>4, PfcSentCases
  <2>2. PfcFrames \subseteq QueueFrames(p, 0)
    BY DEF QueueFrames
  <2>3. m_queue[p][0] \in Seq(QueueFrames(p, 0))
    BY <1>3 DEF QueuesTyped
  <2> QED BY <2>1, <2>2, <2>3, SeqMonotonic, ConcatProperties
<1>6. w \in Seq(QueueFrames(pkt.out, pkt.q))
  <2>1. pkt \in QueueFrames(pkt.out, pkt.q)
    BY FrameFields DEF QueueFrames
  <2>2. m_queue[pkt.out][pkt.q] \in Seq(QueueFrames(pkt.out, pkt.q))
    BY <1>3 DEF QueuesTyped
  <2> QED BY <2>1, <2>2, AppendProperties
<1>7. TwoQueuesGet(p, 0, v, pkt.out, pkt.q, w)
  BY <1>1, <1>3 DEF QueuesTyped, PerPort, TwoQueuesGet
<1>8. /\ m_queue'[p][0] = v /\ m_queue'[pkt.out][pkt.q] = w /\ QueuesTyped'
      /\ \A o \in Ports, k \in QIndex :
           <<o, k>> # <<p, 0>> /\ <<o, k>> # <<pkt.out, pkt.q>> =>
             m_queue'[o][k] = m_queue[o][k]
  <2> HIDE DEF v, w
  <2>1. p # pkt.out
    BY <1>3
  <2>2. 0 \in QIndex /\ pkt.out \in Ports /\ pkt.q \in QIndex
    BY <1>3
  <2>3. m_queue'[p][0] = v /\ m_queue'[pkt.out][pkt.q] = w
    BY <2>2, <1>7, <2>1 DEF TwoQueuesGet, QueuesTyped, PerPort
  <2>4. QueuesTyped'
    BY <2>2, <1>5, <1>6, <1>7, <2>1, TwoQueuesSet, Zenon
  <2>5. ASSUME NEW o \in Ports, NEW k \in QIndex,
               <<o, k>> # <<p, 0>>, <<o, k>> # <<pkt.out, pkt.q>>
        PROVE  m_queue'[o][k] = m_queue[o][k]
    BY <2>2, <2>5, <1>7, <2>1 DEF TwoQueuesGet, QueuesTyped, PerPort
  <2> QED BY <2>3, <2>4, <2>5
<1>9. Forwards(p, pkt)
  BY <1>1, <1>2, <1>4, <1>8, Zenon DEF Forwards
<1> QED
  BY <1>9

(* The least of some naturals is one of them.                               *)
LEMMA MinIsLeast ==
  ASSUME NEW S \in SUBSET Nat, S # {}
  PROVE  Min(S) \in S /\ \A x \in S : Min(S) <= x
<1>1. PICK x \in S : \A y \in S : ~(<<y, x>> \in OpToRel(<, Nat))
  BY NatLessThanWellFounded, WFMin, Zenon
<1>2. ASSUME NEW y \in S PROVE x <= y
  <2>1. <<y, x>> \in Nat \X Nat /\ ~(<<y, x>> \in OpToRel(<, Nat))
    BY <1>1
  <2>2. OpToRel(<, Nat) = {ss \in Nat \X Nat : ss[1] < ss[2]}
    BY DEF OpToRel
  <2>3. ~(y < x)
    BY <2>1, <2>2
  <2> QED BY <2>3
<1> QED
  BY <1>1, <1>2 DEF Min

(* A queue that may send is not empty; if it is not queue 0, the peer has   *)
(* not paused it.                                                           *)
LEMMA NextQueueMaySend ==
  ASSUME QueuesTyped, NEW p \in Ports, CanTransmit(p)
  PROVE  LET q == NextQueue(m_queue[p], m_paused[p])
         IN  /\ q \in QIndex /\ m_queue[p][q] # <<>>
             /\ q # 0 => q \in Queues /\ ~m_paused[p][q] /\ m_queue[p][0] = <<>>
<1>1. Eligible(m_queue[p], m_paused[p]) =
        {q \in QIndex : q # 0 /\ m_queue[p][q] # <<>> /\ ~m_paused[p][q]}
  BY DEF Eligible, QueuesTyped, PerPort
<1>2. CASE m_queue[p][0] # <<>>
  BY <1>2 DEF NextQueue, QIndex
<1>3. CASE m_queue[p][0] = <<>>
  <2>1. Eligible(m_queue[p], m_paused[p]) # {}
    BY <1>3 DEF CanTransmit, CanDequeue
  <2>2. Eligible(m_queue[p], m_paused[p]) \in SUBSET Nat
    BY <1>1, NodeAssumption DEF QIndex
  <2>3. NextQueue(m_queue[p], m_paused[p]) \in Eligible(m_queue[p], m_paused[p])
    BY <1>3, <2>1, <2>2, MinIsLeast DEF NextQueue
  <2> QED BY <1>1, <1>3, <2>3 DEF QIndex
<1> QED
  BY <1>2, <1>3

(* Transmitting takes the packet from the head of the queue that goes next  *)
(* and may send a PFC frame to the port it came in by.                      *)
Transmits(p, pkt) ==
  /\ pkt.out = p /\ CanTransmit(p) /\ Mmu!DischargePacket(pkt)
  /\ paused' \in PerPort([Queues -> BOOLEAN])
  /\ QueuesTyped'
  /\ m_queue[p][pkt.q] # <<>> /\ Head(m_queue[p][pkt.q]) = pkt
  /\ ~m_paused[p][pkt.q] /\ m_queue[p][0] = <<>>
  /\ m_queue'[p][pkt.q] = Tail(m_queue[p][pkt.q])
  /\ m_queue'[pkt.in][0] = m_queue[pkt.in][0] \o PfcSent(pkt.in, pkt.q)
  /\ \A o \in Ports, k \in QIndex :
       <<o, k>> # <<p, pkt.q>> /\ <<o, k>> # <<pkt.in, 0>> => m_queue'[o][k] = m_queue[o][k]
  /\ calls' = IF PfcSent(pkt.in, pkt.q) = <<>> THEN Tail(calls) ELSE <<pkt.in>> \o Tail(calls)
  /\ sentSince' = IF PfcSent(pkt.in, pkt.q) = <<>> THEN sentSince
                  ELSE [sentSince EXCEPT ![pkt.in][pkt.q] = 0]
  /\ AddBytes(pkt.in, p, pkt.q, -pkt.size)
  /\ TransmitStart(p, pkt)
  /\ UNCHANGED <<m_paused, m_linkUp, wireIn, peerPaused, peerAsks, bounds>>

(* That is all TransmitPacket does.                                         *)
LEMMA TransmitEffect ==
  ASSUME Mmu!TypeOK, QueuesTyped, NEW p \in Ports, TransmitPacket(p)
  PROVE  \E pkt \in Packets : Transmits(p, pkt)
<1> DEFINE q == NextQueue(m_queue[p], m_paused[p])
           pkt == Head(m_queue[p][q])
           pfc == PfcSent(pkt.in, q)
<1>1. /\ CanTransmit(p) /\ q # 0 /\ Mmu!DischargePacket(pkt)
      /\ AddBytes(pkt.in, p, q, -pkt.size) /\ TransmitStart(p, pkt)
      /\ m_queue' = [m_queue EXCEPT ![p][q] = Tail(@), ![pkt.in][0] = @ \o pfc]
      /\ calls' = IF pfc = <<>> THEN Tail(calls) ELSE <<pkt.in>> \o Tail(calls)
      /\ sentSince' = IF pfc = <<>> THEN sentSince ELSE [sentSince EXCEPT ![pkt.in][q] = 0]
      /\ UNCHANGED <<m_paused, m_linkUp, wireIn, peerPaused, peerAsks, bounds>>
  BY Zenon DEF TransmitPacket
<1>2. /\ q \in QIndex /\ q \in Queues /\ m_queue[p][q] # <<>>
      /\ ~m_paused[p][q] /\ m_queue[p][0] = <<>>
  BY <1>1, NextQueueMaySend
<1> HIDE DEF q
<1>3. /\ m_queue[p][q] \in Seq(QueueFrames(p, q))
      /\ QueueFrames(p, q) = {k \in Packets : k.out = p /\ k.q = q}
  BY <1>1, <1>2 DEF QueuesTyped, QueueFrames
<1>4. /\ pkt \in Packets /\ pkt.out = p /\ pkt.q = q
      /\ Tail(m_queue[p][q]) \in Seq(QueueFrames(p, q))
  BY <1>2, <1>3, HeadTailProperties
<1> HIDE DEF pkt
<1>5. pkt.in \in Ports /\ pkt.in # p /\ p # pkt.in /\ 0 \in QIndex
  BY <1>4, FrameFields DEF QIndex
<1>6. paused' \in PerPort([Queues -> BOOLEAN])
  BY <1>1, <1>4, PauseChange
<1> DEFINE v == Tail(m_queue[p][q])
           w == m_queue[pkt.in][0] \o pfc
<1>7. w \in Seq(QueueFrames(pkt.in, 0))
  <2>1. PfcSent(pkt.in, q) \in Seq(PfcFrames)
    BY <1>2, <1>5, <1>6, PfcSentCases
  <2>2. PfcFrames \subseteq QueueFrames(pkt.in, 0)
    BY DEF QueueFrames
  <2>3. m_queue[pkt.in][0] \in Seq(QueueFrames(pkt.in, 0))
    BY <1>5 DEF QueuesTyped
  <2> QED BY <2>1, <2>2, <2>3, SeqMonotonic, ConcatProperties
<1>8. TwoQueuesGet(p, q, v, pkt.in, 0, w)
  BY <1>1, <1>2, <1>5 DEF QueuesTyped, PerPort, TwoQueuesGet
<1>9. /\ m_queue'[p][q] = v /\ m_queue'[pkt.in][0] = w /\ QueuesTyped'
      /\ \A o \in Ports, k \in QIndex :
           <<o, k>> # <<p, q>> /\ <<o, k>> # <<pkt.in, 0>> =>
             m_queue'[o][k] = m_queue[o][k]
  <2>0. v \in Seq(QueueFrames(p, q))
    BY <1>4
  <2> HIDE DEF v, w
  <2>1. m_queue'[p][q] = v /\ m_queue'[pkt.in][0] = w
    BY <1>2, <1>5, <1>8 DEF TwoQueuesGet, QueuesTyped, PerPort
  <2>2. QueuesTyped'
    BY <1>2, <1>5, <1>7, <1>8, <2>0, TwoQueuesSet, Zenon
  <2>3. ASSUME NEW o \in Ports, NEW k \in QIndex,
               <<o, k>> # <<p, q>>, <<o, k>> # <<pkt.in, 0>>
        PROVE  m_queue'[o][k] = m_queue[o][k]
    BY <1>2, <1>5, <1>8, <2>3 DEF TwoQueuesGet, QueuesTyped, PerPort
  <2> QED BY <2>1, <2>2, <2>3
<1>10. pkt = Head(m_queue[p][q])
  BY DEF pkt
<1> HIDE DEF v, w
<1>11. v = Tail(m_queue[p][q]) /\ w = m_queue[pkt.in][0] \o PfcSent(pkt.in, q)
  BY DEF v, w
<1>12. Transmits(p, pkt)
  BY <1>1, <1>2, <1>4, <1>6, <1>9, <1>10, <1>11, Zenon DEF Transmits
<1> QED
  BY <1>4, <1>12

(* A count that goes up by one, or down.                                    *)
LEMMA OneMore ==
  ASSUME NEW S, NEW x \in S, NEW f \in [S -> Nat], NEW g \in [S -> Nat],
         \A k \in S : g[k] = f[k] + (IF x = k THEN 1 ELSE 0)
  PROVE  g = [f EXCEPT ![x] = @ + 1] /\ f = [g EXCEPT ![x] = @ - 1]
<1>1. \A k \in S : g[k] = [f EXCEPT ![x] = @ + 1][k] /\ f[k] = [g EXCEPT ![x] = @ - 1][k]
  OBVIOUS
<1> QED
  BY <1>1

(* Forwarding is an Admit: there is one copy more of the packet forwarded.  *)
LEMMA ForwardAdmits ==
  ASSUME QueuesTyped, NEW p \in Ports, NEW pkt \in Packets, Forwards(p, pkt)
  PROVE  Mmu!Admit(pkt)
<1>1. ASSUME NEW k \in Packets
      PROVE  Copies(k)' = Copies(k) + (IF pkt = k THEN 1 ELSE 0)
  <2>1. k.out \in Ports /\ k.q \in QIndex /\ k.q # 0 /\ pkt.out \in Ports /\ pkt.q \in QIndex
    BY FrameFields
  <2>2. m_queue[k.out][k.q] \in Seq(Frames) /\ pkt \in Frames
    BY <2>1 DEF QueuesTyped, PerPort, Frames
  <2>3. CASE k.out = pkt.out /\ k.q = pkt.q
    <3>1. m_queue'[k.out][k.q] = Append(m_queue[k.out][k.q], pkt)
      BY <2>3, Zenon DEF Forwards
    <3>2. Count(m_queue'[k.out][k.q], k)
            = Count(m_queue[k.out][k.q], k) + (IF pkt = k THEN 1 ELSE 0)
      BY <2>2, <3>1, CountAppend
    <3> QED BY <3>2, CopiesAreCounts
  <2>4. CASE ~(k.out = pkt.out /\ k.q = pkt.q)
    <3>1. m_queue'[k.out][k.q] = m_queue[k.out][k.q]
      BY <2>1, <2>4 DEF Forwards
    <3>2. Copies(k)' = Copies(k) /\ Copies(k) = Count(m_queue[k.out][k.q], k)
      BY <3>1, CopiesAreCounts, Zenon
    <3>3. Copies(k) \in Nat
      BY <2>2, <3>2, CountIsNat
    <3> QED BY <2>4, <3>2, <3>3
  <2> QED BY <2>3, <2>4
<1> DEFINE f == [k \in Packets |-> Copies(k)]
<1>2. \A k \in Packets : Copies(k) \in Nat
  <2> SUFFICES ASSUME NEW k \in Packets PROVE Copies(k) \in Nat
    OBVIOUS
  <2>1. m_queue[k.out][k.q] \in Seq(Frames)
    BY FrameFields DEF QueuesTyped, PerPort
  <2>2. Count(m_queue[k.out][k.q], k) \in Nat
    BY <2>1, CountIsNat
  <2> QED BY <2>2, CopiesAreCounts
<1>3. f' = [k \in Packets |-> Copies(k)'] /\ f = [k \in Packets |-> Copies(k)]
  OBVIOUS
<1>4. f \in [Packets -> Nat] /\ f' \in [Packets -> Nat]
  BY <1>1, <1>2, <1>3
<1>5. \A k \in Packets : f'[k] = f[k] + (IF pkt = k THEN 1 ELSE 0)
  BY <1>1, <1>3
<1>6. f' = [f EXCEPT ![pkt] = @ + 1]
  <2> HIDE DEF f
  <2> QED BY <1>4, <1>5, OneMore
<1> QED
  BY <1>6, Zenon DEF Forwards, Mmu!Admit

(* Transmitting is a Release.                                               *)
LEMMA TransmitReleases ==
  ASSUME QueuesTyped, NEW p \in Ports, NEW pkt \in Packets, Transmits(p, pkt)
  PROVE  Mmu!Release(pkt)
<1>1. ASSUME NEW k \in Packets
      PROVE  /\ Copies(k) \in Nat /\ Copies(k)' \in Nat
             /\ Copies(k) = Copies(k)' + (IF pkt = k THEN 1 ELSE 0)
  <2>1. k.out \in Ports /\ k.q \in QIndex /\ k.q # 0 /\ pkt.out = p /\ pkt.q \in QIndex
    BY FrameFields DEF Transmits
  <2>2. m_queue[k.out][k.q] \in Seq(Frames) /\ m_queue'[k.out][k.q] \in Seq(Frames)
    BY <2>1 DEF Transmits, QueuesTyped, PerPort
  <2>3. Copies(k) \in Nat /\ Copies(k)' \in Nat
    BY <2>2, CountIsNat, CopiesAreCounts
  <2>4. CASE k.out = pkt.out /\ k.q = pkt.q
    <3>1. /\ m_queue'[k.out][k.q] = Tail(m_queue[k.out][k.q])
          /\ m_queue[k.out][k.q] # <<>> /\ Head(m_queue[k.out][k.q]) = pkt
      BY <2>1, <2>4, Zenon DEF Transmits
    <3>2. Count(m_queue[k.out][k.q], k)
            = Count(m_queue'[k.out][k.q], k) + (IF pkt = k THEN 1 ELSE 0)
      BY <2>2, <3>1, CountTail
    <3> QED BY <2>3, <3>2, CopiesAreCounts
  <2>5. CASE ~(k.out = pkt.out /\ k.q = pkt.q)
    <3>1. m_queue'[k.out][k.q] = m_queue[k.out][k.q]
      BY <2>1, <2>5 DEF Transmits
    <3>2. Copies(k)' = Copies(k)
      BY <3>1, CopiesAreCounts, Zenon
    <3> QED BY <2>3, <2>5, <3>2
  <2> QED BY <2>4, <2>5
<1> DEFINE f == [k \in Packets |-> Copies(k)]
<1>2. f' = [k \in Packets |-> Copies(k)'] /\ f = [k \in Packets |-> Copies(k)]
  OBVIOUS
<1>3. f \in [Packets -> Nat] /\ f' \in [Packets -> Nat]
  BY <1>1, <1>2
<1>4. \A k \in Packets : f[k] = f'[k] + (IF pkt = k THEN 1 ELSE 0)
  BY <1>1, <1>2
<1>5. f' = [f EXCEPT ![pkt] = @ - 1]
  <2> HIDE DEF f
  <2> QED BY <1>3, <1>4, OneMore
<1>6. f[pkt] > 0
  BY <1>1, <1>2
<1> QED
  BY <1>5, <1>6 DEF Transmits, Mmu!Release

(* A step that leaves the counters and the data queues alone is none to the *)
(* MMU.                                                                     *)
LEMMA MmuIdle ==
  ASSUME \A p \in Ports, q \in Queues : m_queue'[p][q] = m_queue[p][q],
         UNCHANGED mmuVars
  PROVE  UNCHANGED Mmu!vars
<1>1. ASSUME NEW k \in Packets PROVE Copies(k)' = Copies(k)
  <2>1. m_queue'[k.out][k.q] = m_queue[k.out][k.q]
    BY FrameFields
  <2> QED BY <2>1, CopiesAreCounts, Zenon
<1>2. [k \in Packets |-> Copies(k)]' = [k \in Packets |-> Copies(k)]
  BY <1>1
<1> QED
  BY <1>2, Zenon DEF Mmu!vars, Mmu!counters, mmuVars

-----------------------------------------------------------------------------
(* Types are kept *)

(* The MMU's types only depend on its counters and on the queues' type.     *)
LEMMA MmuTypeSame ==
  ASSUME Mmu!TypeOK, UNCHANGED mmuVars, QueuesTyped'
  PROVE  Mmu!TypeOK'
<1>1. ASSUME NEW k \in Packets PROVE Copies(k)' \in Nat
  <2>1. m_queue'[k.out][k.q] \in Seq(Frames)
    BY FrameFields DEF QueuesTyped, PerPort
  <2>2. Count(m_queue'[k.out][k.q], k) \in Nat
    BY <2>1, CountIsNat
  <2> QED BY <2>2, CopiesAreCounts
<1>2. [k \in Packets |-> Copies(k)]' \in [Packets -> Nat]
  BY <1>1
<1> QED
  BY <1>2 DEF Mmu!TypeOK, mmuVars

(* What an Admit or a Release of the MMU keeps.                             *)
LEMMA MmuTypeStep ==
  ASSUME Mmu!TypeOK, NEW pkt \in Packets, Mmu!Admit(pkt) \/ Mmu!Release(pkt)
  PROVE  Mmu!TypeOK'
<1>1. P!TypeOK /\ (P!Admit(pkt) \/ P!Release(pkt))
  BY SameType, SameSteps
<1>2. P!TypeOK'
  BY <1>1, SamePackets, SameConfig, P!AdmitType, P!ReleaseType
<1> QED
  BY <1>2, SameType

(* One port's entry in the bytes from port to port changes.                 *)
LEMMA AddBytesTyped ==
  ASSUME BytesTyped, NEW in \in Ports, NEW out \in Ports, NEW q \in QIndex, NEW n \in Int,
         AddBytes(in, out, q, n)
  PROVE  BytesTyped'
<1>1. (m_bytes[in][out][q] + n) % W32 \in 0..(W32 - 1)
  BY NodeAssumption DEF BytesTyped, PerPort
<1> QED
  BY <1>1 DEF BytesTyped, PerPort, AddBytes

(* A frame sent is put on the port's wire.                                  *)
LEMMA StartTyped ==
  ASSUME WiresTyped, PortsTyped, NEW p \in Ports, NEW frame \in Frames, TransmitStart(p, frame)
  PROVE  /\ wireOut' \in PerPort(Seq(Frames)) /\ busy' \in PerPort(BOOLEAN)
         /\ wireOut'[p] = Append(wireOut[p], frame) /\ busy'[p]
         /\ \A o \in Ports : o # p => wireOut'[o] = wireOut[o] /\ busy'[o] = busy[o]
<1>1. Append(wireOut[p], frame) \in Seq(Frames)
  BY AppendProperties DEF WiresTyped, PerPort
<1> QED
  BY <1>1 DEF WiresTyped, PortsTyped, PerPort, TransmitStart

(* The calls that remain, and those added.                                  *)
LEMMA CallsTyped ==
  /\ \A p \in Ports : <<p>> \in Seq(Ports)
  /\ \A p \in Ports, o \in Ports : <<p, o>> \in Seq(Ports)
  /\ <<>> \in Seq(Ports)
  /\ \A c \in Seq(Ports) : c # <<>> => Tail(c) \in Seq(Ports) /\ Head(c) \in Ports
  /\ \A p \in Ports, c \in Seq(Ports) : <<p>> \o c \in Seq(Ports)
<1>1. \A c \in Seq(Ports) : c # <<>> => Tail(c) \in Seq(Ports) /\ Head(c) \in Ports
  BY HeadTailProperties
<1>2. \A p \in Ports, c \in Seq(Ports) : <<p>> \o c \in Seq(Ports)
  BY ConcatProperties
<1> QED
  BY <1>1, <1>2, EmptySeq

(* Types after forwarding a packet.                                         *)
LEMMA ForwardPacketType ==
  ASSUME NodeType, NEW p \in Ports, ForwardPacket(p)
  PROVE  NodeType'
<1> USE DEF NodeType
<1>1. PICK pkt \in Packets : Forwards(p, pkt)
  BY ForwardEffect
<1>2. Mmu!TypeOK'
  BY <1>1, ForwardAdmits, MmuTypeStep
<1>3. QueuesTyped'
  BY <1>1 DEF Forwards
<1>4. WiresTyped'
  BY <1>1, ArrivedFrame DEF Forwards, WiresTyped
<1>5. calls' \in Seq(Ports)
  BY <1>1, FrameFields, CallsTyped DEF Forwards
<1>6. PortsTyped' /\ PeersTyped'
  BY <1>1, <1>5 DEF Forwards, PortsTyped, PeersTyped, peerVars
<1>7. BytesTyped'
  BY <1>1, FrameFields, AddBytesTyped DEF Forwards
<1> QED
  BY <1>2, <1>3, <1>4, <1>6, <1>7

(* Types after transmitting one.                                            *)
LEMMA TransmitPacketType ==
  ASSUME NodeType, NEW p \in Ports, TransmitPacket(p), calls # <<>>
  PROVE  NodeType'
<1> USE DEF NodeType
<1>1. PICK pkt \in Packets : Transmits(p, pkt)
  BY TransmitEffect
<1>2. Mmu!TypeOK'
  BY <1>1, TransmitReleases, MmuTypeStep
<1>3. QueuesTyped'
  BY <1>1 DEF Transmits
<1>4. TransmitStart(p, pkt) /\ pkt \in Frames
  BY <1>1 DEF Transmits, Frames
<1>5. WiresTyped' /\ busy' \in PerPort(BOOLEAN)
  BY <1>1, <1>4, StartTyped DEF Transmits, WiresTyped
<1>6. calls' \in Seq(Ports)
  <2>1. Tail(calls) \in Seq(Ports) /\ pkt.in \in Ports
    BY FrameFields, CallsTyped DEF PortsTyped
  <2> QED BY <1>1, <2>1, CallsTyped DEF Transmits
<1>7. PortsTyped'
  BY <1>1, <1>5, <1>6 DEF Transmits, PortsTyped
<1>8. PeersTyped'
  <2>1. 0 \in 0..Reaction
    BY NodeAssumption
  <2> QED BY <1>1, <2>1 DEF Transmits, PeersTyped, PerPort
<1>9. BytesTyped'
  <2>1. -pkt.size \in Int /\ pkt.in \in Ports /\ pkt.q \in QIndex
    BY FrameFields
  <2> QED BY <1>1, <2>1, AddBytesTyped DEF Transmits
<1> QED
  BY <1>2, <1>3, <1>5, <1>7, <1>8, <1>9

(* Types after transmitting from queue 0.                                   *)
LEMMA TransmitControlType ==
  ASSUME NodeType, NEW p \in Ports, TransmitControl(p), calls # <<>>
  PROVE  /\ NodeType'
         /\ m_queue[p][0] # <<>> /\ m_queue'[p][0] = Tail(m_queue[p][0])
         /\ \A o \in Ports, k \in QIndex : <<o, k>> # <<p, 0>> => m_queue'[o][k] = m_queue[o][k]
<1> USE DEF NodeType
<1> DEFINE v == Tail(m_queue[p][0])
<1>1. 0 \in QIndex /\ m_queue[p][0] # <<>>
  BY NextQueueMaySend DEF TransmitControl, QIndex
<1>2. m_queue[p][0] \in Seq(QueueFrames(p, 0)) /\ QueueFrames(p, 0) \subseteq Frames
  BY <1>1, QueueFramesAreFrames DEF QueuesTyped
<1>3. v \in Seq(QueueFrames(p, 0)) /\ Head(m_queue[p][0]) \in Frames
  BY <1>1, <1>2, HeadTailProperties
<1>4. m_queue' = [m_queue EXCEPT ![p][0] = v]
  BY DEF TransmitControl
<1>5. /\ QueuesTyped' /\ m_queue'[p][0] = v
      /\ \A o \in Ports, k \in QIndex : <<o, k>> # <<p, 0>> => m_queue'[o][k] = m_queue[o][k]
  <2> HIDE DEF v
  <2> QED BY <1>1, <1>3, <1>4, QueueSet
<1>6. Mmu!TypeOK'
  BY <1>5, MmuTypeSame DEF TransmitControl
<1>7. WiresTyped' /\ busy' \in PerPort(BOOLEAN)
  BY <1>3, StartTyped DEF TransmitControl, WiresTyped
<1>8. calls' \in Seq(Ports)
  BY CallsTyped DEF TransmitControl, PortsTyped
<1>9. PortsTyped' /\ PeersTyped' /\ BytesTyped'
  BY <1>7, <1>8 DEF TransmitControl, PortsTyped, PeersTyped, BytesTyped, peerVars
<1> QED
  BY <1>1, <1>5, <1>6, <1>7, <1>9

(* Types after forwarding a control packet.                                 *)
LEMMA ForwardControlType ==
  ASSUME NodeType, NEW p \in Ports, ForwardControl(p)
  PROVE  /\ NodeType'
         /\ \E pkt \in ControlPackets :
              /\ m_queue'[pkt.out][0] = Append(m_queue[pkt.out][0], pkt)
              /\ calls' = <<pkt.out>>
              /\ \A o \in Ports, k \in QIndex :
                   <<o, k>> # <<pkt.out, 0>> => m_queue'[o][k] = m_queue[o][k]
<1> USE DEF NodeType
<1>1. PICK pkt \in ControlPackets :
        /\ Arrived(p, pkt)
        /\ m_queue' = [m_queue EXCEPT ![pkt.out][0] = Append(@, pkt)]
        /\ calls' = <<pkt.out>>
        /\ AddBytes(p, pkt.out, 0, pkt.size)
        /\ UNCHANGED <<mmuVars, busy, m_paused, m_linkUp, wireOut, peerVars, bounds>>
  BY Zenon DEF ForwardControl
<1> DEFINE v == Append(m_queue[pkt.out][0], pkt)
<1>2. pkt.out \in Ports /\ 0 \in QIndex /\ pkt.size \in Int
  BY FrameFields DEF QIndex
<1>3. v \in Seq(QueueFrames(pkt.out, 0))
  <2>1. pkt \in QueueFrames(pkt.out, 0)
    BY DEF QueueFrames
  <2>2. m_queue[pkt.out][0] \in Seq(QueueFrames(pkt.out, 0))
    BY <1>2 DEF QueuesTyped
  <2> QED BY <2>1, <2>2, AppendProperties
<1>4. m_queue' = [m_queue EXCEPT ![pkt.out][0] = v]
  BY <1>1
<1>5. /\ QueuesTyped' /\ m_queue'[pkt.out][0] = v
      /\ \A o \in Ports, k \in QIndex :
           <<o, k>> # <<pkt.out, 0>> => m_queue'[o][k] = m_queue[o][k]
  <2> HIDE DEF v
  <2>1. QueuesTyped'
    BY <1>2, <1>3, <1>4, QueueSet, Zenon
  <2>2. /\ m_queue'[pkt.out][0] = v
        /\ \A o \in Ports, k \in QIndex :
             <<o, k>> # <<pkt.out, 0>> => m_queue'[o][k] = m_queue[o][k]
    BY <1>2, <1>4 DEF QueuesTyped, PerPort
  <2> QED BY <2>1, <2>2
<1>6. Mmu!TypeOK'
  BY <1>1, <1>5, MmuTypeSame
<1>7. WiresTyped'
  BY <1>1, ArrivedFrame DEF WiresTyped
<1>8. PortsTyped' /\ PeersTyped'
  BY <1>1, <1>2, CallsTyped DEF PortsTyped, PeersTyped, peerVars
<1>9. BytesTyped'
  BY <1>1, <1>2, AddBytesTyped
<1> QED
  BY <1>1, <1>5, <1>6, <1>7, <1>8, <1>9

(* What a step that touches neither the queues nor the MMU must still show. *)
LEMMA RestTyped ==
  ASSUME NodeType, UNCHANGED <<mmuVars, m_queue, m_bytes>>,
         WiresTyped', PortsTyped', PeersTyped'
  PROVE  NodeType'
<1>1. QueuesTyped' /\ BytesTyped'
  BY DEF NodeType, QueuesTyped, BytesTyped
<1>2. Mmu!TypeOK'
  BY <1>1, MmuTypeSame DEF NodeType
<1> QED
  BY <1>1, <1>2 DEF NodeType

(* Types after the other steps of a port.                                   *)
LEMMA PortStepsType ==
  ASSUME NodeType, NEW p \in Ports,
         \/ ReceivePfc(p) \/ DropPacket(p) \/ TransmitComplete(p)
         \/ calls # <<>> /\ Returns(p)
  PROVE  NodeType' /\ UNCHANGED <<mmuVars, m_queue>>
<1> USE DEF NodeType
<1>1. CASE ReceivePfc(p)
  <2>1. PICK frame \in PfcFrames :
          /\ Arrived(p, frame)
          /\ m_paused' = [m_paused EXCEPT ![p][frame.pfcQueue] = frame.pause]
          /\ calls' = IF frame.pause THEN <<>> ELSE <<p>>
          /\ UNCHANGED <<mmuVars, m_queue, busy, m_linkUp, m_bytes, wireOut, peerVars, bounds>>
    BY <1>1, Zenon DEF ReceivePfc
  <2>2. WiresTyped' /\ PeersTyped'
    BY <2>1, ArrivedFrame DEF WiresTyped, PeersTyped, peerVars
  <2>3. frame.pfcQueue \in QIndex /\ frame.pause \in BOOLEAN
    BY FrameFields DEF QIndex
  <2>4. PortsTyped'
    BY <2>1, <2>3, CallsTyped DEF PortsTyped, PerPort
  <2> QED BY <2>1, <2>2, <2>4, RestTyped
<1>2. CASE DropPacket(p)
  <2>1. PICK pkt \in Packets \cup ControlPackets :
          /\ Arrived(p, pkt)
          /\ UNCHANGED <<mmuVars, portVars, m_bytes, calls, wireOut, peerVars, bounds>>
    BY <1>2, Zenon DEF DropPacket
  <2>2. WiresTyped' /\ PeersTyped' /\ PortsTyped'
    BY <2>1, ArrivedFrame DEF WiresTyped, PeersTyped, PortsTyped, peerVars, portVars
  <2> QED BY <2>1, <2>2, RestTyped DEF portVars
<1>3. CASE TransmitComplete(p)
  <2>1. WiresTyped' /\ PeersTyped' /\ PortsTyped'
    BY <1>3, CallsTyped DEF TransmitComplete, WiresTyped, PeersTyped, PortsTyped, PerPort, peerVars
  <2> QED BY <1>3, <2>1, RestTyped DEF TransmitComplete
<1>4. CASE calls # <<>> /\ Returns(p)
  <2>1. WiresTyped' /\ PeersTyped' /\ PortsTyped'
    BY <1>4, CallsTyped DEF Returns, WiresTyped, PeersTyped, PortsTyped, peerVars, portVars
  <2> QED BY <1>4, <2>1, RestTyped DEF Returns, portVars
<1> QED
  BY <1>1, <1>2, <1>3, <1>4

(* A peer's frame is put on the wire to the switch.                         *)
LEMMA OntoTyped ==
  ASSUME WiresTyped, NEW p \in Ports, NEW frame \in Arriving(p), wireIn' = Onto(wireIn, p, frame),
         wireOut' = wireOut
  PROVE  WiresTyped'
<1>1. frame \in Frames
  BY DEF Arriving
<1>2. /\ Append(wireIn[p], frame) \in Seq(Frames)
      /\ Append(wireIn[p], frame) \in Seq(Arriving(p))
  BY <1>1, AppendProperties DEF WiresTyped, PerPort
<1> QED
  BY <1>2 DEF WiresTyped, PerPort, Onto

(* A frame leaves the wire to the peer.                                     *)
LEMMA LeavesTyped ==
  ASSUME WiresTyped, NEW p \in Ports, NEW frame, LeavesWire(p, frame)
  PROVE  /\ wireOut[p] # <<>> /\ frame = Head(wireOut[p])
         /\ wireOut' \in PerPort(Seq(Frames))
         /\ wireOut'[p] = Tail(wireOut[p])
         /\ \A o \in Ports : o # p => wireOut'[o] = wireOut[o]
<1>1. wireOut[p] \in Seq(Frames) /\ Len(wireOut[p]) > 0
  BY LenProperties DEF WiresTyped, PerPort, LeavesWire
<1>2. wireOut[p] # <<>>
  BY <1>1, EmptySeq
<1>3. Tail(wireOut[p]) \in Seq(Frames)
  BY <1>1, <1>2, HeadTailProperties
<1> QED
  BY <1>2, <1>3 DEF WiresTyped, PerPort, LeavesWire

(* Types after the steps of the peers and the links.                        *)
LEMMA PeerSendsType ==
  ASSUME NodeType, NEW p \in Ports,
         \/ PeerSend(p) \/ PeerSendControl(p)
         \/ \E q \in Queues, pause \in BOOLEAN : PeerSendPfc(p, q, pause)
  PROVE  NodeType' /\ UNCHANGED <<mmuVars, m_queue, calls, m_linkUp, wireOut>>
<1> USE DEF NodeType
<1>1. CASE PeerSend(p)
  <2>1. PICK pkt \in Packets :
          /\ pkt.in = p
          /\ wireIn' = Onto(wireIn, p, pkt)
          /\ sentSince' = IF paused[p][pkt.q]
                          THEN [sentSince EXCEPT ![p][pkt.q] = Mmu!Lesser(@ + 1, Reaction)]
                          ELSE sentSince
          /\ UNCHANGED <<mmuVars, portVars, m_bytes, calls, wireOut, peerPaused, peerAsks, bounds>>
    BY <1>1, Zenon DEF PeerSend
  <2>2. pkt \in Arriving(p) /\ pkt.q \in Queues
    BY <2>1, FrameFields DEF Arriving, Frames
  <2>3. WiresTyped'
    BY <2>1, <2>2, OntoTyped
  <2>4. Mmu!Lesser(sentSince[p][pkt.q] + 1, Reaction) \in 0..Reaction
    <3>1. sentSince[p][pkt.q] \in 0..Reaction
      BY <2>2 DEF PeersTyped, PerPort
    <3>2. Reaction \in Nat
      BY NodeAssumption
    <3> QED BY <3>1, <3>2 DEF Mmu!Lesser
  <2>5. PeersTyped' /\ PortsTyped'
    BY <2>1, <2>2, <2>4 DEF PeersTyped, PortsTyped, PerPort, portVars
  <2> QED BY <2>1, <2>3, <2>5, RestTyped DEF portVars
<1>2. CASE PeerSendControl(p)
  <2>1. PICK pkt \in ControlPackets :
          /\ pkt.in = p
          /\ wireIn' = Onto(wireIn, p, pkt)
          /\ UNCHANGED <<mmuVars, portVars, m_bytes, calls, wireOut, peerVars, bounds>>
    BY <1>2, Zenon DEF PeerSendControl
  <2>2. pkt \in Arriving(p)
    BY <2>1 DEF Arriving, Frames
  <2>3. WiresTyped'
    BY <2>1, <2>2, OntoTyped
  <2>4. PeersTyped' /\ PortsTyped'
    BY <2>1 DEF PeersTyped, PortsTyped, peerVars, portVars
  <2> QED BY <2>1, <2>3, <2>4, RestTyped DEF portVars
<1>3. CASE \E q \in Queues, pause \in BOOLEAN : PeerSendPfc(p, q, pause)
  <2>1. PICK q \in Queues, pause \in BOOLEAN : PeerSendPfc(p, q, pause)
    BY <1>3
  <2>2. Pfc(q, pause) \in Arriving(p)
    BY FrameFields DEF Arriving, Frames
  <2>3. wireIn' = Onto(wireIn, p, Pfc(q, pause)) /\ wireOut' = wireOut
    BY <2>1, Zenon DEF PeerSendPfc
  <2>4. WiresTyped'
    BY <2>2, <2>3, OntoTyped
  <2>5. PeersTyped' /\ PortsTyped'
    BY <2>1 DEF PeerSendPfc, PeersTyped, PortsTyped, PerPort, portVars
  <2> QED BY <2>1, <2>4, <2>5, RestTyped DEF PeerSendPfc, portVars
<1> QED
  BY <1>1, <1>2, <1>3

(* The other steps of peers and links.                                      *)
LEMMA LinkStepsType ==
  ASSUME NodeType, NEW p \in Ports,
         PeerReceivePfc(p) \/ PeerReceivePacket(p) \/ Corrupt(p) \/ DeadLink(p)
  PROVE  NodeType' /\ UNCHANGED <<mmuVars, m_queue, calls, m_linkUp>>
<1> USE DEF NodeType
<1>1. CASE PeerReceivePfc(p)
  <2>1. PICK frame \in PfcFrames :
          /\ LeavesWire(p, frame)
          /\ peerPaused' = [peerPaused EXCEPT ![p][frame.pfcQueue] = frame.pause]
          /\ UNCHANGED <<mmuVars, portVars, m_bytes, calls, wireIn, peerAsks, sentSince, bounds>>
    BY <1>1, Zenon DEF PeerReceivePfc
  <2>2. WiresTyped' /\ PortsTyped'
    BY <2>1, LeavesTyped DEF WiresTyped, PortsTyped, portVars
  <2>3. frame.pfcQueue \in Queues /\ frame.pause \in BOOLEAN
    BY FrameFields
  <2>4. PeersTyped'
    BY <2>1, <2>3 DEF PeersTyped, PerPort
  <2> QED BY <2>1, <2>2, <2>4, RestTyped DEF portVars
<1>2. CASE PeerReceivePacket(p)
  <2>1. PICK pkt \in Packets \cup ControlPackets :
          /\ LeavesWire(p, pkt)
          /\ UNCHANGED <<mmuVars, portVars, m_bytes, calls, wireIn, peerVars, bounds>>
    BY <1>2, Zenon DEF PeerReceivePacket
  <2>2. WiresTyped' /\ PortsTyped' /\ PeersTyped'
    BY <2>1, LeavesTyped DEF WiresTyped, PortsTyped, PeersTyped, portVars, peerVars
  <2> QED BY <2>1, <2>2, RestTyped DEF portVars
<1>3. CASE Corrupt(p)
  <2>1. UNCHANGED <<mmuVars, portVars, m_bytes, calls, peerVars>>
    BY <1>3 DEF Corrupt
  <2>2. WiresTyped'
    <3>1. CASE wireIn[p] # <<>> /\ wireIn' = [wireIn EXCEPT ![p] = Tail(@)] /\ wireOut' = wireOut
      <4>1. Tail(wireIn[p]) \in Seq(Frames) /\ Tail(wireIn[p]) \in Seq(Arriving(p))
        BY <3>1, HeadTailProperties DEF WiresTyped, PerPort
      <4> QED BY <3>1, <4>1 DEF WiresTyped, PerPort
    <3>2. CASE wireIn' = wireIn /\ \E frame \in PfcFrames \cup Packets \cup ControlPackets :
                                    LeavesWire(p, frame)
      BY <3>2, LeavesTyped DEF WiresTyped
    <3> QED BY <1>3, <3>1, <3>2 DEF Corrupt
  <2>3. PortsTyped' /\ PeersTyped'
    BY <2>1 DEF PortsTyped, PeersTyped, portVars, peerVars
  <2> QED BY <2>1, <2>2, <2>3, RestTyped DEF portVars
<1>4. CASE DeadLink(p)
  <2>1. <<>> \in Seq(Frames) /\ <<>> \in Seq(Arriving(p))
    BY EmptySeq
  <2>2. WiresTyped'
    BY <1>4, <2>1 DEF DeadLink, WiresTyped, PerPort
  <2>3. PortsTyped' /\ PeersTyped'
    BY <1>4 DEF DeadLink, PortsTyped, PeersTyped, portVars, peerVars
  <2> QED BY <1>4, <2>2, <2>3, RestTyped DEF DeadLink, portVars
<1> QED
  BY <1>1, <1>2, <1>3, <1>4

(* Types after a link is taken down; its queues are empty.                  *)
LEMMA TakeDownType ==
  ASSUME NodeType, NEW p \in Ports, TakeDown(p)
  PROVE  /\ NodeType' /\ UNCHANGED <<mmuVars, wireIn, wireOut, calls>>
         /\ \A q \in QIndex : m_queue'[p][q] = <<>>
         /\ \A o \in Ports, q \in QIndex : o # p => m_queue'[o][q] = m_queue[o][q]
<1> USE DEF NodeType
<1>1. /\ m_linkUp' = [m_linkUp EXCEPT ![p] = FALSE]
      /\ m_paused' = [m_paused EXCEPT ![p] = [q \in QIndex |-> FALSE]]
      /\ m_queue' = [m_queue EXCEPT ![p] = [q \in QIndex |-> <<>>]]
      /\ UNCHANGED <<mmuVars, busy, m_bytes, calls, wireIn, wireOut, peerVars, losses>>
  BY DEF TakeDown
<1>2. <<>> \in Seq(Frames) /\ \A q : <<>> \in Seq(QueueFrames(p, q))
  BY EmptySeq
<1>3. /\ \A q \in QIndex : m_queue'[p][q] = <<>>
      /\ \A o \in Ports, q \in QIndex : o # p => m_queue'[o][q] = m_queue[o][q]
  BY <1>1 DEF QueuesTyped, PerPort
<1>4. QueuesTyped'
  <2>1. m_queue' \in PerPort([QIndex -> Seq(Frames)])
    BY <1>1, <1>2 DEF QueuesTyped, PerPort
  <2> QED BY <1>2, <1>3, <2>1 DEF QueuesTyped
<1>5. Mmu!TypeOK'
  BY <1>1, <1>4, MmuTypeSame
<1>6. WiresTyped' /\ PeersTyped' /\ BytesTyped'
  BY <1>1 DEF WiresTyped, PeersTyped, BytesTyped, peerVars
<1>7. PortsTyped'
  BY <1>1 DEF PortsTyped, PerPort
<1> QED
  BY <1>1, <1>3, <1>4, <1>5, <1>6, <1>7

(* The steps, by what they may change.                                      *)
LEMMA StepKinds ==
  ASSUME NodeType, Next
  PROVE  \E p \in Ports :
           \/ ForwardPacket(p)
           \/ calls # <<>> /\ p = Head(calls) /\ TransmitPacket(p)
           \/ calls # <<>> /\ p = Head(calls) /\ TransmitControl(p)
           \/ ForwardControl(p)
           \/ TakeDown(p)
           \/ calls # <<>> /\ p = Head(calls) /\ Returns(p)
           \/ ReceivePfc(p) \/ DropPacket(p) \/ TransmitComplete(p)
           \/ PeerSend(p) \/ PeerSendControl(p)
           \/ \E q \in Queues, pause \in BOOLEAN : PeerSendPfc(p, q, pause)
           \/ PeerReceivePfc(p) \/ PeerReceivePacket(p) \/ Corrupt(p) \/ DeadLink(p)
<1>1. calls # <<>> => Head(calls) \in Ports
  BY CallsTyped DEF NodeType, PortsTyped
<1>2. CASE DequeueAndTransmit
  BY <1>1, <1>2, Zenon DEF DequeueAndTransmit
<1> QED
  BY <1>2, Zenon DEF Next

(* In the initial state every queue and wire is empty.                      *)
LEMMA InitType == Init => NodeType
<1> SUFFICES ASSUME Init PROVE NodeType
  OBVIOUS
<1>1. \A S : <<>> \in Seq(S)
  BY EmptySeq
<1>2. QueuesTyped
  BY <1>1 DEF Init, QueuesTyped, PerPort
<1>3. WiresTyped
  BY <1>1 DEF Init, WiresTyped, PerPort
<1>4. PortsTyped
  BY <1>1 DEF Init, PortsTyped, PerPort
<1>5. PeersTyped
  BY NodeAssumption DEF Init, PeersTyped, PerPort
<1>6. BytesTyped
  BY NodeAssumption DEF Init, BytesTyped, PerPort
<1>7. P!Init
  BY SameInit DEF Init
<1>8. Mmu!TypeOK
  <2>1. P!TypeOK
    BY <1>7 DEF P!Init, P!TypeOK, P!PerQueue, P!Classes
  <2> QED BY <2>1, SameType
<1> QED
  BY <1>2, <1>3, <1>4, <1>5, <1>6, <1>8 DEF NodeType

(* Every step keeps the types.                                              *)
LEMMA TypeStep == NodeType /\ [Next]_vars => NodeType'
<1> SUFFICES ASSUME NodeType, [Next]_vars PROVE NodeType'
  OBVIOUS
<1>1. CASE Next
  <2>1. PICK p \in Ports :
           \/ ForwardPacket(p)
           \/ calls # <<>> /\ p = Head(calls) /\ TransmitPacket(p)
           \/ calls # <<>> /\ p = Head(calls) /\ TransmitControl(p)
           \/ ForwardControl(p)
           \/ TakeDown(p)
           \/ calls # <<>> /\ p = Head(calls) /\ Returns(p)
           \/ ReceivePfc(p) \/ DropPacket(p) \/ TransmitComplete(p)
           \/ PeerSend(p) \/ PeerSendControl(p)
           \/ \E q \in Queues, pause \in BOOLEAN : PeerSendPfc(p, q, pause)
           \/ PeerReceivePfc(p) \/ PeerReceivePacket(p) \/ Corrupt(p) \/ DeadLink(p)
    BY <1>1, StepKinds
  <2> QED BY <2>1, ForwardPacketType, TransmitPacketType, TransmitControlType, ForwardControlType,
             TakeDownType, PortStepsType, PeerSendsType, LinkStepsType
<1>2. CASE UNCHANGED vars
  <2>1. WiresTyped' /\ PortsTyped' /\ PeersTyped'
    BY <1>2 DEF NodeType, vars, WiresTyped, PortsTyped, PeersTyped, portVars, peerVars
  <2> QED BY <1>2, <2>1, RestTyped DEF vars, portVars
<1> QED
  BY <1>1, <1>2

(* Every variable of the node has its type.                                 *)
LEMMA TypeKept == Spec => []NodeType
BY InitType, TypeStep, PTL DEF Spec

(* Every variable of the node has its type, whatever is lost or taken down: *)
(* the queues hold packets of theirs, the MMU's counters are naturals.      *)
THEOREM TypeCorrect == Spec => []TypeOK
<1>1. NodeType => TypeOK
  <2> SUFFICES ASSUME NodeType PROVE TypeOK
    OBVIOUS
  <2>1. ASSUME NEW p \in Ports
        PROVE  /\ \A q \in Queues : \A i \in DOMAIN m_queue[p][q] : m_queue[p][q][i] \in Packets
               /\ \A i \in DOMAIN m_queue[p][0] : m_queue[p][0][i] \in PfcFrames \cup ControlPackets
    <3>1. \A q \in QIndex : \A i \in DOMAIN m_queue[p][q] : m_queue[p][q][i] \in QueueFrames(p, q)
      BY LenProperties, ElementOfSeq DEF NodeType, QueuesTyped
    <3> QED BY <3>1, NodeAssumption DEF QueueFrames, QIndex
  <2>2. \A i \in DOMAIN calls : calls[i] \in Ports
    BY LenProperties, ElementOfSeq DEF NodeType, PortsTyped
  <2> QED BY <2>1, <2>2 DEF NodeType, PortsTyped, PeersTyped, BytesTyped, TypeOK
<1> QED
  BY <1>1, TypeKept, PTL

-----------------------------------------------------------------------------
(* Work conservation: whoever could send is about to be called *)

Called(c, o) == \E i \in DOMAIN c : c[i] = o

(* The calls left after the first, and those put before others.             *)
LEMMA CalledAgain ==
  /\ \A o \in Ports : Called(<<o>>, o)
  /\ \A p \in Ports, o \in Ports : Called(<<p, o>>, p) /\ Called(<<p, o>>, o)
  /\ \A c \in Seq(Ports), o \in Ports :
       c # <<>> /\ Called(c, o) => o = Head(c) \/ Called(Tail(c), o)
  /\ \A c \in Seq(Ports), p \in Ports, o \in Ports :
       o = p \/ Called(c, o) => Called(<<p>> \o c, o)
<1>1. \A p \in Ports, o \in Ports : Called(<<p, o>>, p) /\ Called(<<p, o>>, o) /\ Called(<<o>>, o)
  BY DEF Called
<1>2. ASSUME NEW c \in Seq(Ports), NEW o \in Ports, c # <<>>, Called(c, o), o # Head(c)
      PROVE  Called(Tail(c), o)
  <2>1. /\ DOMAIN c = 1..Len(c) /\ Len(c) \in Nat /\ Head(c) = c[1]
        /\ DOMAIN Tail(c) = 1..(Len(c) - 1)
        /\ \A i \in 1..(Len(c) - 1) : Tail(c)[i] = c[i + 1]
    BY <1>2, LenProperties, HeadTailProperties
  <2>2. PICK i \in 1..Len(c) : c[i] = o
    BY <1>2, <2>1 DEF Called
  <2>3. i - 1 \in 1..(Len(c) - 1) /\ (i - 1) + 1 = i
    BY <1>2, <2>1, <2>2
  <2>4. Tail(c)[i - 1] = o
    BY <2>1, <2>2, <2>3
  <2> QED BY <2>1, <2>3, <2>4 DEF Called
<1>3. ASSUME NEW c \in Seq(Ports), NEW p \in Ports, NEW o \in Ports, o = p \/ Called(c, o)
      PROVE  Called(<<p>> \o c, o)
  <2> DEFINE s == <<p>> \o c
  <2>1. /\ DOMAIN c = 1..Len(c) /\ Len(c) \in Nat
        /\ DOMAIN s = 1..(Len(c) + 1) /\ s[1] = p
        /\ \A i \in 1..Len(c) : s[i + 1] = c[i]
    <3>1. <<p>> \in Seq(Ports) /\ Len(<<p>>) = 1 /\ <<p>>[1] = p
      OBVIOUS
    <3>2. s \in Seq(Ports) /\ Len(s) = 1 + Len(c)
      BY <3>1, ConcatProperties
    <3>3. \A i \in 1..(1 + Len(c)) : s[i] = IF i <= 1 THEN p ELSE c[i - 1]
      BY <3>1, ConcatProperties
    <3>4. Len(c) \in Nat /\ DOMAIN c = 1..Len(c) /\ DOMAIN s = 1..Len(s)
      BY <3>2, LenProperties
    <3> HIDE DEF s
    <3> QED BY <3>2, <3>3, <3>4
  <2> HIDE DEF s
  <2>2. ASSUME o = p PROVE Called(s, o)
    BY <2>1, <2>2 DEF Called
  <2>3. ASSUME Called(c, o) PROVE Called(s, o)
    <3>1. PICK i \in 1..Len(c) : c[i] = o
      BY <2>1, <2>3 DEF Called
    <3>2. i + 1 \in DOMAIN s /\ s[i + 1] = o
      BY <2>1, <3>1
    <3> QED BY <3>2 DEF Called
  <2>4. Called(s, o)
    BY <1>3, <2>2, <2>3
  <2> QED BY <2>4 DEF s
<1> QED
  BY <1>1, <1>2, <1>3

(* A port can send if it has a frame that may go.                           *)
Backlog(q0, queues, isPaused) ==
  q0 # <<>> \/ \E q \in Queues : queues[q] # <<>> /\ ~isPaused[q]

(* CanTransmit, in the words that the cases of a step are told apart by,    *)
(* before the step and after it.                                            *)
LEMMA CanTransmitMeans ==
  /\ QueuesTyped => \A p \in Ports :
       CanTransmit(p) <=> m_linkUp[p] /\ ~busy[p] /\ Backlog(m_queue[p][0], m_queue[p], m_paused[p])
  /\ QueuesTyped' => \A p \in Ports :
       CanTransmit(p)' <=>
         m_linkUp'[p] /\ ~busy'[p] /\ Backlog(m_queue'[p][0], m_queue'[p], m_paused'[p])
<1>1. ASSUME QueuesTyped, NEW p \in Ports
      PROVE  CanTransmit(p) <=>
               m_linkUp[p] /\ ~busy[p] /\ Backlog(m_queue[p][0], m_queue[p], m_paused[p])
  <2>1. DOMAIN m_queue[p] = {0} \cup Queues
    BY <1>1 DEF QueuesTyped, PerPort, QIndex
  <2> QED BY <2>1, NodeAssumption DEF CanTransmit, CanDequeue, Eligible, Backlog
<1>2. ASSUME QueuesTyped', NEW p \in Ports
      PROVE  CanTransmit(p)' <=>
               m_linkUp'[p] /\ ~busy'[p] /\ Backlog(m_queue'[p][0], m_queue'[p], m_paused'[p])
  <2>1. DOMAIN m_queue'[p] = {0} \cup Queues
    BY <1>2 DEF QueuesTyped, PerPort, QIndex
  <2> QED BY <2>1, NodeAssumption DEF CanTransmit, CanDequeue, Eligible, Backlog
<1> QED
  BY <1>1, <1>2

(* The inductive invariant: a port that could send has its call pending.    *)
SendersAreCalled == \A o \in Ports : CanTransmit(o) => Called(calls, o)

(* A port whose queues, pauses and transmitter a step leaves alone can send *)
(* after it only if it could before.                                        *)
LEMMA CanTransmitSame ==
  ASSUME QueuesTyped, QueuesTyped', NEW o \in Ports,
         \A k \in QIndex : m_queue'[o][k] = m_queue[o][k],
         m_linkUp'[o] = m_linkUp[o], busy'[o] = busy[o], m_paused'[o] = m_paused[o],
         CanTransmit(o)'
  PROVE  CanTransmit(o)
<1>1. m_linkUp[o] /\ ~busy[o] /\ Backlog(m_queue'[o][0], m_queue'[o], m_paused[o])
  BY CanTransmitMeans
<1>2. Backlog(m_queue[o][0], m_queue[o], m_paused[o])
  BY <1>1 DEF Backlog, QIndex
<1> QED
  BY <1>1, <1>2, CanTransmitMeans

(* Every step keeps it: who gets a frame, a RESUME or its transmitter back  *)
(* is called, and who is called and cannot send then has no reason to.      *)
LEMMA CalledStep ==
  ASSUME NodeType, NodeType', SendersAreCalled, Next
  PROVE  SendersAreCalled'
<1>1. SUFFICES ASSUME NEW o \in Ports, CanTransmit(o)' PROVE Called(calls', o)
  BY DEF SendersAreCalled
<1>2. /\ QueuesTyped /\ QueuesTyped' /\ calls \in Seq(Ports)
      /\ CanTransmit(o) => Called(calls, o)
  BY DEF NodeType, PortsTyped, SendersAreCalled
<1>3. m_linkUp'[o] /\ ~busy'[o]
  BY <1>1, <1>2, CanTransmitMeans
<1>4. PICK p \in Ports :
         \/ ForwardPacket(p)
         \/ calls # <<>> /\ p = Head(calls) /\ TransmitPacket(p)
         \/ calls # <<>> /\ p = Head(calls) /\ TransmitControl(p)
         \/ ForwardControl(p)
         \/ TakeDown(p)
         \/ calls # <<>> /\ p = Head(calls) /\ Returns(p)
         \/ ReceivePfc(p) \/ DropPacket(p) \/ TransmitComplete(p)
         \/ PeerSend(p) \/ PeerSendControl(p)
         \/ \E q \in Queues, pause \in BOOLEAN : PeerSendPfc(p, q, pause)
         \/ PeerReceivePfc(p) \/ PeerReceivePacket(p) \/ Corrupt(p) \/ DeadLink(p)
  BY StepKinds
<1> DEFINE SamePort == /\ \A k \in QIndex : m_queue'[o][k] = m_queue[o][k]
                       /\ m_linkUp'[o] = m_linkUp[o] /\ busy'[o] = busy[o]
                       /\ m_paused'[o] = m_paused[o]
<1>5. SamePort => Called(calls, o)
  BY <1>1, <1>2, CanTransmitSame
<1>6. CASE ForwardPacket(p)
  <2>1. PICK pkt \in Packets : Forwards(p, pkt)
    BY <1>6, ForwardEffect DEF NodeType
  <2>2. calls = <<>> /\ ~Called(calls, o)
    <3>1. calls = <<>>
      BY <2>1, Zenon DEF Forwards, Arrived
    <3>2. ~Called(<<>>, o)
      BY DEF Called
    <3> QED BY <3>1, <3>2, Zenon
  <2>3. ~SamePort
    BY <1>5, <2>2
  <2>4. pkt.out \in Ports /\ pkt.q \in Queues /\ PfcSent(p, pkt.q) \in Seq(PfcFrames)
    BY <2>1, FrameFields, PfcSentCases DEF Forwards, NodeType
  <2>5. CASE o = pkt.out
    BY <2>1, <2>4, <2>5, CalledAgain DEF Forwards
  <2>6. CASE o # pkt.out
    <3>1. ~(\A k \in QIndex : m_queue'[o][k] = m_queue[o][k])
      BY <2>1, <2>3 DEF Forwards
    <3>2. o = p /\ m_queue'[p][0] # m_queue[p][0]
      BY <2>1, <2>6, <3>1 DEF Forwards
    <3>3. m_queue[p][0] \in Seq(Frames)
      BY <1>2 DEF QueuesTyped, PerPort, QIndex
    <3>4. PfcSent(p, pkt.q) # <<>>
      <4>1. m_queue[p][0] \o <<>> = m_queue[p][0]
        BY <3>3, ConcatEmptySeq
      <4> QED BY <2>1, <3>2, <4>1 DEF Forwards
    <3> QED BY <2>1, <2>4, <3>2, <3>4, CalledAgain DEF Forwards
  <2> QED BY <2>5, <2>6
<1>7. CASE calls # <<>> /\ p = Head(calls) /\ TransmitPacket(p)
  <2>1. PICK pkt \in Packets : Transmits(p, pkt)
    BY <1>7, TransmitEffect DEF NodeType
  <2>2. o # p
    BY <1>3, <2>1 DEF Transmits, TransmitStart, NodeType, PortsTyped, PerPort
  <2>3. pkt.in \in Ports /\ pkt.q \in Queues /\ Tail(calls) \in Seq(Ports)
    BY <1>2, <1>7, FrameFields, CallsTyped
  <2>4. CASE SamePort
    <3>1. Called(Tail(calls), o)
      BY <1>2, <1>5, <1>7, <2>2, <2>4, CalledAgain
    <3> QED BY <2>1, <2>3, <3>1, CalledAgain DEF Transmits
  <2>5. CASE ~SamePort
    <3>1. busy'[o] = busy[o]
      BY <2>1, <2>2 DEF Transmits, TransmitStart, NodeType, PortsTyped, PerPort
    <3>2. ~(\A k \in QIndex : m_queue'[o][k] = m_queue[o][k])
      BY <2>1, <2>5, <3>1 DEF Transmits
    <3>3. o = pkt.in /\ m_queue'[o][0] # m_queue[o][0]
      BY <2>1, <2>2, <3>2 DEF Transmits
    <3>4. m_queue[o][0] \o <<>> = m_queue[o][0]
      BY <1>2, ConcatEmptySeq DEF QueuesTyped, PerPort, QIndex
    <3>5. PfcSent(pkt.in, pkt.q) # <<>>
      BY <2>1, <3>3, <3>4 DEF Transmits
    <3> QED BY <2>1, <2>3, <3>3, <3>5, CalledAgain DEF Transmits
  <2> QED BY <2>4, <2>5
<1>8. CASE calls # <<>> /\ p = Head(calls) /\ TransmitControl(p)
  <2>1. o # p
    BY <1>3, <1>8 DEF TransmitControl, TransmitStart, NodeType, PortsTyped, PerPort
  <2>2. \A k \in QIndex : m_queue'[o][k] = m_queue[o][k]
    BY <1>8, <2>1, TransmitControlType
  <2>3. busy'[o] = busy[o]
    BY <1>8, <2>1 DEF TransmitControl, TransmitStart, NodeType, PortsTyped, PerPort
  <2>4. SamePort
    BY <1>8, <2>2, <2>3 DEF TransmitControl
  <2>5. Called(Tail(calls), o)
    BY <1>2, <1>5, <1>8, <2>1, <2>4, CalledAgain
  <2> QED BY <1>8, <2>5 DEF TransmitControl
<1>9. CASE ForwardControl(p)
  <2>1. PICK pkt \in ControlPackets :
           /\ m_queue'[pkt.out][0] = Append(m_queue[pkt.out][0], pkt)
           /\ calls' = <<pkt.out>>
           /\ \A i \in Ports, k \in QIndex :
                <<i, k>> # <<pkt.out, 0>> => m_queue'[i][k] = m_queue[i][k]
    BY <1>9, ForwardControlType
  <2>2. calls = <<>> /\ UNCHANGED <<busy, m_paused, m_linkUp>>
    BY <1>9 DEF ForwardControl, Arrived
  <2>3. o = pkt.out
    BY <1>5, <2>1, <2>2 DEF Called
  <2> QED BY <2>1, <2>3, CalledAgain
<1>10. CASE TakeDown(p)
  <2>1. o # p
    BY <1>3, <1>10 DEF TakeDown, NodeType, PortsTyped, PerPort
  <2>2. SamePort /\ calls = <<>>
    BY <1>10, <2>1, TakeDownType DEF TakeDown, NodeType, PortsTyped, PerPort
  <2> QED BY <1>5, <2>2 DEF Called
<1>11. CASE calls # <<>> /\ p = Head(calls) /\ Returns(p)
  <2>1. SamePort /\ ~CanTransmit(p) /\ calls' = Tail(calls)
    BY <1>11 DEF Returns, portVars
  <2>2. CanTransmit(o)
    BY <1>1, <1>2, <2>1, CanTransmitSame
  <2> QED BY <1>2, <1>11, <2>1, <2>2, CalledAgain
<1>12. CASE ReceivePfc(p)
  <2>1. PICK frame \in PfcFrames :
          /\ calls = <<>>
          /\ m_paused' = [m_paused EXCEPT ![p][frame.pfcQueue] = frame.pause]
          /\ calls' = IF frame.pause THEN <<>> ELSE <<p>>
          /\ UNCHANGED <<m_queue, busy, m_linkUp>>
    BY <1>12, Zenon DEF ReceivePfc, Arrived
  <2>2. CASE ~frame.pause /\ o = p
    BY <2>1, <2>2, CalledAgain
  <2>3. CASE o # p
    BY <1>5, <2>1, <2>3 DEF Called, NodeType, PortsTyped, PerPort
  <2>4. CASE frame.pause /\ o = p
    <3>1. \A k \in Queues : ~m_paused'[o][k] => ~m_paused[o][k]
      BY <2>1, <2>4, FrameFields DEF NodeType, PortsTyped, PerPort, QIndex
    <3>2. Backlog(m_queue[o][0], m_queue[o], m_paused'[o])
      BY <1>1, <1>2, <2>1, CanTransmitMeans
    <3>3. Backlog(m_queue[o][0], m_queue[o], m_paused[o])
      BY <3>1, <3>2 DEF Backlog
    <3>4. CanTransmit(o)
      BY <1>2, <1>3, <2>1, <3>3, CanTransmitMeans
    <3> QED BY <1>2, <2>1, <3>4 DEF Called
  <2> QED BY <2>2, <2>3, <2>4
<1>13. CASE DropPacket(p)
  BY <1>5, <1>13 DEF DropPacket, portVars
<1>14. CASE TransmitComplete(p)
  <2>1. CASE o = p
    BY <1>14, <2>1, CalledAgain DEF TransmitComplete
  <2>2. CASE o # p
    BY <1>5, <1>14, <2>2 DEF TransmitComplete, Called, NodeType, PortsTyped, PerPort
  <2> QED BY <2>1, <2>2
<1>15. CASE \/ PeerSend(p) \/ PeerSendControl(p)
            \/ \E q \in Queues, pause \in BOOLEAN : PeerSendPfc(p, q, pause)
            \/ PeerReceivePfc(p) \/ PeerReceivePacket(p) \/ Corrupt(p) \/ DeadLink(p)
  <2>1. UNCHANGED <<portVars, calls>>
    BY <1>15, Zenon DEF PeerSend, PeerSendControl, PeerSendPfc, PeerReceivePfc,
                        PeerReceivePacket, Corrupt, DeadLink
  <2> QED BY <1>5, <2>1 DEF portVars
<1> QED
  BY <1>4, <1>6, <1>7, <1>8, <1>9, <1>10, <1>11, <1>12, <1>13, <1>14, <1>15

(* A port that could send is sending, whenever the node is idle: no handler *)
(* forgets to restart a transmitter.                                        *)
THEOREM NoSenderForgotten == Spec => []WorkConserving
<1>1. Init => SendersAreCalled
  <2> SUFFICES ASSUME Init, NEW o \in Ports PROVE ~CanTransmit(o)
    BY DEF SendersAreCalled
  <2>1. ~Backlog(m_queue[o][0], m_queue[o], m_paused[o])
    BY DEF Init, Backlog, QIndex
  <2> QED BY <2>1, InitType, CanTransmitMeans DEF NodeType
<1>2. NodeType /\ NodeType' /\ SendersAreCalled /\ [Next]_vars => SendersAreCalled'
  <2>1. ASSUME SendersAreCalled, UNCHANGED vars PROVE SendersAreCalled'
    BY <2>1 DEF SendersAreCalled, vars, portVars, CanTransmit, Called
  <2> QED BY <2>1, CalledStep
<1>3. SendersAreCalled => WorkConserving
  BY DEF SendersAreCalled, WorkConserving, Idle, Called
<1> QED
  BY <1>1, <1>2, <1>3, TypeKept, PTL DEF Spec

-----------------------------------------------------------------------------
(* The node and its MMU *)

(* What a step of the node is to the MMU.                                   *)
LEMMA MmuSteps ==
  ASSUME NodeType, NodeType', Next
  PROVE  \/ \E pkt \in Packets : Mmu!Admit(pkt) \/ Mmu!Release(pkt)
         \/ UNCHANGED Mmu!vars
         \/ \E p \in Ports : TakeDown(p)
<1>1. PICK p \in Ports :
         \/ ForwardPacket(p)
         \/ calls # <<>> /\ p = Head(calls) /\ TransmitPacket(p)
         \/ calls # <<>> /\ p = Head(calls) /\ TransmitControl(p)
         \/ ForwardControl(p)
         \/ TakeDown(p)
         \/ calls # <<>> /\ p = Head(calls) /\ Returns(p)
         \/ ReceivePfc(p) \/ DropPacket(p) \/ TransmitComplete(p)
         \/ PeerSend(p) \/ PeerSendControl(p)
         \/ \E q \in Queues, pause \in BOOLEAN : PeerSendPfc(p, q, pause)
         \/ PeerReceivePfc(p) \/ PeerReceivePacket(p) \/ Corrupt(p) \/ DeadLink(p)
  BY StepKinds
<1>2. CASE ForwardPacket(p)
  <2>1. PICK pkt \in Packets : Forwards(p, pkt)
    BY <1>2, ForwardEffect DEF NodeType
  <2> QED BY <2>1, ForwardAdmits DEF NodeType
<1>3. CASE calls # <<>> /\ p = Head(calls) /\ TransmitPacket(p)
  <2>1. PICK pkt \in Packets : Transmits(p, pkt)
    BY <1>3, TransmitEffect DEF NodeType
  <2> QED BY <2>1, TransmitReleases DEF NodeType
<1>4. CASE \/ calls # <<>> /\ p = Head(calls) /\ TransmitControl(p)
           \/ ForwardControl(p)
  <2>1. \A o \in Ports, k \in Queues : m_queue'[o][k] = m_queue[o][k]
    <3>1. \A k \in Queues : k \in QIndex /\ k # 0
      BY NodeAssumption DEF QIndex
    <3>2. CASE calls # <<>> /\ p = Head(calls) /\ TransmitControl(p)
      BY <3>1, <3>2, TransmitControlType
    <3>3. CASE ForwardControl(p)
      BY <3>1, <3>3, ForwardControlType
    <3> QED BY <1>4, <3>2, <3>3
  <2>2. UNCHANGED mmuVars
    BY <1>4 DEF TransmitControl, ForwardControl
  <2> QED BY <2>1, <2>2, MmuIdle
<1>5. CASE \/ calls # <<>> /\ p = Head(calls) /\ Returns(p)
           \/ ReceivePfc(p) \/ DropPacket(p) \/ TransmitComplete(p)
           \/ PeerSend(p) \/ PeerSendControl(p)
           \/ \E q \in Queues, pause \in BOOLEAN : PeerSendPfc(p, q, pause)
           \/ PeerReceivePfc(p) \/ PeerReceivePacket(p) \/ Corrupt(p) \/ DeadLink(p)
  <2>1. UNCHANGED <<mmuVars, m_queue>>
    BY <1>5, PortStepsType, PeerSendsType, LinkStepsType
  <2> QED BY <2>1, MmuIdle
<1> QED
  BY <1>1, <1>2, <1>3, <1>4, <1>5

(* While no link is taken down.                                             *)
NoneTakenDown == takeDowns = 0 /\ \A p \in Ports : m_linkUp[p]

(* None is, where the bound is 0.                                           *)
LEMMA LinksStayUp ==
  ASSUME MaxTakeDowns = 0
  PROVE  Spec => []NoneTakenDown
<1>1. Init => NoneTakenDown
  BY DEF Init, NoneTakenDown
<1>2. NoneTakenDown /\ [Next]_vars => NoneTakenDown'
  <2> SUFFICES ASSUME NoneTakenDown, [Next]_vars PROVE NoneTakenDown'
    OBVIOUS
  <2>1. \A p \in Ports : ~TakeDown(p)
    BY DEF NoneTakenDown, TakeDown
  <2>2. UNCHANGED <<takeDowns, m_linkUp>>
    BY <2>1, Zenon DEF Next, vars, bounds, portVars, DequeueAndTransmit, Returns, TransmitControl,
       TransmitPacket, ReceivePfc, ForwardPacket, DropPacket, ForwardControl, TransmitComplete,
       PeerSend, PeerSendControl, PeerSendPfc, PeerReceivePfc, PeerReceivePacket, Corrupt, DeadLink
  <2> QED BY <2>2 DEF NoneTakenDown
<1> QED
  BY <1>1, <1>2, PTL DEF Spec

(* The node keeps its part of the contract with the MMU, whatever frames    *)
(* are lost, as long as no link is taken down: TakeDown empties queues and  *)
(* does not tell the MMU.                                                   *)
THEOREM NodeUsesMmu ==
  ASSUME MaxTakeDowns = 0
  PROVE  Spec => UsesMmu
<1>1. Init => Mmu!Init
  BY DEF Init
<1>2. NodeType /\ NodeType' /\ NoneTakenDown /\ [Next]_vars => [Mmu!Next]_(Mmu!vars)
  <2> SUFFICES ASSUME NodeType, NodeType', NoneTakenDown, [Next]_vars
               PROVE  [Mmu!Next]_(Mmu!vars)
    OBVIOUS
  <2>1. \A p \in Ports : ~TakeDown(p)
    BY DEF NoneTakenDown, TakeDown
  <2>2. CASE Next
    BY <2>1, <2>2, MmuSteps DEF Mmu!Next
  <2>3. CASE UNCHANGED vars
    BY <2>3, MmuIdle DEF vars, portVars
  <2> QED BY <2>2, <2>3
<1> QED
  BY <1>1, <1>2, TypeKept, LinksStayUp, PTL DEF Spec, UsesMmu, Mmu!Spec

(* The bytes of a set of packets in the switch.                             *)
LEMMA SameBytes ==
  ASSUME NEW S
  PROVE  Mmu!BytesHeld(S) = P!BytesHeld(S)
BY SameSums, Zenon DEF Mmu!BytesHeld, P!BytesHeld

(* Losses and link failures leave no counter of the MMU too low, and the    *)
(* buffer is never overrun, in any state the node can reach.                *)
THEOREM NodeNeverUndercounts == Spec => []NeverUndercounts
<1> DEFINE Inv == P!NotTooLow /\ P!BufferNotOverrun
<1>1. NodeType /\ Init => Inv
  <2> SUFFICES ASSUME NodeType, Init PROVE Inv
    OBVIOUS
  <2>1. P!Init /\ P!Books
    BY SamePackets, SameConfig, SameInit, P!InitBooks DEF Init
  <2>2. P!BufferNotOverrun
    BY <2>1, SameConfig DEF P!Init, P!BufferNotOverrun, P!ConfigAssumption, P!Classes
  <2>3. P!NotTooLow
    <3>1. P!ChargedExactly
      BY <2>1, SamePackets, SameConfig, P!ChargedHalves DEF P!Books
    <3>2. P!TypeOK
      BY SameType DEF NodeType
    <3> QED BY <3>1, <3>2, SamePackets, SameConfig, P!ExactNotTooLow
  <2> QED BY <2>2, <2>3
<1>2. NodeType /\ NodeType' /\ Inv /\ [Next]_vars => Inv'
  <2> SUFFICES ASSUME NodeType, NodeType', Inv, [Next]_vars PROVE Inv'
    OBVIOUS
  <2>1. P!TypeOK /\ P!TypeOK'
    BY SameType DEF NodeType
  <2>2. ASSUME NEW pkt \in Packets, Mmu!Admit(pkt) \/ Mmu!Release(pkt) PROVE Inv'
    <3>1. P!Admit(pkt) \/ P!Release(pkt)
      BY <2>2, SameSteps
    <3>2. P!NotTooLow'
      BY <2>1, <3>1, SamePackets, SameConfig, P!AdmitNotTooLow, P!ReleaseNotTooLow
    <3>3. [P!Next]_(P!vars)
      BY <3>1 DEF P!Next
    <3>4. P!BufferNotOverrun'
      BY <2>1, <3>3, SamePackets, SameConfig, P!BufferStep
    <3> QED BY <3>2, <3>4
  <2>3. ASSUME UNCHANGED mmuVars, \A pkt \in Packets : Copies(pkt)' <= Copies(pkt) PROVE Inv'
    <3>1. UNCHANGED P!counters
      BY <2>3 DEF mmuVars, P!counters
    <3>2. P!BufferNotOverrun'
      BY <2>3 DEF mmuVars, P!BufferNotOverrun
    <3>3. P!NotTooLow'
      BY <2>1, <2>3, <3>1, SamePackets, SameConfig, P!VanishNotTooLow
    <3> QED BY <3>2, <3>3
  <2>4. \A pkt \in Packets : Copies(pkt) \in Nat
    BY <2>1 DEF P!TypeOK
  <2>5. ASSUME NEW p \in Ports, TakeDown(p) PROVE Inv'
    <3>1. ASSUME NEW pkt \in Packets PROVE Copies(pkt)' <= Copies(pkt)
      <4>1. pkt.out \in Ports /\ pkt.q \in QIndex
        BY FrameFields
      <4>2. m_queue'[pkt.out][pkt.q] = m_queue[pkt.out][pkt.q] \/ m_queue'[pkt.out][pkt.q] = <<>>
        BY <2>5, <4>1, TakeDownType
      <4>3. Count(<<>>, pkt) = 0
        <5>1. {i \in DOMAIN <<>> : <<>>[i] = pkt} = {}
          OBVIOUS
        <5> QED BY <5>1, FS_EmptySet DEF Count
      <4>4. Copies(pkt)' = Copies(pkt) \/ Copies(pkt)' = 0
        BY <4>2, <4>3, CopiesAreCounts, Zenon
      <4> QED BY <2>4, <4>4
    <3>2. UNCHANGED mmuVars
      BY <2>5, TakeDownType
    <3> QED BY <2>3, <3>1, <3>2
  <2>6. ASSUME UNCHANGED Mmu!vars PROVE Inv'
    <3>1. [k \in Packets |-> Copies(k)]' = [k \in Packets |-> Copies(k)]
      BY <2>6 DEF Mmu!vars
    <3>2. ASSUME NEW pkt \in Packets PROVE Copies(pkt)' = Copies(pkt)
      <4>1. [k \in Packets |-> Copies(k)'][pkt] = [k \in Packets |-> Copies(k)][pkt]
        BY <3>1
      <4> QED BY <4>1
    <3>3. \A pkt \in Packets : Copies(pkt)' <= Copies(pkt)
      BY <2>4, <3>2
    <3>4. UNCHANGED mmuVars
      BY <2>6 DEF Mmu!vars, Mmu!counters, mmuVars
    <3> QED BY <2>3, <3>3, <3>4
  <2>7. CASE Next
    BY <2>2, <2>5, <2>6, <2>7, MmuSteps
  <2>8. CASE UNCHANGED vars
    BY <2>6, <2>8, MmuIdle DEF vars, portVars
  <2> QED BY <2>7, <2>8
<1>3. Inv => NeverUndercounts
  BY SameBytes DEF P!NotTooLow, P!BufferNotOverrun, NeverUndercounts
<1> QED
  BY <1>1, <1>2, <1>3, InitType, TypeKept, PTL DEF Spec

-----------------------------------------------------------------------------
(* PFC frames on the way, and the two copies of a pause state *)

(* SignalsAgree, of the positions of the signals and what each of them says. *)
Alternate(S, says, believed, meant) ==
  /\ S = {} => believed = meant
  /\ \A i \in S :
       /\ (\A j \in S : i <= j) => says[i] # believed
       /\ (\A j \in S : j <= i) => says[i] = meant
       /\ \A j \in S : i < j /\ (\A k \in S : k <= i \/ j <= k) => says[i] # says[j]

Says(line, q) == [i \in PfcAt(line, q) |-> line[i].pause]

(* The two forms say the same.                                              *)
LEMMA SignalsAlternate ==
  ASSUME NEW line, NEW q, NEW believed, NEW meant
  PROVE  SignalsAgree(line, q, believed, meant)
           <=> Alternate(PfcAt(line, q), Says(line, q), believed, meant)
BY DEF SignalsAgree, Alternate, Says

(* A signal after all others, of what they did not mean.                    *)
LEMMA AlternateAppend ==
  ASSUME NEW S \in SUBSET Nat, NEW says, NEW n \in Nat, \A i \in S : i < n,
         NEW believed \in BOOLEAN, NEW meant \in BOOLEAN, NEW new \in BOOLEAN, NEW said,
         \A i \in S : said[i] = says[i], said[n] = new, new # meant,
         Alternate(S, says, believed, meant)
  PROVE  Alternate(S \cup {n}, said, believed, new)
<1>1. ASSUME NEW i \in S, \A j \in S : j <= i PROVE says[i] = meant
  BY <1>1 DEF Alternate
<1>2. ASSUME NEW i \in S \cup {n}, \A j \in S \cup {n} : i <= j PROVE said[i] # believed
  <2>1. CASE i \in S
    BY <1>2, <2>1 DEF Alternate
  <2>2. CASE i = n
    <3>1. S = {}
      BY <1>2, <2>2
    <3> QED BY <2>2, <3>1 DEF Alternate
  <2> QED BY <2>1, <2>2
<1>3. ASSUME NEW i \in S \cup {n}, \A j \in S \cup {n} : j <= i PROVE said[i] = new
  <2>1. i = n
    BY <1>3
  <2> QED BY <2>1
<1>4. ASSUME NEW i \in S \cup {n}, NEW j \in S \cup {n}, i < j,
             \A k \in S \cup {n} : k <= i \/ j <= k
      PROVE  said[i] # said[j]
  <2>1. i \in S
    BY <1>4
  <2>2. CASE j \in S
    BY <1>4, <2>1, <2>2 DEF Alternate
  <2>3. CASE j = n
    <3>1. \A k \in S : k <= i
      BY <1>4, <2>3
    <3> QED BY <1>1, <2>1, <2>3, <3>1
  <2> QED BY <2>2, <2>3
<1> QED
  BY <1>2, <1>3, <1>4 DEF Alternate

(* Every signal a position earlier.                                         *)
LEMMA AlternateShift ==
  ASSUME NEW S \in SUBSET Nat, NEW T \in SUBSET Nat, NEW says, NEW said,
         \A i \in Nat : i \in T <=> i + 1 \in S, 0 \notin S, 
         \A i \in T : said[i] = says[i + 1],
         NEW believed, NEW meant, Alternate(S, says, believed, meant)
  PROVE  Alternate(T, said, believed, meant)
<1>0. \A j \in S : \E k \in T : j = k + 1
  <2> SUFFICES ASSUME NEW j \in S PROVE \E k \in T : j = k + 1
    OBVIOUS
  <2>1. j \in Nat /\ j # 0
    OBVIOUS
  <2>2. PICK k \in Nat : j = k + 1
    BY <2>1
  <2> QED BY <2>2
<1>1. T = {} => believed = meant
  BY <1>0 DEF Alternate
<1>2. ASSUME NEW i \in T, \A j \in T : i <= j PROVE said[i] # believed
  <2>1. i + 1 \in S /\ \A j \in S : i + 1 <= j
    BY <1>0, <1>2
  <2> QED BY <2>1 DEF Alternate
<1>3. ASSUME NEW i \in T, \A j \in T : j <= i PROVE said[i] = meant
  <2>1. i + 1 \in S
    BY <1>3
  <2>2. ASSUME NEW j \in S PROVE j <= i + 1
    <3>1. PICK k \in T : j = k + 1
      BY <1>0
    <3>2. k <= i /\ k \in Nat /\ i \in Nat
      BY <1>3
    <3> QED BY <3>1, <3>2
  <2> QED BY <2>1, <2>2 DEF Alternate
<1>4. ASSUME NEW i \in T, NEW j \in T, i < j, \A k \in T : k <= i \/ j <= k
      PROVE  said[i] # said[j]
  <2>1. i + 1 \in S /\ j + 1 \in S /\ i + 1 < j + 1
    BY <1>4
  <2>2. \A k \in S : k <= i + 1 \/ j + 1 <= k
    BY <1>0, <1>4
  <2>3. says[i + 1] # says[j + 1]
    BY <2>1, <2>2 DEF Alternate
  <2> QED BY <2>3
<1> QED
  BY <1>1, <1>2, <1>3, <1>4 DEF Alternate

(* The oldest signal is heard.                                              *)
LEMMA AlternateHeard ==
  ASSUME NEW S \in SUBSET Nat, NEW says, NEW n \in S, \A i \in S : n <= i,
         NEW believed \in BOOLEAN, NEW meant \in BOOLEAN, says \in [S -> BOOLEAN],
         Alternate(S, says, believed, meant)
  PROVE  Alternate(S \ {n}, says, says[n], meant)
<1>1. S \ {n} = {} => says[n] = meant
  BY DEF Alternate
<1>2. ASSUME NEW i \in S \ {n}, \A j \in S \ {n} : i <= j PROVE says[i] # says[n]
  <2>1. n < i /\ \A k \in S : k <= n \/ i <= k
    BY <1>2
  <2> QED BY <2>1 DEF Alternate
<1>3. ASSUME NEW i \in S \ {n}, \A j \in S \ {n} : j <= i PROVE says[i] = meant
  <2>1. \A j \in S : j <= i
    BY <1>3
  <2> QED BY <2>1 DEF Alternate
<1>4. ASSUME NEW i \in S \ {n}, NEW j \in S \ {n}, i < j, \A k \in S \ {n} : k <= i \/ j <= k
      PROVE  says[i] # says[j]
  <2>1. \A k \in S : k <= i \/ j <= k
    BY <1>4
  <2> QED BY <1>4, <2>1 DEF Alternate
<1> QED
  BY <1>1, <1>2, <1>3, <1>4 DEF Alternate

(* Where the signals are when a frame is appended.                          *)
LEMMA SignalsAppend ==
  ASSUME NEW line \in Seq(Frames), NEW frame \in Frames, NEW q
  PROVE  /\ IsPfc(frame) /\ frame.pfcQueue = q =>
              PfcAt(Append(line, frame), q) = PfcAt(line, q) \cup {Len(line) + 1}
         /\ ~(IsPfc(frame) /\ frame.pfcQueue = q) =>
              PfcAt(Append(line, frame), q) = PfcAt(line, q)
<1> DEFINE new == Append(line, frame)
           n == Len(line) + 1
<1>1. /\ DOMAIN line = 1..Len(line) /\ DOMAIN new = 1..n /\ Len(line) \in Nat
      /\ new[n] = frame /\ \A i \in 1..Len(line) : new[i] = line[i]
  OBVIOUS
<1> HIDE DEF new
<1>2. n \in Nat /\ n \in 1..n /\ \A i \in 1..n : i \in 1..Len(line) \/ i = n
  BY <1>1
<1>3. \A i \in 1..Len(line) : i \in Nat /\ i < n /\ i \in 1..n
  BY <1>1
<1> HIDE DEF n
<1>4. PfcAt(new, q) = IF IsPfc(frame) /\ frame.pfcQueue = q
                      THEN PfcAt(line, q) \cup {n} ELSE PfcAt(line, q)
  BY <1>1, <1>2, <1>3 DEF PfcAt
<1> QED
  BY <1>4, Zenon DEF new, n

(* Where they are when the head is taken.                                   *)
LEMMA SignalsTail ==
  ASSUME NEW line \in Seq(Frames), line # <<>>, NEW q
  PROVE  LET S == PfcAt(line, q)
             T == PfcAt(Tail(line), q)
         IN  /\ S \in SUBSET Nat /\ T \in SUBSET Nat /\ 0 \notin S
             /\ \A i \in Nat : i \in T <=> i + 1 \in S \ {1}
             /\ \A i \in T : Tail(line)[i] = line[i + 1]
             /\ 1 \in S <=> IsPfc(Head(line)) /\ Head(line).pfcQueue = q
             /\ \A i \in S : 1 <= i
<1>1. /\ DOMAIN line = 1..Len(line) /\ Len(line) \in Nat /\ Len(line) > 0
      /\ DOMAIN Tail(line) = 1..(Len(line) - 1) /\ Head(line) = line[1]
      /\ \A i \in 1..(Len(line) - 1) : Tail(line)[i] = line[i + 1]
  OBVIOUS
<1>2. /\ \A i \in Nat : i \in 1..(Len(line) - 1) <=> i + 1 \in 1..Len(line) /\ i + 1 # 1
      /\ 1 \in 1..Len(line) /\ \A i \in 1..Len(line) : i \in Nat /\ i # 0 /\ 1 <= i
      /\ \A i \in 1..(Len(line) - 1) : i \in Nat /\ i + 1 \in 1..Len(line)
  BY <1>1
<1> DEFINE t == Tail(line)
<1>3. DOMAIN t = 1..(Len(line) - 1) /\ \A i \in 1..(Len(line) - 1) : t[i] = line[i + 1]
  BY <1>1
<1> HIDE DEF t
<1>4. \A i : i \in PfcAt(t, q) <=> i \in DOMAIN t /\ IsPfc(t[i]) /\ t[i].pfcQueue = q
  BY DEF PfcAt
<1>5. \A i : i \in PfcAt(line, q)
              <=> i \in 1..Len(line) /\ IsPfc(line[i]) /\ line[i].pfcQueue = q
  BY <1>1 DEF PfcAt
<1>6. /\ PfcAt(line, q) \in SUBSET Nat /\ PfcAt(t, q) \in SUBSET Nat /\ 0 \notin PfcAt(line, q)
      /\ \A i \in PfcAt(line, q) : 1 <= i
  BY <1>2, <1>3, <1>4, <1>5
<1>7. \A i \in Nat : i \in PfcAt(t, q) <=> i + 1 \in PfcAt(line, q) \ {1}
  BY <1>2, <1>3, <1>4, <1>5
<1>8. \A i \in PfcAt(t, q) : t[i] = line[i + 1]
  BY <1>3, <1>4
<1>9. 1 \in PfcAt(line, q) <=> IsPfc(Head(line)) /\ Head(line).pfcQueue = q
  BY <1>1, <1>2, <1>5
<1> QED
  BY <1>6, <1>7, <1>8, <1>9 DEF t

(* A frame that is no signal for the queue changes nothing.                 *)
LEMMA OtherFrameAppended ==
  ASSUME NEW line \in Seq(Frames), NEW frame \in Frames, NEW q, NEW believed, NEW meant,
         ~(IsPfc(frame) /\ frame.pfcQueue = q), SignalsAgree(line, q, believed, meant)
  PROVE  SignalsAgree(Append(line, frame), q, believed, meant)
<1> DEFINE new == Append(line, frame)
<1>2. PfcAt(new, q) = PfcAt(line, q)
  BY SignalsAppend
<1>3. \A i \in PfcAt(line, q) : new[i] = line[i]
  BY DEF PfcAt
<1>1. PfcAt(new, q) = PfcAt(line, q) /\ \A i \in PfcAt(line, q) : new[i] = line[i]
  BY <1>2, <1>3
<1> HIDE DEF new
<1>4. SignalsAgree(new, q, believed, meant)
  BY <1>1 DEF SignalsAgree
<1> QED BY <1>4 DEF new

(* A change of a pause state is told by a signal after the others.          *)
LEMMA SignalAppended ==
  ASSUME NEW line \in Seq(Frames), NEW q \in Queues, NEW believed \in BOOLEAN,
         NEW meant \in BOOLEAN, NEW new \in BOOLEAN, new # meant,
         SignalsAgree(line, q, believed, meant)
  PROVE  SignalsAgree(Append(line, Pfc(q, new)), q, believed, new)
<1> DEFINE S == PfcAt(line, q)
           after == Append(line, Pfc(q, new))
           n == Len(line) + 1
           said == Says(after, q)
<1>1. /\ Pfc(q, new) \in Frames /\ IsPfc(Pfc(q, new))
      /\ Pfc(q, new).pfcQueue = q /\ Pfc(q, new).pause = new
  BY FrameFields DEF Frames
<1>2. /\ S \in SUBSET Nat /\ n \in Nat /\ \A i \in S : i < n
      /\ \A i \in S : after[i] = line[i]
      /\ after[n] = Pfc(q, new) /\ PfcAt(after, q) = S \cup {n}
  <2>1. S \in SUBSET Nat /\ n \in Nat /\ \A i \in S : i < n
    BY DEF PfcAt
  <2>2. after[n] = Pfc(q, new) /\ \A i \in S : after[i] = line[i]
    BY <1>1 DEF PfcAt
  <2>3. PfcAt(after, q) = S \cup {n}
    BY <1>1, SignalsAppend
  <2> QED BY <2>1, <2>2, <2>3
<1>3. Alternate(S, Says(line, q), believed, meant)
  BY SignalsAlternate
<1> HIDE DEF after, n
<1>4. said[n] = new /\ \A i \in S : said[i] = Says(line, q)[i]
  BY <1>1, <1>2 DEF Says
<1> HIDE DEF S, said
<1>5. Alternate(S \cup {n}, said, believed, new)
  BY <1>2, <1>3, <1>4, AlternateAppend
<1>6. SignalsAgree(after, q, believed, new)
  BY <1>2, <1>5, SignalsAlternate DEF said
<1> QED BY <1>6 DEF after

(* The head of the line arrives.                                            *)
LEMMA HeadHeard ==
  ASSUME NEW line \in Seq(Frames), line # <<>>, NEW q, NEW believed \in BOOLEAN,
         NEW meant \in BOOLEAN, SignalsAgree(line, q, believed, meant)
  PROVE  SignalsAgree(Tail(line), q,
           IF IsPfc(Head(line)) /\ Head(line).pfcQueue = q THEN Head(line).pause ELSE believed,
           meant)
<1> DEFINE S == PfcAt(line, q)
           T == PfcAt(Tail(line), q)
           says == Says(line, q)
           said == Says(Tail(line), q)
           now == IF IsPfc(Head(line)) /\ Head(line).pfcQueue = q
                  THEN Head(line).pause ELSE believed
<1>1. /\ S \in SUBSET Nat /\ T \in SUBSET Nat /\ 0 \notin S
      /\ \A i \in Nat : i \in T <=> i + 1 \in S \ {1}
      /\ \A i \in T : Tail(line)[i] = line[i + 1]
      /\ 1 \in S <=> IsPfc(Head(line)) /\ Head(line).pfcQueue = q
      /\ \A i \in S : 1 <= i
  BY SignalsTail
<1>2. Alternate(S, says, believed, meant)
  BY SignalsAlternate
<1>3. says \in [S -> BOOLEAN]
  <2>1. \A i \in S : line[i] \in Frames /\ IsPfc(line[i])
    BY DEF PfcAt
  <2>2. \A frame \in Frames : IsPfc(frame) => frame.pause \in BOOLEAN
    BY FrameFields, Zenon DEF Frames
  <2> QED BY <2>1, <2>2 DEF Says
<1>4. 1 \in S => says[1] = Head(line).pause
  BY DEF Says
<1>5. \A i \in T : said[i] = says[i + 1]
  BY <1>1 DEF Says
<1> HIDE DEF S, T, says, said
<1>6. Alternate(S \ {1}, says, now, meant)
  <2>1. CASE 1 \in S
    <3>1. S \in SUBSET Nat /\ \A i \in S : 1 <= i
      BY <1>1
    <3>2. Alternate(S \ {1}, says, says[1], meant)
      BY <1>2, <1>3, <2>1, <3>1, AlternateHeard, Zenon
    <3> QED BY <1>1, <1>4, <2>1, <3>2
  <2>2. CASE 1 \notin S
    <3>1. S \ {1} = S
      BY <2>2
    <3> QED BY <1>1, <1>2, <2>2, <3>1
  <2> QED BY <2>1, <2>2
<1>7. Alternate(T, said, now, meant)
  <2>1. S \ {1} \in SUBSET Nat /\ 0 \notin S \ {1}
    BY <1>1
  <2> HIDE DEF now
  <2> QED BY <1>1, <1>5, <1>6, <2>1, AlternateShift
<1> QED
  BY <1>7, SignalsAlternate DEF T, said

(* Where nothing was lost yet, the links are up and the signals agree.      *)
SignalsKept ==
  /\ losses \in Nat /\ takeDowns \in Nat
  /\ losses = 0 /\ takeDowns = 0 => (\A p \in Ports : m_linkUp[p]) /\ PauseSignalsAgree

(* What the types say of what is on the way to a peer.                      *)
LEMMA LineTyped ==
  ASSUME NodeType, NEW o \in Ports
  PROVE  /\ OnTheWay(o) \in Seq(Frames)
         /\ wireOut[o] \in Seq(Frames) /\ m_queue[o][0] \in Seq(Frames)
         /\ \A q \in Queues : peerPaused[o][q] \in BOOLEAN /\ paused[o][q] \in BOOLEAN
<1>1. wireOut[o] \in Seq(Frames) /\ m_queue[o][0] \in Seq(Frames)
  BY DEF NodeType, WiresTyped, QueuesTyped, PerPort, QIndex
<1>2. OnTheWay(o) \in Seq(Frames)
  BY <1>1, ConcatProperties DEF OnTheWay
<1> QED
  BY <1>1, <1>2 DEF NodeType, PeersTyped, PerPort, Mmu!TypeOK, Mmu!PerQueue

(* Appending to what follows is appending to the whole.                     *)
LEMMA AppendBehind ==
  ASSUME NEW s \in Seq(Frames), NEW t \in Seq(Frames), NEW frame \in Frames
  PROVE  s \o Append(t, frame) = Append(s \o t, frame)
OBVIOUS

(* A PFC frame is sent just when a pause state changes.                     *)
LEMMA PfcAppended ==
  ASSUME NodeType, paused' \in PerPort([Queues -> BOOLEAN]), NEW o \in Ports, NEW k \in Queues,
         \A q \in Queues : q # k => paused'[o][q] = paused[o][q],
         wireOut'[o] = wireOut[o], peerPaused' = peerPaused,
         m_queue'[o][0] = m_queue[o][0] \o PfcSent(o, k),
         NEW q \in Queues, SignalsAgree(OnTheWay(o), q, peerPaused[o][q], paused[o][q])
  PROVE  SignalsAgree(OnTheWay(o)', q, peerPaused'[o][q], paused'[o][q])
<1> DEFINE line == OnTheWay(o)
           frame == Pfc(k, paused'[o][k])
<1>1. /\ line \in Seq(Frames) /\ wireOut[o] \in Seq(Frames) /\ m_queue[o][0] \in Seq(Frames)
      /\ peerPaused[o][q] \in BOOLEAN /\ paused[o][q] \in BOOLEAN
      /\ paused'[o][q] \in BOOLEAN /\ paused'[o][k] \in BOOLEAN
  BY LineTyped DEF PerPort
<1>2. frame \in Frames /\ IsPfc(frame) /\ frame.pfcQueue = k
  BY <1>1, FrameFields DEF Frames
<1>3. CASE PfcSent(o, k) = <<>> /\ paused'[o][k] = paused[o][k]
  <2>1. OnTheWay(o)' = OnTheWay(o)
    BY <1>1, <1>3, ConcatEmptySeq DEF OnTheWay
  <2>2. paused'[o][q] = paused[o][q]
    BY <1>3
  <2> QED BY <2>1, <2>2
<1>4. CASE PfcSent(o, k) = <<frame>> /\ paused'[o][k] # paused[o][k]
  <2>1. OnTheWay(o)' = Append(line, frame)
    <3> HIDE DEF frame
    <3>1. m_queue'[o][0] = Append(m_queue[o][0], frame)
      BY <1>1, <1>2, <1>4
    <3> QED BY <1>1, <1>2, <3>1, AppendBehind DEF OnTheWay
  <2>2. CASE q = k
    <3>1. SignalsAgree(Append(line, Pfc(q, paused'[o][q])), q, peerPaused[o][q], paused'[o][q])
      <4> HIDE DEF line
      <4>1. SignalsAgree(line, q, peerPaused[o][q], paused[o][q])
        BY DEF line
      <4> QED BY <1>1, <1>4, <2>2, <4>1, SignalAppended, Zenon
    <3> QED BY <2>1, <2>2, <3>1
  <2>3. CASE q # k
    <3>1. SignalsAgree(Append(line, frame), q, peerPaused[o][q], paused[o][q])
      <4>1. SignalsAgree(line, q, peerPaused[o][q], paused[o][q])
        BY DEF line
      <4>2. ~(IsPfc(frame) /\ frame.pfcQueue = q)
        BY <1>2, <2>3
      <4> HIDE DEF line, frame
      <4> QED BY <1>1, <1>2, <4>1, <4>2, OtherFrameAppended, Zenon
    <3> QED BY <2>1, <2>3, <3>1
  <2> QED BY <2>2, <2>3
<1> QED
  BY <1>1, <1>3, <1>4, PfcSentCases DEF NodeType

(* Another frame is sent.                                                   *)
LEMMA DataAppended ==
  ASSUME NodeType, NEW o \in Ports, NEW frame \in Packets \cup ControlPackets,
         OnTheWay(o)' = Append(OnTheWay(o), frame),
         NEW q \in Queues, peerPaused'[o][q] = peerPaused[o][q], paused'[o][q] = paused[o][q],
         SignalsAgree(OnTheWay(o), q, peerPaused[o][q], paused[o][q])
  PROVE  SignalsAgree(OnTheWay(o)', q, peerPaused'[o][q], paused'[o][q])
<1>1. frame \in Frames /\ ~IsPfc(frame)
  BY FrameFields, Zenon DEF Frames
<1> DEFINE line == OnTheWay(o)
<1>2. line \in Seq(Frames) /\ SignalsAgree(line, q, peerPaused[o][q], paused[o][q])
  BY LineTyped
<1> HIDE DEF line
<1>3. SignalsAgree(Append(line, frame), q, peerPaused[o][q], paused[o][q])
  BY <1>1, <1>2, OtherFrameAppended, Zenon
<1> QED
  BY <1>3 DEF line

(* Forwarding a packet tells the port it came in by of a change, and no other. *)
LEMMA ForwardKeepsSignals ==
  ASSUME NodeType, NEW p \in Ports, ForwardPacket(p), PauseSignalsAgree
  PROVE  PauseSignalsAgree'
<1>1. PICK pkt \in Packets : Forwards(p, pkt)
  BY ForwardEffect DEF NodeType
<1>2. pkt.in = p /\ pkt.out \in Ports /\ pkt.q \in Queues /\ pkt.q # 0 /\ 0 \in QIndex
  BY <1>1, FrameFields DEF Forwards, QIndex
<1>3. /\ wireOut' = wireOut /\ peerPaused' = peerPaused
      /\ paused' \in PerPort([Queues -> BOOLEAN])
      /\ m_queue'[p][0] = m_queue[p][0] \o PfcSent(p, pkt.q)
      /\ \A o \in Ports : o # p => m_queue'[o][0] = m_queue[o][0]
  BY <1>1, <1>2 DEF Forwards, peerVars
<1>4. \A o \in Ports, q \in Queues : <<o, q>> # <<p, pkt.q>> => paused'[o][q] = paused[o][q]
  BY <1>1, <1>2, PauseChange DEF Forwards, NodeType
<1> SUFFICES ASSUME NEW o \in Ports, NEW q \in Queues
             PROVE  SignalsAgree(OnTheWay(o)', q, peerPaused'[o][q], paused'[o][q])
  BY Zenon DEF PauseSignalsAgree
<1>5. SignalsAgree(OnTheWay(o), q, peerPaused[o][q], paused[o][q])
  BY DEF PauseSignalsAgree
<1>6. CASE o = p
  <2>1. wireOut'[o] = wireOut[o] /\ \A k \in Queues : k # pkt.q => paused'[o][k] = paused[o][k]
    BY <1>3, <1>4, <1>6
  <2> QED BY <1>2, <1>3, <1>5, <1>6, <2>1, PfcAppended
<1>7. CASE o # p
  <2>1. OnTheWay(o)' = OnTheWay(o)
    BY <1>3, <1>7 DEF OnTheWay
  <2>2. paused'[o][q] = paused[o][q] /\ peerPaused'[o][q] = peerPaused[o][q]
    BY <1>3, <1>4, <1>7
  <2> QED BY <1>5, <2>1, <2>2
<1> QED
  BY <1>6, <1>7

(* So does transmitting one; the packet itself is no signal.                *)
LEMMA TransmitKeepsSignals ==
  ASSUME NodeType, NEW p \in Ports, TransmitPacket(p), PauseSignalsAgree
  PROVE  PauseSignalsAgree'
<1>1. PICK pkt \in Packets : Transmits(p, pkt)
  BY TransmitEffect DEF NodeType
<1>2. /\ pkt.out = p /\ pkt.in \in Ports /\ pkt.in # p
      /\ pkt.q \in Queues /\ pkt.q # 0 /\ 0 \in QIndex
  BY <1>1, FrameFields DEF Transmits, QIndex
<1>3. /\ wireOut' = [wireOut EXCEPT ![p] = Append(@, pkt)] /\ peerPaused' = peerPaused
      /\ paused' \in PerPort([Queues -> BOOLEAN])
      /\ m_queue'[pkt.in][0] = m_queue[pkt.in][0] \o PfcSent(pkt.in, pkt.q)
      /\ \A o \in Ports : o # pkt.in => m_queue'[o][0] = m_queue[o][0]
      /\ m_queue[p][0] = <<>>
  BY <1>1, <1>2 DEF Transmits, TransmitStart
<1>4. \A o \in Ports, q \in Queues : <<o, q>> # <<pkt.in, pkt.q>> => paused'[o][q] = paused[o][q]
  BY <1>1, <1>2, PauseChange DEF Transmits, NodeType
<1> SUFFICES ASSUME NEW o \in Ports, NEW q \in Queues
             PROVE  SignalsAgree(OnTheWay(o)', q, peerPaused'[o][q], paused'[o][q])
  BY Zenon DEF PauseSignalsAgree
<1>5. SignalsAgree(OnTheWay(o), q, peerPaused[o][q], paused[o][q])
  BY DEF PauseSignalsAgree
<1>6. CASE o = pkt.in
  <2>1. wireOut'[o] = wireOut[o] /\ \A k \in Queues : k # pkt.q => paused'[o][k] = paused[o][k]
    BY <1>2, <1>3, <1>4, <1>6 DEF NodeType, WiresTyped, PerPort
  <2>2. m_queue'[o][0] = m_queue[o][0] \o PfcSent(o, pkt.q)
    BY <1>3, <1>6
  <2>3. peerPaused' = peerPaused /\ paused' \in PerPort([Queues -> BOOLEAN]) /\ pkt.q \in Queues
    BY <1>2, <1>3
  <2> QED BY <1>5, <2>1, <2>2, <2>3, PfcAppended
<1>7. CASE o = p
  <2>1. OnTheWay(o)' = Append(OnTheWay(o), pkt)
    <3>1. wireOut[o] \in Seq(Frames) /\ pkt \in Frames
      BY LineTyped DEF Frames
    <3>2. m_queue'[o][0] = <<>> /\ m_queue[o][0] = <<>>
      BY <1>2, <1>3, <1>7
    <3>3. wireOut'[o] = Append(wireOut[o], pkt)
      BY <1>3, <1>7 DEF NodeType, WiresTyped, PerPort
    <3> QED BY <3>1, <3>2, <3>3 DEF OnTheWay
  <2>2. paused'[o][q] = paused[o][q] /\ peerPaused'[o][q] = peerPaused[o][q]
    BY <1>2, <1>3, <1>4, <1>7
  <2> QED BY <1>5, <2>1, <2>2, DataAppended
<1>8. CASE o # p /\ o # pkt.in
  <2>1. OnTheWay(o)' = OnTheWay(o)
    BY <1>3, <1>8 DEF OnTheWay, NodeType, WiresTyped, PerPort
  <2>2. paused'[o][q] = paused[o][q] /\ peerPaused'[o][q] = peerPaused[o][q]
    BY <1>3, <1>4, <1>8
  <2> QED BY <1>5, <2>1, <2>2
<1> QED
  BY <1>6, <1>7, <1>8

(* Control frames queue behind the signals, and queue 0 moves to the wire.  *)
LEMMA ControlKeepsSignals ==
  ASSUME NodeType, NEW p \in Ports, TransmitControl(p) \/ ForwardControl(p), PauseSignalsAgree
  PROVE  PauseSignalsAgree'
<1> SUFFICES ASSUME NEW o \in Ports, NEW q \in Queues
             PROVE  SignalsAgree(OnTheWay(o)', q, peerPaused'[o][q], paused'[o][q])
  BY Zenon DEF PauseSignalsAgree
<1>1. SignalsAgree(OnTheWay(o), q, peerPaused[o][q], paused[o][q])
  BY DEF PauseSignalsAgree
<1>2. paused'[o][q] = paused[o][q] /\ peerPaused'[o][q] = peerPaused[o][q]
  BY DEF TransmitControl, ForwardControl, mmuVars, peerVars
<1>3. wireOut[o] \in Seq(Frames) /\ m_queue[o][0] \in Seq(Frames) /\ 0 \in QIndex
  BY LineTyped DEF QIndex
<1>4. CASE TransmitControl(p)
  <2>1. NextQueue(m_queue[p], m_paused[p]) = 0 /\ CanTransmit(p)
    BY <1>4 DEF TransmitControl
  <2>2. m_queue[p][0] # <<>>
    BY <2>1, NextQueueMaySend DEF NodeType
  <2>3. /\ wireOut' = [wireOut EXCEPT ![p] = Append(@, Head(m_queue[p][0]))]
        /\ m_queue' = [m_queue EXCEPT ![p][0] = Tail(@)]
    BY <1>4 DEF TransmitControl, TransmitStart
  <2>4. OnTheWay(o)' = OnTheWay(o)
    <3>1. CASE o = p
      <4>1. wireOut'[o] = Append(wireOut[o], Head(m_queue[o][0])) /\ m_queue'[o][0] = Tail(m_queue[o][0])
        BY <1>3, <2>3, <3>1 DEF NodeType, WiresTyped, QueuesTyped, PerPort
      <4>2. \A s, t \in Seq(Frames) : t # <<>> => Append(s, Head(t)) \o Tail(t) = s \o t
        OBVIOUS
      <4> QED BY <1>3, <2>2, <3>1, <4>1, <4>2 DEF OnTheWay
    <3>2. CASE o # p
      BY <2>3, <3>2 DEF OnTheWay, NodeType, WiresTyped, QueuesTyped, PerPort
    <3> QED BY <3>1, <3>2
  <2> QED BY <1>1, <1>2, <2>4
<1>5. CASE ForwardControl(p)
  <2>1. PICK pkt \in ControlPackets :
          m_queue' = [m_queue EXCEPT ![pkt.out][0] = Append(@, pkt)] /\ UNCHANGED wireOut
    BY <1>5 DEF ForwardControl
  <2>2. pkt.out \in Ports /\ pkt \in Frames
    BY FrameFields DEF Frames
  <2>3. CASE o = pkt.out
    <3>1. m_queue'[o][0] = Append(m_queue[o][0], pkt) /\ wireOut'[o] = wireOut[o]
      BY <1>3, <2>1, <2>3 DEF NodeType, QueuesTyped, PerPort
    <3>2. OnTheWay(o)' = Append(OnTheWay(o), pkt)
      BY <1>3, <2>2, <3>1, AppendBehind DEF OnTheWay
    <3> QED BY <1>1, <1>2, <3>2, DataAppended
  <2>4. CASE o # pkt.out
    <3>1. OnTheWay(o)' = OnTheWay(o)
      BY <1>3, <2>1, <2>2, <2>4 DEF OnTheWay, NodeType, QueuesTyped, PerPort
    <3> QED BY <1>1, <1>2, <3>1
  <2> QED BY <2>3, <2>4
<1> QED
  BY <1>4, <1>5

(* The peer believes the oldest signal, which leaves the line.              *)
LEMMA ArrivalKeepsSignals ==
  ASSUME NodeType, NEW p \in Ports, PeerReceivePfc(p) \/ PeerReceivePacket(p), PauseSignalsAgree
  PROVE  PauseSignalsAgree'
<1>1. PICK frame \in Frames :
        /\ LeavesWire(p, frame)
        /\ \/ frame \in PfcFrames
               /\ peerPaused' = [peerPaused EXCEPT ![p][frame.pfcQueue] = frame.pause]
           \/ frame \in Packets \cup ControlPackets /\ peerPaused' = peerPaused
        /\ paused' = paused /\ m_queue' = m_queue
  BY DEF PeerReceivePfc, PeerReceivePacket, Frames, mmuVars, peerVars, portVars
<1>2. /\ wireOut[p] \in Seq(Frames) /\ m_queue[p][0] \in Seq(Frames)
      /\ wireOut[p] # <<>> /\ frame = Head(wireOut[p])
      /\ wireOut' = [wireOut EXCEPT ![p] = Tail(@)]
  <2>1. wireOut[p] \in Seq(Frames) /\ m_queue[p][0] \in Seq(Frames)
    BY LineTyped
  <2>2. Len(wireOut[p]) > 0
    BY <1>1, <2>1 DEF LeavesWire
  <2> QED BY <1>1, <2>1, <2>2 DEF LeavesWire
<1> SUFFICES ASSUME NEW o \in Ports, NEW q \in Queues
             PROVE  SignalsAgree(OnTheWay(o)', q, peerPaused'[o][q], paused'[o][q])
  BY Zenon DEF PauseSignalsAgree
<1>3. SignalsAgree(OnTheWay(o), q, peerPaused[o][q], paused[o][q])
  BY DEF PauseSignalsAgree
<1>4. paused'[o][q] = paused[o][q]
  BY <1>1
<1>5. frame \in PfcFrames <=> IsPfc(frame)
  BY FrameFields, Zenon DEF Frames
<1>6. CASE o = p
  <2> DEFINE line == OnTheWay(o)
             now == IF IsPfc(Head(line)) /\ Head(line).pfcQueue = q
                    THEN Head(line).pause ELSE peerPaused[o][q]
  <2>1. line \in Seq(Frames) /\ line # <<>> /\ Head(line) = frame
    <3>1. \A s, t \in Seq(Frames) : s # <<>> =>
            /\ s \o t \in Seq(Frames) /\ s \o t # <<>> /\ Head(s \o t) = Head(s)
      OBVIOUS
    <3> QED BY <1>2, <1>6, <3>1 DEF OnTheWay
  <2>2. OnTheWay(o)' = Tail(line)
    <3>1. wireOut'[o] = Tail(wireOut[o]) /\ m_queue'[o][0] = m_queue[o][0]
      BY <1>1, <1>2, <1>6 DEF NodeType, WiresTyped, PerPort
    <3>2. \A s, t \in Seq(Frames) : s # <<>> => Tail(s \o t) = Tail(s) \o t
      OBVIOUS
    <3> QED BY <1>2, <1>6, <3>1, <3>2 DEF OnTheWay
  <2>3. peerPaused'[o][q] = now
    <3>1. peerPaused \in PerPort([Queues -> BOOLEAN])
      BY DEF NodeType, PeersTyped
    <3>2. CASE frame \in PfcFrames
      <4>1. peerPaused' = [peerPaused EXCEPT ![p][frame.pfcQueue] = frame.pause]
        BY <1>1, <3>2, FrameFields
      <4> QED BY <1>5, <1>6, <2>1, <3>1, <3>2, <4>1 DEF PerPort
    <3>3. CASE frame \notin PfcFrames
      <4>1. peerPaused' = peerPaused
        BY <1>1, <3>3
      <4> QED BY <1>5, <2>1, <3>3, <4>1
    <3> QED BY <3>2, <3>3
  <2>4. SignalsAgree(Tail(line), q, now, paused[o][q])
    <3>1. peerPaused[o][q] \in BOOLEAN /\ paused[o][q] \in BOOLEAN
      BY LineTyped
    <3>2. SignalsAgree(line, q, peerPaused[o][q], paused[o][q])
      BY <1>3
    <3> HIDE DEF line
    <3> QED BY <2>1, <3>1, <3>2, HeadHeard, Zenon
  <2> QED BY <1>4, <2>2, <2>3, <2>4
<1>7. CASE o # p
  <2>1. OnTheWay(o)' = OnTheWay(o)
    BY <1>1, <1>2, <1>7 DEF OnTheWay, NodeType, WiresTyped, PerPort
  <2>2. peerPaused'[o][q] = peerPaused[o][q]
    BY <1>1, <1>7 DEF NodeType, PeersTyped, PerPort
  <2> QED BY <1>3, <1>4, <2>1, <2>2
<1> QED
  BY <1>6, <1>7

(* What no action that sends or receives a signal does.                     *)
LEMMA RestKeepsSignals ==
  ASSUME UNCHANGED <<paused, peerPaused, m_queue, wireOut>>, PauseSignalsAgree
  PROVE  PauseSignalsAgree'
<1> SUFFICES ASSUME NEW o \in Ports, NEW q \in Queues
             PROVE  SignalsAgree(OnTheWay(o)', q, peerPaused'[o][q], paused'[o][q])
  BY Zenon DEF PauseSignalsAgree
<1>1. OnTheWay(o)' = OnTheWay(o)
  BY DEF OnTheWay
<1>2. SignalsAgree(OnTheWay(o), q, peerPaused[o][q], paused[o][q])
  BY DEF PauseSignalsAgree
<1> QED
  BY <1>1, <1>2

(* Losses and links taken down only grow, by one at a time.                 *)
LEMMA BoundsStep ==
  ASSUME NodeType, Next
  PROVE  /\ losses' = losses \/ losses' = losses + 1
         /\ takeDowns' = takeDowns \/ takeDowns' = takeDowns + 1
<1>1. PICK p \in Ports :
         \/ ForwardPacket(p)
         \/ calls # <<>> /\ p = Head(calls) /\ TransmitPacket(p)
         \/ calls # <<>> /\ p = Head(calls) /\ TransmitControl(p)
         \/ ForwardControl(p)
         \/ TakeDown(p)
         \/ calls # <<>> /\ p = Head(calls) /\ Returns(p)
         \/ ReceivePfc(p) \/ DropPacket(p) \/ TransmitComplete(p)
         \/ PeerSend(p) \/ PeerSendControl(p)
         \/ \E q \in Queues, pause \in BOOLEAN : PeerSendPfc(p, q, pause)
         \/ PeerReceivePfc(p) \/ PeerReceivePacket(p) \/ Corrupt(p) \/ DeadLink(p)
  BY StepKinds
<1>2. CASE TakeDown(p)
  BY <1>2 DEF TakeDown
<1>3. CASE Corrupt(p)
  BY <1>3 DEF Corrupt
<1>4. CASE ~TakeDown(p) /\ ~Corrupt(p)
  <2>1. UNCHANGED <<losses, takeDowns>>
    BY <1>1, <1>4, Zenon
       DEF bounds, ForwardPacket, TransmitPacket, TransmitControl, ForwardControl,
           Returns, ReceivePfc, DropPacket, TransmitComplete, PeerSend, PeerSendControl,
           PeerSendPfc, PeerReceivePfc, PeerReceivePacket, DeadLink
  <2> QED BY <2>1
<1> QED
  BY <1>2, <1>3, <1>4

(* Every step keeps the signals.                                            *)
LEMMA SignalStep ==
  ASSUME NodeType, SignalsKept, Next
  PROVE  SignalsKept'
<1>1. PICK p \in Ports :
         \/ ForwardPacket(p)
         \/ calls # <<>> /\ p = Head(calls) /\ TransmitPacket(p)
         \/ calls # <<>> /\ p = Head(calls) /\ TransmitControl(p)
         \/ ForwardControl(p)
         \/ TakeDown(p)
         \/ calls # <<>> /\ p = Head(calls) /\ Returns(p)
         \/ ReceivePfc(p) \/ DropPacket(p) \/ TransmitComplete(p)
         \/ PeerSend(p) \/ PeerSendControl(p)
         \/ \E q \in Queues, pause \in BOOLEAN : PeerSendPfc(p, q, pause)
         \/ PeerReceivePfc(p) \/ PeerReceivePacket(p) \/ Corrupt(p) \/ DeadLink(p)
  BY StepKinds
<1>2. CASE TakeDown(p)
  <2>1. losses' = losses /\ takeDowns' = takeDowns + 1
    BY <1>2 DEF TakeDown
  <2> QED BY <2>1 DEF SignalsKept
<1>3. CASE Corrupt(p)
  <2>1. losses' = losses + 1 /\ takeDowns' = takeDowns
    BY <1>3 DEF Corrupt
  <2> QED BY <2>1 DEF SignalsKept
<1>4. CASE ~TakeDown(p) /\ ~Corrupt(p)
  <2>1. UNCHANGED <<losses, takeDowns, m_linkUp>>
    BY <1>1, <1>4, Zenon
       DEF bounds, portVars, ForwardPacket, TransmitPacket, TransmitControl, ForwardControl,
           Returns, ReceivePfc, DropPacket, TransmitComplete, PeerSend, PeerSendControl,
           PeerSendPfc, PeerReceivePfc, PeerReceivePacket, DeadLink
  <2>2. ASSUME PauseSignalsAgree, \A o \in Ports : m_linkUp[o] PROVE PauseSignalsAgree'
    <3>1. CASE ForwardPacket(p)
      BY <2>2, <3>1, ForwardKeepsSignals
    <3>2. CASE TransmitPacket(p)
      BY <2>2, <3>2, TransmitKeepsSignals
    <3>3. CASE TransmitControl(p) \/ ForwardControl(p)
      BY <2>2, <3>3, ControlKeepsSignals
    <3>4. CASE PeerReceivePfc(p) \/ PeerReceivePacket(p)
      BY <2>2, <3>4, ArrivalKeepsSignals
    <3>5. CASE \/ Returns(p) \/ ReceivePfc(p) \/ DropPacket(p) \/ TransmitComplete(p)
               \/ PeerSend(p) \/ PeerSendControl(p)
               \/ \E q \in Queues, pause \in BOOLEAN : PeerSendPfc(p, q, pause)
      <4>1. UNCHANGED <<paused, peerPaused, m_queue, wireOut>>
        BY <3>5, Zenon
           DEF mmuVars, portVars, peerVars, Returns, ReceivePfc, DropPacket, TransmitComplete,
               PeerSend, PeerSendControl, PeerSendPfc
      <4> QED BY <2>2, <4>1, RestKeepsSignals
    <3>6. ~DeadLink(p)
      BY <2>2 DEF DeadLink
    <3> QED BY <1>1, <1>4, <3>1, <3>2, <3>3, <3>4, <3>5, <3>6
  <2> QED BY <2>1, <2>2 DEF SignalsKept
<1> QED
  BY <1>2, <1>3, <1>4

(* It always does.                                                          *)
LEMMA SignalsLast == Spec => []SignalsKept
<1>1. Init => SignalsKept
  <2> SUFFICES ASSUME Init PROVE SignalsKept
    OBVIOUS
  <2>1. ASSUME NEW o \in Ports, NEW q \in Queues
        PROVE  SignalsAgree(OnTheWay(o), q, peerPaused[o][q], paused[o][q])
    <3>1. wireOut[o] = <<>> /\ m_queue[o][0] = <<>>
      BY DEF Init, QIndex
    <3>2. PfcAt(OnTheWay(o), q) = {}
      BY <3>1 DEF OnTheWay, PfcAt
    <3>3. peerPaused[o][q] = FALSE /\ paused[o][q] = FALSE
      BY DEF Init, Mmu!Init
    <3> QED BY <3>2, <3>3 DEF SignalsAgree
  <2> QED BY <2>1 DEF Init, SignalsKept, PauseSignalsAgree
<1>2. NodeType /\ SignalsKept /\ [Next]_vars => SignalsKept'
  <2>1. ASSUME SignalsKept, UNCHANGED vars PROVE SignalsKept'
    <3>1. UNCHANGED <<paused, peerPaused, m_queue, wireOut, losses, takeDowns, m_linkUp>>
      BY <2>1 DEF vars, mmuVars, portVars, peerVars, bounds
    <3> QED BY <2>1, <3>1, RestKeepsSignals DEF SignalsKept
  <2> QED BY <2>1, SignalStep
<1> QED
  BY <1>1, <1>2, TypeKept, PTL DEF Spec

(* As long as no frame is lost and no link is taken down, the PFC frames on *)
(* the way account for every difference between what the MMU means and what *)
(* the peer believes (SendPfc and Receive of qbb-net-device.cc).            *)
THEOREM SignalsNeverDisagree ==
  Spec => [](losses = 0 /\ takeDowns = 0 => PauseSignalsAgree)
<1>1. SignalsKept => (losses = 0 /\ takeDowns = 0 => PauseSignalsAgree)
  BY DEF SignalsKept
<1> QED
  BY <1>1, SignalsLast, PTL

(* As long, the assertion of Resume holds at the peer: a RESUME that arrives *)
(* finds the queue paused (qbb-net-device.cc:596).                          *)
THEOREM ResumeFindsPaused ==
  Spec => [](losses = 0 /\ takeDowns = 0 => MustBePaused)
<1>1. NodeType /\ PauseSignalsAgree => MustBePaused
  <2> SUFFICES ASSUME NodeType, PauseSignalsAgree, NEW p \in Ports, NEW q \in Queues,
                      wireOut[p] # <<>>, Head(wireOut[p]) = Pfc(q, FALSE)
               PROVE  peerPaused[p][q]
    BY DEF MustBePaused
  <2> DEFINE line == OnTheWay(p)
  <2>1. /\ wireOut[p] \in Seq(Frames) /\ m_queue[p][0] \in Seq(Frames)
        /\ peerPaused[p][q] \in BOOLEAN /\ line \in Seq(Frames)
    BY LineTyped
  <2>2. line[1] = Pfc(q, FALSE) /\ 1 \in DOMAIN line /\ \A i \in DOMAIN line : 1 <= i
    <3>1. \A s, t \in Seq(Frames) : s # <<>> =>
            /\ (s \o t)[1] = Head(s) /\ 1 \in DOMAIN (s \o t)
            /\ \A i \in DOMAIN (s \o t) : 1 <= i
      OBVIOUS
    <3> QED BY <2>1, <3>1 DEF OnTheWay
  <2>3. SignalsAgree(line, q, peerPaused[p][q], paused[p][q])
    BY DEF PauseSignalsAgree
  <2> HIDE DEF line
  <2>4. 1 \in PfcAt(line, q) /\ line[1].pause = FALSE
    <3>1. Pfc(q, FALSE) \in PfcFrames /\ Pfc(q, FALSE).pfcQueue = q /\ Pfc(q, FALSE).pause = FALSE
      BY FrameFields
    <3>2. IsPfc(Pfc(q, FALSE))
      BY <3>1, FrameFields
    <3> QED BY <2>2, <3>1, <3>2 DEF PfcAt
  <2>5. \A j \in PfcAt(line, q) : 1 <= j
    BY <2>2 DEF PfcAt
  <2>6. line[1].pause # peerPaused[p][q]
    BY <2>3, <2>4, <2>5 DEF SignalsAgree
  <2> QED BY <2>1, <2>4, <2>6
<1> QED
  BY <1>1, SignalsNeverDisagree, TypeKept, PTL

-----------------------------------------------------------------------------
(* The bytes counted for each pair of ports and queue *)

(* A number below the modulus is its own remainder.                         *)
LEMMA SmallRemainder ==
  ASSUME NEW W \in Nat \ {0}, NEW x \in Nat, x < W
  PROVE  x % W = x
OBVIOUS

(* The bytes of a queue that came in by one port.                           *)
BytesFrom(queue, in) ==
  SumFunction([i \in DOMAIN queue |-> IF queue[i].in = in THEN queue[i].size ELSE 0])

(* A queue's bytes are its terms, summed over 1 to its length.              *)
LEMMA BytesFromTerms ==
  ASSUME NEW queue \in Seq(Packets), NEW in
  PROVE  LET f == [i \in 1..Len(queue) |-> IF queue[i].in = in THEN queue[i].size ELSE 0]
         IN  /\ BytesFrom(queue, in) = SumFunctionOnSet(f, 1..Len(queue))
             /\ \A i \in 1..Len(queue) : f[i] \in Nat
             /\ BytesFrom(queue, in) \in Nat
<1> DEFINE f == [i \in 1..Len(queue) |-> IF queue[i].in = in THEN queue[i].size ELSE 0]
<1>1. DOMAIN queue = 1..Len(queue) /\ Len(queue) \in Nat
  OBVIOUS
<1>2. BytesFrom(queue, in) = SumFunctionOnSet(f, 1..Len(queue))
  BY <1>1 DEF BytesFrom, SumFunction
<1>3. \A i \in 1..Len(queue) : f[i] \in Nat
  BY <1>1, FrameFields
<1>4. SumFunctionOnSet(f, 1..Len(queue)) \in Nat
  <2>1. IsFiniteSet(1..Len(queue))
    BY <1>1, FS_Interval
  <2> DEFINE S == 1..Len(queue)
  <2> HIDE DEF f, S
  <2>2. SumFunctionOnSet(f, S) \in Nat
    BY <1>3, <2>1, SumNat DEF S
  <2> QED BY <2>2 DEF S
<1> QED
  BY <1>2, <1>3, <1>4

(* A packet more at the tail.                                               *)
LEMMA BytesFromAppend ==
  ASSUME NEW queue \in Seq(Packets), NEW pkt \in Packets, NEW in
  PROVE  BytesFrom(Append(queue, pkt), in)
           = BytesFrom(queue, in) + (IF pkt.in = in THEN pkt.size ELSE 0)
<1> DEFINE n == Len(queue)
           new == Append(queue, pkt)
           g == [i \in 1..n |-> IF queue[i].in = in THEN queue[i].size ELSE 0]
           f == [i \in 1..(n + 1) |-> IF new[i].in = in THEN new[i].size ELSE 0]
<1>1. n \in Nat /\ new \in Seq(Packets) /\ Len(new) = n + 1
  OBVIOUS
<1>2. /\ BytesFrom(queue, in) = SumFunctionOnSet(g, 1..n)
      /\ BytesFrom(queue, in) \in Nat
  BY BytesFromTerms
<1>3. new[n + 1] = pkt /\ \A i \in 1..n : new[i] = queue[i]
  OBVIOUS
<1> HIDE DEF new, n
<1>4. /\ BytesFrom(new, in) = SumFunctionOnSet(f, 1..(n + 1))
      /\ \A i \in 1..(n + 1) : f[i] \in Nat
  BY <1>1, BytesFromTerms
<1>5. \A i \in 1..n : g[i] = f[i]
  BY <1>1, <1>3
<1>6. f[n + 1] = IF pkt.in = in THEN pkt.size ELSE 0
  BY <1>1, <1>3
<1>7. \A i \in 1..(n + 1) : f[i] \in Int
  BY <1>4
<1> HIDE DEF f, g
<1>8. SumFunctionOnSet(f, 1..(n + 1)) = f[n + 1] + SumFunctionOnSet(g, 1..n)
  BY <1>1, <1>5, <1>7, SumLast
<1>9. BytesFrom(new, in) = BytesFrom(queue, in) + (IF pkt.in = in THEN pkt.size ELSE 0)
  <2>1. pkt.size \in Nat
    BY FrameFields
  <2> QED BY <1>2, <1>4, <1>6, <1>8, <2>1
<1> QED
  BY <1>9 DEF new

(* A packet less at the head.                                               *)
LEMMA BytesFromTail ==
  ASSUME NEW queue \in Seq(Packets), queue # <<>>, NEW in
  PROVE  BytesFrom(queue, in)
           = BytesFrom(Tail(queue), in) + (IF Head(queue).in = in THEN Head(queue).size ELSE 0)
<1> DEFINE n == Len(queue) - 1
           rest == Tail(queue)
           g == [i \in 1..n |-> IF rest[i].in = in THEN rest[i].size ELSE 0]
           f == [i \in 1..(n + 1) |-> IF queue[i].in = in THEN queue[i].size ELSE 0]
<1>1. n \in Nat /\ rest \in Seq(Packets) /\ Len(rest) = n /\ Len(queue) = n + 1
  OBVIOUS
<1>2. Head(queue) = queue[1] /\ \A i \in 1..n : rest[i] = queue[i + 1]
  OBVIOUS
<1> HIDE DEF rest, n
<1>3. /\ BytesFrom(queue, in) = SumFunctionOnSet(f, 1..(n + 1))
      /\ \A i \in 1..(n + 1) : f[i] \in Nat
  BY <1>1, BytesFromTerms
<1>4. BytesFrom(rest, in) = SumFunctionOnSet(g, 1..n) /\ BytesFrom(rest, in) \in Nat
  BY <1>1, BytesFromTerms
<1>5. \A i \in 1..n : g[i] = f[i + 1]
  BY <1>1, <1>2
<1>6. f[1] = IF Head(queue).in = in THEN Head(queue).size ELSE 0
  BY <1>1, <1>2
<1>7. /\ \A i \in 1..(n + 1) : f[i] \in Int
      /\ f[1] \in Nat
  BY <1>1, <1>3
<1> HIDE DEF f, g
<1>8. SumFunctionOnSet(f, 1..(n + 1)) = f[1] + SumFunctionOnSet(g, 1..n)
  BY <1>1, <1>5, <1>7, SumFirst
<1>9. BytesFrom(queue, in) = BytesFrom(rest, in) + f[1]
  BY <1>3, <1>4, <1>7, <1>8
<1> QED
  BY <1>6, <1>9 DEF rest

(* The empty queue has no bytes.                                            *)
LEMMA BytesFromEmpty == \A in : BytesFrom(<<>>, in) = 0
<1> SUFFICES ASSUME NEW in PROVE BytesFrom(<<>>, in) = 0
  OBVIOUS
<1> DEFINE f == [i \in DOMAIN <<>> |-> IF <<>>[i].in = in THEN <<>>[i].size ELSE 0]
<1>1. DOMAIN f = {}
  OBVIOUS
<1>2. SumFunction(f) = 0
  <2> HIDE DEF f
  <2> QED BY <1>1, SumEmpty DEF SumFunction
<1> QED
  BY <1>2 DEF BytesFrom

(* QueuedBytes, by its queue.                                               *)
LEMMA QueuedBytesFrom ==
  /\ \A in, out, q : QueuedBytes(in, out, q) = BytesFrom(m_queue[out][q], in)
  /\ \A in, out, q : QueuedBytes(in, out, q)' = BytesFrom(m_queue'[out][q], in)
BY Zenon DEF QueuedBytes, BytesFrom

(* The packets of one pair of ports and one queue, by the MMU's books.      *)
Between(in, out, q) == {pkt \in Packets : pkt.in = in /\ pkt.out = out /\ pkt.q = q}

(* Until a link goes down, m_bytes, the queues and the MMU's books agree.   *)
BytesExact ==
  /\ takeDowns \in Nat
  /\ takeDowns = 0 =>
       \A in, out \in Ports, q \in Queues :
         /\ QueuedBytes(in, out, q) = P!BytesHeld(Between(in, out, q))
         /\ m_bytes[in][out][q] = QueuedBytes(in, out, q)

(* A pair's bytes are part of the buffer's.                                 *)
LEMMA BetweenWithinBuffer ==
  ASSUME NodeType, NeverUndercounts, NEW in, NEW out, NEW q
  PROVE  /\ P!BytesHeld(Between(in, out, q)) \in Nat
         /\ P!BytesHeld(Between(in, out, q)) <= bufferPool
<1> DEFINE S == Between(in, out, q)
<1>1. P!TypeOK
  BY SameType DEF NodeType
<1>2. S \in SUBSET Packets /\ Packets \in SUBSET Packets
  BY DEF Between
<1> HIDE DEF S
<1>3. P!BytesHeld(S) \in Nat /\ P!BytesHeld(Packets) \in Nat
  BY <1>1, <1>2, SamePackets, SameConfig, P!BytesHeldIsNat
<1>4. P!BytesHeld(S) <= P!BytesHeld(Packets)
  BY <1>1, <1>2, SamePackets, SameConfig, P!BytesHeldPart
<1>5. P!BytesHeld(Packets) <= bufferPool
  <2>1. totalUsed >= P!BytesHeld(Packets) /\ totalUsed <= bufferPool
    BY SameBytes DEF NeverUndercounts
  <2>2. totalUsed \in Nat /\ bufferPool \in Nat
    BY <1>1, SameConfig DEF P!TypeOK, P!ConfigAssumption
  <2> QED BY <1>3, <2>1, <2>2
<1>6. bufferPool \in Nat
  BY SameConfig DEF P!ConfigAssumption
<1>7. P!BytesHeld(S) <= bufferPool
  BY <1>3, <1>4, <1>5, <1>6
<1> QED
  BY <1>3, <1>7 DEF S

(* Data queues hold packets.                                                *)
LEMMA DataQueue ==
  ASSUME NodeType, NEW out \in Ports, NEW q \in Queues
  PROVE  /\ m_queue[out][q] \in Seq(Packets) /\ q \in QIndex /\ q # 0
         /\ \A in : QueuedBytes(in, out, q) \in Nat
<1>1. q \in QIndex /\ q # 0
  BY NodeAssumption DEF QIndex
<1>2. m_queue[out][q] \in Seq(QueueFrames(out, q)) /\ QueueFrames(out, q) \subseteq Packets
  BY <1>1 DEF NodeType, QueuesTyped, QueueFrames
<1>3. m_queue[out][q] \in Seq(Packets)
  BY <1>2, SeqMonotonic
<1>4. \A in : BytesFrom(m_queue[out][q], in) \in Nat
  BY <1>3, BytesFromTerms
<1> QED
  BY <1>1, <1>3, <1>4, QueuedBytesFrom

(* No pair has more bytes than the buffer.                                  *)
BytesBounded ==
  \A in, out \in Ports, q \in Queues :
    /\ QueuedBytes(in, out, q) \in Nat
    /\ P!BytesHeld(Between(in, out, q)) \in Nat
    /\ P!BytesHeld(Between(in, out, q)) <= bufferPool

(* A packet forwarded is counted where it is queued.                        *)
LEMMA ForwardCounts ==
  ASSUME bufferPool < W32, NodeType, BytesBounded', BytesExact,
         takeDowns = 0, NEW p \in Ports, ForwardPacket(p),
         NEW in \in Ports, NEW out \in Ports, NEW q \in Queues
  PROVE  /\ QueuedBytes(in, out, q)' = P!BytesHeld(Between(in, out, q))'
         /\ m_bytes'[in][out][q] = QueuedBytes(in, out, q)'
<1>1. PICK pkt \in Packets : Forwards(p, pkt)
  BY ForwardEffect DEF NodeType
<1>2. /\ pkt.in = p /\ pkt.out \in Ports /\ pkt.q \in Queues /\ pkt.q \in QIndex /\ pkt.q # 0
      /\ pkt.size \in Nat
  BY <1>1, FrameFields DEF Forwards
<1> DEFINE Mine == pkt \in Between(in, out, q)
           more == IF Mine THEN pkt.size ELSE 0
<1>3. Mine <=> pkt.in = in /\ pkt.out = out /\ pkt.q = q
  BY DEF Between
<1>4. QueuedBytes(in, out, q)' = QueuedBytes(in, out, q) + more
  <2>1. CASE pkt.out = out /\ pkt.q = q
    <3>1. m_queue'[out][q] = Append(m_queue[out][q], pkt)
      BY <1>1, <2>1, Zenon DEF Forwards
    <3>2. m_queue[out][q] \in Seq(Packets)
      BY DataQueue
    <3>3. BytesFrom(m_queue'[out][q], in)
            = BytesFrom(m_queue[out][q], in) + (IF pkt.in = in THEN pkt.size ELSE 0)
      BY <3>1, <3>2, BytesFromAppend
    <3> QED BY <1>3, <2>1, <3>3, QueuedBytesFrom
  <2>2. CASE ~(pkt.out = out /\ pkt.q = q)
    <3>1. m_queue'[out][q] = m_queue[out][q]
      BY <1>1, <1>2, <2>2, DataQueue DEF Forwards
    <3>2. QueuedBytes(in, out, q)' = QueuedBytes(in, out, q)
      BY <3>1, QueuedBytesFrom, Zenon
    <3>3. QueuedBytes(in, out, q) \in Nat
      BY DataQueue
    <3> QED BY <1>3, <2>2, <3>2, <3>3
  <2> QED BY <2>1, <2>2
<1>5. P!BytesHeld(Between(in, out, q))' = P!BytesHeld(Between(in, out, q)) + more
  <2>1. P!TypeOK /\ P!Admit(pkt)
    BY <1>1, SameType, SameSteps, ForwardAdmits DEF NodeType
  <2>2. Between(in, out, q) \in SUBSET Packets
    BY DEF Between
  <2> HIDE DEF Between
  <2> QED BY <2>1, <2>2, SamePackets, SameConfig, P!HeldAfterAdmit
<1>6. /\ QueuedBytes(in, out, q) = P!BytesHeld(Between(in, out, q))
      /\ m_bytes[in][out][q] = QueuedBytes(in, out, q) /\ QueuedBytes(in, out, q) \in Nat
  BY DataQueue DEF BytesExact
<1>7. QueuedBytes(in, out, q)' = P!BytesHeld(Between(in, out, q))'
  BY <1>4, <1>5, <1>6
<1>8. QueuedBytes(in, out, q)' \in Nat /\ QueuedBytes(in, out, q)' < W32
  <2>1. /\ P!BytesHeld(Between(in, out, q))' \in Nat
        /\ P!BytesHeld(Between(in, out, q))' <= bufferPool
    BY Zenon DEF BytesBounded
  <2>2. bufferPool \in Nat
    BY SameConfig DEF P!ConfigAssumption
  <2> QED BY <1>7, <2>1, <2>2, NodeAssumption
<1>9. m_bytes'[in][out][q] = QueuedBytes(in, out, q)'
  <2>1. /\ m_bytes' = [m_bytes EXCEPT ![p][pkt.out][pkt.q] = (@ + pkt.size) % W32]
        /\ m_bytes \in PerPort(PerPort([QIndex -> 0..(W32 - 1)])) /\ q \in QIndex
    BY <1>1, DataQueue DEF Forwards, AddBytes, NodeType, BytesTyped
  <2>2. CASE Mine
    <3>1. m_bytes'[in][out][q] = (m_bytes[in][out][q] + pkt.size) % W32
      BY <1>2, <1>3, <2>1, <2>2 DEF PerPort
    <3>2. QueuedBytes(in, out, q)' = m_bytes[in][out][q] + pkt.size
      BY <1>4, <1>6, <2>2
    <3> QED BY <1>8, <3>1, <3>2, SmallRemainder, NodeAssumption
  <2>3. CASE ~Mine
    <3>1. m_bytes'[in][out][q] = m_bytes[in][out][q]
      BY <1>2, <1>3, <2>1, <2>3 DEF PerPort
    <3> QED BY <1>4, <1>6, <2>3, <3>1
  <2> QED BY <2>2, <2>3
<1> QED
  BY <1>7, <1>9

(* A packet transmitted is discounted where it was counted.                 *)
LEMMA TransmitCounts ==
  ASSUME bufferPool < W32, NodeType, BytesBounded', BytesExact,
         takeDowns = 0, NEW p \in Ports, TransmitPacket(p),
         NEW in \in Ports, NEW out \in Ports, NEW q \in Queues
  PROVE  /\ QueuedBytes(in, out, q)' = P!BytesHeld(Between(in, out, q))'
         /\ m_bytes'[in][out][q] = QueuedBytes(in, out, q)'
<1>1. PICK pkt \in Packets : Transmits(p, pkt)
  BY TransmitEffect DEF NodeType
<1>2. /\ pkt.in \in Ports /\ pkt.out = p /\ pkt.q \in Queues /\ pkt.q \in QIndex /\ pkt.q # 0
      /\ pkt.size \in Nat
  BY <1>1, FrameFields DEF Transmits
<1> DEFINE Mine == pkt \in Between(in, out, q)
           less == IF Mine THEN pkt.size ELSE 0
<1>3. Mine <=> pkt.in = in /\ pkt.out = out /\ pkt.q = q
  BY DEF Between
<1>4. /\ QueuedBytes(in, out, q) = QueuedBytes(in, out, q)' + less
      /\ QueuedBytes(in, out, q)' \in Nat
  <2>0. QueuedBytes(in, out, q)' \in Nat
    BY Zenon DEF BytesBounded
  <2>1. CASE pkt.out = out /\ pkt.q = q
    <3>1. /\ m_queue'[out][q] = Tail(m_queue[out][q])
          /\ m_queue[out][q] # <<>> /\ Head(m_queue[out][q]) = pkt
      BY <1>1, <1>2, <2>1, Zenon DEF Transmits
    <3>2. m_queue[out][q] \in Seq(Packets)
      BY DataQueue
    <3>3. BytesFrom(m_queue[out][q], in)
            = BytesFrom(m_queue'[out][q], in) + (IF pkt.in = in THEN pkt.size ELSE 0)
      BY <3>1, <3>2, BytesFromTail
    <3> QED BY <1>3, <2>0, <2>1, <3>3, QueuedBytesFrom
  <2>2. CASE ~(pkt.out = out /\ pkt.q = q)
    <3>1. m_queue'[out][q] = m_queue[out][q]
      BY <1>1, <1>2, <2>2, DataQueue DEF Transmits
    <3>2. QueuedBytes(in, out, q)' = QueuedBytes(in, out, q)
      BY <3>1, QueuedBytesFrom, Zenon
    <3> QED BY <1>3, <2>0, <2>2, <3>2
  <2> QED BY <2>1, <2>2
<1>5. P!BytesHeld(Between(in, out, q))' = P!BytesHeld(Between(in, out, q)) - less
  <2>1. P!TypeOK /\ P!Release(pkt)
    BY <1>1, SameType, SameSteps, TransmitReleases DEF NodeType
  <2>2. Between(in, out, q) \in SUBSET Packets
    BY DEF Between
  <2> DEFINE S == Between(in, out, q)
  <2> HIDE DEF S
  <2>3. P!BytesHeld(S)' = IF pkt \in S THEN P!Monus(P!BytesHeld(S), pkt.size) ELSE P!BytesHeld(S)
    BY <2>1, <2>2, SamePackets, SameConfig, P!HeldAfterRelease DEF S
  <2>4. P!BytesHeld(S) \in Nat /\ (pkt \in S => P!BytesHeld(S) >= pkt.size)
    <3>1. [k \in Packets |-> Copies(k)][pkt] > 0
      BY <2>1 DEF P!Release
    <3>2. S \in SUBSET Packets
      BY <2>2 DEF S
    <3> QED BY <2>1, <3>1, <3>2, SamePackets, SameConfig, P!BytesHeldIsNat
  <2>5. P!BytesHeld(S)' = P!BytesHeld(S) - (IF pkt \in S THEN pkt.size ELSE 0)
    BY <1>2, <2>3, <2>4 DEF P!Monus
  <2> QED BY <2>5 DEF S
<1>6. /\ QueuedBytes(in, out, q) = P!BytesHeld(Between(in, out, q))
      /\ m_bytes[in][out][q] = QueuedBytes(in, out, q)
  BY DEF BytesExact
<1>7. QueuedBytes(in, out, q)' = P!BytesHeld(Between(in, out, q))'
  BY <1>2, <1>4, <1>5, <1>6
<1>8. QueuedBytes(in, out, q)' < W32
  <2>1. /\ P!BytesHeld(Between(in, out, q))' \in Nat
        /\ P!BytesHeld(Between(in, out, q))' <= bufferPool
    BY Zenon DEF BytesBounded
  <2>2. bufferPool \in Nat
    BY SameConfig DEF P!ConfigAssumption
  <2> QED BY <1>7, <2>1, <2>2, NodeAssumption
<1>9. m_bytes'[in][out][q] = QueuedBytes(in, out, q)'
  <2>1. /\ m_bytes' = [m_bytes EXCEPT ![pkt.in][p][pkt.q] = (@ + (-pkt.size)) % W32]
        /\ m_bytes \in PerPort(PerPort([QIndex -> 0..(W32 - 1)])) /\ q \in QIndex
    BY <1>1, DataQueue DEF Transmits, AddBytes, NodeType, BytesTyped
  <2>2. CASE Mine
    <3>1. m_bytes'[in][out][q] = (m_bytes[in][out][q] + (-pkt.size)) % W32
      BY <1>2, <1>3, <2>1, <2>2 DEF PerPort
    <3>2. QueuedBytes(in, out, q)' = m_bytes[in][out][q] + (-pkt.size)
      BY <1>2, <1>4, <1>6, <2>2
    <3> QED BY <1>4, <1>8, <3>1, <3>2, SmallRemainder, NodeAssumption
  <2>3. CASE ~Mine
    <3>1. m_bytes'[in][out][q] = m_bytes[in][out][q]
      BY <1>2, <1>3, <2>1, <2>3 DEF PerPort
    <3> QED BY <1>4, <1>6, <2>3, <3>1
  <2> QED BY <2>2, <2>3
<1> QED
  BY <1>7, <1>9

(* Nor does a step that leaves the data queues and the counters alone.      *)
LEMMA RestCounts ==
  ASSUME NodeType, BytesExact, takeDowns = 0, UNCHANGED Mmu!vars,
         \A o \in Ports, k \in Queues : m_queue'[o][k] = m_queue[o][k],
         \A in, out \in Ports, q \in Queues : m_bytes'[in][out][q] = m_bytes[in][out][q],
         NEW in \in Ports, NEW out \in Ports, NEW q \in Queues
  PROVE  /\ QueuedBytes(in, out, q)' = P!BytesHeld(Between(in, out, q))'
         /\ m_bytes'[in][out][q] = QueuedBytes(in, out, q)'
<1>1. QueuedBytes(in, out, q)' = QueuedBytes(in, out, q)
  BY QueuedBytesFrom, Zenon
<1>2. P!BytesHeld(Between(in, out, q))' = P!BytesHeld(Between(in, out, q))
  <2>1. [k \in Packets |-> Copies(k)]' = [k \in Packets |-> Copies(k)]
    BY DEF Mmu!vars
  <2> DEFINE f == [k \in Packets |-> Copies(k)]
             w == [k \in Packets |-> f[k] * k.size]
  <2>2. f' = f
    BY <2>1
  <2>3. w' = w
    <3> HIDE DEF f
    <3> QED BY <2>2
  <2> QED BY <2>3, Zenon DEF P!BytesHeld, Between
<1> QED
  BY <1>1, <1>2 DEF BytesExact

(* Every step keeps the counts.                                             *)
LEMMA BytesStep ==
  ASSUME bufferPool < W32, NodeType, BytesBounded', BytesExact, Next
  PROVE  BytesExact'
<1>1. PICK p \in Ports :
         \/ ForwardPacket(p)
         \/ calls # <<>> /\ p = Head(calls) /\ TransmitPacket(p)
         \/ calls # <<>> /\ p = Head(calls) /\ TransmitControl(p)
         \/ ForwardControl(p)
         \/ TakeDown(p)
         \/ calls # <<>> /\ p = Head(calls) /\ Returns(p)
         \/ ReceivePfc(p) \/ DropPacket(p) \/ TransmitComplete(p)
         \/ PeerSend(p) \/ PeerSendControl(p)
         \/ \E q \in Queues, pause \in BOOLEAN : PeerSendPfc(p, q, pause)
         \/ PeerReceivePfc(p) \/ PeerReceivePacket(p) \/ Corrupt(p) \/ DeadLink(p)
  BY StepKinds
<1>2. CASE TakeDown(p)
  <2>1. takeDowns' = takeDowns + 1
    BY <1>2 DEF TakeDown
  <2> QED BY <2>1 DEF BytesExact
<1>3. CASE ~TakeDown(p)
  <2>1. takeDowns' = takeDowns
    BY <1>1, <1>3, Zenon
       DEF bounds, ForwardPacket, TransmitPacket, TransmitControl, ForwardControl,
           Returns, ReceivePfc, DropPacket, TransmitComplete, PeerSend, PeerSendControl,
           PeerSendPfc, PeerReceivePfc, PeerReceivePacket, Corrupt, DeadLink
  <2> SUFFICES ASSUME takeDowns = 0, NEW in \in Ports, NEW out \in Ports, NEW q \in Queues
               PROVE  /\ QueuedBytes(in, out, q)' = P!BytesHeld(Between(in, out, q))'
                      /\ m_bytes'[in][out][q] = QueuedBytes(in, out, q)'
    BY <2>1, Zenon DEF BytesExact
  <2>2. CASE ForwardPacket(p)
    BY <2>2, ForwardCounts
  <2>3. CASE TransmitPacket(p)
    BY <2>3, TransmitCounts
  <2>4. CASE \/ calls # <<>> /\ p = Head(calls) /\ TransmitControl(p)
             \/ ForwardControl(p)
    <3>1. \A o \in Ports, k \in Queues : m_queue'[o][k] = m_queue[o][k]
      BY <2>4, TransmitControlType, ForwardControlType, DataQueue
    <3>2. UNCHANGED mmuVars
      BY <2>4 DEF TransmitControl, ForwardControl
    <3>3. \A i, o \in Ports, k \in Queues : m_bytes'[i][o][k] = m_bytes[i][o][k]
      <4>1. CASE TransmitControl(p)
        BY <4>1 DEF TransmitControl
      <4>2. CASE ForwardControl(p)
        <5>1. PICK pkt \in ControlPackets : AddBytes(p, pkt.out, 0, pkt.size)
          BY <4>2 DEF ForwardControl
        <5>2. \A k \in Queues : k \in QIndex /\ k # 0
          BY DataQueue, NodeAssumption DEF QIndex
        <5>3. m_bytes \in PerPort(PerPort([QIndex -> 0..(W32 - 1)])) /\ pkt.out \in Ports
          BY FrameFields DEF NodeType, BytesTyped
        <5> QED BY <5>1, <5>2, <5>3 DEF AddBytes, PerPort
      <4> QED BY <2>4, <4>1, <4>2
    <3> QED BY <3>1, <3>2, <3>3, MmuIdle, RestCounts
  <2>5. CASE \/ calls # <<>> /\ p = Head(calls) /\ Returns(p)
             \/ ReceivePfc(p) \/ DropPacket(p) \/ TransmitComplete(p)
             \/ PeerSend(p) \/ PeerSendControl(p)
             \/ \E k \in Queues, pause \in BOOLEAN : PeerSendPfc(p, k, pause)
             \/ PeerReceivePfc(p) \/ PeerReceivePacket(p) \/ Corrupt(p) \/ DeadLink(p)
    <3>1. UNCHANGED <<mmuVars, m_queue>>
      BY <2>5, PortStepsType, PeerSendsType, LinkStepsType
    <3>2. UNCHANGED m_bytes
      BY <2>5, Zenon
         DEF Returns, ReceivePfc, DropPacket, TransmitComplete, PeerSend, PeerSendControl,
             PeerSendPfc, PeerReceivePfc, PeerReceivePacket, Corrupt, DeadLink
    <3> QED BY <3>1, <3>2, MmuIdle, RestCounts
  <2> QED BY <1>1, <1>3, <2>2, <2>3, <2>4, <2>5
<1> QED
  BY <1>2, <1>3

(* "m_bytes[inDev][outDev][qidx] is the bytes from inDev enqueued for outDev *)
(* at qidx" (switch-node.h:26), while no link was taken down and the buffer  *)
(* is smaller than the counter's modulus.                                    *)
THEOREM BytesAreEnqueued ==
  ASSUME bufferPool < W32
  PROVE  Spec => [](takeDowns = 0 => BytesEnqueued)
<1>1. NodeType /\ Init => BytesExact
  <2> SUFFICES ASSUME NodeType, Init PROVE BytesExact
    OBVIOUS
  <2>1. ASSUME NEW in \in Ports, NEW out \in Ports, NEW q \in Queues
        PROVE  /\ QueuedBytes(in, out, q) = P!BytesHeld(Between(in, out, q))
               /\ m_bytes[in][out][q] = QueuedBytes(in, out, q)
    <3>1. q \in QIndex
      BY DataQueue
    <3>2. m_queue[out][q] = <<>> /\ m_bytes[in][out][q] = 0
      BY <3>1 DEF Init
    <3>3. QueuedBytes(in, out, q) = 0
      BY <3>2, QueuedBytesFrom, BytesFromEmpty, Zenon
    <3>4. P!BytesHeld(Between(in, out, q)) = 0
      <4>1. P!Books
        BY SamePackets, SameConfig, SameInit, P!InitBooks DEF Init
      <4>2. Between(in, out, q) \in SUBSET Packets
        BY DEF Between
      <4>3. P!BytesHeld(Packets) = 0
        BY <4>1, SameInit DEF Init, P!Init, P!Books, P!ChargedExactly, P!TotalsCharged
      <4>4. P!TypeOK
        BY SameType DEF NodeType
      <4> HIDE DEF Between
      <4>5. P!BytesHeld(Between(in, out, q)) <= 0 /\ P!BytesHeld(Between(in, out, q)) \in Nat
        BY <4>2, <4>3, <4>4, SamePackets, SameConfig, P!BytesHeldPart, P!BytesHeldIsNat
      <4> QED BY <4>5
    <3> QED BY <3>2, <3>3, <3>4
  <2> QED BY <2>1 DEF BytesExact, Init
<1>2. NodeType /\ NeverUndercounts => BytesBounded
  BY DataQueue, BetweenWithinBuffer DEF BytesBounded
<1>3. NodeType /\ BytesBounded' /\ BytesExact /\ [Next]_vars => BytesExact'
  <2>1. ASSUME NodeType, BytesExact, UNCHANGED vars PROVE BytesExact'
    <3>1. UNCHANGED <<mmuVars, m_queue, m_bytes, takeDowns>>
      BY <2>1 DEF vars, portVars, bounds
    <3>2. UNCHANGED Mmu!vars
      BY <3>1, MmuIdle
    <3> SUFFICES ASSUME takeDowns = 0, NEW in \in Ports, NEW out \in Ports, NEW q \in Queues
                 PROVE  /\ QueuedBytes(in, out, q)' = P!BytesHeld(Between(in, out, q))'
                        /\ m_bytes'[in][out][q] = QueuedBytes(in, out, q)'
      BY <2>1, <3>1, Zenon DEF BytesExact
    <3> QED BY <2>1, <3>1, <3>2, RestCounts
  <2> QED BY <2>1, BytesStep
<1>4. BytesExact => (takeDowns = 0 => BytesEnqueued)
  BY DEF BytesExact, BytesEnqueued
<1> QED
  BY <1>1, <1>2, <1>3, <1>4, InitType, TypeKept, NodeNeverUndercounts, PTL DEF Spec

-----------------------------------------------------------------------------
(* No lossless packet is dropped *)

(* How many elements of a sequence belong to a set.                         *)
Mark(x, S) == IF x \in S THEN 1 ELSE 0
Marks(s, S) == [i \in DOMAIN s |-> Mark(s[i], S)]
CountIn(s, S) == Count(Marks(s, S), 1)

(* Marks are a sequence, made element by element.                           *)
LEMMA MarksOf ==
  ASSUME NEW T, NEW S, NEW s \in Seq(T)
  PROVE  /\ Marks(s, S) \in Seq({0, 1})
         /\ Len(Marks(s, S)) = Len(s)
         /\ \A x \in T : Marks(Append(s, x), S) = Append(Marks(s, S), Mark(x, S))
         /\ s # <<>> => /\ Marks(s, S) # <<>>
                        /\ Head(Marks(s, S)) = Mark(Head(s), S)
                        /\ Marks(Tail(s), S) = Tail(Marks(s, S))
<1> DEFINE m == Marks(s, S)
<1>1. DOMAIN s = 1..Len(s) /\ Len(s) \in Nat
  BY LenProperties
<1>2. m \in Seq({0, 1}) /\ Len(m) = Len(s) /\ DOMAIN m = 1..Len(s)
  <2>1. m \in [1..Len(s) -> {0, 1}]
    BY <1>1 DEF Marks, Mark
  <2> HIDE DEF m
  <2> QED BY <1>1, <2>1, IsASeq, LenProperties
<1>3. \A i \in DOMAIN s : m[i] = Mark(s[i], S)
  BY DEF Marks
<1>4. ASSUME NEW x \in T PROVE Marks(Append(s, x), S) = Append(m, Mark(x, S))
  <2> DEFINE a == Append(s, x)  b == Append(m, Mark(x, S))
  <2>1. /\ DOMAIN a = 1..(Len(s) + 1)
        /\ \A i \in 1..Len(s) : a[i] = s[i]
        /\ a[Len(s) + 1] = x
    BY <1>1, AppendProperties, LenProperties
  <2>2. /\ b \in Seq({0, 1}) /\ DOMAIN b = 1..(Len(s) + 1)
        /\ \A i \in 1..Len(s) : b[i] = m[i]
        /\ b[Len(s) + 1] = Mark(x, S)
    <3> HIDE DEF m
    <3>1. Mark(x, S) \in {0, 1}
      BY DEF Mark
    <3> QED BY <1>1, <1>2, <3>1, AppendProperties, LenProperties
  <2>3. \A i \in 1..(Len(s) + 1) : Mark(a[i], S) = b[i]
    <3> HIDE DEF a, b, m
    <3> QED BY <1>1, <1>3, <2>1, <2>2
  <2>4. b = [i \in 1..(Len(s) + 1) |-> b[i]]
    <3> HIDE DEF b
    <3> QED BY <2>2
  <2> HIDE DEF a, b
  <2>5. Marks(a, S) = b
    BY <2>1, <2>3, <2>4 DEF Marks
  <2> QED BY <2>5 DEF a, b
<1>5. ASSUME s # <<>>
      PROVE  /\ m # <<>> /\ Head(m) = Mark(Head(s), S)
             /\ Marks(Tail(s), S) = Tail(m)
  <2>1. Len(s) > 0
    BY <1>1, <1>5, EmptySeq
  <2>2. m # <<>> /\ Head(m) = m[1] /\ Head(s) = s[1] /\ m[1] = Mark(s[1], S)
    <3>1. m # <<>>
      <4> HIDE DEF m
      <4> QED BY <1>2, <2>1, EmptySeq
    <3>2. 1 \in DOMAIN s
      BY <1>1, <2>1
    <3>3. m[1] = Mark(s[1], S)
      BY <1>3, <3>2
    <3> HIDE DEF m
    <3> QED BY <1>2, <1>5, <3>1, <3>3
  <2> DEFINE a == Tail(s)  b == Tail(m)
  <2>3. DOMAIN a = 1..(Len(s) - 1) /\ \A i \in 1..(Len(s) - 1) : a[i] = s[i + 1]
    BY <1>1, <1>5, HeadTailProperties, LenProperties
  <2>4. /\ b \in Seq({0, 1}) /\ DOMAIN b = 1..(Len(s) - 1)
        /\ \A i \in 1..(Len(s) - 1) : b[i] = m[i + 1]
    <3> HIDE DEF m
    <3> QED BY <1>1, <1>2, <2>2, HeadTailProperties, LenProperties
  <2>5. \A i \in 1..(Len(s) - 1) : Mark(a[i], S) = b[i]
    <3> HIDE DEF a, b, m
    <3> QED BY <1>1, <1>3, <2>3, <2>4
  <2>6. b = [i \in 1..(Len(s) - 1) |-> b[i]]
    <3> HIDE DEF b
    <3> QED BY <2>4
  <2> HIDE DEF a, b
  <2>7. Marks(a, S) = b
    BY <2>3, <2>5, <2>6 DEF Marks
  <2> QED BY <2>2, <2>7 DEF a, b
<1> QED
  BY <1>2, <1>4, <1>5

(* A count grows by one with each element appended.                         *)
LEMMA CountInAppend ==
  ASSUME NEW T, NEW S, NEW s \in Seq(T), NEW x \in T
  PROVE  CountIn(Append(s, x), S) = CountIn(s, S) + (IF x \in S THEN 1 ELSE 0)
<1>0. PICK m : m = Marks(s, S)
  OBVIOUS
<1>1. m \in Seq({0, 1}) /\ Marks(Append(s, x), S) = Append(m, Mark(x, S))
  BY <1>0, MarksOf
<1>2. CountIn(s, S) = Count(m, 1)
  BY <1>0 DEF CountIn
<1>3. PICK b \in {0, 1} : b = Mark(x, S)
  BY DEF Mark
<1>4. Marks(Append(s, x), S) = Append(m, b)
  BY <1>1, <1>3, Zenon
<1>5. m \in Seq({0, 1})
  BY <1>1
<1>6. Count(Append(m, b), 1) = Count(m, 1) + (IF b = 1 THEN 1 ELSE 0)
  BY <1>5, CountAppend
<1>7. (IF b = 1 THEN 1 ELSE 0) = (IF x \in S THEN 1 ELSE 0)
  BY <1>3 DEF Mark
<1>8. CountIn(Append(s, x), S) = Count(Append(m, b), 1)
  BY <1>4 DEF CountIn
<1> QED BY <1>2, <1>6, <1>7, <1>8

(* It shrinks by one with each taken off, and never exceeds the length.     *)
LEMMA CountInProperties ==
  ASSUME NEW T, NEW S, NEW s \in Seq(T)
  PROVE  /\ CountIn(s, S) \in Nat /\ CountIn(s, S) <= Len(s)
         /\ s # <<>> => CountIn(s, S) = CountIn(Tail(s), S) + (IF Head(s) \in S THEN 1 ELSE 0)
<1>0. PICK m : m = Marks(s, S)
  OBVIOUS
<1>1. /\ m \in Seq({0, 1}) /\ Len(m) = Len(s)
      /\ s # <<>> => /\ m # <<>> /\ Head(m) = Mark(Head(s), S)
                     /\ Marks(Tail(s), S) = Tail(m)
  <2>1. /\ Marks(s, S) \in Seq({0, 1}) /\ Len(Marks(s, S)) = Len(s)
        /\ s # <<>> => /\ Marks(s, S) # <<>> /\ Head(Marks(s, S)) = Mark(Head(s), S)
                       /\ Marks(Tail(s), S) = Tail(Marks(s, S))
    BY MarksOf
  <2> QED BY <1>0, <2>1, Zenon
<1>2. CountIn(s, S) = Count(m, 1)
  BY <1>0 DEF CountIn
<1>3. Count(m, 1) \in Nat
  BY <1>1, CountIsNat
<1>4. Count(m, 1) <= Len(m)
  <2> DEFINE D == 1..Len(m)  At == {i \in DOMAIN m : m[i] = 1}
  <2>1. Len(m) \in Nat /\ DOMAIN m = D
    BY <1>1, LenProperties
  <2>2. IsFiniteSet(D) /\ Cardinality(D) = Len(m)
    <3>1. 1 \in Int /\ Len(m) \in Int
      BY <2>1
    <3>2. IsFiniteSet(1..Len(m)) /\ Cardinality(1..Len(m)) = IF 1 > Len(m) THEN 0 ELSE Len(m) - 1 + 1
      BY <3>1, FS_Interval
    <3> QED BY <2>1, <3>2
  <2>3. At \in SUBSET D
    BY <2>1
  <2> HIDE DEF D, At
  <2>4. Cardinality(At) <= Cardinality(D)
    BY <2>2, <2>3, FS_Subset
  <2> QED BY <2>2, <2>4 DEF At, Count
<1>5. ASSUME s # <<>>
      PROVE  CountIn(s, S) = CountIn(Tail(s), S) + (IF Head(s) \in S THEN 1 ELSE 0)
  <2>1. Count(m, 1) = Count(Tail(m), 1) + (IF Head(m) = 1 THEN 1 ELSE 0)
    BY <1>1, <1>5, CountTail
  <2>2. Head(m) = Mark(Head(s), S) /\ Marks(Tail(s), S) = Tail(m)
    BY <1>1, <1>5
  <2>3. (IF Head(m) = 1 THEN 1 ELSE 0) = (IF Head(s) \in S THEN 1 ELSE 0)
    BY <2>2 DEF Mark
  <2>4. CountIn(Tail(s), S) = Count(Tail(m), 1)
    BY <2>2 DEF CountIn
  <2> QED BY <1>2, <2>1, <2>3, <2>4
<1> QED
  BY <1>1, <1>2, <1>3, <1>4, <1>5

(* What the MMU's theorems say of the node, as long as no link went down.   *)
MmuInvariant == P!Books /\ P!HeadroomPausesPeer /\ P!SharedWithinPool

(* It holds at first.                                                       *)
LEMMA InitMmuInvariant == Init => MmuInvariant
<1> SUFFICES ASSUME Init PROVE MmuInvariant
  OBVIOUS
<1>1. P!Init /\ P!Books
  BY SamePackets, SameConfig, SameInit, P!InitBooks DEF Init
<1>2. P!HeadroomPausesPeer
  BY <1>1 DEF P!Init, P!HeadroomPausesPeer
<1>3. P!SharedWithinPool
  BY <1>1, SameConfig DEF P!Init, P!SharedWithinPool, P!ConfigAssumption
<1> QED
  BY <1>1, <1>2, <1>3 DEF MmuInvariant

(* Every step of the node but TakeDown keeps it.                            *)
LEMMA MmuInvariantStep ==
  ASSUME NodeType, NodeType', MmuInvariant, [Next]_vars, \A p \in Ports : ~TakeDown(p)
  PROVE  MmuInvariant'
<1>1. [P!Next]_(P!vars)
  <2>1. ASSUME NEW pkt \in Packets, Mmu!Admit(pkt) \/ Mmu!Release(pkt) PROVE P!Next
    <3>1. P!Admit(pkt) \/ P!Release(pkt)
      BY <2>1, SameSteps
    <3> QED BY <3>1 DEF P!Next
  <2>2. ASSUME UNCHANGED Mmu!vars PROVE UNCHANGED P!vars
    BY <2>2 DEF Mmu!vars, P!vars, Mmu!counters, P!counters
  <2>3. CASE Next
    BY <2>1, <2>2, <2>3, MmuSteps
  <2>4. CASE UNCHANGED vars
    BY <2>2, <2>4, MmuIdle DEF vars, portVars
  <2> QED BY <2>3, <2>4
<1>2. P!Books' /\ P!TypeOK
  BY <1>1, SamePackets, SameConfig, P!BooksStep DEF MmuInvariant, P!Books
<1>3. P!HeadroomPausesPeer'
  BY <1>1, <1>2, SamePackets, SameConfig, P!HeadroomPausesStep DEF MmuInvariant
<1>4. P!SharedWithinPool'
  BY <1>1, <1>2, SamePackets, SameConfig, P!SharedStep DEF MmuInvariant
<1> QED
  BY <1>2, <1>3, <1>4 DEF MmuInvariant

(* What may still come for a queue: the packets on the wire, and those its  *)
(* peer may send before the PAUSE stops it.  The headroom holds no more     *)
(* packets than have come of these.                                         *)
Bounds(M, p, q) == \A pkt \in LosslessOf(p, q) : pkt.size <= M
Come(p, q) == (WireCap + sentSince[p][q]) - CountIn(wireIn[p], LosslessOf(p, q))

HeadroomBudget ==
  \A p \in Ports, q \in Queues :
    /\ Len(wireIn[p]) <= WireCap
    /\ \A M \in Nat : Bounds(M, p, q) => xoffUsed[p][q] <= Come(p, q) * M

(* The budget of a queue, its headroom and the wire, before and after.      *)
LEMMA BudgetTypes ==
  ASSUME NodeType, NEW p \in Ports, NEW q \in Queues
  PROVE  /\ xoffUsed[p][q] \in Nat /\ sentSince[p][q] \in 0..Reaction
         /\ wireIn[p] \in Seq(Frames) /\ Len(wireIn[p]) \in Nat
         /\ CountIn(wireIn[p], LosslessOf(p, q)) \in Nat
         /\ CountIn(wireIn[p], LosslessOf(p, q)) <= Len(wireIn[p])
         /\ Come(p, q) \in Int
         /\ WireCap \in Nat /\ WireCap > 0 /\ Reaction \in Nat
<1>1. xoffUsed[p][q] \in Nat
  BY DEF NodeType, Mmu!TypeOK, Mmu!PerQueue
<1>2. sentSince[p][q] \in 0..Reaction
  BY DEF NodeType, PeersTyped, PerPort
<1>3. wireIn[p] \in Seq(Frames)
  BY DEF NodeType, WiresTyped, PerPort
<1>4. WireCap \in Nat /\ WireCap > 0 /\ Reaction \in Nat
  BY NodeAssumption
<1>5. Len(wireIn[p]) \in Nat
  BY <1>3, LenProperties
<1>6. /\ CountIn(wireIn[p], LosslessOf(p, q)) \in Nat
      /\ CountIn(wireIn[p], LosslessOf(p, q)) <= Len(wireIn[p])
  BY <1>3, CountInProperties
<1> QED
  BY <1>1, <1>2, <1>3, <1>4, <1>5, <1>6 DEF Come

(* The types of both, before a step and after it.                           *)
LEMMA ComeTyped ==
  NodeType => \A o \in Ports, k \in Queues : Come(o, k) \in Int /\ xoffUsed[o][k] \in Nat
BY BudgetTypes

(* The three ways in which a step keeps the budget of a queue: it adds      *)
(* nothing to the headroom; it adds a packet that has come; it leaves the   *)
(* headroom empty.                                                          *)
Keeps(p, q) ==
  \/ xoffUsed'[p][q] <= xoffUsed[p][q] /\ Come(p, q)' >= Come(p, q)
  \/ \E pkt \in LosslessOf(p, q) :
       xoffUsed'[p][q] <= xoffUsed[p][q] + pkt.size /\ Come(p, q)' >= Come(p, q) + 1
  \/ xoffUsed'[p][q] = 0 /\ Come(p, q)' >= 0

(* They do keep it.                                                         *)
LEMMA KeepsBudget ==
  ASSUME NodeType, NodeType', HeadroomBudget,
         \A p \in Ports, q \in Queues : Len(wireIn[p])' <= WireCap /\ Keeps(p, q)
  PROVE  HeadroomBudget'
<1> SUFFICES ASSUME NEW p \in Ports, NEW q \in Queues, NEW M \in Nat, Bounds(M, p, q)
             PROVE  xoffUsed'[p][q] <= Come(p, q)' * M
  BY Zenon DEF HeadroomBudget, Bounds
<1>1. Come(p, q) \in Int /\ xoffUsed[p][q] \in Nat
  BY BudgetTypes
<1>2. Come(p, q)' \in Int /\ xoffUsed'[p][q] \in Nat
  <2>1. (NodeType => \A o \in Ports, k \in Queues : Come(o, k) \in Int /\ xoffUsed[o][k] \in Nat)'
    BY ComeTyped, PTL
  <2> QED BY <2>1
<1>3. xoffUsed[p][q] <= Come(p, q) * M
  BY DEF HeadroomBudget
<1>4. \A c, d \in Int : d >= c => d * M >= c * M
  <2> SUFFICES ASSUME NEW c \in Int, NEW d \in Int, d >= c PROVE d * M >= c * M
    OBVIOUS
  <2>1. (d - c) * M \in Nat
    <3>1. d - c \in Nat
      OBVIOUS
    <3> QED BY <3>1
  <2>2. d * M = c * M + (d - c) * M /\ c * M \in Int /\ d * M \in Int
    OBVIOUS
  <2> QED BY <2>1, <2>2
<1>5. Come(p, q) * M \in Int /\ Come(p, q)' * M \in Int
  BY <1>1, <1>2
<1>6. CASE xoffUsed'[p][q] <= xoffUsed[p][q] /\ Come(p, q)' >= Come(p, q)
  <2>1. Come(p, q)' * M >= Come(p, q) * M
    BY <1>1, <1>2, <1>4, <1>6
  <2> QED BY <1>1, <1>2, <1>3, <1>5, <1>6, <2>1
<1>7. ASSUME NEW pkt \in LosslessOf(p, q),
             xoffUsed'[p][q] <= xoffUsed[p][q] + pkt.size, Come(p, q)' >= Come(p, q) + 1
      PROVE  xoffUsed'[p][q] <= Come(p, q)' * M
  <2>1. pkt.size \in Nat /\ pkt.size <= M
    BY FrameFields DEF Bounds, LosslessOf
  <2>2. Come(p, q)' * M >= (Come(p, q) + 1) * M
    BY <1>1, <1>2, <1>4, <1>7
  <2>3. (Come(p, q) + 1) * M = Come(p, q) * M + M
    BY <1>1
  <2> QED BY <1>1, <1>2, <1>3, <1>5, <1>7, <2>1, <2>2, <2>3
<1>8. CASE xoffUsed'[p][q] = 0 /\ Come(p, q)' >= 0
  <2>1. Come(p, q)' * M >= 0
    BY <1>2, <1>4, <1>8
  <2> QED BY <1>8, <2>1
<1> QED
  BY <1>6, <1>7, <1>8 DEF Keeps

(* The same of any sequence of frames.                                      *)
LEMMA FramesCounted ==
  \A s \in Seq(Frames) : \A S :
    /\ CountIn(s, S) \in Nat /\ CountIn(s, S) <= Len(s)
    /\ \A x \in Frames : CountIn(Append(s, x), S) = CountIn(s, S) + (IF x \in S THEN 1 ELSE 0)
    /\ s # <<>> => CountIn(s, S) = CountIn(Tail(s), S) + (IF Head(s) \in S THEN 1 ELSE 0)
<1> TAKE s \in Seq(Frames)
<1> TAKE S
<1>1. CountIn(s, S) \in Nat /\ CountIn(s, S) <= Len(s)
  BY CountInProperties
<1>2. ASSUME NEW x \in Frames
      PROVE  CountIn(Append(s, x), S) = CountIn(s, S) + (IF x \in S THEN 1 ELSE 0)
  BY CountInAppend
<1>3. ASSUME s # <<>>
      PROVE  CountIn(s, S) = CountIn(Tail(s), S) + (IF Head(s) \in S THEN 1 ELSE 0)
  BY <1>3, CountInProperties
<1> QED
  BY <1>1, <1>2, <1>3

(* A step that adds nothing to the headroom and nothing to the wire.        *)
LEMMA NothingComes ==
  ASSUME NodeType, NodeType', NEW o \in Ports, NEW k \in Queues,
         xoffUsed'[o][k] <= xoffUsed[o][k], sentSince'[o][k] >= sentSince[o][k],
         CountIn(wireIn'[o], LosslessOf(o, k)) <= CountIn(wireIn[o], LosslessOf(o, k))
  PROVE  Keeps(o, k)
<1> DEFINE n == CountIn(wireIn[o], LosslessOf(o, k))
           m == CountIn(wireIn'[o], LosslessOf(o, k))
<1>1. n \in Nat /\ sentSince[o][k] \in Nat /\ WireCap \in Nat
  BY BudgetTypes
<1>2. m \in Nat /\ sentSince'[o][k] \in Nat
  <2>1. wireIn'[o] \in Seq(Frames)
    BY DEF NodeType, WiresTyped, PerPort
  <2>2. sentSince'[o][k] \in 0..Reaction
    BY DEF NodeType, PeersTyped, PerPort
  <2> QED BY <2>1, <2>2, FramesCounted, NodeAssumption
<1>3. Come(o, k) = (WireCap + sentSince[o][k]) - n /\ Come(o, k)' = (WireCap + sentSince'[o][k]) - m
  BY DEF Come, LosslessOf
<1>4. m <= n
  OBVIOUS
<1> HIDE DEF n, m
<1> QED
  BY <1>1, <1>2, <1>3, <1>4 DEF Keeps

(* What an arrival does to the wire.                                        *)
LEMMA ArrivalTakes ==
  ASSUME NodeType, NEW p \in Ports, NEW frame, Arrived(p, frame), NEW o \in Ports, NEW S
  PROVE  /\ Len(wireIn'[o]) \in Nat /\ Len(wireIn'[o]) <= Len(wireIn[o]) 
         /\ CountIn(wireIn'[o], S) \in Nat
         /\ CountIn(wireIn[o], S) =
              CountIn(wireIn'[o], S) + (IF o = p /\ frame \in S THEN 1 ELSE 0)
<1>1. wireIn[o] \in Seq(Frames)
  BY DEF NodeType, WiresTyped, PerPort
<1>2. CASE o = p
  <2>1. wireIn[o] # <<>> /\ wireIn'[o] = Tail(wireIn[o]) /\ frame = Head(wireIn[o])
    BY <1>2, ArrivedFrame DEF Arrived, NodeType
  <2>2. /\ Tail(wireIn[o]) \in Seq(Frames) /\ Len(Tail(wireIn[o])) = Len(wireIn[o]) - 1
        /\ Len(wireIn[o]) \in Nat /\ Len(wireIn[o]) > 0
    BY <1>1, <2>1, HeadTailProperties, LenProperties, EmptySeq
  <2>3. /\ CountIn(Tail(wireIn[o]), S) \in Nat
        /\ CountIn(wireIn[o], S) =
             CountIn(Tail(wireIn[o]), S) + (IF Head(wireIn[o]) \in S THEN 1 ELSE 0)
    BY <1>1, <2>1, <2>2, FramesCounted
  <2> QED BY <1>2, <2>1, <2>2, <2>3
<1>3. CASE o # p
  <2>1. wireIn'[o] = wireIn[o]
    BY <1>3, ArrivedFrame DEF NodeType
  <2>2. Len(wireIn[o]) \in Nat /\ CountIn(wireIn[o], S) \in Nat
    BY <1>1, LenProperties, CountInProperties
  <2> QED BY <1>3, <2>1, <2>2
<1> QED
  BY <1>2, <1>3

(* What a peer that sends does to it.                                       *)
LEMMA SendingAdds ==
  ASSUME NodeType, NEW p \in Ports, NEW frame \in Frames, PeerCanSend(p),
         wireIn' = Onto(wireIn, p, frame), NEW o \in Ports, NEW S
  PROVE  /\ Len(wireIn'[o]) \in Nat
         /\ Len(wireIn[o]) <= WireCap => Len(wireIn'[o]) <= WireCap
         /\ CountIn(wireIn[o], S) \in Nat /\ CountIn(wireIn'[o], S) <= Len(wireIn'[o])
         /\ CountIn(wireIn'[o], S) =
              CountIn(wireIn[o], S) + (IF o = p /\ frame \in S THEN 1 ELSE 0)
<1>1. wireIn[o] \in Seq(Frames)
  BY DEF NodeType, WiresTyped, PerPort
<1>2. /\ Len(wireIn[o]) \in Nat
      /\ CountIn(wireIn[o], S) \in Nat /\ CountIn(wireIn[o], S) <= Len(wireIn[o])
  BY <1>1, LenProperties, CountInProperties
<1>3. CASE o = p
  <2>1. wireIn'[o] = Append(wireIn[o], frame)
    BY <1>3 DEF Onto, NodeType, WiresTyped, PerPort
  <2>2. Append(wireIn[o], frame) \in Seq(Frames) /\ Len(wireIn'[o]) = Len(wireIn[o]) + 1
    BY <1>1, <2>1, AppendProperties
  <2>3. /\ CountIn(Append(wireIn[o], frame), S)
             = CountIn(wireIn[o], S) + (IF frame \in S THEN 1 ELSE 0)
        /\ CountIn(Append(wireIn[o], frame), S) <= Len(Append(wireIn[o], frame))
    <3>1. \A t \in Seq(Frames) : CountIn(t, S) <= Len(t)
      BY FramesCounted
    <3>2. \A t \in Seq(Frames), x \in Frames :
            CountIn(Append(t, x), S) = CountIn(t, S) + (IF x \in S THEN 1 ELSE 0)
      BY FramesCounted
    <3> QED BY <1>1, <2>2, <3>1, <3>2
  <2>4. Len(wireIn[o]) < WireCap /\ WireCap \in Nat
    BY <1>3, NodeAssumption DEF PeerCanSend
  <2> QED BY <1>2, <1>3, <2>1, <2>2, <2>3, <2>4
<1>4. CASE o # p
  <2>1. wireIn'[o] = wireIn[o]
    BY <1>4 DEF Onto, NodeType, WiresTyped, PerPort
  <2> QED BY <1>2, <1>4, <2>1
<1> QED
  BY <1>3, <1>4

(* The budget is kept by a packet that enters the switch.                   *)
LEMMA ForwardKeepsBudget ==
  ASSUME NodeType, NodeType', HeadroomBudget, NEW p \in Ports, ForwardPacket(p),
         NEW o \in Ports, NEW k \in Queues
  PROVE  Len(wireIn[o])' <= WireCap /\ Keeps(o, k)
<1>1. PICK pkt \in Packets : Forwards(p, pkt)
  BY ForwardEffect DEF NodeType
<1>2. /\ Arrived(p, pkt) /\ pkt.in = p /\ sentSince' = sentSince
  BY <1>1 DEF Forwards, peerVars
<1> DEFINE L == LosslessOf(o, k)
<1>3. /\ Len(wireIn'[o]) \in Nat /\ Len(wireIn'[o]) <= Len(wireIn[o]) 
      /\ CountIn(wireIn'[o], L) \in Nat
      /\ CountIn(wireIn[o], L) = CountIn(wireIn'[o], L) + (IF o = p /\ pkt \in L THEN 1 ELSE 0)
  <2> HIDE DEF L
  <2> QED BY <1>2, ArrivalTakes
<1>4. /\ xoffUsed[o][k] \in Nat /\ sentSince[o][k] \in Nat
      /\ Len(wireIn[o]) \in Nat /\ WireCap \in Nat
  BY BudgetTypes
<1>5. Len(wireIn'[o]) <= WireCap
  BY <1>3, <1>4 DEF HeadroomBudget
<1>6. P!TypeOK /\ P!Admit(pkt)
  BY <1>1, SameType, SameSteps, ForwardAdmits DEF NodeType
<1>7. /\ \/ xoffUsed'[pkt.in][pkt.q] = xoffUsed[pkt.in][pkt.q]
         \/ /\ pkt.type = "LOSSLESS"
            /\ xoffUsed'[pkt.in][pkt.q] = xoffUsed[pkt.in][pkt.q] + pkt.size
      /\ \A p1 \in Ports, q1 \in Queues :
           <<p1, q1>> # <<pkt.in, pkt.q>> => xoffUsed'[p1][q1] = xoffUsed[p1][q1]
  BY <1>6, SamePackets, SameConfig, P!AdmitEffect DEF P!Same
<1>8. CASE xoffUsed'[o][k] = xoffUsed[o][k]
  <2>1. CountIn(wireIn'[o], L) <= CountIn(wireIn[o], L)
    <3> HIDE DEF L
    <3> QED BY <1>3
  <2> QED BY <1>2, <1>4, <1>5, <1>8, <2>1, NothingComes
<1>9. CASE xoffUsed'[o][k] # xoffUsed[o][k]
  <2>1. /\ o = p /\ pkt \in L
        /\ xoffUsed'[o][k] = xoffUsed[o][k] + pkt.size
    BY <1>2, <1>7, <1>9, Zenon DEF LosslessOf
  <2>2. pkt.size \in Nat
    BY FrameFields
  <2>3. /\ Come(o, k) = (WireCap + sentSince[o][k]) - CountIn(wireIn[o], L)
        /\ Come(o, k)' = (WireCap + sentSince[o][k]) - CountIn(wireIn'[o], L)
    BY <1>2 DEF Come, LosslessOf
  <2> HIDE DEF L
  <2>4. Come(o, k)' >= Come(o, k) + 1
    BY <1>3, <1>4, <2>1, <2>3
  <2>5. xoffUsed'[o][k] <= xoffUsed[o][k] + pkt.size
    BY <1>4, <2>1, <2>2
  <2> QED BY <1>5, <2>1, <2>4, <2>5 DEF Keeps, L
<1> QED
  BY <1>8, <1>9

(* By one that leaves it.                                                   *)
LEMMA TransmitKeepsBudget ==
  ASSUME NodeType, NodeType', HeadroomBudget, NEW p \in Ports, TransmitPacket(p),
         NEW o \in Ports, NEW k \in Queues
  PROVE  Len(wireIn[o])' <= WireCap /\ Keeps(o, k)
<1>1. PICK pkt \in Packets : Transmits(p, pkt)
  BY TransmitEffect DEF NodeType
<1>2. /\ wireIn' = wireIn /\ pkt.in \in Ports /\ pkt.q \in Queues /\ pkt.size \in Nat
      /\ paused' \in PerPort([Queues -> BOOLEAN])
      /\ sentSince' = IF PfcSent(pkt.in, pkt.q) = <<>> THEN sentSince
                      ELSE [sentSince EXCEPT ![pkt.in][pkt.q] = 0]
  BY <1>1, FrameFields DEF Transmits
<1>3. /\ xoffUsed[o][k] \in Nat /\ sentSince[o][k] \in Nat
      /\ Len(wireIn[o]) \in Nat /\ WireCap \in Nat
      /\ CountIn(wireIn[o], LosslessOf(o, k)) \in Nat
      /\ CountIn(wireIn[o], LosslessOf(o, k)) <= Len(wireIn[o])
  BY BudgetTypes
<1>4. Len(wireIn[o]) <= WireCap
  BY DEF HeadroomBudget
<1>5. P!TypeOK /\ P!Release(pkt)
  BY <1>1, SameType, SameSteps, TransmitReleases DEF NodeType
<1>6. /\ xoffUsed'[pkt.in][pkt.q] = IF pkt.type = "LOSSLESS"
            THEN P!Monus(xoffUsed[pkt.in][pkt.q], pkt.size) ELSE xoffUsed[pkt.in][pkt.q]
      /\ paused'[pkt.in][pkt.q] => paused[pkt.in][pkt.q]
      /\ paused[pkt.in][pkt.q] /\ ~paused'[pkt.in][pkt.q] => xoffUsed'[pkt.in][pkt.q] = 0
      /\ \A p1 \in Ports, q1 \in Queues :
           <<p1, q1>> # <<pkt.in, pkt.q>> => xoffUsed'[p1][q1] = xoffUsed[p1][q1]
  BY <1>5, SamePackets, SameConfig, P!ReleaseEffect DEF P!Same
<1>7. xoffUsed'[o][k] <= xoffUsed[o][k]
  <2>1. CASE <<o, k>> = <<pkt.in, pkt.q>>
    BY <1>2, <1>3, <1>6, <2>1 DEF P!Monus
  <2>2. CASE <<o, k>> # <<pkt.in, pkt.q>>
    BY <1>3, <1>6, <2>2
  <2> QED BY <2>1, <2>2
<1>8. CASE sentSince'[o][k] = sentSince[o][k]
  <2>1. CountIn(wireIn'[o], LosslessOf(o, k)) <= CountIn(wireIn[o], LosslessOf(o, k))
    BY <1>2, <1>3
  <2>2. sentSince'[o][k] >= sentSince[o][k]
    BY <1>3, <1>8
  <2> QED BY <1>2, <1>4, <1>7, <2>1, <2>2, NothingComes
<1>9. CASE sentSince'[o][k] # sentSince[o][k]
  <2>1. sentSince \in PerPort([Queues -> 0..Reaction])
    BY DEF NodeType, PeersTyped
  <2>2. /\ PfcSent(pkt.in, pkt.q) # <<>> /\ o = pkt.in /\ k = pkt.q
        /\ sentSince'[o][k] = 0
    BY <1>2, <1>9, <2>1 DEF PerPort
  <2>3. paused'[o][k] # paused[o][k] /\ paused[o][k] \in BOOLEAN /\ paused'[o][k] \in BOOLEAN
    <3>1. Mmu!TypeOK
      BY DEF NodeType
    <3>2. paused'[o][k] # paused[o][k]
      BY <1>2, <2>2, <3>1, PfcSentCases
    <3> QED BY <1>2, <3>2, LineTyped DEF PerPort
  <2>4. xoffUsed'[o][k] = 0
    BY <1>6, <2>2, <2>3
  <2>5. Come(o, k)' = (WireCap + 0) - CountIn(wireIn[o], LosslessOf(o, k))
    BY <1>2, <2>2 DEF Come, LosslessOf
  <2>6. Come(o, k)' >= 0
    BY <1>3, <1>4, <2>5
  <2> QED BY <1>2, <1>4, <2>4, <2>6 DEF Keeps
<1> QED
  BY <1>8, <1>9

(* By a peer that sends: it stops within its reaction time, as long as the  *)
(* PAUSE is on the way or has reached it.                                   *)
LEMMA SendKeepsBudget ==
  ASSUME NodeType, NodeType', HeadroomBudget, MmuInvariant, PauseSignalsAgree,
         NEW p \in Ports, PeerSend(p), NEW o \in Ports, NEW k \in Queues
  PROVE  Len(wireIn[o])' <= WireCap /\ Keeps(o, k)
<1>1. PICK pkt \in Packets :
        /\ pkt.in = p /\ PeerCanSend(p) /\ ~peerPaused[p][pkt.q]
        /\ paused[p][pkt.q] /\ PfcOnTheWay(p, pkt.q) # {} => sentSince[p][pkt.q] < Reaction
        /\ wireIn' = Onto(wireIn, p, pkt)
        /\ sentSince' = IF paused[p][pkt.q]
                        THEN [sentSince EXCEPT ![p][pkt.q] = Mmu!Lesser(@ + 1, Reaction)]
                        ELSE sentSince
  BY Zenon DEF PeerSend
<1>2. xoffUsed' = xoffUsed
  BY DEF PeerSend, mmuVars
<1>3. pkt \in Frames /\ pkt.q \in Queues
  BY FrameFields DEF Frames
<1> DEFINE L == LosslessOf(o, k)
<1>4. /\ Len(wireIn'[o]) \in Nat
      /\ Len(wireIn[o]) <= WireCap => Len(wireIn'[o]) <= WireCap
      /\ CountIn(wireIn[o], L) \in Nat /\ CountIn(wireIn'[o], L) <= Len(wireIn'[o])
      /\ CountIn(wireIn'[o], L) = CountIn(wireIn[o], L) + (IF o = p /\ pkt \in L THEN 1 ELSE 0)
  <2> HIDE DEF L
  <2> QED BY <1>1, <1>3, SendingAdds
<1>5. /\ xoffUsed[o][k] \in Nat /\ sentSince[o][k] \in 0..Reaction
      /\ WireCap \in Nat /\ Reaction \in Nat
  BY BudgetTypes
<1>6. Len(wireIn'[o]) <= WireCap
  BY <1>4 DEF HeadroomBudget
<1>7. sentSince'[o][k] =
        IF o = p /\ k = pkt.q /\ paused[o][k] THEN Mmu!Lesser(sentSince[o][k] + 1, Reaction)
        ELSE sentSince[o][k]
  <2>1. sentSince \in PerPort([Queues -> 0..Reaction])
    BY DEF NodeType, PeersTyped
  <2> QED BY <1>1, <1>3, <2>1 DEF PerPort
<1>8. sentSince'[o][k] >= sentSince[o][k]
  BY <1>5, <1>7 DEF Mmu!Lesser
<1>9. CASE ~(o = p /\ pkt \in L)
  <2>1. CountIn(wireIn'[o], L) <= CountIn(wireIn[o], L)
    <3> HIDE DEF L
    <3> QED BY <1>4, <1>9
  <2>2. xoffUsed'[o][k] <= xoffUsed[o][k]
    BY <1>2, <1>5
  <2> QED BY <1>6, <1>8, <2>1, <2>2, NothingComes
<1>10. CASE o = p /\ pkt \in L
  <2>1. k = pkt.q
    BY <1>10 DEF LosslessOf
  <2>2. /\ Come(o, k) = (WireCap + sentSince[o][k]) - CountIn(wireIn[o], L)
        /\ Come(o, k)' = (WireCap + sentSince'[o][k]) - CountIn(wireIn'[o], L)
    BY DEF Come, LosslessOf
  <2>3. CountIn(wireIn'[o], L) = CountIn(wireIn[o], L) + 1
    BY <1>4, <1>10
  <2>4. CASE paused[o][k]
    <3>1. PfcOnTheWay(o, k) # {}
      <4>1. SignalsAgree(OnTheWay(o), k, peerPaused[o][k], paused[o][k])
        BY DEF PauseSignalsAgree
      <4>2. peerPaused[o][k] # paused[o][k]
        BY <1>1, <1>10, <2>1, <2>4
      <4> QED BY <4>1, <4>2 DEF SignalsAgree, PfcOnTheWay
    <3>2. sentSince[o][k] < Reaction
      BY <1>1, <1>10, <2>1, <2>4, <3>1
    <3>3. sentSince'[o][k] = sentSince[o][k] + 1
      BY <1>5, <1>7, <1>10, <2>1, <2>4, <3>2 DEF Mmu!Lesser
    <3> HIDE DEF L
    <3>4. Come(o, k)' >= Come(o, k) /\ xoffUsed'[o][k] <= xoffUsed[o][k]
      BY <1>2, <1>4, <1>5, <2>2, <2>3, <3>3
    <3> QED BY <1>6, <3>4 DEF Keeps
  <2>5. CASE ~paused[o][k]
    <3>1. xoffUsed'[o][k] = 0
      BY <1>2, <1>5, <2>5 DEF MmuInvariant, P!HeadroomPausesPeer
    <3> HIDE DEF L
    <3>2. Come(o, k)' >= 0
      BY <1>4, <1>5, <1>6, <1>7, <2>2, <2>3, <2>5
    <3> QED BY <1>6, <3>1, <3>2 DEF Keeps
  <2> QED BY <2>4, <2>5
<1> QED
  BY <1>9, <1>10

(* By a frame of any other kind that arrives or is sent.                    *)
LEMMA FramesKeepBudget ==
  ASSUME NodeType, NodeType', HeadroomBudget, NEW p \in Ports,
         \/ ReceivePfc(p) \/ DropPacket(p) \/ ForwardControl(p) \/ PeerSendControl(p)
         \/ \E q \in Queues, pause \in BOOLEAN : PeerSendPfc(p, q, pause),
         NEW o \in Ports, NEW k \in Queues
  PROVE  Len(wireIn[o])' <= WireCap /\ Keeps(o, k)
<1>1. xoffUsed' = xoffUsed /\ sentSince' = sentSince
  BY Zenon DEF ReceivePfc, DropPacket, ForwardControl, PeerSendControl, PeerSendPfc,
               mmuVars, peerVars
<1> DEFINE L == LosslessOf(o, k)
           n == CountIn(wireIn[o], L)
           m == CountIn(wireIn'[o], L)
<1>2. /\ xoffUsed[o][k] \in Nat /\ sentSince[o][k] \in Nat
      /\ Len(wireIn[o]) \in Nat /\ WireCap \in Nat /\ Len(wireIn[o]) <= WireCap
  BY BudgetTypes DEF HeadroomBudget
<1>3. Len(wireIn'[o]) <= WireCap /\ m <= n
  <2>1. CASE ReceivePfc(p) \/ DropPacket(p) \/ ForwardControl(p)
    <3>1. PICK frame : Arrived(p, frame)
      BY <2>1, Zenon DEF ReceivePfc, DropPacket, ForwardControl
    <3>2. /\ Len(wireIn'[o]) \in Nat /\ Len(wireIn'[o]) <= Len(wireIn[o]) 
          /\ m \in Nat /\ n = m + (IF o = p /\ frame \in L THEN 1 ELSE 0)
      <4> HIDE DEF L
      <4> QED BY <3>1, ArrivalTakes
    <3> HIDE DEF n, m, L
    <3> QED BY <1>2, <3>2
  <2>2. CASE \/ PeerSendControl(p)
             \/ \E q \in Queues, pause \in BOOLEAN : PeerSendPfc(p, q, pause)
    <3>1. PICK frame \in PfcFrames \cup ControlPackets :
            PeerCanSend(p) /\ wireIn' = Onto(wireIn, p, frame)
      <4>1. CASE PeerSendControl(p)
        BY <4>1, Zenon DEF PeerSendControl
      <4>2. ASSUME NEW q \in Queues, NEW pause \in BOOLEAN, PeerSendPfc(p, q, pause)
            PROVE  \E frame \in PfcFrames \cup ControlPackets :
                     PeerCanSend(p) /\ wireIn' = Onto(wireIn, p, frame)
        BY <4>2, FrameFields, Zenon DEF PeerSendPfc
      <4> QED BY <2>2, <4>1, <4>2
    <3>2. frame \in Frames /\ frame \notin L
      BY FrameFields DEF Frames, LosslessOf
    <3>3. /\ Len(wireIn'[o]) \in Nat
          /\ Len(wireIn[o]) <= WireCap => Len(wireIn'[o]) <= WireCap
          /\ n \in Nat /\ m = n + (IF o = p /\ frame \in L THEN 1 ELSE 0)
      <4> HIDE DEF L
      <4> QED BY <3>1, <3>2, SendingAdds
    <3> HIDE DEF n, m, L
    <3> QED BY <1>2, <3>2, <3>3
  <2> QED BY <2>1, <2>2
<1>4. xoffUsed'[o][k] <= xoffUsed[o][k] /\ sentSince'[o][k] >= sentSince[o][k]
  BY <1>1, <1>2
<1> QED
  BY <1>3, <1>4, NothingComes

(* By what leaves the wire to the switch and the headroom alone.            *)
LEMMA RestKeepsBudget ==
  ASSUME NodeType, NodeType', HeadroomBudget, UNCHANGED <<xoffUsed, sentSince, wireIn>>,
         NEW o \in Ports, NEW k \in Queues
  PROVE  Len(wireIn[o])' <= WireCap /\ Keeps(o, k)
<1>1. /\ xoffUsed[o][k] \in Nat /\ sentSince[o][k] \in Nat
      /\ Len(wireIn[o]) \in Nat /\ WireCap \in Nat /\ Len(wireIn[o]) <= WireCap
      /\ CountIn(wireIn[o], LosslessOf(o, k)) \in Nat
  BY BudgetTypes DEF HeadroomBudget
<1>2. /\ xoffUsed'[o][k] <= xoffUsed[o][k] /\ sentSince'[o][k] >= sentSince[o][k]
      /\ CountIn(wireIn'[o], LosslessOf(o, k)) <= CountIn(wireIn[o], LosslessOf(o, k))
      /\ Len(wireIn'[o]) <= WireCap
  BY <1>1
<1> QED
  BY <1>2, NothingComes

(* So by every step, while no frame is lost and no link is taken down.      *)
LEMMA BudgetStep ==
  ASSUME NodeType, NodeType', MmuInvariant, HeadroomBudget, PauseSignalsAgree,
         \A p \in Ports : m_linkUp[p], Next, losses' = losses, takeDowns' = takeDowns,
         losses \in Nat, takeDowns \in Nat
  PROVE  MmuInvariant' /\ HeadroomBudget'
<1>1. PICK p \in Ports :
         \/ ForwardPacket(p)
         \/ calls # <<>> /\ p = Head(calls) /\ TransmitPacket(p)
         \/ calls # <<>> /\ p = Head(calls) /\ TransmitControl(p)
         \/ ForwardControl(p)
         \/ TakeDown(p)
         \/ calls # <<>> /\ p = Head(calls) /\ Returns(p)
         \/ ReceivePfc(p) \/ DropPacket(p) \/ TransmitComplete(p)
         \/ PeerSend(p) \/ PeerSendControl(p)
         \/ \E q \in Queues, pause \in BOOLEAN : PeerSendPfc(p, q, pause)
         \/ PeerReceivePfc(p) \/ PeerReceivePacket(p) \/ Corrupt(p) \/ DeadLink(p)
  BY StepKinds
<1>2. \A o \in Ports : ~TakeDown(o) /\ ~Corrupt(o) /\ ~DeadLink(o)
  BY DEF TakeDown, Corrupt, DeadLink
<1>3. MmuInvariant'
  BY <1>2, MmuInvariantStep
<1>4. ASSUME NEW o \in Ports, NEW k \in Queues
      PROVE  Len(wireIn[o])' <= WireCap /\ Keeps(o, k)
  <2>1. CASE ForwardPacket(p)
    BY <2>1, ForwardKeepsBudget
  <2>2. CASE TransmitPacket(p)
    BY <2>2, TransmitKeepsBudget
  <2>3. CASE PeerSend(p)
    BY <2>3, SendKeepsBudget
  <2>4. CASE \/ ReceivePfc(p) \/ DropPacket(p) \/ ForwardControl(p) \/ PeerSendControl(p)
             \/ \E q \in Queues, pause \in BOOLEAN : PeerSendPfc(p, q, pause)
    BY <2>4, FramesKeepBudget
  <2>5. CASE \/ TransmitControl(p) \/ Returns(p) \/ TransmitComplete(p)
             \/ PeerReceivePfc(p) \/ PeerReceivePacket(p)
    <3>1. UNCHANGED <<xoffUsed, sentSince, wireIn>>
      BY <2>5, Zenon DEF TransmitControl, Returns, TransmitComplete, PeerReceivePfc,
                         PeerReceivePacket, mmuVars, peerVars
    <3> QED BY <3>1, RestKeepsBudget
  <2> QED BY <1>1, <1>2, <2>1, <2>2, <2>3, <2>4, <2>5
<1> QED
  BY <1>3, <1>4, KeepsBudget

-----------------------------------------------------------------------------
(* What has been shown to last as long as every frame arrives.              *)
LosslessSafe == losses = 0 /\ takeDowns = 0 => MmuInvariant /\ HeadroomBudget

(* Every step keeps it.                                                     *)
LEMMA LosslessSafeStep ==
  NodeType /\ NodeType' /\ SignalsKept /\ LosslessSafe /\ [Next]_vars => LosslessSafe'
<1>1. ASSUME NodeType, NodeType', SignalsKept, LosslessSafe, Next, losses' = 0, takeDowns' = 0
      PROVE  MmuInvariant' /\ HeadroomBudget'
  <2>1. /\ losses \in Nat /\ takeDowns \in Nat
        /\ losses = 0 /\ takeDowns = 0 => (\A p \in Ports : m_linkUp[p]) /\ PauseSignalsAgree
    BY <1>1 DEF SignalsKept
  <2>2. losses = 0 /\ takeDowns = 0
    <3>1. /\ losses' = losses \/ losses' = losses + 1
          /\ takeDowns' = takeDowns \/ takeDowns' = takeDowns + 1
      BY <1>1, BoundsStep
    <3> QED BY <1>1, <2>1, <3>1
  <2> QED BY <1>1, <2>1, <2>2, BudgetStep DEF LosslessSafe
<1>2. ASSUME NodeType, NodeType', LosslessSafe, UNCHANGED vars, losses' = 0, takeDowns' = 0
      PROVE  MmuInvariant' /\ HeadroomBudget'
  <2>1. MmuInvariant /\ HeadroomBudget /\ UNCHANGED <<xoffUsed, sentSince, wireIn>>
    BY <1>2 DEF LosslessSafe, vars, bounds, mmuVars, peerVars
  <2>2. \A p \in Ports : ~TakeDown(p)
    <3>1. UNCHANGED takeDowns /\ (LosslessSafe => takeDowns = 0)
      BY <1>2 DEF vars, bounds
    <3>2. takeDowns = 0 /\ takeDowns' = 0
      BY <1>2, <3>1
    <3> QED BY <3>2 DEF TakeDown
  <2>3. MmuInvariant'
    BY <1>2, <2>1, <2>2, MmuInvariantStep
  <2>4. HeadroomBudget'
    BY <1>2, <2>1, RestKeepsBudget, KeepsBudget
  <2> QED BY <2>3, <2>4
<1> QED
  BY <1>1, <1>2 DEF LosslessSafe

(* It holds at first.                                                       *)
LEMMA InitLosslessSafe == Init /\ NodeType => LosslessSafe
<1> SUFFICES ASSUME Init, NodeType PROVE HeadroomBudget
  BY InitMmuInvariant DEF LosslessSafe
<1> SUFFICES ASSUME NEW p \in Ports, NEW q \in Queues, NEW M \in Nat
             PROVE  Len(wireIn[p]) <= WireCap /\ xoffUsed[p][q] <= Come(p, q) * M
  BY DEF HeadroomBudget
<1>1. wireIn[p] = <<>> /\ xoffUsed[p][q] = 0
  BY DEF Init, Mmu!Init
<1>2. /\ Len(wireIn[p]) = 0 /\ WireCap \in Nat /\ sentSince[p][q] \in Nat
      /\ CountIn(wireIn[p], LosslessOf(p, q)) \in Nat
      /\ CountIn(wireIn[p], LosslessOf(p, q)) <= Len(wireIn[p])
  BY <1>1, BudgetTypes, EmptySeq
<1>3. Come(p, q) \in Nat
  BY <1>2 DEF Come
<1>4. Come(p, q) * M \in Nat
  BY <1>3
<1> QED
  BY <1>1, <1>2, <1>4

(* What fits n times in x is not larger than x divided by n.                *)
LEMMA FitsTimes ==
  ASSUME NEW n \in Nat, n > 0, NEW x \in Nat
  PROVE  /\ x \div n \in Nat /\ n * (x \div n) <= x
         /\ \A s \in Nat : n * s <= x => s <= x \div n
<1>1. x = n * (x \div n) + (x % n) /\ x \div n \in Nat /\ x % n \in 0..(n - 1)
  OBVIOUS
<1> DEFINE d == x \div n
<1>2. ASSUME NEW s \in Nat, n * s <= x, ~(s <= d) PROVE FALSE
  <2>1. d \in Nat /\ s >= d + 1
    BY <1>1, <1>2
  <2>2. n * s >= n * (d + 1)
    <3> HIDE DEF d
    <3>1. PICK e \in Nat : s = (d + 1) + e
      <4>1. s - (d + 1) \in Nat /\ s = (d + 1) + (s - (d + 1))
        BY <2>1
      <4> QED BY <4>1
    <3>2. n * s = n * (d + 1) + n * e /\ n * e \in Nat /\ n * (d + 1) \in Nat
      BY <2>1, <3>1
    <3> QED BY <3>2
  <2>3. n * (d + 1) = n * d + n /\ n * d \in Nat
    <3> HIDE DEF d
    <3> QED BY <2>1
  <2>4. x < n * d + n
    BY <1>1, <2>3
  <2>5. n * s \in Nat
    OBVIOUS
  <2> QED BY <1>2, <2>2, <2>3, <2>4, <2>5
<1> QED
  BY <1>1, <1>2

(* The headroom suffices for what has come, and for what is arriving.       *)
LEMMA HeadroomSuffices ==
  ASSUME NodeType, HeadroomBudget, Provisioned, NEW p \in Ports, NEW q \in Queues
  PROVE  /\ xoffUsed[p][q] <= xoff[p][q]
         /\ \A pkt \in LosslessOf(p, q) : wireIn[p] # <<>> /\ pkt = Head(wireIn[p]) =>
              xoffUsed[p][q] + pkt.size <= xoff[p][q]
<1> DEFINE n == PacketsInFlight
           M == xoff[p][q] \div n
           L == LosslessOf(p, q)
<1>1. n \in Nat /\ n > 0 /\ n = WireCap + Reaction
  BY NodeAssumption DEF PacketsInFlight
<1>2. xoff[p][q] \in Nat
  BY SameConfig DEF P!ConfigAssumption, P!PerQueue
<1>3. /\ M \in Nat /\ n * M <= xoff[p][q]
      /\ \A s \in Nat : n * s <= xoff[p][q] => s <= M
  <2> HIDE DEF n
  <2> QED BY <1>1, <1>2, FitsTimes
<1> HIDE DEF M, n
<1>4. \A pkt \in L : pkt.size \in Nat /\ pkt.size <= M
  <2> SUFFICES ASSUME NEW pkt \in L PROVE pkt.size \in Nat /\ pkt.size <= M
    OBVIOUS
  <2>1. pkt.size \in Nat
    BY FrameFields DEF LosslessOf
  <2>2. n * pkt.size <= xoff[p][q]
    <3>1. xoff[p][q] >= n * pkt.size
      BY DEF Provisioned, n
    <3>2. n * pkt.size \in Nat
      BY <1>1, <2>1
    <3> QED BY <1>2, <3>1, <3>2
  <2> QED BY <1>3, <2>1, <2>2
<1> HIDE DEF L
<1>5. /\ xoffUsed[p][q] \in Nat /\ sentSince[p][q] \in 0..Reaction
      /\ CountIn(wireIn[p], L) \in Nat /\ WireCap \in Nat /\ Reaction \in Nat
      /\ wireIn[p] \in Seq(Frames)
  BY BudgetTypes DEF L
<1>6. Come(p, q) = (WireCap + sentSince[p][q]) - CountIn(wireIn[p], L)
  BY DEF Come, L
<1>7. xoffUsed[p][q] <= Come(p, q) * M
  BY <1>3, <1>4 DEF HeadroomBudget, Bounds, L
<1>8. \A c, d \in Int : c <= d => c * M <= d * M /\ c * M \in Int /\ d * M \in Int
  <2> SUFFICES ASSUME NEW c \in Int, NEW d \in Int, c <= d
               PROVE  c * M <= d * M /\ c * M \in Int /\ d * M \in Int
    OBVIOUS
  <2>1. d - c \in Nat
    OBVIOUS
  <2>2. (d - c) * M \in Nat
    BY <1>3, <2>1
  <2>3. d * M = c * M + (d - c) * M /\ c * M \in Int /\ d * M \in Int
    BY <1>3
  <2> QED BY <2>2, <2>3
<1>9. Come(p, q) \in Int /\ Come(p, q) <= n
  BY <1>1, <1>5, <1>6
<1>10. xoffUsed[p][q] <= xoff[p][q]
  <2>1. Come(p, q) * M <= n * M /\ Come(p, q) * M \in Int /\ n * M \in Int
    BY <1>1, <1>8, <1>9
  <2> QED BY <1>2, <1>3, <1>5, <1>7, <2>1
<1>11. ASSUME NEW pkt \in L, wireIn[p] # <<>>, pkt = Head(wireIn[p])
       PROVE  xoffUsed[p][q] + pkt.size <= xoff[p][q]
  <2>1. CountIn(wireIn[p], L) >= 1
    <3>1. CountIn(wireIn[p], L) = CountIn(Tail(wireIn[p]), L) + 1
      BY <1>5, <1>11, FramesCounted
    <3>2. Tail(wireIn[p]) \in Seq(Frames)
      BY <1>5, <1>11, HeadTailProperties
    <3>3. CountIn(Tail(wireIn[p]), L) \in Nat
      BY <3>2, FramesCounted
    <3> QED BY <3>1, <3>3
  <2>2. n - 1 \in Int /\ Come(p, q) <= n - 1
    BY <1>1, <1>5, <1>6, <2>1
  <2>3. Come(p, q) * M <= (n - 1) * M /\ Come(p, q) * M \in Int /\ (n - 1) * M \in Int
    BY <1>8, <1>9, <2>2
  <2>4. (n - 1) * M + M = n * M /\ n * M \in Int
    BY <1>1, <1>3
  <2>5. pkt.size \in Nat /\ pkt.size <= M
    BY <1>4, <1>11
  <2> QED BY <1>2, <1>3, <1>5, <1>7, <2>3, <2>4, <2>5
<1> QED
  BY <1>10, <1>11 DEF L

(* No lossless packet that arrives is dropped, as long as every frame gets   *)
(* through and every queue has headroom for what its peer may have sent.     *)
(* The egress admits what the ingress does: its thresholds are as large as   *)
(* the buffer, as the experiments set them (egressAlphaHigh in               *)
(* reverie-evaluation-sigcomm2023.cc), and the reserves are part of the      *)
(* ingress pool.                                                             *)
THEOREM LosslessNeverDropped ==
  ASSUME P!EgressOpen, P!totalIngressReserved <= ingressPool
  PROVE  Spec => [](losses = 0 /\ takeDowns = 0 => NoLosslessDrop)
<1>1. NodeType /\ LosslessSafe => (losses = 0 /\ takeDowns = 0 => NoLosslessDrop)
  <2> SUFFICES ASSUME NodeType, MmuInvariant, HeadroomBudget, Provisioned,
                      NEW p \in Ports, NEW pkt \in Packets, wireIn[p] # <<>>,
                      pkt.type = "LOSSLESS", pkt = Head(wireIn[p])
               PROVE  Mmu!Admissible(pkt)
    BY DEF LosslessSafe, NoLosslessDrop
  <2>1. pkt.in = p /\ pkt.q \in Queues
    <3>1. wireIn[p] \in Seq(Arriving(p))
      BY DEF NodeType, WiresTyped
    <3>2. pkt \in Arriving(p)
      BY <3>1, HeadTailProperties
    <3> QED BY <3>2, FrameFields DEF Arriving
  <2>2. pkt \in LosslessOf(p, pkt.q)
    BY <2>1 DEF LosslessOf
  <2>3. xoffUsed[p][pkt.q] + pkt.size <= xoff[p][pkt.q]
    BY <2>1, <2>2, HeadroomSuffices
  <2>4. \A o \in Ports, k \in Queues : xoffUsed[o][k] <= xoff[o][k]
    BY HeadroomSuffices
  <2>5. bufferPool >= ingressPool + P!xoffTotal
    BY SameTotals DEF Provisioned
  <2>6. P!Admissible(pkt)
    BY <2>1, <2>3, <2>4, <2>5, SamePackets, SameConfig, P!LosslessAdmitted DEF MmuInvariant
  <2> QED BY <2>6, SameAdmissible
<1> QED
  BY <1>1, InitType, TypeKept, SignalsLast, InitLosslessSafe, LosslessSafeStep, PTL DEF Spec

=============================================================================
