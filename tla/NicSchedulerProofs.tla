-------------------------- MODULE NicSchedulerProofs --------------------------
(***************************************************************************)
(* What a NIC's scheduler guarantees for any number of flows: that taking  *)
(* finished ones out of the group loses no other flow and leaves the index *)
(* of the chosen one right, and when an idle NIC is idle for a reason.     *)
(***************************************************************************)
EXTENDS NicScheduler, FiniteSetTheorems, SequenceTheorems, WellFoundedInduction, TLAPS

-----------------------------------------------------------------------------
(* Numbers and sets of numbers *)

(* The least element of a set of naturals.                                  *)
LEMMA MinIsLeast ==
  ASSUME NEW S \in SUBSET Nat, S # {}
  PROVE  Min(S) \in S /\ \A x \in S : Min(S) <= x
<1>1. PICK x \in S : \A y \in S : ~(<<y, x>> \in OpToRel(<, Nat))
  BY NatLessThanWellFounded, WFMin, Zenon
<1>2. ASSUME NEW y \in S PROVE x <= y
  <2>1. <<y, x>> \in Nat \X Nat /\ ~(<<y, x>> \in OpToRel(<, Nat))
    BY <1>1
  <2>2. OpToRel(<, Nat) = {ss \in Nat \X Nat : ss[1] < ss[2]}
    BY DEF OpToRel
  <2>3. ~(y < x)
    BY <2>1, <2>2
  <2> QED BY <2>3
<1> QED
  BY <1>1, <1>2 DEF Min

(* The larger of two.                                                       *)
LEMMA MaxOfTwo ==
  ASSUME NEW a \in Nat, NEW b \in Nat
  PROVE  Max({a, b}) = IF a >= b THEN a ELSE b
<1>1. \E x \in {a, b} : \A y \in {a, b} : x >= y
  OBVIOUS
<1>2. Max({a, b}) \in {a, b} /\ \A y \in {a, b} : Max({a, b}) >= y
  BY <1>1 DEF Max
<1> HIDE DEF Max
<1> QED
  BY <1>2

(* The remainder is the only one in its range.                              *)
LEMMA RemainderIs ==
  ASSUME NEW n \in Nat, n > 0, NEW x \in Nat, NEW d \in Nat, NEW r \in 0..(n - 1), x = n * d + r
  PROVE  x % n = r
<1>1. x = n * (x \div n) + (x % n) /\ x \div n \in Nat /\ x % n \in 0..(n - 1)
  OBVIOUS
<1>2. \A a, b \in Nat : a < b => n * a + n <= n * b
  <2> SUFFICES ASSUME NEW a \in Nat, NEW b \in Nat, a < b PROVE n * a + n <= n * b
    OBVIOUS
  <2>1. PICK e \in Nat : b = (a + 1) + e
    <3>1. b - (a + 1) \in Nat /\ b = (a + 1) + (b - (a + 1))
      OBVIOUS
    <3> QED BY <3>1
  <2>2. n * b = (n * a + n) + n * e /\ n * e \in Nat /\ n * a \in Nat
    BY <2>1
  <2> QED BY <2>2
<1>3. x \div n = d
  <2> DEFINE q == x \div n  m == x % n
  <2>1. /\ n * d + r = n * q + m /\ q \in Nat /\ m \in 0..(n - 1)
        /\ n * d \in Nat /\ n * q \in Nat
    BY <1>1
  <2> HIDE DEF q, m
  <2>2. ~(q < d)
    BY <1>2, <2>1
  <2>3. ~(d < q)
    BY <1>2, <2>1
  <2>4. q = d
    BY <2>1, <2>2, <2>3
  <2> QED BY <2>4 DEF q
<1>4. n * d \in Nat /\ x = n * d + (x % n)
  BY <1>1, <1>3
<1> QED
  BY <1>1, <1>4

(* The elements of a set of positions, numbered in their order.             *)
RankIn(S, i) == Cardinality({j \in S : j <= i})

(* The numbers are those from 1 to the size of the set, each taken once.    *)
LEMMA RanksNumber ==
  ASSUME NEW n \in Nat, NEW S \in SUBSET (1..n)
  PROVE  /\ Cardinality(S) \in Nat /\ Cardinality(S) <= n
         /\ \A i \in S : RankIn(S, i) \in 1..Cardinality(S)
         /\ \A i, j \in S : RankIn(S, i) = RankIn(S, j) => i = j
         /\ \A k \in 1..Cardinality(S) : \E i \in S : RankIn(S, i) = k
<1> DEFINE Upto(i) == {j \in S : j <= i}
           c == Cardinality(S)
<1>1. IsFiniteSet(1..n) /\ Cardinality(1..n) = n
  <2>1. 1 \in Int /\ n \in Int
    OBVIOUS
  <2>2. IsFiniteSet(1..n) /\ Cardinality(1..n) = IF 1 > n THEN 0 ELSE n - 1 + 1
    BY <2>1, FS_Interval
  <2> QED BY <2>2
<1>2. IsFiniteSet(S) /\ c \in Nat /\ c <= n
  BY <1>1, FS_Subset, FS_CardinalityType
<1>3. \A i \in S : IsFiniteSet(Upto(i)) /\ Cardinality(Upto(i)) \in Nat /\ Cardinality(Upto(i)) <= c
  <2> SUFFICES ASSUME NEW i \in S
               PROVE  IsFiniteSet(Upto(i)) /\ Cardinality(Upto(i)) \in Nat /\ Cardinality(Upto(i)) <= c
    OBVIOUS
  <2>1. Upto(i) \in SUBSET S
    OBVIOUS
  <2> HIDE DEF Upto
  <2> QED BY <1>2, <2>1, FS_Subset, FS_CardinalityType
<1>4. \A i, j \in S : i < j => Cardinality(Upto(i)) < Cardinality(Upto(j))
  <2> SUFFICES ASSUME NEW i \in S, NEW j \in S, i < j
               PROVE  Cardinality(Upto(i)) < Cardinality(Upto(j))
    OBVIOUS
  <2>1. i \in Nat /\ j \in Nat
    OBVIOUS
  <2>2. Upto(i) \in SUBSET Upto(j)
    <3>1. \A l \in S : l \in Nat /\ (l <= i => l <= j)
      BY <2>1
    <3> QED BY <3>1
  <2>3. j \in Upto(j) /\ j \notin Upto(i)
    BY <2>1
  <2>4. IsFiniteSet(Upto(j)) /\ Cardinality(Upto(j)) \in Nat /\ Cardinality(Upto(i)) \in Nat
    BY <1>3
  <2> HIDE DEF Upto
  <2>5. /\ Cardinality(Upto(i)) <= Cardinality(Upto(j))
        /\ Cardinality(Upto(j)) = Cardinality(Upto(i)) => Upto(j) = Upto(i)
    BY <2>2, <2>4, FS_Subset
  <2> QED BY <2>3, <2>4, <2>5
<1>5. \A i \in S : Cardinality(Upto(i)) \in 1..c
  <2> SUFFICES ASSUME NEW i \in S PROVE Cardinality(Upto(i)) \in 1..c
    OBVIOUS
  <2>1. i \in Upto(i)
    OBVIOUS
  <2>2. IsFiniteSet(Upto(i)) /\ Cardinality(Upto(i)) \in Nat /\ Cardinality(Upto(i)) <= c
    BY <1>3
  <2> HIDE DEF Upto
  <2>3. Cardinality(Upto(i)) # 0
    BY <2>1, <2>2, FS_EmptySet
  <2> HIDE DEF c
  <2> QED BY <1>2, <2>2, <2>3
<1>6. \A i, j \in S : Cardinality(Upto(i)) = Cardinality(Upto(j)) => i = j
  <2> SUFFICES ASSUME NEW i \in S, NEW j \in S, Cardinality(Upto(i)) = Cardinality(Upto(j)), i # j
               PROVE  FALSE
    OBVIOUS
  <2>1. i < j \/ j < i
    OBVIOUS
  <2>2. Cardinality(Upto(i)) \in Nat /\ Cardinality(Upto(j)) \in Nat
    BY <1>3
  <2> HIDE DEF Upto
  <2> QED BY <1>4, <2>1, <2>2
<1>7. \A k \in 1..c : \E i \in S : Cardinality(Upto(i)) = k
  <2> DEFINE f == [i \in S |-> Cardinality(Upto(i))]
  <2>1. f \in [S -> 1..c] /\ \A i \in S : f[i] = Cardinality(Upto(i))
    <3> HIDE DEF Upto, c
    <3> QED BY <1>5
  <2> HIDE DEF f, Upto
  <2>2. f \in Injection(S, 1..c)
    BY <1>6, <2>1 DEF Injection, IsInjective
  <2>3. IsFiniteSet(1..c) /\ Cardinality(1..c) = c
    <3>1. 1 \in Int /\ c \in Int
      BY <1>2
    <3> HIDE DEF c
    <3>2. IsFiniteSet(1..c) /\ Cardinality(1..c) = IF 1 > c THEN 0 ELSE c - 1 + 1
      BY <3>1, FS_Interval
    <3> QED BY <1>2, <3>2
  <2>4. f \in Surjection(S, 1..c)
    <3>1. Cardinality(S) = Cardinality(1..c) <=> f \in Surjection(S, 1..c)
      BY <2>2, <2>3, FS_Injection
    <3> QED BY <2>3, <3>1
  <2> QED BY <2>1, <2>4 DEF Surjection
<1> QED
  BY <1>2, <1>5, <1>6, <1>7 DEF RankIn

-----------------------------------------------------------------------------
(* GetNextQindex *)

GroupTyped == m_qps \in Seq(started) /\ m_rrlast \in Nat

(* The positions of the group.                                              *)
LEMMA Positions ==
  ASSUME GroupTyped
  PROVE  /\ Len(m_qps) \in Nat /\ DOMAIN m_qps = 1..Len(m_qps)
         /\ \A i \in DOMAIN m_qps : m_qps[i] \in started
<1>1. m_qps \in Seq(started)
  BY DEF GroupTyped
<1> QED
  BY <1>1, LenProperties, ElementOfSeq

(* The scan visits positions of the group, and every one of them.           *)
LEMMA ScanVisitsAll ==
  ASSUME GroupTyped
  PROVE  /\ \A k \in DOMAIN m_qps : ScanOrder[k] \in DOMAIN m_qps
         /\ \A i \in DOMAIN m_qps : \E k \in DOMAIN m_qps : ScanOrder[k] = i
<1> DEFINE n == Len(m_qps)
<1>1. /\ n \in Nat /\ DOMAIN m_qps = 1..n /\ m_rrlast \in Nat
      /\ \A k \in DOMAIN m_qps : ScanOrder[k] = ((k + m_rrlast) % n) + 1
  BY Positions DEF GroupTyped, ScanOrder
<1> HIDE DEF n
<1>2. ASSUME NEW k \in 1..n PROVE ((k + m_rrlast) % n) + 1 \in 1..n
  <2>1. n > 0 /\ k + m_rrlast \in Nat
    BY <1>1
  <2>2. (k + m_rrlast) % n \in 0..(n - 1)
    BY <1>1, <2>1
  <2> QED BY <1>1, <2>2
<1>3. ASSUME NEW i \in 1..n PROVE \E k \in 1..n : ((k + m_rrlast) % n) + 1 = i
  <2> DEFINE d == m_rrlast \div n  m == m_rrlast % n  r == i - 1
  <2>1. n > 0
    BY <1>1
  <2>2. m_rrlast = n * d + m /\ d \in Nat /\ m \in 0..(n - 1)
    BY <1>1, <2>1
  <2>3. r \in 0..(n - 1)
    BY <1>1
  <2> HIDE DEF d, m, r
  <2>4. CASE r > m
    <3>1. r - m \in 1..n /\ (r - m) + m_rrlast \in Nat /\ (r - m) + m_rrlast = n * d + r
      BY <1>1, <2>2, <2>3, <2>4
    <3>2. ((r - m) + m_rrlast) % n = r
      BY <1>1, <2>1, <2>2, <2>3, <3>1, RemainderIs
    <3> QED BY <3>1, <3>2 DEF r
  <2>5. CASE ~(r > m)
    <3>1. ((r + n) - m) \in 1..n /\ ((r + n) - m) + m_rrlast \in Nat
      BY <1>1, <2>2, <2>3, <2>5
    <3>2. d + 1 \in Nat /\ n * (d + 1) = n * d + n /\ n * d \in Nat
      BY <1>1, <2>2
    <3>3. ((r + n) - m) + m_rrlast = n * (d + 1) + r
      BY <1>1, <2>2, <2>3, <3>2
    <3>4. (((r + n) - m) + m_rrlast) % n = r
      BY <1>1, <2>1, <2>3, <3>1, <3>2, <3>3, RemainderIs
    <3> QED BY <3>1, <3>4 DEF r
  <2> QED BY <2>4, <2>5
<1> QED
  BY <1>1, <1>2, <1>3

(* It ends at the first flow that may send now, if there is one.            *)
LEMMA ScanStops ==
  ASSUME GroupTyped
  PROVE  /\ Found => /\ ScanLength \in DOMAIN m_qps /\ Available(ScanLength)
                     /\ Chosen \in DOMAIN m_qps
         /\ ~Found => \A k \in DOMAIN m_qps : ~Available(k)
<1> DEFINE n == Len(m_qps)
           may == {k \in DOMAIN m_qps : Available(k)}
           S == may \cup {n + 1}
<1>1. n \in Nat /\ DOMAIN m_qps = 1..n
  BY Positions
<1>2. S \in SUBSET Nat /\ S # {}
  BY <1>1
<1>3. ScanLength = Min(S)
  BY DEF ScanLength
<1>4. ScanLength \in S /\ \A x \in S : ScanLength <= x
  <2> HIDE DEF S, ScanLength
  <2> QED BY <1>2, <1>3, MinIsLeast
<1>5. Found <=> ScanLength <= n
  BY DEF Found
<1>6. ASSUME Found PROVE ScanLength \in DOMAIN m_qps /\ Available(ScanLength) /\ Chosen \in DOMAIN m_qps
  <2>1. ScanLength \in may
    <3> HIDE DEF ScanLength, n, may
    <3> QED BY <1>1, <1>4, <1>5, <1>6
  <2>2. Chosen = ScanOrder[ScanLength]
    BY DEF Chosen
  <2> HIDE DEF ScanLength, Chosen
  <2> QED BY <2>1, <2>2, ScanVisitsAll
<1>7. ASSUME ~Found, NEW k \in DOMAIN m_qps, Available(k) PROVE FALSE
  <2>1. k \in may
    BY <1>7
  <2> HIDE DEF ScanLength, n, may
  <2>2. k <= n /\ ScanLength <= k /\ ScanLength \in Nat /\ k \in Nat
    BY <1>1, <1>2, <1>4, <1>7, <2>1
  <2> QED BY <1>1, <1>5, <1>7, <2>2
<1> QED
  BY <1>6, <1>7

(* What is kept: positions of the group, those of the unfinished among them.*)
LEMMA KeptPositions ==
  ASSUME GroupTyped
  PROVE  /\ Kept \in SUBSET (1..Len(m_qps))
         /\ \A i \in DOMAIN m_qps : ~IsFinished(m_qps[i]) => i \in Kept
BY Positions DEF Kept

(* The group afterwards: what is kept, in its order, at the index Rank says.*)
LEMMA CleanedGroup ==
  ASSUME GroupTyped
  PROVE  /\ CleanedQps \in Seq(started) /\ DOMAIN CleanedQps = 1..Cardinality(Kept)
         /\ \A i \in Kept : Rank(i) \in DOMAIN CleanedQps /\ CleanedQps[Rank(i)] = m_qps[i]
         /\ \A k \in DOMAIN CleanedQps : \E i \in Kept : Rank(i) = k /\ CleanedQps[k] = m_qps[i]
<1> DEFINE c == Cardinality(Kept)
<1>1. /\ c \in Nat
      /\ \A i \in Kept : Rank(i) \in 1..c
      /\ \A i, j \in Kept : Rank(i) = Rank(j) => i = j
      /\ \A k \in 1..c : \E i \in Kept : Rank(i) = k
  <2>1. \A i : Rank(i) = RankIn(Kept, i)
    BY DEF Rank, RankIn
  <2>2. Kept \in SUBSET (1..Len(m_qps)) /\ Len(m_qps) \in Nat
    BY KeptPositions, Positions
  <2>3. /\ c \in Nat
        /\ \A i \in Kept : RankIn(Kept, i) \in 1..c
        /\ \A i, j \in Kept : RankIn(Kept, i) = RankIn(Kept, j) => i = j
        /\ \A k \in 1..c : \E i \in Kept : RankIn(Kept, i) = k
    <3> HIDE DEF Kept
    <3> QED BY <2>2, RanksNumber
  <2> HIDE DEF c
  <2> QED BY <2>1, <2>3, Zenon
<1>2. \A k \in 1..c : KeptAt(k) \in Kept /\ Rank(KeptAt(k)) = k
  BY <1>1 DEF KeptAt
<1>3. \A i \in Kept : KeptAt(Rank(i)) = i
  BY <1>1, <1>2
<1>4. \A i \in Kept : m_qps[i] \in started
  BY KeptPositions, Positions
<1>5. DOMAIN CleanedQps = 1..c /\ \A k \in 1..c : CleanedQps[k] = m_qps[KeptAt(k)]
  BY DEF CleanedQps
<1>6. CleanedQps \in [1..c -> started]
  BY <1>2, <1>4 DEF CleanedQps
<1>7. CleanedQps \in Seq(started)
  <2> HIDE DEF CleanedQps, c
  <2> QED BY <1>1, <1>6, IsASeq
<1> HIDE DEF CleanedQps, KeptAt, Rank, c, Kept
<1>8. \A i \in Kept : Rank(i) \in DOMAIN CleanedQps /\ CleanedQps[Rank(i)] = m_qps[i]
  BY <1>1, <1>3, <1>5
<1>9. \A k \in DOMAIN CleanedQps : \E i \in Kept : Rank(i) = k /\ CleanedQps[k] = m_qps[i]
  BY <1>2, <1>5
<1> QED
  BY <1>5, <1>7, <1>8, <1>9 DEF c

-----------------------------------------------------------------------------
(* The inductive invariant *)

FlowsTyped ==
  /\ started \subseteq Flows /\ completed \subseteq started
  /\ snd_nxt \in [Flows -> Nat] /\ snd_una \in [Flows -> Nat]
  /\ expired \in [Flows -> BOOLEAN] /\ bound \in [Flows -> BOOLEAN]
  /\ sent \in [Flows -> Nat] /\ inFlight \in [Flows -> Nat]
  /\ wait \in [Flows -> 0..MaxGap]

(* Nothing is acknowledged that was never sent, though it may be more than  *)
(* snd_nxt.  Before it is added a flow has sent nothing, so no ACK arrives. *)
FlowsSane ==
  \A f \in Flows :
    /\ snd_una[f] <= sent[f] /\ snd_nxt[f] <= sent[f] /\ sent[f] <= Size[f]
    /\ inFlight[f] <= FlightCap(f)
    /\ f \notin started => inFlight[f] = 0

CountsTyped ==
  /\ m_rrlast \in Nat /\ ackQ \in 0..QueueCap /\ tcpQ \in 0..QueueCap
  /\ tx \in {NONE, 0, 1} /\ m_nextSend \in NONE..MaxGap

FlagsTyped ==
  rdmaTurn \in BOOLEAN /\ trigger \in BOOLEAN /\ m_paused \in [Classes -> BOOLEAN]

PortTyped == CountsTyped /\ FlagsTyped

GroupSane == m_qps \in Seq(started) /\ IsInjective(m_qps)

IInv == FlowsTyped /\ FlowsSane /\ PortTyped /\ GroupSane /\ UnfinishedStays

(* It holds at first.                                                       *)
LEMMA InitInv == Init => IInv
<1> SUFFICES ASSUME Init PROVE IInv
  OBVIOUS
<1>1. FlowsTyped
  BY NicAssumption DEF Init, FlowsTyped
<1>2. FlowsSane
  BY NicAssumption DEF Init, FlowsSane, FlightCap
<1>3. PortTyped
  <2>1. FlagsTyped
    BY Zenon DEF Init, FlagsTyped
  <2>2. CountsTyped
    <3>1. /\ m_rrlast = 0 /\ ackQ = 0 /\ tcpQ = 0 /\ tx = -1 /\ m_nextSend = -1
          /\ MaxGap \in Nat /\ QueueCap \in Nat
      BY NicAssumption DEF Init, NONE
    <3> QED BY <3>1 DEF CountsTyped, NONE
  <2> QED BY <2>1, <2>2 DEF PortTyped
<1>4. GroupSane
  <2>1. m_qps = <<>> /\ started = {}
    BY DEF Init
  <2>2. \A S : <<>> \in Seq(S)
    OBVIOUS
  <2>3. IsInjective(<<>>)
    BY DEF IsInjective
  <2> QED BY <2>1, <2>2, <2>3 DEF GroupSane
<1>5. UnfinishedStays
  BY DEF Init, UnfinishedStays
<1> QED
  BY <1>1, <1>2, <1>3, <1>4, <1>5 DEF IInv

(* The group as it stands keeps what it promises, whatever else changes:    *)
(* flows may finish, but do not become unfinished.                          *)
LEMMA GroupStays ==
  ASSUME IInv, m_qps' = m_qps, started' = started,
         \A f \in started : IsFinished(f) => IsFinished(f)'
  PROVE  GroupSane' /\ UnfinishedStays'
BY DEF IInv, GroupSane, UnfinishedStays

(* So does the group without the finished flows that the scan has met.      *)
LEMMA GroupCleaned ==
  ASSUME IInv, m_qps' = CleanedQps, started' = started,
         \A f \in started : IsFinished(f)' <=> IsFinished(f)
  PROVE  GroupSane' /\ UnfinishedStays'
<1>1. GroupTyped /\ IsInjective(m_qps)
  BY DEF IInv, GroupSane, PortTyped, CountsTyped, FlagsTyped, GroupTyped
<1>2. /\ CleanedQps \in Seq(started)
      /\ \A i \in Kept : Rank(i) \in DOMAIN CleanedQps /\ CleanedQps[Rank(i)] = m_qps[i]
      /\ \A k \in DOMAIN CleanedQps : \E i \in Kept : Rank(i) = k /\ CleanedQps[k] = m_qps[i]
  BY <1>1, CleanedGroup
<1>3. /\ Kept \in SUBSET DOMAIN m_qps
      /\ \A i \in DOMAIN m_qps : ~IsFinished(m_qps[i]) => i \in Kept
  BY <1>1, KeptPositions, Positions
<1> HIDE DEF CleanedQps, Kept, Rank
<1>4. IsInjective(CleanedQps)
  <2> SUFFICES ASSUME NEW a \in DOMAIN CleanedQps, NEW b \in DOMAIN CleanedQps,
                      CleanedQps[a] = CleanedQps[b]
               PROVE  a = b
    BY DEF IsInjective
  <2>1. PICK i \in Kept : Rank(i) = a /\ CleanedQps[a] = m_qps[i]
    BY <1>2
  <2>2. PICK j \in Kept : Rank(j) = b /\ CleanedQps[b] = m_qps[j]
    BY <1>2
  <2>3. i = j
    BY <1>1, <1>3, <2>1, <2>2 DEF IsInjective
  <2> QED BY <2>1, <2>2, <2>3
<1>5. GroupSane'
  BY <1>2, <1>4 DEF GroupSane
<1>6. ASSUME NEW f \in started, ~IsFinished(f)'
      PROVE  \E k \in DOMAIN CleanedQps : CleanedQps[k] = f
  <2>1. ~IsFinished(f)
    BY <1>6
  <2>2. PICK i \in DOMAIN m_qps : m_qps[i] = f
    BY <2>1 DEF IInv, UnfinishedStays
  <2> QED BY <1>2, <1>3, <2>1, <2>2
<1>7. UnfinishedStays'
  BY <1>6 DEF UnfinishedStays
<1> QED
  BY <1>5, <1>7

(* What the index that GetNextQindex returns may name.                      *)
LEMMA ReturnedFlow ==
  ASSUME IInv, Found
  PROVE  ReturnedIndex \in Nat \ {0} /\ FlowsAt(ReturnedIndex) \subseteq started
<1>1. GroupTyped
  BY DEF IInv, GroupSane, PortTyped, CountsTyped, FlagsTyped, GroupTyped
<1>2. Chosen \in DOMAIN m_qps /\ DOMAIN m_qps = 1..Len(m_qps) /\ Len(m_qps) \in Nat
  BY <1>1, ScanStops, Positions
<1>3. /\ CleanedQps \in Seq(started) /\ DOMAIN CleanedQps = 1..Cardinality(Kept)
      /\ \A i \in Kept : Rank(i) \in DOMAIN CleanedQps
  BY <1>1, CleanedGroup
<1>4. Cardinality(Kept) \in Nat
  <2>1. Kept \in SUBSET (1..Len(m_qps))
    BY <1>1, KeptPositions
  <2> HIDE DEF Kept
  <2> QED BY <1>2, <2>1, RanksNumber
<1> HIDE DEF CleanedQps, Kept, Rank, Chosen
<1>5. ReturnedIndex \in Nat \ {0}
  BY <1>2, <1>3, <1>4 DEF ReturnedIndex
<1>6. \A i \in DOMAIN CleanedQps : CleanedQps[i] \in started
  BY <1>3, ElementOfSeq, LenProperties
<1> HIDE DEF ReturnedIndex
<1>7. FlowsAt(ReturnedIndex) \subseteq started
  BY <1>6 DEF FlowsAt
<1> QED
  BY <1>5, <1>7

(* A flow's packet is sent.                                                 *)
LEMMA SendFlowKeeps == IInv /\ SendFlow => IInv'
<1> SUFFICES ASSUME IInv, SendFlow PROVE IInv'
  OBVIOUS
<1>1. PICK f \in FlowsAt(ReturnedIndex), gap \in 1..MaxGap, full \in {FALSE, Windowed} :
        /\ snd_nxt' = [snd_nxt EXCEPT ![f] = IF BytesLeft(f) THEN snd_nxt[f] + 1 ELSE snd_nxt[f]]
        /\ sent' = [sent EXCEPT ![f] = Max({sent[f], snd_nxt'[f]})]
        /\ inFlight' = [inFlight EXCEPT ![f] = IF inFlight[f] < FlightCap(f) THEN inFlight[f] + 1
                                               ELSE inFlight[f]]
        /\ wait' = [wait EXCEPT ![f] = Max({wait[f], gap})]
        /\ bound' = [bound EXCEPT ![f] = full]
  BY Zenon DEF SendFlow
<1>2. /\ Found /\ m_rrlast' = ReturnedIndex - 1 /\ m_qps' = CleanedQps
      /\ rdmaTurn' \in BOOLEAN /\ tx' = 1 /\ trigger' = FALSE
      /\ UNCHANGED <<started, completed, snd_una, expired, ackQ, tcpQ, m_paused, m_nextSend>>
  <2>1. /\ Found /\ m_rrlast' = ReturnedIndex - 1 /\ m_qps' = CleanedQps
        /\ rdmaTurn' = FALSE /\ tx' = 1 /\ trigger' = FALSE
        /\ UNCHANGED <<started, completed, snd_una, expired, ackQ, tcpQ, m_paused, m_nextSend>>
    BY Zenon DEF SendFlow, Ready
  <2> HIDE DEF Found, ReturnedIndex, CleanedQps
  <2> QED BY <2>1
<1>3. ReturnedIndex \in Nat \ {0} /\ f \in started
  BY <1>2, ReturnedFlow
<1>4. f \in Flows /\ Size[f] \in Nat
  BY <1>3, NicAssumption DEF IInv, FlowsTyped
<1>5. /\ snd_nxt \in [Flows -> Nat] /\ wait \in [Flows -> 0..MaxGap]
      /\ bound \in [Flows -> BOOLEAN] /\ MaxGap \in Nat /\ full \in BOOLEAN
      /\ sent \in [Flows -> Nat] /\ inFlight \in [Flows -> Nat]
  BY NicAssumption DEF IInv, FlowsTyped
<1>6. Max({wait[f], gap}) \in 0..MaxGap
  <2>1. wait[f] \in Nat /\ gap \in Nat /\ wait[f] <= MaxGap /\ gap <= MaxGap
    BY <1>4, <1>5
  <2> QED BY <2>1, <1>5, MaxOfTwo
<1>7. /\ snd_nxt' \in [Flows -> Nat]
      /\ snd_nxt'[f] = IF snd_nxt[f] < Size[f] THEN snd_nxt[f] + 1 ELSE snd_nxt[f]
      /\ snd_nxt[f] \in Nat /\ sent[f] \in Nat /\ inFlight[f] \in Nat
  BY <1>1, <1>4, <1>5 DEF BytesLeft
<1>8. Max({sent[f], snd_nxt'[f]}) = IF sent[f] >= snd_nxt'[f] THEN sent[f] ELSE snd_nxt'[f]
  BY <1>4, <1>7, MaxOfTwo
<1>9. FlowsTyped'
  <2>1. sent' \in [Flows -> Nat] /\ inFlight' \in [Flows -> Nat]
    <3>1. Max({sent[f], snd_nxt'[f]}) \in Nat
      BY <1>7, <1>8
    <3> QED BY <1>1, <1>4, <1>5, <1>7, <3>1
  <2>2. wait' \in [Flows -> 0..MaxGap] /\ bound' \in [Flows -> BOOLEAN]
    BY <1>1, <1>4, <1>5, <1>6
  <2> QED BY <1>2, <1>7, <2>1, <2>2 DEF IInv, FlowsTyped
<1>10. FlowsSane'
  <2> SUFFICES ASSUME NEW g \in Flows
               PROVE  /\ snd_una[g] <= sent'[g] /\ snd_nxt'[g] <= sent'[g] /\ sent'[g] <= Size[g]
                      /\ inFlight'[g] <= FlightCap(g)
                      /\ g \notin started => inFlight'[g] = 0
    BY <1>2 DEF FlowsSane, FlightCap
  <2>1. /\ snd_una[g] <= sent[g] /\ snd_nxt[g] <= sent[g] /\ sent[g] <= Size[g]
        /\ snd_una[g] \in Nat /\ snd_nxt[g] \in Nat /\ sent[g] \in Nat /\ Size[g] \in Nat
        /\ inFlight[g] \in Nat /\ inFlight[g] <= FlightCap(g) /\ FlightCap(g) \in Nat
        /\ g \notin started => inFlight[g] = 0
    BY NicAssumption DEF IInv, FlowsSane, FlowsTyped, FlightCap
  <2>2. CASE g = f
    <3>1. sent'[g] = IF sent[g] >= snd_nxt'[g] THEN sent[g] ELSE snd_nxt'[g]
      BY <1>1, <1>5, <1>8, <2>2
    <3>2. inFlight'[g] = IF inFlight[g] < FlightCap(g) THEN inFlight[g] + 1 ELSE inFlight[g]
      BY <1>1, <1>5, <2>2
    <3> QED BY <1>3, <1>7, <2>1, <2>2, <3>1, <3>2
  <2>3. CASE g # f
    <3>1. snd_nxt'[g] = snd_nxt[g] /\ sent'[g] = sent[g] /\ inFlight'[g] = inFlight[g]
      BY <1>1, <1>5, <2>3
    <3> QED BY <2>1, <3>1
  <2> QED BY <2>2, <2>3
<1>11. PortTyped'
  <2> HIDE DEF ReturnedIndex, CleanedQps, Found
  <2>1. CountsTyped /\ FlagsTyped
    BY DEF IInv, PortTyped
  <2>2. CountsTyped'
    BY <1>2, <1>3, <2>1 DEF CountsTyped
  <2>3. FlagsTyped'
    BY <1>2, <2>1, Zenon DEF FlagsTyped
  <2> QED BY <2>2, <2>3 DEF PortTyped
<1>12. GroupSane' /\ UnfinishedStays'
  <2>1. \A g \in started : IsFinished(g)' <=> IsFinished(g)
    BY <1>2 DEF IsFinished
  <2> QED BY <1>2, <2>1, GroupCleaned
<1> QED
  BY <1>9, <1>10, <1>11, <1>12 DEF IInv

(* The other ways in which DequeueAndTransmit ends.                         *)
LEMMA DequeueKeeps ==
  IInv /\ (ChannelBusy \/ SendAck \/ SendTcp \/ SendNothing) => IInv'
<1> SUFFICES ASSUME IInv, ChannelBusy \/ SendAck \/ SendTcp \/ SendNothing PROVE IInv'
  OBVIOUS
<1>1. UNCHANGED flowVars
  BY Zenon DEF ChannelBusy, SendAck, SendTcp, SendNothing
<1>2. FlowsTyped' /\ FlowsSane'
  BY <1>1 DEF flowVars, IInv, FlowsTyped, FlowsSane, FlightCap
<1>3. m_qps' = m_qps \/ m_qps' = CleanedQps
  BY Zenon DEF ChannelBusy, SendAck, SendTcp, SendNothing, turnVars
<1>4. GroupSane' /\ UnfinishedStays'
  <2>1. started' = started /\ \A f \in started : IsFinished(f)' <=> IsFinished(f)
    BY <1>1 DEF flowVars, IsFinished
  <2> QED BY <1>3, <2>1, GroupStays, GroupCleaned
<1>5. PortTyped'
  <2>1. CountsTyped /\ FlagsTyped /\ QueueCap \in Nat /\ MaxGap \in Nat
    BY NicAssumption DEF IInv, PortTyped
  <2>2. FlagsTyped'
    <3>1. /\ trigger' = FALSE /\ m_paused' = m_paused
          /\ rdmaTurn' = rdmaTurn \/ rdmaTurn' = TRUE
      BY Zenon DEF ChannelBusy, SendAck, SendTcp, SendNothing, Ready, turnVars
    <3> QED BY <2>1, <3>1, Zenon DEF FlagsTyped
  <2>3. CASE ChannelBusy
    <3>1. UNCHANGED <<m_rrlast, ackQ, tcpQ, tx, m_nextSend>>
      BY <2>3, Zenon DEF ChannelBusy, turnVars
    <3> QED BY <2>1, <2>2, <3>1 DEF PortTyped, CountsTyped
  <2>4. CASE SendAck
    <3>1. /\ ackQ > 0 /\ ackQ' = ackQ - 1 /\ tx' = 1
          /\ UNCHANGED <<m_rrlast, tcpQ, m_nextSend>>
      BY <2>4, Zenon DEF SendAck, AckReady, turnVars
    <3>2. CountsTyped'
      BY <2>1, <3>1 DEF CountsTyped
    <3> QED BY <2>2, <3>2 DEF PortTyped
  <2>5. CASE SendTcp
    <3>1. /\ tcpQ > 0
          /\ \/ tcpQ' = tcpQ /\ tx' = tx
             \/ tcpQ' = tcpQ - 1 /\ tx' = 1
          /\ UNCHANGED <<m_rrlast, ackQ, m_nextSend>>
      BY <2>5, Zenon DEF SendTcp
    <3>2. CountsTyped'
      BY <2>1, <3>1 DEF CountsTyped
    <3> QED BY <2>2, <3>2 DEF PortTyped
  <2>6. CASE SendNothing
    <3>1. /\ \/ m_nextSend' = m_nextSend
             \/ \E t \in 1..MaxGap : m_nextSend' = t
          /\ UNCHANGED <<m_rrlast, ackQ, tcpQ, tx>>
      BY <2>6, Zenon DEF SendNothing
    <3>2. CountsTyped'
      BY <2>1, <3>1 DEF CountsTyped, NONE
    <3> QED BY <2>2, <3>2 DEF PortTyped
  <2> QED BY <2>3, <2>4, <2>5, <2>6
<1> QED
  BY <1>2, <1>4, <1>5 DEF IInv

(* A queue pair is added: the group grows by it.                            *)
LEMMA AddKeeps ==
  ASSUME IInv, NEW f \in Flows, AddQueuePair(f)
  PROVE  IInv'
<1>1. /\ f \notin started /\ started' = started \cup {f} /\ m_qps' = Append(m_qps, f)
      /\ wait' = [wait EXCEPT ![f] = 0] /\ trigger' = TRUE
      /\ UNCHANGED <<completed, snd_nxt, snd_una, expired, bound, sent, inFlight, m_rrlast,
                     rdmaTurn, ackQ, tcpQ, m_paused, tx, m_nextSend>>
  BY DEF AddQueuePair, Triggers
<1>2. FlowsTyped'
  <2>1. wait' \in [Flows -> 0..MaxGap]
    <3>1. 0 \in 0..MaxGap /\ wait \in [Flows -> 0..MaxGap]
      BY NicAssumption DEF IInv, FlowsTyped
    <3> QED BY <1>1, <3>1
  <2> QED BY <1>1, <2>1 DEF IInv, FlowsTyped
<1>3. FlowsSane'
  BY <1>1 DEF IInv, FlowsSane, FlightCap
<1>4. PortTyped'
  BY <1>1 DEF IInv, PortTyped, CountsTyped, FlagsTyped
<1> DEFINE n == Len(m_qps)
<1>5. /\ m_qps \in Seq(started) /\ IsInjective(m_qps) /\ n \in Nat /\ DOMAIN m_qps = 1..n
      /\ \A i \in DOMAIN m_qps : m_qps[i] \in started
  BY Positions DEF IInv, GroupSane, PortTyped, CountsTyped, FlagsTyped, GroupTyped
<1>6. /\ m_qps' \in Seq(started')
      /\ DOMAIN m_qps' = 1..(n + 1)
      /\ \A i \in 1..n : m_qps'[i] = m_qps[i]
      /\ m_qps'[n + 1] = f
  <2>1. m_qps \in Seq(started')
    <3>1. started \subseteq started'
      BY <1>1
    <3> QED BY <1>5, <3>1, SeqMonotonic
  <2>2. f \in started'
    BY <1>1
  <2>3. \A S : \A s \in Seq(S), x \in S :
          /\ Append(s, x) \in Seq(S) /\ DOMAIN Append(s, x) = 1..(Len(s) + 1)
          /\ \A i \in 1..Len(s) : Append(s, x)[i] = s[i]
          /\ Append(s, x)[Len(s) + 1] = x
    OBVIOUS
  <2> QED BY <1>1, <2>1, <2>2, <2>3
<1> HIDE DEF n
<1>7. IsInjective(m_qps')
  <2> SUFFICES ASSUME NEW a \in 1..(n + 1), NEW b \in 1..(n + 1), m_qps'[a] = m_qps'[b]
               PROVE  a = b
    BY <1>6 DEF IsInjective
  <2>1. a \in 1..n \/ a = n + 1
    BY <1>5
  <2>2. b \in 1..n \/ b = n + 1
    BY <1>5
  <2> QED BY <1>1, <1>5, <1>6, <2>1, <2>2 DEF IsInjective
<1>8. GroupSane'
  BY <1>6, <1>7 DEF GroupSane
<1>9. UnfinishedStays'
  <2> SUFFICES ASSUME NEW g \in started', ~IsFinished(g)'
               PROVE  \E i \in DOMAIN m_qps' : m_qps'[i] = g
    BY DEF UnfinishedStays
  <2>1. CASE g = f
    <3>1. n + 1 \in 1..(n + 1)
      BY <1>5
    <3> QED BY <1>6, <2>1, <3>1
  <2>2. CASE g # f
    <3>1. g \in started /\ ~IsFinished(g)
      BY <1>1, <2>2 DEF IsFinished
    <3>2. PICK i \in DOMAIN m_qps : m_qps[i] = g
      BY <3>1 DEF IInv, UnfinishedStays
    <3>3. i \in 1..(n + 1)
      BY <1>5, <3>2
    <3> QED BY <1>5, <1>6, <3>2, <3>3
  <2> QED BY <2>1, <2>2
<1> QED
  BY <1>2, <1>3, <1>4, <1>8, <1>9 DEF IInv

(* An ACK or a NACK arrives: what was acknowledged stays so.                *)
LEMMA AckKeeps ==
  ASSUME IInv, NEW f \in Flows, ReceiveAck(f)
  PROVE  IInv'
<1>1. PICK una \in snd_una[f]..sent[f], nack \in BOOLEAN :
        /\ snd_una' = [snd_una EXCEPT ![f] = una]
        /\ snd_nxt' = [snd_nxt EXCEPT ![f] = IF nack THEN una ELSE snd_nxt[f]]
  BY Zenon DEF ReceiveAck
<1>2. /\ inFlight[f] > 0 /\ trigger' = TRUE
      /\ \/ completed' = completed /\ inFlight' = [inFlight EXCEPT ![f] = inFlight[f] - 1]
         \/ completed' = completed \cup {f} /\ inFlight' = [inFlight EXCEPT ![f] = 0]
      /\ UNCHANGED <<started, expired, sent, turnVars, ackQ, tcpQ, m_paused, tx>>
  BY Zenon DEF ReceiveAck, Triggers
<1>3. \/ wait' = wait /\ m_nextSend' = m_nextSend
      \/ \E t \in 0..MaxGap : /\ wait' = [wait EXCEPT ![f] = t]
                              /\ m_nextSend' = t \/ m_nextSend' = m_nextSend
  <2>1. CASE UNCHANGED <<wait, m_nextSend>>
    BY <2>1
  <2>2. CASE \E t \in 0..MaxGap : wait' = [wait EXCEPT ![f] = t] /\ UpdateNextAvail(t)
    BY <2>2, Zenon DEF UpdateNextAvail
  <2> QED BY <2>1, <2>2, Zenon DEF ReceiveAck
<1>4. PICK b \in BOOLEAN : bound' = [bound EXCEPT ![f] = b]
  <2>1. PICK full \in {FALSE, Windowed} :
          bound' = [bound EXCEPT ![f] = full /\ snd_una'[f] < snd_nxt'[f]]
    BY Zenon DEF ReceiveAck
  <2> QED BY <2>1
<1>5. /\ snd_una \in [Flows -> Nat] /\ snd_nxt \in [Flows -> Nat] /\ Size[f] \in Nat
      /\ snd_una[f] \in Nat /\ snd_nxt[f] \in Nat
      /\ sent[f] \in Nat /\ inFlight \in [Flows -> Nat] /\ inFlight[f] \in Nat
      /\ started \subseteq Flows /\ completed \subseteq started
      /\ snd_nxt[f] <= sent[f] /\ sent[f] <= Size[f] /\ (f \notin started => inFlight[f] = 0)
      /\ inFlight[f] <= FlightCap(f) /\ FlightCap(f) \in Nat
      /\ bound \in [Flows -> BOOLEAN] /\ wait \in [Flows -> 0..MaxGap]
  BY NicAssumption DEF IInv, FlowsTyped, FlowsSane, FlightCap
<1>6. f \in started
  BY <1>2, <1>5
<1>7. una \in Nat /\ snd_una[f] <= una /\ una <= sent[f]
  BY <1>5
<1>8. FlowsTyped'
  <2>1. snd_una' \in [Flows -> Nat]
    BY <1>1, <1>5, <1>7
  <2>2. snd_nxt' \in [Flows -> Nat]
    BY <1>1, <1>5, <1>7
  <2>3. wait' \in [Flows -> 0..MaxGap]
    BY <1>3, <1>5
  <2>4. bound' \in [Flows -> BOOLEAN]
    BY <1>4, <1>5
  <2>5. completed' \subseteq started' /\ started' \subseteq Flows /\ expired' \in [Flows -> BOOLEAN]
    BY <1>2, <1>5, <1>6 DEF IInv, FlowsTyped
  <2>6. sent' \in [Flows -> Nat] /\ inFlight' \in [Flows -> Nat]
    BY <1>2, <1>5 DEF IInv, FlowsTyped
  <2> QED BY <2>1, <2>2, <2>3, <2>4, <2>5, <2>6 DEF FlowsTyped
<1>9. FlowsSane'
  <2> SUFFICES ASSUME NEW g \in Flows
               PROVE  /\ snd_una'[g] <= sent[g] /\ snd_nxt'[g] <= sent[g] /\ sent[g] <= Size[g]
                      /\ inFlight'[g] <= FlightCap(g)
                      /\ g \notin started => inFlight'[g] = 0
    BY <1>2 DEF FlowsSane, FlightCap
  <2>1. CASE g = f
    <3>1. snd_una'[g] = una /\ snd_nxt'[g] = IF nack THEN una ELSE snd_nxt[f]
      BY <1>1, <1>5, <2>1
    <3>2. inFlight'[g] = inFlight[f] - 1 \/ inFlight'[g] = 0
      BY <1>2, <1>5, <2>1
    <3> QED BY <1>2, <1>5, <1>6, <1>7, <2>1, <3>1, <3>2
  <2>2. CASE g # f
    <3>1. snd_una'[g] = snd_una[g] /\ snd_nxt'[g] = snd_nxt[g] /\ inFlight'[g] = inFlight[g]
      BY <1>1, <1>2, <1>5, <2>2
    <3> QED BY <3>1 DEF IInv, FlowsSane
  <2> QED BY <2>1, <2>2
<1>10. PortTyped'
  <2>1. PortTyped /\ m_nextSend' \in NONE..MaxGap
    BY <1>3, NicAssumption DEF IInv, PortTyped, CountsTyped, FlagsTyped, NONE
  <2> QED BY <1>2, <2>1 DEF PortTyped, CountsTyped, FlagsTyped, turnVars
<1>11. GroupSane' /\ UnfinishedStays'
  <2>1. \A g \in started : IsFinished(g) => IsFinished(g)'
    <3> SUFFICES ASSUME NEW g \in started, IsFinished(g) PROVE IsFinished(g)'
      OBVIOUS
    <3>1. snd_una'[g] >= snd_una[g] /\ snd_una'[g] \in Nat /\ snd_una[g] \in Nat /\ Size[g] \in Nat
      BY <1>1, <1>5, <1>7, NicAssumption
    <3> QED BY <1>2, <3>1 DEF IsFinished
  <2> QED BY <1>2, <2>1, GroupStays DEF turnVars
<1> QED
  BY <1>8, <1>9, <1>10, <1>11 DEF IInv

(* The handlers and events that leave the flows' counters alone.            *)
LEMMA EventsKeep ==
  IInv /\ (\/ TransmitComplete \/ NextSend \/ RdmaEnqueueHighPrioQ \/ Send \/ Tick
           \/ \E f \in Flows : StopTimePasses(f)
           \/ \E c \in Classes : Pause(c) \/ Resume(c)) => IInv'
<1> SUFFICES ASSUME IInv, \/ TransmitComplete \/ NextSend \/ RdmaEnqueueHighPrioQ \/ Send \/ Tick
                          \/ \E f \in Flows : StopTimePasses(f)
                          \/ \E c \in Classes : Pause(c) \/ Resume(c)
             PROVE  IInv'
  OBVIOUS
<1>1. UNCHANGED <<started, completed, snd_nxt, snd_una, bound, sent, inFlight, turnVars>>
  BY Zenon DEF TransmitComplete, NextSend, RdmaEnqueueHighPrioQ, Send, Tick, StopTimePasses,
               Pause, Resume, flowVars
<1>2. expired' = expired \/ \E f \in Flows : expired' = [expired EXCEPT ![f] = TRUE]
  BY Zenon DEF TransmitComplete, NextSend, RdmaEnqueueHighPrioQ, Send, Tick, StopTimePasses,
               Pause, Resume, flowVars
<1>3. wait' = wait \/ wait' = [f \in Flows |-> Earlier(wait[f])]
  BY Zenon DEF TransmitComplete, NextSend, RdmaEnqueueHighPrioQ, Send, Tick, StopTimePasses,
               Pause, Resume, flowVars
<1>4. /\ expired \in [Flows -> BOOLEAN] /\ wait \in [Flows -> 0..MaxGap]
      /\ PortTyped /\ QueueCap \in Nat /\ MaxGap \in Nat /\ started \subseteq Flows
  BY NicAssumption DEF IInv, FlowsTyped
<1>5. /\ expired' \in [Flows -> BOOLEAN]
      /\ \A f \in Flows : expired[f] => expired'[f]
  <2>1. CASE expired' = expired
    BY <1>4, <2>1
  <2>2. ASSUME NEW f \in Flows, expired' = [expired EXCEPT ![f] = TRUE]
        PROVE  expired' \in [Flows -> BOOLEAN] /\ \A g \in Flows : expired[g] => expired'[g]
    BY <1>4, <2>2
  <2> QED BY <1>2, <2>1, <2>2
<1>6. wait' \in [Flows -> 0..MaxGap]
  BY <1>3, <1>4 DEF Earlier
<1>7. FlowsTyped' /\ FlowsSane'
  BY <1>1, <1>5, <1>6 DEF IInv, FlowsTyped, FlowsSane, FlightCap
<1>8. GroupSane' /\ UnfinishedStays'
  <2>1. \A f \in started : IsFinished(f) => IsFinished(f)'
    BY <1>1, <1>4, <1>5 DEF IsFinished
  <2> QED BY <1>1, <2>1, GroupStays DEF turnVars
<1>9. PortTyped'
  <2>1. CASE TransmitComplete
    BY <1>1, <1>4, <2>1 DEF TransmitComplete, Triggers, PortTyped, CountsTyped, FlagsTyped, turnVars
  <2>2. CASE NextSend
    BY <1>1, <1>4, <2>2 DEF NextSend, Triggers, PortTyped, CountsTyped, FlagsTyped, turnVars, NONE
  <2>3. CASE RdmaEnqueueHighPrioQ
    BY <1>1, <1>4, <2>3 DEF RdmaEnqueueHighPrioQ, Triggers, PortTyped, CountsTyped, FlagsTyped, turnVars
  <2>4. CASE Send
    BY <1>1, <1>4, <2>4 DEF Send, Triggers, PortTyped, CountsTyped, FlagsTyped, turnVars
  <2>5. CASE Tick
    <3>1. tx' \in {NONE, 0, 1} /\ m_nextSend' \in NONE..MaxGap
      BY <1>4, <2>5 DEF Tick, Earlier, PortTyped, CountsTyped, FlagsTyped, NONE
    <3> QED BY <1>1, <1>4, <2>5, <3>1 DEF Tick, PortTyped, CountsTyped, FlagsTyped, turnVars
  <2>6. CASE \E f \in Flows : StopTimePasses(f)
    BY <1>1, <1>4, <2>6 DEF StopTimePasses, PortTyped, CountsTyped, FlagsTyped, turnVars
  <2>7. CASE \E c \in Classes : Pause(c) \/ Resume(c)
    <3>1. PICK c \in Classes : Pause(c) \/ Resume(c)
      BY <2>7
    <3>2. m_paused' \in [Classes -> BOOLEAN] /\ trigger' \in BOOLEAN
      BY <1>4, <3>1 DEF Pause, Resume, Triggers, PortTyped, CountsTyped, FlagsTyped
    <3> QED BY <1>1, <1>4, <3>1, <3>2 DEF Pause, Resume, PortTyped, CountsTyped, FlagsTyped, turnVars
  <2> QED BY <2>1, <2>2, <2>3, <2>4, <2>5, <2>6, <2>7
<1> QED
  BY <1>7, <1>8, <1>9 DEF IInv

(* The invariant is inductive.                                              *)
THEOREM Inductive == Spec => []IInv
<1>1. IInv /\ Next => IInv'
  BY SendFlowKeeps, DequeueKeeps, AddKeeps, AckKeeps, EventsKeep DEF Next, DequeueAndTransmit
<1>2. IInv /\ UNCHANGED vars => IInv'
  <2> SUFFICES ASSUME IInv, UNCHANGED vars PROVE IInv'
    OBVIOUS
  <2>1. UNCHANGED <<flowVars, turnVars, ackQ, tcpQ, m_paused, tx, m_nextSend, trigger>>
    BY DEF vars
  <2>2. \A f \in started : IsFinished(f) => IsFinished(f)'
    BY <2>1 DEF IsFinished, flowVars
  <2>3. GroupSane' /\ UnfinishedStays'
    BY <2>1, <2>2, GroupStays DEF flowVars, turnVars
  <2> QED
    BY <2>1, <2>3 DEF IInv, FlowsTyped, FlowsSane, FlightCap, PortTyped, CountsTyped, FlagsTyped,
                     flowVars, turnVars
<1> QED
  BY <1>1, <1>2, InitInv, PTL DEF Spec

(* Every variable has its type, and a flow is in the group at most once.    *)
THEOREM TypeCorrect == Spec => []TypeOK
<1>1. IInv => TypeOK
  BY NicAssumption DEF IInv, FlowsTyped, FlowsSane, PortTyped, CountsTyped, FlagsTyped, GroupSane, TypeOK
<1> QED
  BY <1>1, Inductive, PTL

(* The group never loses a flow that is not finished: GetNextQindex, which  *)
(* compacts it while it scans, takes out finished ones only.                *)
THEOREM UnfinishedStay == Spec => []UnfinishedStays
<1>1. IInv => UnfinishedStays
  BY DEF IInv
<1> QED
  BY <1>1, Inductive, PTL

(* The index returned is that of the chosen flow in the compacted group,    *)
(* unless the flow's stopTime has passed.                                   *)
THEOREM ChosenIsSent == Spec => []ChosenFlowIsSent
<1>1. IInv => ChosenFlowIsSent
  <2> SUFFICES ASSUME IInv, Found, ~expired[m_qps[Chosen]]
               PROVE  FlowsAt(ReturnedIndex) = {m_qps[Chosen]}
    BY DEF ChosenFlowIsSent
  <2>1. GroupTyped
    BY DEF IInv, GroupSane, PortTyped, CountsTyped, FlagsTyped, GroupTyped
  <2>2. Chosen \in DOMAIN m_qps /\ Available(ScanLength) /\ m_qps[Chosen] \in Flows
    BY <2>1, ScanStops, Positions DEF IInv, FlowsTyped
  <2>3. ~IsFinished(m_qps[Chosen])
    <3> DEFINE f == m_qps[Chosen]
    <3>1. snd_nxt[f] < Size[f] /\ ~(snd_una[f] > snd_nxt[f])
      BY <2>2 DEF Available, Eligible, IsWinBound, BytesLeft, Chosen
    <3>2. snd_una[f] \in Nat /\ snd_nxt[f] \in Nat /\ Size[f] \in Nat
      BY <2>2, NicAssumption DEF IInv, FlowsTyped, FlowsSane
    <3> HIDE DEF f
    <3>3. ~(snd_una[f] >= Size[f])
      BY <3>1, <3>2
    <3> QED BY <3>3 DEF IsFinished, f
  <2>4. Chosen \in Kept
    BY <2>1, <2>2, <2>3, KeptPositions
  <2>5. Rank(Chosen) \in DOMAIN CleanedQps /\ CleanedQps[Rank(Chosen)] = m_qps[Chosen]
    BY <2>1, <2>4, CleanedGroup
  <2> QED BY <2>4, <2>5, Zenon DEF ReturnedIndex, FlowsAt
<1> QED
  BY <1>1, Inductive, PTL

-----------------------------------------------------------------------------
(* Idle for a reason *)

IdleInv == IInv /\ IdleForPacingOnly

(* When nothing is in the way all flows with bytes left wait for their      *)
(* pacing, so that the soonest of them sets the timer.                      *)
LEMMA SoonestPaced ==
  ASSUME IInv, ~Found, \A j \in DOMAIN CleanedQps : ~HeldBack(CleanedQps[j]),
         NEW i \in DOMAIN CleanedQps, Eligible(CleanedQps[i])
  PROVE  Soonest(CleanedQps) \in 1..MaxGap
<1>1. GroupTyped
  BY DEF IInv, GroupSane, PortTyped, CountsTyped, GroupTyped
<1>2. \A k \in DOMAIN CleanedQps : \E j \in DOMAIN m_qps : CleanedQps[k] = m_qps[j]
  <2>1. \A k \in DOMAIN CleanedQps : \E j \in Kept : Rank(j) = k /\ CleanedQps[k] = m_qps[j]
    BY <1>1, CleanedGroup
  <2>2. Kept \in SUBSET DOMAIN m_qps
    BY <1>1, KeptPositions, Positions
  <2> HIDE DEF Kept, Rank, CleanedQps
  <2> QED BY <2>1, <2>2
<1>3. \A j \in DOMAIN m_qps : m_qps[j] \in Flows /\ ~(Eligible(m_qps[j]) /\ wait[m_qps[j]] = 0)
  <2> SUFFICES ASSUME NEW j \in DOMAIN m_qps
               PROVE  m_qps[j] \in Flows /\ ~(Eligible(m_qps[j]) /\ wait[m_qps[j]] = 0)
    OBVIOUS
  <2>1. m_qps[j] \in Flows
    BY <1>1, Positions DEF IInv, FlowsTyped
  <2>2. PICK k \in DOMAIN m_qps : ScanOrder[k] = j
    BY <1>1, ScanVisitsAll
  <2>3. ~Available(k)
    BY <1>1, <2>2, ScanStops
  <2> QED BY <2>1, <2>2, <2>3 DEF Available
<1> DEFINE q == CleanedQps
<1> HIDE DEF q
<1>4. \A k \in DOMAIN q : q[k] \in Flows /\ ~(Eligible(q[k]) /\ wait[q[k]] = 0)
  BY <1>2, <1>3 DEF q
<1>5. i \in DOMAIN q /\ Eligible(q[i]) /\ q[i] \in Flows
  BY <1>4 DEF q
<1>6. \A k \in DOMAIN q : BytesLeft(q[k]) => wait[q[k]] # 0
  <2>1. \A k \in DOMAIN q : ~HeldBack(q[k])
    BY DEF q
  <2> QED BY <1>4, <2>1 DEF HeldBack
<1> DEFINE T == {wait[q[j]] : j \in {k \in DOMAIN q : BytesLeft(q[k])}}
           S == T \cup {MaxGap + 1}
<1>7. MaxGap \in Nat /\ wait \in [Flows -> 0..MaxGap]
  BY NicAssumption DEF IInv, FlowsTyped
<1>8. \A t \in T : t \in 1..MaxGap
  <2> SUFFICES ASSUME NEW j \in DOMAIN q, BytesLeft(q[j]) PROVE wait[q[j]] \in 1..MaxGap
    OBVIOUS
  <2>1. wait[q[j]] \in 0..MaxGap /\ wait[q[j]] # 0
    BY <1>4, <1>6, <1>7
  <2> QED BY <1>7, <2>1
<1>9. wait[q[i]] \in T
  BY <1>5 DEF Eligible
<1>10. Soonest(q) = Min(S)
  BY DEF Soonest
<1> HIDE DEF T
<1>11. S \in SUBSET Nat /\ S # {}
  BY <1>7, <1>8
<1>12. Min(S) \in S /\ \A t \in S : Min(S) <= t
  <2> HIDE DEF S
  <2> QED BY <1>11, MinIsLeast
<1>13. Min(S) \in 1..MaxGap
  <2> DEFINE m == Min(S)
  <2> HIDE DEF m
  <2>1. (m \in T \/ m = MaxGap + 1) /\ m <= wait[q[i]] /\ wait[q[i]] \in 1..MaxGap
    BY <1>8, <1>9, <1>12 DEF m
  <2>2. m \in 1..MaxGap
    BY <1>7, <1>8, <2>1
  <2> QED BY <2>2 DEF m
<1> QED
  BY <1>10, <1>13 DEF q

(* DequeueAndTransmit leaves the NIC sending, or idle for a reason.         *)
LEMMA DequeueIdle ==
  ASSUME IdleInv, DequeueAndTransmit
  PROVE  IdleForPacingOnly'
<1>1. CASE ChannelBusy
  <2>1. tx' # NONE
    BY <1>1 DEF ChannelBusy
  <2> QED BY <2>1 DEF IdleForPacingOnly
<1>2. CASE SendAck \/ SendFlow
  <2>1. tx' = 1
    BY <1>2, Zenon DEF SendAck, SendFlow
  <2> QED BY <2>1 DEF IdleForPacingOnly, NONE
<1>3. CASE SendTcp
  <2>1. CASE m_paused[tcpip_q_idx]
    <3>1. /\ ~AckReady /\ tcpQ > 0 /\ UNCHANGED <<flowVars, ackQ, tcpQ, m_paused>>
      BY <1>3, <2>1, Zenon DEF SendTcp
    <3>2. ~AckReady' /\ m_paused'[tcpip_q_idx] /\ tcpQ' > 0
      BY <2>1, <3>1, Zenon DEF AckReady
    <3> QED BY <3>2, Zenon DEF IdleForPacingOnly, Undisturbed
  <2>2. CASE ~m_paused[tcpip_q_idx]
    <3>1. tx' = 1
      BY <1>3, <2>2, Zenon DEF SendTcp
    <3> QED BY <3>1 DEF IdleForPacingOnly, NONE
  <2> QED BY <2>1, <2>2
<1>4. CASE SendNothing
  <2>1. /\ ~AckReady /\ ~Found /\ tcpQ = 0 /\ m_qps' = CleanedQps
        /\ m_nextSend' = IF m_nextSend = NONE /\ Soonest(CleanedQps) \in 1..MaxGap
                         THEN Soonest(CleanedQps) ELSE m_nextSend
        /\ UNCHANGED <<flowVars, ackQ, tcpQ, m_paused>>
    BY <1>4, Zenon DEF SendNothing
  <2>2. ~AckReady' /\ tcpQ' = 0
    BY <2>1, Zenon DEF AckReady
  <2>3. ASSUME Undisturbed', NEW i \in DOMAIN m_qps', Eligible(m_qps[i])'
        PROVE  m_nextSend' # NONE
    <3>1. i \in DOMAIN CleanedQps /\ Eligible(CleanedQps[i])
      BY <2>1, <2>3, Zenon DEF Eligible, IsWinBound, BytesLeft, flowVars
    <3>2. \A j \in DOMAIN CleanedQps : ~HeldBack(CleanedQps[j])
      BY <2>1, <2>3, Zenon DEF Undisturbed, HeldBack, Eligible, IsWinBound, BytesLeft, flowVars
    <3>3. Soonest(CleanedQps) \in 1..MaxGap
      BY <2>1, <3>1, <3>2, SoonestPaced DEF IdleInv
    <3> HIDE DEF Soonest, CleanedQps
    <3> QED BY <2>1, <3>3 DEF NONE
  <2> QED BY <2>2, <2>3 DEF IdleForPacingOnly
<1> QED
  BY <1>1, <1>2, <1>3, <1>4 DEF DequeueAndTransmit

(* The handlers call it, and what happens without it takes nothing that the *)
(* NIC waits for away: a flow held back by PFC or by its window stays so.   *)
LEMMA EventsIdle ==
  ASSUME IdleInv, Next, ~DequeueAndTransmit
  PROVE  IdleForPacingOnly'
<1> DEFINE Same == UNCHANGED <<snd_nxt, snd_una, bound, m_qps, ackQ, tcpQ, trigger>>
<1>1. CASE trigger'
  BY <1>1 DEF IdleForPacingOnly, Idle
<1>2. /\ started \subseteq Flows /\ wait \in [Flows -> 0..MaxGap] /\ MaxGap \in Nat
      /\ tx \in {NONE, 0, 1} /\ m_nextSend \in NONE..MaxGap /\ m_paused \in [Classes -> BOOLEAN]
      /\ ack_q_idx \in Classes /\ tcpip_q_idx \in Classes
      /\ \A i \in DOMAIN m_qps : m_qps[i] \in Flows /\ m_pg[m_qps[i]] \in Classes
  <2>1. GroupTyped
    BY DEF IdleInv, IInv, GroupSane, PortTyped, CountsTyped, GroupTyped
  <2>2. started \subseteq Flows
    BY DEF IdleInv, IInv, FlowsTyped
  <2>3. \A i \in DOMAIN m_qps : m_qps[i] \in Flows
    BY <2>1, <2>2, Positions
  <2> QED
    BY <2>2, <2>3, NicAssumption DEF IdleInv, IInv, FlowsTyped, PortTyped, CountsTyped, FlagsTyped
<1>3. ASSUME Same, tx' = NONE => tx = NONE, m_nextSend # NONE => m_nextSend' # NONE,
             \A d \in Classes : m_paused[d] => m_paused'[d],
             \A f \in Flows : wait[f] = 0 => wait'[f] = 0
      PROVE  IdleForPacingOnly'
  <2> SUFFICES ASSUME Idle', tx' = NONE PROVE IdleForPacingOnly'
    BY DEF IdleForPacingOnly
  <2>1. /\ ~AckReady
        /\ tcpQ = 0 \/ m_paused[tcpip_q_idx]
        /\ Undisturbed => \A i \in DOMAIN m_qps : Eligible(m_qps[i]) => m_nextSend # NONE
    BY <1>3 DEF IdleInv, IdleForPacingOnly, Idle
  <2>2. ~AckReady' /\ (tcpQ' = 0 \/ m_paused'[tcpip_q_idx])
    BY <1>2, <1>3, <2>1 DEF AckReady
  <2>3. \A i \in DOMAIN m_qps : Eligible(m_qps[i])' => Eligible(m_qps[i])
    BY <1>2, <1>3, Zenon DEF Eligible, IsWinBound, BytesLeft
  <2>4. \A i \in DOMAIN m_qps : HeldBack(m_qps[i]) => HeldBack(m_qps[i])'
    BY <1>2, <1>3, <2>3, Zenon DEF HeldBack, BytesLeft
  <2>5. Undisturbed' => Undisturbed
    BY <1>2, <1>3, <2>4, Zenon DEF Undisturbed
  <2>6. ASSUME Undisturbed', NEW i \in DOMAIN m_qps', Eligible(m_qps[i])' PROVE m_nextSend' # NONE
    <3>1. i \in DOMAIN m_qps /\ Eligible(m_qps[i])
      BY <1>3, <2>3, <2>6, Zenon
    <3> QED BY <1>3, <2>1, <2>5, <2>6, <3>1
  <2> QED BY <2>2, <2>6 DEF IdleForPacingOnly
<1>4. CASE Tick
  <2>1. /\ tx' = Earlier(tx) /\ m_nextSend' = Earlier(m_nextSend)
        /\ wait' = [f \in Flows |-> Earlier(wait[f])] /\ Same /\ m_paused' = m_paused
    BY <1>4, Zenon DEF Tick, turnVars
  <2>2. (tx' = NONE => tx = NONE) /\ (m_nextSend # NONE => m_nextSend' # NONE)
    BY <1>2, <2>1 DEF Earlier, NONE
  <2>3. \A f \in Flows : wait[f] = 0 => wait'[f] = 0
    BY <1>2, <2>1 DEF Earlier
  <2> QED BY <1>3, <2>1, <2>2, <2>3
<1>5. CASE \E f \in Flows : StopTimePasses(f)
  <2>1. Same /\ UNCHANGED <<wait, m_paused, tx, m_nextSend>>
    BY <1>5, Zenon DEF StopTimePasses, turnVars
  <2> QED BY <1>3, <2>1
<1>6. CASE \E c \in Classes : Pause(c)
  <2>1. PICK c \in Classes : Pause(c)
    BY <1>6
  <2>2. m_paused' = [m_paused EXCEPT ![c] = TRUE] /\ Same /\ UNCHANGED <<wait, tx, m_nextSend>>
    BY <2>1, Zenon DEF Pause, turnVars, flowVars
  <2>3. \A d \in Classes : m_paused[d] => m_paused'[d]
    BY <1>2, <2>2
  <2> QED BY <1>3, <2>2, <2>3
<1>7. \/ trigger' \/ Tick
      \/ \E f \in Flows : StopTimePasses(f)
      \/ \E c \in Classes : Pause(c)
  BY Zenon DEF Next, TransmitComplete, NextSend, RdmaEnqueueHighPrioQ, Send, AddQueuePair, ReceiveAck,
               Resume, Triggers
<1> QED
  BY <1>1, <1>4, <1>5, <1>6, <1>7

(* An idle NIC has nothing that it could send, and unless something is in   *)
(* the way an event is scheduled for the flows that wait for their pacing.  *)
THEOREM IdleForAReason == Spec => []IdleForPacingOnly
<1>1. Init => IdleInv
  <2> SUFFICES ASSUME Init PROVE IdleInv
    OBVIOUS
  <2>1. IInv
    BY InitInv
  <2>2. IdleForPacingOnly
    BY DEF Init, IdleForPacingOnly, AckReady
  <2> QED BY <2>1, <2>2 DEF IdleInv
<1>2. IdleInv /\ IInv' /\ [Next]_vars => IdleInv'
  <2> SUFFICES ASSUME IdleInv, IInv', [Next]_vars PROVE IdleInv'
    OBVIOUS
  <2>1. CASE Next
    BY <2>1, DequeueIdle, EventsIdle DEF IdleInv
  <2>2. CASE UNCHANGED vars
    BY <2>2, Zenon DEF vars, flowVars, turnVars, IdleInv, IdleForPacingOnly, Idle, AckReady,
                Undisturbed, HeldBack, Eligible, IsWinBound, BytesLeft
  <2> QED BY <2>1, <2>2
<1>3. IdleInv => IdleForPacingOnly
  BY DEF IdleInv
<1> QED
  BY <1>1, <1>2, <1>3, Inductive, PTL DEF Spec

=============================================================================
