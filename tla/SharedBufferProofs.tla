------------------------- MODULE SharedBufferProofs -------------------------
(***************************************************************************)
(* Proofs about the shared buffer: its accounts agree with the queues, the *)
(* searches for room end, dynamic thresholds leave room, and LQD takes     *)
(* from the longest queues.                                                *)
(*                                                                         *)
(* The two loops are recursive functions over their rounds.  What holds    *)
(* before a loop and is kept by a round holds after each (LoopInvariant);  *)
(* the lemmas about the rounds are about any account and any queues, not   *)
(* about the current state, so that a state may be both ends of a loop.    *)
(***************************************************************************)
EXTENDS SharedBuffer, SumTheorems, TLAPS

-----------------------------------------------------------------------------
(* Natural numbers *)

(* A set of naturals that is not empty has a least element.                  *)
LEMMA LeastNatural ==
  ASSUME NEW T, T \subseteq Nat, T # {}
  PROVE  \E n \in T : \A m \in T : n <= m
<1>1. PICK n \in T : \A m \in T : ~(<<m, n>> \in OpToRel(<, Nat))
  BY NatLessThanWellFounded, WFMin, Zenon
<1>2. \A m \in T : ~(m < n)
  BY <1>1 DEF OpToRel
<1> QED
  BY <1>2

(* Induction up to n, on a set.                                              *)
LEMMA UpTo ==
  ASSUME NEW n \in Nat, NEW S, 0 \in S, \A i \in 1..n : i - 1 \in S => i \in S
  PROVE  \A i \in 0..n : i \in S
<1> SUFFICES ASSUME {i \in 0..n : i \notin S} # {} PROVE FALSE
  OBVIOUS
<1> DEFINE Bad == {i \in 0..n : i \notin S}
<1>1. PICK i \in Bad : \A j \in Bad : i <= j
  <2>1. Bad \subseteq Nat /\ Bad # {}
    OBVIOUS
  <2> HIDE DEF Bad
  <2> QED BY <2>1, LeastNatural
<1>2. i \in 1..n /\ i - 1 \in 0..n /\ i \notin S
  BY <1>1
<1>3. i - 1 \in S
  BY <1>1, <1>2
<1> QED
  BY <1>2, <1>3

-----------------------------------------------------------------------------
(* Loops *)

(* g is the recursive function by which RoomMade repeats PushedOut, up to   *)
(* round r.                                                                  *)
RoomLeft(m, size) == m.buffer.RemainingBuffer >= size
PushOuts(mem, size, r, g) ==
  g = [n \in 0..r |-> IF n = 0 THEN mem
                      ELSE IF RoomLeft(g[n - 1], size) THEN g[n - 1] ELSE PushedOut(g[n - 1])]

(* RoomMade (LQD's loop) is what that function ends with, if there is room.  *)
LEMMA RoomMadeIsLoop ==
  ASSUME NEW mem, NEW size
  PROVE  RoomMade(mem, size)
           = LET r == mem.buffer.OccupiedBuffer
             IN  {m \in {(CHOOSE g : PushOuts(mem, size, r, g))[r]} : RoomLeft(m, size)}
BY DEF RoomMade, Repeated, PushOuts, RoomLeft

(* There is such a function for any number of rounds: one more round extends *)
(* the function that makes one less.                                         *)
LEMMA PushOutsExist ==
  ASSUME NEW mem, NEW size, NEW r \in Nat
  PROVE  \E g : PushOuts(mem, size, r, g)
<1> DEFINE S == {k \in 0..r : \E g : PushOuts(mem, size, k, g)}
<1>1. 0 \in S
  <2>1. PushOuts(mem, size, 0, [n \in 0..0 |-> mem])
    <3>1. \A n \in 0..0 : n = 0
      OBVIOUS
    <3> QED BY <3>1 DEF PushOuts
  <2> QED BY <2>1
<1>2. ASSUME NEW i \in 1..r, i - 1 \in S
      PROVE  i \in S
  <2>1. PICK g : PushOuts(mem, size, i - 1, g)
    BY <1>2
  <2> DEFINE Round(m) == IF RoomLeft(m, size) THEN m ELSE PushedOut(m)
             h == [n \in 0..i |-> IF n = i THEN Round(g[i - 1]) ELSE g[n]]
  <2>2. \A n \in 0..(i - 1) : g[n] = IF n = 0 THEN mem ELSE Round(g[n - 1])
    <3> HIDE DEF Round
    <3> QED BY <2>1 DEF PushOuts, Round
  <2>3. ASSUME NEW n \in 0..i
        PROVE  h[n] = IF n = 0 THEN mem ELSE Round(h[n - 1])
    <3> HIDE DEF Round
    <3>1. CASE n = i
      <4>1. h[n] = Round(g[i - 1]) /\ n # 0 /\ h[i - 1] = g[i - 1]
        BY <3>1
      <4> QED BY <3>1, <4>1
    <3>2. CASE n # i /\ n # 0
      <4>1. n \in 0..(i - 1) /\ n - 1 \in 0..i /\ n - 1 # i
        BY <3>2
      <4>2. h[n] = g[n] /\ h[n - 1] = g[n - 1]
        BY <3>2, <4>1
      <4> QED BY <2>2, <3>2, <4>1, <4>2
    <3>3. CASE n # i /\ n = 0
      <4>1. h[0] = g[0] /\ 0 \in 0..(i - 1)
        BY <3>3
      <4> QED BY <2>2, <3>3, <4>1
    <3> QED BY <3>1, <3>2, <3>3
  <2>4. h = [n \in 0..i |-> IF n = 0 THEN mem ELSE Round(h[n - 1])]
    <3>1. h = [n \in 0..i |-> h[n]]
      OBVIOUS
    <3> HIDE DEF h, Round
    <3> QED BY <2>3, <3>1, Zenon
  <2>5. PushOuts(mem, size, i, h)
    <3> HIDE DEF h
    <3> QED BY <2>4, Zenon DEF PushOuts
  <2> QED BY <2>5
<1>3. r \in S
  <2> HIDE DEF S
  <2>1. \A i \in 0..r : i \in S
    BY <1>1, <1>2, UpTo
  <2> QED BY <2>1
<1> QED
  BY <1>3

(* The rounds of LQD: the function that RoomMade takes its result from.      *)
RoomRounds(mem, size) == CHOOSE g : PushOuts(mem, size, mem.buffer.OccupiedBuffer, g)

(* A round is the one before it when that leaves room, and otherwise takes  *)
(* out one packet more.                                                      *)
LEMMA RoundStep ==
  ASSUME NEW mem, NEW size, mem.buffer.OccupiedBuffer \in Nat,
         NEW n \in 0..mem.buffer.OccupiedBuffer
  PROVE  LET g == RoomRounds(mem, size)
         IN  /\ n = 0 => g[n] = mem
             /\ n > 0 /\ RoomLeft(g[n - 1], size) => g[n] = g[n - 1]
             /\ n > 0 /\ ~RoomLeft(g[n - 1], size) => g[n] = PushedOut(g[n - 1])
<1> DEFINE g == RoomRounds(mem, size)
           r == mem.buffer.OccupiedBuffer
<1>1. PushOuts(mem, size, r, g)
  BY PushOutsExist DEF RoomRounds
<1> HIDE DEF g, r
<1>2. n \in 0..r
  BY DEF r
<1>3. g[n] = IF n = 0 THEN mem
             ELSE IF RoomLeft(g[n - 1], size) THEN g[n - 1] ELSE PushedOut(g[n - 1])
  BY <1>1, <1>2 DEF PushOuts
<1>4. n > 0 => n # 0
  BY <1>2
<1> QED
  BY <1>3, <1>4 DEF g

(* LQD's loop ends with its last round, or not at all.                       *)
LEMMA RoomMadeRound ==
  ASSUME NEW mem, NEW size, NEW m
  PROVE  m \in RoomMade(mem, size)
           <=> m = RoomRounds(mem, size)[mem.buffer.OccupiedBuffer] /\ RoomLeft(m, size)
BY RoomMadeIsLoop DEF RoomRounds

-----------------------------------------------------------------------------
(* Sums over queues and over packets *)

(* A value per port and queue; the packets of a queue, by their sizes.       *)
PerQueue(S) == [Ports -> [Queues -> S]]
Sizes == Seq(1..MTU)

(* Changing one entry of a table changes nothing else of it.                 *)
LEMMA EntryChanged ==
  ASSUME NEW S, NEW f \in PerQueue(S), NEW p \in Ports, NEW q \in Queues, NEW v \in S
  PROVE  /\ [f EXCEPT ![p][q] = v] \in PerQueue(S)
         /\ [f EXCEPT ![p][q] = v][p][q] = v
         /\ \A o \in Ports, k \in Queues :
              <<o, k>> # <<p, q>> => [f EXCEPT ![p][q] = v][o][k] = f[o][k]
BY DEF PerQueue

(* Ports and queues are finite; queue 1 exists.                              *)
LEMMA FiniteQueues ==
  /\ IsFiniteSet(Ports) /\ IsFiniteSet(Queues)
  /\ \A Q \in SUBSET Queues : IsFiniteSet(Ports \X Q)
  /\ 1 \in Queues /\ Ports # {} /\ Ports \subseteq Nat
<1>1. numPorts \in Nat \ {0} /\ nPrior \in Nat \ {0, 1}
  BY SharedBufferAssumption
<1>2. IsFiniteSet(Ports) /\ IsFiniteSet(Queues)
  BY <1>1, FS_Interval DEF Ports, Queues
<1>3. 1 \in Queues /\ 0 \in Ports /\ Ports \subseteq Nat
  BY <1>1 DEF Ports, Queues
<1>4. ASSUME NEW Q \in SUBSET Queues
      PROVE  IsFiniteSet(Ports \X Q)
  BY <1>2, FS_Subset, FS_Product
<1> QED
  BY <1>2, <1>3, <1>4

(* The table by the pair of port and queue.                                  *)
Pairs(f, Q) == [pq \in Ports \X Q |-> f[pq[1]][pq[2]]]

(* The sum of a table is the sum over its pairs.                             *)
LEMMA OverQueuesIsSum ==
  ASSUME NEW f, NEW Q
  PROVE  OverQueues(f, Q) = SumFunctionOnSet(Pairs(f, Q), Ports \X Q)
BY DEF OverQueues, Pairs, SumFunction

(* A sum of natural entries is at least each of them.                        *)
LEMMA OverQueuesNat ==
  ASSUME NEW f \in PerQueue(Nat), NEW Q \in SUBSET Queues
  PROVE  /\ OverQueues(f, Q) \in Nat
         /\ \A p \in Ports, q \in Q : f[p][q] <= OverQueues(f, Q)
<1>1. IsFiniteSet(Ports \X Q)
  BY FiniteQueues
<1>2. \A pq \in Ports \X Q : Pairs(f, Q)[pq] \in Nat
  BY DEF Pairs, PerQueue
<1>3. SumFunctionOnSet(Pairs(f, Q), Ports \X Q) \in Nat
  BY <1>1, <1>2, SumNat
<1>4. ASSUME NEW p \in Ports, NEW q \in Q
      PROVE  f[p][q] <= OverQueues(f, Q)
  <2>1. <<p, q>> \in Ports \X Q /\ Pairs(f, Q)[<<p, q>>] = f[p][q]
    BY DEF Pairs
  <2>2. Pairs(f, Q)[<<p, q>>] <= SumFunctionOnSet(Pairs(f, Q), Ports \X Q)
    BY <1>1, <1>2, <2>1, TermWithinSum
  <2> QED BY <2>1, <2>2, OverQueuesIsSum
<1> QED
  BY <1>3, <1>4, OverQueuesIsSum

(* Changing one entry changes the sum as much.                               *)
LEMMA OverQueuesChange ==
  ASSUME NEW f \in PerQueue(Nat), NEW p \in Ports, NEW q \in Queues, NEW v \in Nat
  PROVE  OverQueues([f EXCEPT ![p][q] = v], Queues)
           = OverQueues(f, Queues) + (v - f[p][q])
<1> DEFINE g == [f EXCEPT ![p][q] = v]
           A == Pairs(f, Queues)
           B == Pairs(g, Queues)
           S == Ports \X Queues
<1>1. g \in PerQueue(Nat) /\ g[p][q] = v
  BY EntryChanged
<1>2. \A o \in Ports, k \in Queues : <<o, k>> # <<p, q>> => g[o][k] = f[o][k]
  BY EntryChanged
<1> HIDE DEF g
<1>3. \A pq \in S : A[pq] \in Int /\ B[pq] \in Int
  BY <1>1 DEF Pairs, PerQueue
<1>4. \A pq \in S : pq # <<p, q>> => B[pq] = A[pq]
  BY <1>2 DEF Pairs
<1>5. IsFiniteSet(S) /\ <<p, q>> \in S /\ A[<<p, q>>] = f[p][q] /\ B[<<p, q>>] = v
  BY <1>1, FiniteQueues DEF Pairs
<1>6. OverQueues(f, Queues) = SumFunctionOnSet(A, S)
      /\ OverQueues(g, Queues) = SumFunctionOnSet(B, S)
  BY OverQueuesIsSum
<1> DEFINE x == <<p, q>>
<1> HIDE DEF A, B, S, x
<1>7. IsFiniteSet(S) /\ x \in S /\ \A pq \in S : pq # x => B[pq] = A[pq]
  BY <1>4, <1>5 DEF x
<1>8. SumFunctionOnSet(B, S) = SumFunctionOnSet(A, S) + (B[x] - A[x])
  BY <1>3, <1>7, SumChange
<1> QED
  BY <1>5, <1>6, <1>8 DEF g, x

(* Tables that agree on some queues have the same sum over them.             *)
LEMMA OverQueuesSame ==
  ASSUME NEW f \in PerQueue(Nat), NEW h \in PerQueue(Nat), NEW Q \in SUBSET Queues,
         \A p \in Ports, q \in Q : f[p][q] = h[p][q]
  PROVE  OverQueues(f, Q) = OverQueues(h, Q)
<1>1. \A pq \in Ports \X Q : Pairs(f, Q)[pq] \in Int /\ Pairs(h, Q)[pq] = Pairs(f, Q)[pq]
  BY DEF Pairs, PerQueue
<1>2. IsFiniteSet(Ports \X Q)
  BY FiniteQueues
<1>3. SumFunctionOnSet(Pairs(h, Q), Ports \X Q) = SumFunctionOnSet(Pairs(f, Q), Ports \X Q)
  BY <1>1, <1>2, SumSame
<1> QED
  BY <1>3, OverQueuesIsSum

(* If the queues 1 are empty, the sum is that of the others.                 *)
LEMMA OverQueuesSplit ==
  ASSUME NEW f \in PerQueue(Nat), \A p \in Ports : f[p][1] = 0
  PROVE  OverQueues(f, Queues) = OverQueues(f, Queues \ {1})
<1> DEFINE S == Ports \X (Queues \ {1})
           T == Ports \X {1}
           A == Pairs(f, Queues)
           B == Pairs(f, Queues \ {1})
<1>1. IsFiniteSet(S) /\ IsFiniteSet(T) /\ S \cap T = {} /\ S \cup T = Ports \X Queues
  BY FiniteQueues
<1>2. /\ \A pq \in S \cup T : A[pq] \in Int
      /\ \A pq \in T : A[pq] = 0
      /\ \A pq \in S : A[pq] \in Int /\ B[pq] = A[pq]
  <2>1. \A pq \in Ports \X Queues : A[pq] = f[pq[1]][pq[2]] /\ f[pq[1]][pq[2]] \in Nat
    BY DEF Pairs, PerQueue
  <2>2. \A pq \in T : f[pq[1]][pq[2]] = 0
    OBVIOUS
  <2>3. \A pq \in S : B[pq] = f[pq[1]][pq[2]]
    BY DEF Pairs
  <2> HIDE DEF A, B, S, T
  <2> QED BY <1>1, <2>1, <2>2, <2>3
<1> HIDE DEF A, B, S, T
<1>3. SumFunctionOnSet(A, S \cup T) = SumFunctionOnSet(A, S) + SumFunctionOnSet(A, T)
  BY <1>1, <1>2, SumDisjoint
<1>4. SumFunctionOnSet(A, T) = 0 /\ SumFunctionOnSet(B, S) = SumFunctionOnSet(A, S)
  BY <1>1, <1>2, SumZero, SumSame
<1>5. SumFunctionOnSet(A, S) \in Int
  BY <1>1, <1>2, SumInt
<1>6. /\ OverQueues(f, Queues) = SumFunctionOnSet(A, S \cup T)
      /\ OverQueues(f, Queues \ {1}) = SumFunctionOnSet(B, S)
  BY <1>1, OverQueuesIsSum DEF A, B, S
<1> QED
  BY <1>3, <1>4, <1>5, <1>6

(* The bytes of a queue, as packets join it and leave it at either end.      *)
LEMMA TotalChange ==
  ASSUME NEW s \in Sizes
  PROVE  /\ Total(s) \in Nat
         /\ s = <<>> => Total(s) = 0
         /\ \A x \in 1..MTU : Append(s, x) \in Sizes /\ Total(Append(s, x)) = Total(s) + x
         /\ s # <<>> =>
              /\ Head(s) \in 1..MTU /\ Tail(s) \in Sizes
              /\ Total(s) = Head(s) + Total(Tail(s))
              /\ s[Len(s)] \in 1..MTU /\ SubSeq(s, 1, Len(s) - 1) \in Sizes
              /\ Total(s) = s[Len(s)] + Total(SubSeq(s, 1, Len(s) - 1))
<1> DEFINE n == Len(s)
<1>1. MTU \in Nat /\ n \in Nat /\ DOMAIN s = 1..n /\ \A i \in 1..n : s[i] \in 1..MTU
  BY SharedBufferAssumption DEF Sizes
<1>2. IsFiniteSet(1..n) /\ \A i \in 1..n : s[i] \in Nat
  BY <1>1, FS_Interval
<1>3. \A t \in Sizes : Total(t) = SumFunctionOnSet(t, 1..Len(t))
  <2>1. \A t \in Sizes : DOMAIN t = 1..Len(t)
    BY DEF Sizes
  <2> QED BY <2>1 DEF Total, SumFunction
<1>4. Total(s) \in Nat
  BY <1>2, <1>3, SumNat
<1>5. s = <<>> => Total(s) = 0
  <2>1. s = <<>> => 1..n = {}
    OBVIOUS
  <2> QED BY <1>3, <2>1, SumEmpty
<1>6. ASSUME NEW x \in 1..MTU
      PROVE  Append(s, x) \in Sizes /\ Total(Append(s, x)) = Total(s) + x
  <2> DEFINE t == Append(s, x)
  <2>1. t \in Sizes /\ Len(t) = n + 1 /\ t[n + 1] = x /\ \A i \in 1..n : t[i] = s[i]
    BY <1>1 DEF Sizes
  <2>2. \A i \in 1..(n + 1) : t[i] \in Int
    BY <1>1, <2>1 DEF Sizes
  <2> HIDE DEF t, n
  <2>3. SumFunctionOnSet(t, 1..(n + 1)) = t[n + 1] + SumFunctionOnSet(s, 1..n)
    BY <1>1, <2>1, <2>2, SumLast
  <2>4. Total(t) = x + Total(s)
    BY <1>3, <2>1, <2>3 DEF n
  <2> QED BY <1>4, <2>1, <2>4 DEF t
<1>7. ASSUME s # <<>>
      PROVE  /\ Head(s) \in 1..MTU /\ Tail(s) \in Sizes
             /\ Total(s) = Head(s) + Total(Tail(s))
  <2> DEFINE t == Tail(s)
             m == n - 1
  <2>1. m \in Nat /\ n = m + 1
    BY <1>1, <1>7
  <2>2. t \in Sizes /\ Len(t) = m /\ Head(s) = s[1] /\ \A i \in 1..m : t[i] = s[i + 1]
    BY <1>7, <2>1 DEF Sizes
  <2>3. \A i \in 1..(m + 1) : s[i] \in Int
    BY <1>1, <2>1
  <2>4. s[1] \in 1..MTU
    BY <1>1, <2>1
  <2> HIDE DEF t, n, m
  <2>5. SumFunctionOnSet(s, 1..(m + 1)) = s[1] + SumFunctionOnSet(t, 1..m)
    BY <2>1, <2>2, <2>3, SumFirst
  <2>6. Total(s) = s[1] + Total(t)
    BY <1>3, <2>1, <2>2, <2>5 DEF n
  <2> QED BY <2>2, <2>4, <2>6 DEF t
<1>8. ASSUME s # <<>>
      PROVE  /\ s[n] \in 1..MTU /\ SubSeq(s, 1, n - 1) \in Sizes
             /\ Total(s) = s[n] + Total(SubSeq(s, 1, n - 1))
  <2> DEFINE m == n - 1
             t == SubSeq(s, 1, m)
  <2>1. m \in Nat /\ n = m + 1
    BY <1>1, <1>8
  <2>2. t \in Sizes /\ Len(t) = m /\ \A i \in 1..m : t[i] = s[i]
    BY <1>1, <2>1 DEF Sizes
  <2>3. \A i \in 1..(m + 1) : s[i] \in Int
    BY <1>1, <2>1
  <2>4. s[n] \in 1..MTU
    BY <1>1, <2>1
  <2> HIDE DEF t, n, m
  <2>5. SumFunctionOnSet(s, 1..(m + 1)) = s[m + 1] + SumFunctionOnSet(t, 1..m)
    BY <2>1, <2>2, <2>3, SumLast
  <2>6. Total(s) = s[n] + Total(t)
    BY <1>3, <2>1, <2>2, <2>5 DEF n
  <2> QED BY <2>2, <2>4, <2>6 DEF t, m
<1> QED
  BY <1>4, <1>5, <1>6, <1>7, <1>8

-----------------------------------------------------------------------------
(* The account of the shared memory *)

(* What the shared memory keeps: SharedMemoryBuffer's counters.              *)
Account == [OccupiedBuffer: Nat, RemainingBuffer: Nat, queueLength: PerQueue(Nat),
            threshold: PerQueue(Nat), totalThreshold: Nat]

(* What is occupied and what remains make up the buffer, and the thresholds *)
(* add up to their total.                                                    *)
Balanced(b, total) ==
  /\ b \in Account
  /\ b.OccupiedBuffer + b.RemainingBuffer = total
  /\ b.totalThreshold = OverQueues(b.threshold, Queues) /\ b.totalThreshold <= total

(* The account charges what the queues hold.                                 *)
Charged(b, k) ==
  /\ b.OccupiedBuffer = OverQueues(b.queueLength, Queues)
  /\ \A p \in Ports, q \in Queues : b.queueLength[p][q] = Total(k[p][q])

(* A clamped difference is a natural number, at most what it starts from.    *)
LEMMA MonusNat ==
  ASSUME NEW a \in Nat, NEW b \in Nat
  PROVE  Monus(a, b) \in Nat /\ Monus(a, b) <= a /\ (b <= a => Monus(a, b) = a - b)
BY DEF Monus

(* The fields of an account.                                                 *)
LEMMA AccountFields ==
  ASSUME NEW b \in Account
  PROVE  /\ b.OccupiedBuffer \in Nat /\ b.RemainingBuffer \in Nat /\ b.totalThreshold \in Nat
         /\ b.queueLength \in PerQueue(Nat) /\ b.threshold \in PerQueue(Nat)
         /\ \A p \in Ports, q \in Queues :
              b.queueLength[p][q] \in Nat /\ b.threshold[p][q] \in Nat
<1>1. /\ b.OccupiedBuffer \in Nat /\ b.RemainingBuffer \in Nat /\ b.totalThreshold \in Nat
      /\ b.queueLength \in PerQueue(Nat) /\ b.threshold \in PerQueue(Nat)
  BY DEF Account
<1> QED
  BY <1>1 DEF PerQueue

(* A threshold that is lowered is taken off the total.                       *)
LEMMA LoweredToBalanced ==
  ASSUME NEW total \in Nat, NEW b \in Account, Balanced(b, total), NEW p \in Ports,
         NEW q \in Queues, NEW v \in Nat, v <= b.threshold[p][q]
  PROVE  /\ Balanced(LoweredTo(b, p, q, v), total)
         /\ LoweredTo(b, p, q, v).totalThreshold
              = b.totalThreshold - (b.threshold[p][q] - v)
<1> DEFINE c == LoweredTo(b, p, q, v)
           th == [b.threshold EXCEPT ![p][q] = v]
<1>1. b \in Account /\ b.threshold[p][q] \in Nat /\ b.totalThreshold \in Nat
      /\ b.threshold \in PerQueue(Nat)
  BY AccountFields DEF Balanced
<1>2. th \in PerQueue(Nat)
  BY <1>1, EntryChanged
<1>3. OverQueues(th, Queues) = OverQueues(b.threshold, Queues) + (v - b.threshold[p][q])
  BY <1>1, OverQueuesChange
<1>4. b.threshold[p][q] <= b.totalThreshold
  BY <1>1, OverQueuesNat DEF Balanced
<1>5. Monus(b.totalThreshold, b.threshold[p][q] - v)
        = b.totalThreshold - (b.threshold[p][q] - v)
  BY <1>1, <1>4 DEF Monus
<1>6. c = [b EXCEPT !.totalThreshold = b.totalThreshold - (b.threshold[p][q] - v),
                    !.threshold = th]
  BY <1>5 DEF LoweredTo
<1> HIDE DEF c, th
<1>7. /\ c.totalThreshold = b.totalThreshold - (b.threshold[p][q] - v) /\ c.threshold = th
      /\ c.queueLength = b.queueLength
      /\ c.OccupiedBuffer = b.OccupiedBuffer /\ c.RemainingBuffer = b.RemainingBuffer
  BY <1>1, <1>6 DEF Account
<1>8. b.totalThreshold - (b.threshold[p][q] - v) \in Nat
  BY <1>1, <1>4
<1>9. c \in Account
  BY <1>1, <1>2, <1>6, <1>8 DEF Account
<1>10. Balanced(c, total)
  BY <1>1, <1>3, <1>7, <1>8, <1>9 DEF Balanced
<1> QED
  BY <1>7, <1>10 DEF c, th

(* Its other fields stay as they were.                                       *)
LEMMA LoweredToFields ==
  ASSUME NEW b \in Account, NEW p \in Ports, NEW q \in Queues, NEW v \in Nat
  PROVE  /\ LoweredTo(b, p, q, v).queueLength = b.queueLength
         /\ LoweredTo(b, p, q, v).OccupiedBuffer = b.OccupiedBuffer
         /\ LoweredTo(b, p, q, v).RemainingBuffer = b.RemainingBuffer
BY DEF LoweredTo, Account

(* A packet that leaves is discharged: the account stays balanced, and loses *)
(* the packet's size where it held as much.                                  *)
LEMMA DequeuedBalanced ==
  ASSUME TotalBuffer \in Nat, NEW b, Balanced(b, TotalBuffer),
         NEW p \in Ports, NEW q \in Queues, NEW size \in Nat
  PROVE  LET c == Dequeued(b, size, p, q)
         IN  /\ Balanced(c, TotalBuffer) /\ c \in Account
             /\ c.OccupiedBuffer = Monus(b.OccupiedBuffer, size)
<1> DEFINE left == Monus(b.queueLength[p][q], size)
           ql == [b.queueLength EXCEPT ![p][q] = left]
           occ == Monus(b.OccupiedBuffer, size)
           rem == IF b.OccupiedBuffer > size THEN b.RemainingBuffer + size ELSE TotalBuffer
           d == [b EXCEPT !.OccupiedBuffer = occ, !.RemainingBuffer = rem, !.queueLength = ql]
           v == IF left = 0 THEN 0 ELSE Monus(b.threshold[p][q], size)
<1>1. /\ b \in Account /\ b.OccupiedBuffer \in Nat /\ b.RemainingBuffer \in Nat
      /\ b.queueLength \in PerQueue(Nat) /\ b.queueLength[p][q] \in Nat
      /\ b.threshold[p][q] \in Nat
  BY AccountFields DEF Balanced
<1>2. left \in Nat /\ occ \in Nat
  BY <1>1, MonusNat
<1>3. v \in Nat /\ v <= b.threshold[p][q]
  <2> HIDE DEF left
  <2>1. /\ Monus(b.threshold[p][q], size) \in Nat
        /\ Monus(b.threshold[p][q], size) <= b.threshold[p][q]
    BY <1>1, MonusNat
  <2> QED BY <1>1, <2>1
<1>4. rem \in Nat /\ occ + rem = TotalBuffer
  BY <1>1 DEF Monus, Balanced
<1>5. ql \in PerQueue(Nat)
  BY <1>1, <1>2, EntryChanged
<1>6. Dequeued(b, size, p, q) = LoweredTo(d, p, q, v)
  BY DEF Dequeued
<1> HIDE DEF left, ql, occ, rem, v
<1>7. /\ d \in Account /\ d.OccupiedBuffer = occ /\ d.RemainingBuffer = rem
      /\ d.queueLength = ql /\ d.threshold = b.threshold
      /\ d.totalThreshold = b.totalThreshold
  BY <1>1, <1>2, <1>4, <1>5 DEF Account
<1> HIDE DEF d
<1>8. Balanced(d, TotalBuffer)
  BY <1>4, <1>7 DEF Balanced
<1>9. v <= d.threshold[p][q]
  BY <1>3, <1>7
<1> DEFINE c == LoweredTo(d, p, q, v)
<1>10. /\ Balanced(c, TotalBuffer) /\ c.queueLength = d.queueLength
       /\ c.OccupiedBuffer = d.OccupiedBuffer
  <2>1. Balanced(c, TotalBuffer)
    BY <1>3, <1>7, <1>8, <1>9, LoweredToBalanced
  <2>2. c.queueLength = d.queueLength /\ c.OccupiedBuffer = d.OccupiedBuffer
    <3>1. d \in Account
      BY <1>7
    <3> QED BY <1>3, <3>1, LoweredToFields
  <2> QED BY <2>1, <2>2
<1> HIDE DEF c
<1> QED
  BY <1>6, <1>7, <1>10 DEF c, occ, Balanced

(* If the account is what the queues hold, it stays so as a packet leaves at *)
(* either end of one.                                                        *)
LEMMA DequeuedCharged ==
  ASSUME TotalBuffer \in Nat, NEW b, Balanced(b, TotalBuffer),
         NEW p \in Ports, NEW q \in Queues, NEW size \in Nat,
         NEW k \in PerQueue(Sizes), Charged(b, k),
         NEW l \in PerQueue(Sizes), Total(k[p][q]) = size + Total(l[p][q]),
         \A o \in Ports, j \in Queues : <<o, j>> # <<p, q>> => l[o][j] = k[o][j]
  PROVE  LET c == Dequeued(b, size, p, q)
         IN  /\ Charged(c, l)
             /\ c.OccupiedBuffer = b.OccupiedBuffer - size
             /\ \A o \in Ports, j \in Queues :
                  <<o, j>> # <<p, q>> => c.queueLength[o][j] = b.queueLength[o][j]
<1> DEFINE c == Dequeued(b, size, p, q)
           held == b.queueLength[p][q]
           left == Monus(held, size)
           ql == [b.queueLength EXCEPT ![p][q] = left]
           s == l[p][q]
<1>1. /\ b \in Account /\ b.OccupiedBuffer \in Nat
      /\ b.queueLength \in PerQueue(Nat) /\ held \in Nat
  BY AccountFields DEF Balanced
<1>2. Total(s) \in Nat /\ held = size + Total(s)
  <2>1. s \in Sizes
    BY DEF PerQueue
  <2> HIDE DEF s
  <2>2. Total(s) \in Nat
    BY <2>1, TotalChange
  <2> QED BY <2>2 DEF Charged, s
<1>3. left = Total(s) /\ left \in Nat
  BY <1>1, <1>2 DEF Monus
<1>4. c.queueLength = ql /\ c.OccupiedBuffer = Monus(b.OccupiedBuffer, size)
  <2>1. c.queueLength = ql
    BY <1>1 DEF Dequeued, LoweredTo, Account
  <2>2. c.OccupiedBuffer = Monus(b.OccupiedBuffer, size)
    BY DequeuedBalanced
  <2> QED BY <2>1, <2>2
<1>5. OverQueues(ql, Queues) = OverQueues(b.queueLength, Queues) + (left - held)
  BY <1>1, <1>3, OverQueuesChange
<1>6. held <= b.OccupiedBuffer
  BY <1>1, OverQueuesNat DEF Charged
<1>7. b.OccupiedBuffer = OverQueues(b.queueLength, Queues)
  BY DEF Charged
<1>8. /\ ql[p][q] = left
      /\ \A o \in Ports, j \in Queues : <<o, j>> # <<p, q>> => ql[o][j] = b.queueLength[o][j]
  <2> HIDE DEF left
  <2> QED BY <1>1 DEF PerQueue
<1>10. \A o \in Ports, j \in Queues : ql[o][j] = Total(l[o][j])
  <2> SUFFICES ASSUME NEW o \in Ports, NEW j \in Queues PROVE ql[o][j] = Total(l[o][j])
    OBVIOUS
  <2> HIDE DEF ql, left, held
  <2>1. CASE <<o, j>> = <<p, q>>
    BY <1>3, <1>8, <2>1
  <2>2. CASE <<o, j>> # <<p, q>>
    BY <1>8, <2>2 DEF Charged
  <2> QED BY <2>1, <2>2
<1> HIDE DEF c, ql, left, held
<1>11. c.OccupiedBuffer = b.OccupiedBuffer - size
  <2>1. size <= b.OccupiedBuffer
    BY <1>1, <1>2, <1>6
  <2> QED BY <1>1, <1>4, <2>1, MonusNat
<1>12. c.OccupiedBuffer = OverQueues(c.queueLength, Queues)
  BY <1>1, <1>2, <1>3, <1>4, <1>5, <1>7, <1>11
<1>13. Charged(c, l)
  BY <1>4, <1>10, <1>12 DEF Charged
<1> QED
  BY <1>4, <1>8, <1>11, <1>13 DEF c

(* A packet that enters, with more room than its size, is charged.           *)
LEMMA EnqueuedBalanced ==
  ASSUME TotalBuffer \in Nat, NEW b, Balanced(b, TotalBuffer),
         NEW p \in Ports, NEW q \in Queues, NEW size \in 1..MTU, b.RemainingBuffer > size
  PROVE  LET c == Enqueued(b, size, p, q)
         IN  /\ Balanced(c, TotalBuffer)
             /\ c.queueLength = [b.queueLength EXCEPT ![p][q] = b.queueLength[p][q] + size]
             /\ c.OccupiedBuffer = b.OccupiedBuffer + size
             /\ c.RemainingBuffer = b.RemainingBuffer - size
<1> DEFINE c == Enqueued(b, size, p, q)
           held == b.queueLength[p][q]
           ql == [b.queueLength EXCEPT ![p][q] = held + size]
<1>1. /\ b \in Account /\ b.OccupiedBuffer \in Nat /\ b.RemainingBuffer \in Nat
      /\ b.queueLength \in PerQueue(Nat) /\ held \in Nat
      /\ b.OccupiedBuffer + b.RemainingBuffer = TotalBuffer
  BY AccountFields DEF Balanced
<1>2. size \in Nat
  BY SharedBufferAssumption
<1>3. Lesser(b.OccupiedBuffer + size, TotalBuffer) = b.OccupiedBuffer + size
  BY <1>1, <1>2 DEF Lesser
<1>4. held + size \in Nat
  BY <1>1, <1>2
<1>5. ql \in PerQueue(Nat)
  BY <1>1, <1>4, EntryChanged
<1>6. c = [b EXCEPT !.RemainingBuffer = b.RemainingBuffer - size,
                    !.OccupiedBuffer = b.OccupiedBuffer + size, !.queueLength = ql]
  BY <1>3 DEF Enqueued
<1> HIDE DEF c, ql, held
<1>7. b.RemainingBuffer - size \in Nat /\ b.OccupiedBuffer + size \in Nat
  BY <1>1, <1>2
<1>8. /\ c \in Account /\ c.queueLength = ql /\ c.OccupiedBuffer = b.OccupiedBuffer + size
      /\ c.RemainingBuffer = b.RemainingBuffer - size
      /\ c.threshold = b.threshold /\ c.totalThreshold = b.totalThreshold
  BY <1>1, <1>5, <1>6, <1>7 DEF Account
<1>9. Balanced(c, TotalBuffer)
  BY <1>1, <1>2, <1>8 DEF Balanced
<1> QED
  BY <1>8, <1>9 DEF c, ql, held

(* EnqueueBuffer charges the queue the packet enters.                        *)
LEMMA EnqueuedCharged ==
  ASSUME TotalBuffer \in Nat, NEW b, Balanced(b, TotalBuffer),
         NEW p \in Ports, NEW q \in Queues, NEW size \in 1..MTU, b.RemainingBuffer > size,
         NEW k \in PerQueue(Sizes), Charged(b, k)
  PROVE  Charged(Enqueued(b, size, p, q), [k EXCEPT ![p][q] = Append(k[p][q], size)])
<1> DEFINE c == Enqueued(b, size, p, q)
           held == b.queueLength[p][q]
           ql == [b.queueLength EXCEPT ![p][q] = held + size]
           s == Append(k[p][q], size)
           l == [k EXCEPT ![p][q] = s]
<1>1. /\ b \in Account /\ b.OccupiedBuffer \in Nat
      /\ b.queueLength \in PerQueue(Nat) /\ held \in Nat /\ size \in Nat
  BY AccountFields, SharedBufferAssumption DEF Balanced
<1>2. k[p][q] \in Sizes
  BY DEF PerQueue
<1>3. s \in Sizes /\ Total(s) = held + size
  BY <1>2, TotalChange DEF Charged
<1>4. held + size \in Nat
  BY <1>1
<1>5. c.queueLength = ql /\ c.OccupiedBuffer = b.OccupiedBuffer + size
  BY EnqueuedBalanced
<1>6. OverQueues(ql, Queues) = OverQueues(b.queueLength, Queues) + ((held + size) - held)
  BY <1>1, <1>4, OverQueuesChange
<1>7. /\ ql[p][q] = held + size
      /\ \A o \in Ports, j \in Queues : <<o, j>> # <<p, q>> => ql[o][j] = b.queueLength[o][j]
  <2> HIDE DEF held
  <2> QED BY <1>1 DEF PerQueue
<1>8. /\ l[p][q] = s
      /\ \A o \in Ports, j \in Queues : <<o, j>> # <<p, q>> => l[o][j] = k[o][j]
  <2> HIDE DEF s
  <2> QED BY DEF PerQueue
<1>9. \A o \in Ports, j \in Queues : ql[o][j] = Total(l[o][j])
  <2> SUFFICES ASSUME NEW o \in Ports, NEW j \in Queues PROVE ql[o][j] = Total(l[o][j])
    OBVIOUS
  <2> HIDE DEF ql, l, s, held
  <2>1. CASE <<o, j>> = <<p, q>>
    BY <1>3, <1>7, <1>8, <2>1
  <2>2. CASE <<o, j>> # <<p, q>>
    BY <1>7, <1>8, <2>2 DEF Charged
  <2> QED BY <2>1, <2>2
<1>10. b.OccupiedBuffer = OverQueues(b.queueLength, Queues)
  BY DEF Charged
<1> HIDE DEF c, ql, l, s, held
<1>11. c.OccupiedBuffer = OverQueues(c.queueLength, Queues)
  BY <1>1, <1>5, <1>6, <1>10
<1>12. Charged(c, l)
  BY <1>5, <1>9, <1>11 DEF Charged
<1> QED
  BY <1>12 DEF c, l, s

(* Credence raises a threshold by the size of a packet that fits.            *)
LEMMA RaisedBalanced ==
  ASSUME TotalBuffer \in Nat, NEW b, Balanced(b, TotalBuffer),
         NEW p \in Ports, NEW q \in Queues, NEW size \in 1..MTU,
         b.totalThreshold + size <= TotalBuffer
  PROVE  LET c == Raised(b, size, p, q)
         IN  /\ Balanced(c, TotalBuffer) /\ c.queueLength = b.queueLength
             /\ c.OccupiedBuffer = b.OccupiedBuffer
<1> DEFINE c == Raised(b, size, p, q)
           v == b.threshold[p][q] + size
           th == [b.threshold EXCEPT ![p][q] = v]
<1>1. /\ b \in Account /\ b.totalThreshold \in Nat /\ b.threshold[p][q] \in Nat
      /\ b.threshold \in PerQueue(Nat) /\ size \in Nat
  BY AccountFields, SharedBufferAssumption DEF Balanced
<1>2. b.threshold[p][q] <= b.totalThreshold
  BY <1>1, OverQueuesNat DEF Balanced
<1>3. /\ Lesser(v, TotalBuffer) = v
      /\ Lesser(b.totalThreshold + size, TotalBuffer) = b.totalThreshold + size
      /\ v \in Nat /\ b.totalThreshold + size \in Nat
  BY <1>1, <1>2 DEF Lesser
<1>4. th \in PerQueue(Nat)
  <2> HIDE DEF v
  <2> QED BY <1>1, <1>3, EntryChanged
<1>5. OverQueues(th, Queues) = OverQueues(b.threshold, Queues) + (v - b.threshold[p][q])
  <2> HIDE DEF v
  <2> QED BY <1>1, <1>3, OverQueuesChange
<1>6. c = [b EXCEPT !.threshold = th, !.totalThreshold = b.totalThreshold + size]
  BY <1>3 DEF Raised
<1> HIDE DEF c, th
<1>7. /\ c \in Account /\ c.threshold = th /\ c.totalThreshold = b.totalThreshold + size
      /\ c.queueLength = b.queueLength
      /\ c.OccupiedBuffer = b.OccupiedBuffer /\ c.RemainingBuffer = b.RemainingBuffer
  BY <1>1, <1>3, <1>4, <1>6 DEF Account
<1>8. Balanced(c, TotalBuffer)
  BY <1>1, <1>5, <1>7 DEF Balanced
<1> QED
  BY <1>7, <1>8 DEF c

-----------------------------------------------------------------------------
(* LQD: packets are pushed out of the longest queue until one fits *)

(* The longest of the queues 1 exists: Longest returns one of them.          *)
LEMMA LongestIsLongest ==
  ASSUME NEW len \in PerQueue(Nat)
  PROVE  /\ Longest(len) \in Ports
         /\ \A o \in Ports : len[o][1] <= len[Longest(len)][1]
<1> DEFINE B == OverQueues(len, Queues)
           Gap(p) == B - len[p][1]
           Best(p) == \A o \in Ports : len[o][1] <= len[p][1]
           First(p) == \A o \in Ports :
                         len[o][1] < len[p][1] \/ (len[o][1] = len[p][1] /\ p <= o)
<1>1. /\ B \in Nat /\ Ports # {} /\ Ports \subseteq Nat
      /\ \A p \in Ports : len[p][1] \in Nat /\ len[p][1] <= B
  BY FiniteQueues, OverQueuesNat DEF PerQueue
<1>2. \A p \in Ports : Gap(p) \in Nat
  <2> HIDE DEF B
  <2> QED BY <1>1
<1>3. PICK p \in Ports : \A o \in Ports : Gap(p) <= Gap(o)
  <2> DEFINE T == {Gap(p) : p \in Ports}
  <2>1. T \subseteq Nat /\ T # {}
    BY <1>1, <1>2
  <2>2. \E n \in T : \A m \in T : n <= m
    <3> HIDE DEF T
    <3> QED BY <2>1, LeastNatural
  <2> QED BY <2>2
<1>4. Best(p)
  <2> HIDE DEF B
  <2> QED BY <1>1, <1>3
<1>5. PICK f \in {o \in Ports : Best(o)} : \A o \in {o \in Ports : Best(o)} : f <= o
  <2> DEFINE T == {o \in Ports : Best(o)}
  <2>1. T \subseteq Nat /\ T # {}
    BY <1>1, <1>4
  <2> HIDE DEF T
  <2> QED BY <2>1, LeastNatural DEF T
<1>6. First(f)
  <2> SUFFICES ASSUME NEW o \in Ports, ~(len[o][1] < len[f][1])
               PROVE  len[o][1] = len[f][1] /\ f <= o
    OBVIOUS
  <2>1. len[o][1] = len[f][1]
    BY <1>1, <1>5
  <2>2. Best(o)
    BY <1>5, <2>1
  <2> QED BY <1>5, <2>1, <2>2
<1>7. Longest(len) \in Ports /\ First(Longest(len))
  BY <1>5, <1>6 DEF Longest
<1> DEFINE L == Longest(len)
<1>8. L \in Ports /\ First(L)
  BY <1>7
<1> HIDE DEF B, L
<1>9. \A o \in Ports : len[o][1] <= len[L][1]
  BY <1>1, <1>8
<1> QED
  BY <1>8, <1>9 DEF L

(* An account and queues that agree: all of it without a reserve, and what   *)
(* no reserve disturbs with one.                                             *)
Sound(m) ==
  /\ m \in [buffer: Account, packets: PerQueue(Sizes)]
  /\ Balanced(m.buffer, TotalBuffer)
  /\ staticBuffer = 0 => Charged(m.buffer, m.packets)

(* A round that pushes a packet out takes it from the longest queue 1 and    *)
(* discharges it; one that finds it empty changes nothing.                   *)
LEMMA PushedOutSound ==
  ASSUME TotalBuffer \in Nat, NEW m, Sound(m)
  PROVE  Sound(PushedOut(m))
<1> DEFINE p == Longest(m.buffer.queueLength)
           s == m.packets[p][1]
           size == s[Len(s)]
           t == SubSeq(s, 1, Len(s) - 1)
           b == Dequeued(m.buffer, size, p, 1)
           k == [m.packets EXCEPT ![p][1] = t]
<1>1. /\ m.buffer \in Account /\ m.packets \in PerQueue(Sizes)
      /\ m.buffer.queueLength \in PerQueue(Nat) /\ Balanced(m.buffer, TotalBuffer)
  BY AccountFields DEF Sound
<1>2. p \in Ports /\ 1 \in Queues
  BY <1>1, LongestIsLongest, FiniteQueues
<1>3. s \in Sizes
  BY <1>1, <1>2 DEF PerQueue
<1>4. CASE s = <<>>
  BY <1>4 DEF PushedOut
<1>5. CASE s # <<>>
  <2>1. size \in 1..MTU /\ t \in Sizes /\ Total(s) = size + Total(t)
    BY <1>3, <1>5, TotalChange
  <2>2. size \in Nat
    BY <2>1, SharedBufferAssumption
  <2>3. PushedOut(m) = [buffer |-> b, packets |-> k]
    BY <1>5 DEF PushedOut
  <2> HIDE DEF p, s, size, t
  <2>4. Balanced(b, TotalBuffer) /\ b \in Account
    BY <1>1, <1>2, <2>2, DequeuedBalanced
  <2>5. k \in PerQueue(Sizes)
    BY <1>1, <1>2, <2>1, EntryChanged
  <2>6. staticBuffer = 0 => Charged(b, k)
    <3>1. /\ m.packets[p][1] = s /\ k[p][1] = t
          /\ \A o \in Ports, j \in Queues : <<o, j>> # <<p, 1>> => k[o][j] = m.packets[o][j]
      BY <1>1, <1>2 DEF s, PerQueue
    <3> HIDE DEF k
    <3> QED BY <1>1, <1>2, <2>1, <2>2, <2>5, <3>1, DequeuedCharged DEF Sound
  <2> HIDE DEF b, k
  <2> QED BY <2>3, <2>4, <2>5, <2>6 DEF Sound
<1> QED
  BY <1>4, <1>5

(* What a round does to the queues when the account is what they hold: it    *)
(* shortens the longest queue 1, unless all are empty.                       *)
LEMMA PushedOutTakes ==
  ASSUME TotalBuffer \in Nat, staticBuffer = 0, NEW m, Sound(m)
  PROVE  LET p == Longest(m.buffer.queueLength)
             s == m.packets[p][1]
             n == PushedOut(m)
         IN  /\ p \in Ports /\ s \in Sizes
             /\ \A o \in Ports : Total(m.packets[o][1]) <= Total(s)
             /\ \A o \in Ports, q \in Queues :
                  q # 1 => n.buffer.queueLength[o][q] = m.buffer.queueLength[o][q]
             /\ s = <<>> => n = m /\ \A o \in Ports : m.buffer.queueLength[o][1] = 0
             /\ s # <<>> =>
                  /\ n.packets[p][1] = SubSeq(s, 1, Len(s) - 1)
                  /\ \A o \in Ports : o # p => n.packets[o][1] = m.packets[o][1]
                  /\ n.buffer.OccupiedBuffer < m.buffer.OccupiedBuffer
                  /\ m.buffer.queueLength[p][1] > 0
<1> DEFINE p == Longest(m.buffer.queueLength)
           s == m.packets[p][1]
           n == PushedOut(m)
           size == s[Len(s)]
           t == SubSeq(s, 1, Len(s) - 1)
           b == Dequeued(m.buffer, size, p, 1)
           k == [m.packets EXCEPT ![p][1] = t]
<1>1. /\ m.buffer \in Account /\ m.packets \in PerQueue(Sizes)
      /\ m.buffer.queueLength \in PerQueue(Nat) /\ Balanced(m.buffer, TotalBuffer)
      /\ Charged(m.buffer, m.packets)
      /\ m.buffer.OccupiedBuffer \in Nat
  BY AccountFields DEF Sound
<1>2. /\ p \in Ports /\ 1 \in Queues
      /\ \A o \in Ports : m.buffer.queueLength[o][1] <= m.buffer.queueLength[p][1]
  BY <1>1, LongestIsLongest, FiniteQueues
<1>3. s \in Sizes
  BY <1>1, <1>2 DEF PerQueue
<1>4. \A o \in Ports : m.buffer.queueLength[o][1] = Total(m.packets[o][1])
                       /\ m.buffer.queueLength[o][1] \in Nat
  BY <1>1, <1>2 DEF Charged, PerQueue
<1>5. \A o \in Ports : Total(m.packets[o][1]) <= Total(s)
  BY <1>2, <1>4
<1>6. CASE s = <<>>
  <2>1. n = m
    BY <1>6 DEF PushedOut
  <2>2. Total(s) = 0
    BY <1>3, <1>6, TotalChange
  <2>3. \A o \in Ports : m.buffer.queueLength[o][1] = 0
    <3> HIDE DEF s, p
    <3> QED BY <1>4, <1>5, <2>2
  <2> HIDE DEF n, s, p
  <2>4. \A o \in Ports, q \in Queues :
          q # 1 => n.buffer.queueLength[o][q] = m.buffer.queueLength[o][q]
    BY <2>1
  <2> QED BY <1>2, <1>3, <1>5, <1>6, <2>1, <2>3, <2>4 DEF n, s, p
<1>7. CASE s # <<>>
  <2>1. size \in 1..MTU /\ t \in Sizes /\ Total(s) = size + Total(t) /\ Total(t) \in Nat
    <3>1. size \in 1..MTU /\ t \in Sizes /\ Total(s) = size + Total(t)
      BY <1>3, <1>7, TotalChange
    <3> HIDE DEF t, size, s
    <3> QED BY <3>1, TotalChange
  <2>2. size \in Nat /\ size > 0
    BY <2>1, SharedBufferAssumption
  <2>3. n.buffer = b /\ n.packets = k
    BY <1>7 DEF PushedOut
  <2>4. s = m.packets[p][1] /\ m.buffer.queueLength[p][1] = Total(s)
    BY <1>2, <1>4
  <2>5. /\ k[p][1] = t
        /\ \A o \in Ports, q \in Queues : <<o, q>> # <<p, 1>> => k[o][q] = m.packets[o][q]
        /\ k \in PerQueue(Sizes)
    <3> HIDE DEF p, t
    <3> QED BY <1>1, <1>2, <2>1 DEF PerQueue
  <2> HIDE DEF p, s, size, t, n, k
  <2>6. /\ b.OccupiedBuffer = m.buffer.OccupiedBuffer - size
        /\ \A o \in Ports, q \in Queues :
             <<o, q>> # <<p, 1>> => b.queueLength[o][q] = m.buffer.queueLength[o][q]
    BY <1>1, <1>2, <2>1, <2>2, <2>4, <2>5, DequeuedCharged
  <2>7. \A o \in Ports, q \in Queues : q # 1 => b.queueLength[o][q] = m.buffer.queueLength[o][q]
    BY <2>6
  <2> HIDE DEF b
  <2>8. b.OccupiedBuffer < m.buffer.OccupiedBuffer
    BY <1>1, <2>2, <2>6
  <2>9. m.buffer.queueLength[p][1] > 0
    BY <2>1, <2>2, <2>4
  <2>10. \A o \in Ports : o # p => k[o][1] = m.packets[o][1]
    BY <1>2, <2>5
  <2> QED BY <1>2, <1>3, <1>5, <1>7, <2>3, <2>5, <2>7, <2>8, <2>9, <2>10 DEF t, p, s, n
<1> QED
  BY <1>6, <1>7

(* Every round leaves the memory sound.                                      *)
LEMMA RoundsSound ==
  ASSUME TotalBuffer \in Nat, NEW mem, Sound(mem), NEW size
  PROVE  /\ mem.buffer.OccupiedBuffer \in Nat
         /\ \A n \in 0..mem.buffer.OccupiedBuffer : Sound(RoomRounds(mem, size)[n])
<1> DEFINE r == mem.buffer.OccupiedBuffer
           g == RoomRounds(mem, size)
           S == {n \in 0..r : Sound(g[n])}
<1>1. r \in Nat
  BY AccountFields DEF Sound
<1>2. 0 \in S
  <2>1. 0 \in 0..r
    BY <1>1
  <2> HIDE DEF g
  <2>2. g[0] = mem
    BY <1>1, <2>1, RoundStep DEF g
  <2> QED BY <2>1, <2>2
<1>3. ASSUME NEW i \in 1..r, i - 1 \in S
      PROVE  i \in S
  <2>1. i \in 0..r /\ i > 0
    BY <1>1
  <2>2. Sound(g[i - 1])
    BY <1>3
  <2>3. g[i] = g[i - 1] \/ g[i] = PushedOut(g[i - 1])
    BY <1>1, <2>1, RoundStep
  <2> HIDE DEF g, r
  <2>4. Sound(g[i])
    BY <2>2, <2>3, PushedOutSound
  <2> QED BY <2>1, <2>4
<1> HIDE DEF g, r, S
<1>4. \A n \in 0..r : n \in S
  BY <1>1, <1>2, <1>3, UpTo
<1> QED
  BY <1>1, <1>4 DEF S, g, r

(* Between k and l packets left some queues 1, each the longest when it lost *)
(* one: it is left within an MTU of the others.                              *)
TakenFrom(k, l) ==
  \A v \in Ports :
    /\ Len(l[v][1]) <= Len(k[v][1])
    /\ Len(l[v][1]) < Len(k[v][1]) =>
         \A o \in Ports : Total(l[v][1]) + MTU >= Total(l[o][1])

(* A push-out takes from the longest queue 1, so what rounds before it took  *)
(* remains taken from the longest.                                           *)
LEMMA PushedOutFromLongest ==
  ASSUME TotalBuffer \in Nat, staticBuffer = 0, NEW m, Sound(m),
         NEW k \in PerQueue(Sizes), TakenFrom(k, m.packets)
  PROVE  TakenFrom(k, PushedOut(m).packets)
<1> DEFINE p == Longest(m.buffer.queueLength)
           s == m.packets[p][1]
           n == PushedOut(m)
           t == SubSeq(s, 1, Len(s) - 1)
<1>1. /\ p \in Ports /\ s \in Sizes
      /\ \A o \in Ports : Total(m.packets[o][1]) <= Total(s)
      /\ s = <<>> => n = m
  BY PushedOutTakes
<1>2. CASE s = <<>>
  BY <1>1, <1>2
<1>3. CASE s # <<>>
  <2>1. /\ n.packets[p][1] = t
        /\ \A o \in Ports : o # p => n.packets[o][1] = m.packets[o][1]
    BY <1>3, PushedOutTakes
  <2>2. /\ s[Len(s)] \in 1..MTU /\ t \in Sizes /\ Total(s) = s[Len(s)] + Total(t)
        /\ Len(t) <= Len(s)
    BY <1>1, <1>3, TotalChange DEF Sizes
  <2>3. MTU \in Nat /\ \A o \in Ports : m.packets[o][1] \in Sizes /\ k[o][1] \in Sizes
    BY SharedBufferAssumption, FiniteQueues DEF Sound, PerQueue
  <2>4. \A o \in Ports : Total(m.packets[o][1]) \in Nat /\ Len(m.packets[o][1]) \in Nat
                         /\ Len(k[o][1]) \in Nat
    <3>1. \A u \in Sizes : Total(u) \in Nat /\ Len(u) \in Nat
      BY TotalChange DEF Sizes
    <3> HIDE DEF s, t
    <3> QED BY <2>3, <3>1
  <2>5. Total(t) \in Nat /\ Total(s) \in Nat /\ Len(t) \in Nat /\ Len(s) \in Nat
    <3> HIDE DEF s, t
    <3> QED BY <1>1, <2>2, TotalChange DEF Sizes
  <2>6. m.packets[p][1] = s
    OBVIOUS
  <2> DEFINE x == s[Len(s)]
  <2>7. x \in Nat /\ x <= MTU /\ Total(s) = x + Total(t)
    BY <2>2, <2>3
  <2> HIDE DEF p, s, n, t, x
  <2>8. \A o \in Ports : Total(n.packets[o][1]) <= Total(m.packets[o][1])
                         /\ Total(n.packets[o][1]) \in Nat
    BY <2>1, <2>4, <2>5, <2>6, <2>7
  <2> SUFFICES ASSUME NEW v \in Ports
               PROVE  /\ Len(n.packets[v][1]) <= Len(k[v][1])
                      /\ Len(n.packets[v][1]) < Len(k[v][1]) =>
                           \A o \in Ports :
                             Total(n.packets[v][1]) + MTU >= Total(n.packets[o][1])
    BY DEF TakenFrom, n
  <2>9. Len(m.packets[v][1]) <= Len(k[v][1])
    BY DEF TakenFrom
  <2>10. CASE v = p
    <3>1. Len(n.packets[v][1]) <= Len(k[v][1])
      BY <1>1, <2>1, <2>2, <2>4, <2>5, <2>6, <2>9, <2>10
    <3>2. ASSUME NEW o \in Ports
          PROVE  Total(n.packets[v][1]) + MTU >= Total(n.packets[o][1])
      <4>1. Total(n.packets[v][1]) + MTU >= Total(s)
        BY <2>1, <2>3, <2>5, <2>7, <2>10
      <4>2. Total(n.packets[o][1]) <= Total(s)
        BY <1>1, <2>4, <2>5, <2>8
      <4> QED BY <2>3, <2>5, <2>8, <4>1, <4>2
    <3> QED BY <3>1, <3>2
  <2>11. CASE v # p
    <3>1. n.packets[v][1] = m.packets[v][1]
      BY <2>1, <2>11
    <3>2. ASSUME Len(m.packets[v][1]) < Len(k[v][1]), NEW o \in Ports
          PROVE  Total(n.packets[v][1]) + MTU >= Total(n.packets[o][1])
      <4>1. Total(m.packets[v][1]) + MTU >= Total(m.packets[o][1])
        BY <3>2 DEF TakenFrom
      <4> QED BY <2>3, <2>4, <2>8, <3>1, <4>1
    <3> QED BY <2>9, <3>1, <3>2
  <2> QED BY <2>10, <2>11
<1> QED
  BY <1>2, <1>3

(* What every round of the search keeps when there is no reserve: queues    *)
(* that lost packets were the longest, other queues are as they were, and   *)
(* either the search is over or each round took at least a byte.             *)
Searching(mem, size, n, m) ==
  /\ TakenFrom(mem.packets, m.packets)
  /\ \A o \in Ports, q \in Queues :
       q # 1 => m.buffer.queueLength[o][q] = mem.buffer.queueLength[o][q]
  /\ \/ RoomLeft(m, size)
     \/ \A o \in Ports : m.buffer.queueLength[o][1] = 0
     \/ m.buffer.OccupiedBuffer + n <= mem.buffer.OccupiedBuffer

(* After n rounds LQD has room, or nothing left to take from queues 1, or n  *)
(* bytes less than it started with.                                          *)
LEMMA RoundsSearch ==
  ASSUME TotalBuffer \in Nat, staticBuffer = 0, NEW mem, Sound(mem), NEW size
  PROVE  \A n \in 0..mem.buffer.OccupiedBuffer :
           Searching(mem, size, n, RoomRounds(mem, size)[n])
<1> DEFINE r == mem.buffer.OccupiedBuffer
           g == RoomRounds(mem, size)
           S == {n \in 0..r : Searching(mem, size, n, g[n])}
<1>1. r \in Nat /\ mem.packets \in PerQueue(Sizes) /\ \A n \in 0..r : Sound(g[n])
  BY RoundsSound DEF Sound
<1>2. 0 \in S
  <2>1. 0 \in 0..r
    BY <1>1
  <2>2. g[0] = mem
    BY <1>1, <2>1, RoundStep
  <2>3. TakenFrom(mem.packets, mem.packets)
    <3>1. \A v \in Ports : mem.packets[v][1] \in Sizes
      BY <1>1, FiniteQueues DEF PerQueue
    <3>2. \A v \in Ports : Len(mem.packets[v][1]) \in Nat
      BY <3>1 DEF Sizes
    <3> QED BY <3>2 DEF TakenFrom
  <2>4. r + 0 <= r
    BY <1>1
  <2> HIDE DEF g
  <2>5. Searching(mem, size, 0, g[0])
    BY <2>2, <2>3, <2>4 DEF Searching
  <2> QED BY <2>1, <2>5
<1>3. ASSUME NEW i \in 1..r, i - 1 \in S
      PROVE  i \in S
  <2> DEFINE m == g[i - 1]
             n == PushedOut(m)
             p == Longest(m.buffer.queueLength)
  <2>1. i \in 0..r /\ i > 0 /\ i - 1 \in 0..r /\ i \in Int
    BY <1>1
  <2>2. Searching(mem, size, i - 1, m) /\ Sound(m)
    BY <1>1, <1>3, <2>1
  <2>3. /\ RoomLeft(m, size) => g[i] = m
        /\ ~RoomLeft(m, size) => g[i] = n
    BY <1>1, <2>1, RoundStep
  <2>4. TakenFrom(mem.packets, n.packets)
    <3> HIDE DEF m
    <3> QED BY <1>1, <2>2, PushedOutFromLongest DEF Searching
  <2>5. /\ p \in Ports
        /\ \A o \in Ports, q \in Queues :
             q # 1 => n.buffer.queueLength[o][q] = m.buffer.queueLength[o][q]
        /\ \/ n = m /\ \A o \in Ports : m.buffer.queueLength[o][1] = 0
           \/ /\ n.buffer.OccupiedBuffer < m.buffer.OccupiedBuffer
              /\ m.buffer.queueLength[p][1] > 0
    <3> HIDE DEF m
    <3> QED BY <2>2, PushedOutTakes
  <2>6. m.buffer.OccupiedBuffer \in Nat /\ n.buffer.OccupiedBuffer \in Nat
    <3>1. Sound(n)
      <4> HIDE DEF m
      <4> QED BY <2>2, PushedOutSound
    <3> HIDE DEF m, n
    <3> QED BY <2>2, <3>1, AccountFields DEF Sound
  <2> HIDE DEF m, n, p, g, r
  <2>7. CASE RoomLeft(m, size)
    BY <2>1, <2>2, <2>3, <2>7 DEF Searching
  <2>8. CASE ~RoomLeft(m, size)
    <3>1. \/ \A o \in Ports : n.buffer.queueLength[o][1] = 0
          \/ n.buffer.OccupiedBuffer + i <= mem.buffer.OccupiedBuffer
      <4>1. CASE n = m /\ \A o \in Ports : m.buffer.queueLength[o][1] = 0
        BY <4>1
      <4>2. CASE /\ n.buffer.OccupiedBuffer < m.buffer.OccupiedBuffer
                 /\ m.buffer.queueLength[p][1] > 0
        <5>1. m.buffer.OccupiedBuffer + (i - 1) <= mem.buffer.OccupiedBuffer
          BY <2>2, <2>5, <2>8, <4>2 DEF Searching
        <5> QED BY <1>1, <2>1, <2>6, <4>2, <5>1 DEF r
      <4> QED BY <2>5, <4>1, <4>2
    <3>2. \A o \in Ports, q \in Queues :
            q # 1 => n.buffer.queueLength[o][q] = mem.buffer.queueLength[o][q]
      BY <2>2, <2>5 DEF Searching
    <3> QED BY <2>1, <2>3, <2>4, <2>8, <3>1, <3>2 DEF Searching
  <2> QED BY <2>7, <2>8
<1> HIDE DEF g, r, S
<1>4. \A n \in 0..r : n \in S
  BY <1>1, <1>2, <1>3, UpTo
<1> QED
  BY <1>4 DEF S, g, r

(* What the search leaves fits the packet and is sound; without a reserve it *)
(* took from the longest queues.                                             *)
LEMMA RoomMadeSound ==
  ASSUME TotalBuffer \in Nat, NEW mem, Sound(mem), NEW size, NEW m \in RoomMade(mem, size)
  PROVE  /\ Sound(m) /\ RoomLeft(m, size)
         /\ staticBuffer = 0 => TakenFrom(mem.packets, m.packets)
<1> DEFINE r == mem.buffer.OccupiedBuffer
           g == RoomRounds(mem, size)
<1>1. m = g[r] /\ RoomLeft(m, size)
  BY RoomMadeRound
<1>2. r \in Nat /\ \A n \in 0..r : Sound(g[n])
  BY RoundsSound
<1>3. r \in 0..r
  BY <1>2
<1>4. staticBuffer = 0 => Searching(mem, size, r, g[r])
  BY <1>3, RoundsSearch
<1> QED
  BY <1>1, <1>2, <1>3, <1>4 DEF Searching

(* A search without end has emptied every queue 1, without a reserve: the   *)
(* other queues leave too little room for the packet.                        *)
LEMMA RoomMadeEnds ==
  ASSUME TotalBuffer \in Nat, staticBuffer = 0, NEW mem, Sound(mem), NEW size \in 1..MTU,
         RoomMade(mem, size) = {}
  PROVE  OverQueues(mem.buffer.queueLength, Queues \ {1}) + MTU > TotalBuffer
<1> DEFINE r == mem.buffer.OccupiedBuffer
           m == RoomRounds(mem, size)[r]
           f == m.buffer.queueLength
           h == mem.buffer.queueLength
           Q == Queues \ {1}
<1>1. r \in Nat /\ r \in 0..r
  BY RoundsSound
<1>2. Sound(m) /\ Searching(mem, size, r, m)
  BY <1>1, RoundsSound, RoundsSearch
<1>3. ~RoomLeft(m, size)
  BY RoomMadeRound
<1>4. /\ m.buffer.OccupiedBuffer \in Nat /\ m.buffer.RemainingBuffer \in Nat
      /\ m.buffer.OccupiedBuffer + m.buffer.RemainingBuffer = TotalBuffer
      /\ f \in PerQueue(Nat) /\ h \in PerQueue(Nat)
      /\ m.buffer.OccupiedBuffer = OverQueues(f, Queues)
  <2> HIDE DEF m
  <2> QED BY <1>2, AccountFields DEF Sound, Balanced, Charged
<1>5. \A o \in Ports : f[o][1] = 0
  <2>1. CASE m.buffer.OccupiedBuffer + r <= r
    <3>1. OverQueues(f, Queues) = 0
      <4> HIDE DEF m
      <4> QED BY <1>1, <1>4, <2>1
    <3>2. \A o \in Ports : f[o][1] \in Nat /\ f[o][1] <= OverQueues(f, Queues)
      <4> HIDE DEF f
      <4> QED BY <1>4, OverQueuesNat, FiniteQueues DEF PerQueue
    <3> HIDE DEF f
    <3> QED BY <3>1, <3>2
  <2> QED BY <1>2, <1>3, <2>1 DEF Searching
<1>6. OverQueues(f, Queues) = OverQueues(f, Q)
  <2> HIDE DEF f
  <2> QED BY <1>4, <1>5, OverQueuesSplit
<1>7. OverQueues(f, Q) = OverQueues(h, Q)
  <2>1. \A o \in Ports, q \in Q : f[o][q] = h[o][q]
    BY <1>2 DEF Searching
  <2> HIDE DEF f, h
  <2> QED BY <1>4, <2>1, OverQueuesSame
<1>8. size \in Nat /\ size <= MTU /\ MTU \in Nat
  BY SharedBufferAssumption
<1>9. m.buffer.RemainingBuffer < size
  BY <1>3, <1>4, <1>8 DEF RoomLeft
<1> HIDE DEF m, f, h, Q, r
<1>10. OverQueues(h, Q) + MTU > TotalBuffer
  BY <1>4, <1>6, <1>7, <1>8, <1>9
<1> QED
  BY <1>10 DEF h, Q

-----------------------------------------------------------------------------
(* Credence: the longest thresholds are lowered until the packet fits *)

(* g is the recursive function by which UpdateThreshold's loop lowers the    *)
(* longest threshold, up to round r.                                         *)
ThresholdFits(b, size) == b.totalThreshold + size <= TotalBuffer
Lowerings(b, size, r, g) ==
  g = [n \in 0..r |-> IF n = 0 THEN b
                      ELSE IF ThresholdFits(g[n - 1], size) THEN g[n - 1] ELSE Yields(g[n - 1])]

(* ThresholdsYielded is what that function ends with, if the packet fits.    *)
LEMMA ThresholdsYieldedIsLoop ==
  ASSUME NEW b, NEW size
  PROVE  ThresholdsYielded(b, size)
           = LET r == b.totalThreshold
             IN  {c \in {(CHOOSE g : Lowerings(b, size, r, g))[r]} : ThresholdFits(c, size)}
BY DEF ThresholdsYielded, Repeated, Lowerings, ThresholdFits

(* There is such a function for any number of rounds.                        *)
LEMMA LoweringsExist ==
  ASSUME NEW b, NEW size, NEW r \in Nat
  PROVE  \E g : Lowerings(b, size, r, g)
<1> DEFINE S == {k \in 0..r : \E g : Lowerings(b, size, k, g)}
<1>1. 0 \in S
  <2>1. Lowerings(b, size, 0, [n \in 0..0 |-> b])
    <3>1. \A n \in 0..0 : n = 0
      OBVIOUS
    <3> QED BY <3>1 DEF Lowerings
  <2> QED BY <2>1
<1>2. ASSUME NEW i \in 1..r, i - 1 \in S
      PROVE  i \in S
  <2>1. PICK g : Lowerings(b, size, i - 1, g)
    BY <1>2
  <2> DEFINE Round(c) == IF ThresholdFits(c, size) THEN c ELSE Yields(c)
             h == [n \in 0..i |-> IF n = i THEN Round(g[i - 1]) ELSE g[n]]
  <2>2. \A n \in 0..(i - 1) : g[n] = IF n = 0 THEN b ELSE Round(g[n - 1])
    <3> HIDE DEF Round
    <3> QED BY <2>1 DEF Lowerings, Round
  <2>3. ASSUME NEW n \in 0..i
        PROVE  h[n] = IF n = 0 THEN b ELSE Round(h[n - 1])
    <3> HIDE DEF Round
    <3>1. CASE n = i
      <4>1. h[n] = Round(g[i - 1]) /\ n # 0 /\ h[i - 1] = g[i - 1]
        BY <3>1
      <4> QED BY <3>1, <4>1
    <3>2. CASE n # i /\ n # 0
      <4>1. n \in 0..(i - 1) /\ n - 1 \in 0..i /\ n - 1 # i
        BY <3>2
      <4>2. h[n] = g[n] /\ h[n - 1] = g[n - 1]
        BY <3>2, <4>1
      <4> QED BY <2>2, <3>2, <4>1, <4>2
    <3>3. CASE n # i /\ n = 0
      <4>1. h[0] = g[0] /\ 0 \in 0..(i - 1)
        BY <3>3
      <4> QED BY <2>2, <3>3, <4>1
    <3> QED BY <3>1, <3>2, <3>3
  <2>4. h = [n \in 0..i |-> IF n = 0 THEN b ELSE Round(h[n - 1])]
    <3>1. h = [n \in 0..i |-> h[n]]
      OBVIOUS
    <3> HIDE DEF h, Round
    <3> QED BY <2>3, <3>1, Zenon
  <2>5. Lowerings(b, size, i, h)
    <3> HIDE DEF h
    <3> QED BY <2>4, Zenon DEF Lowerings
  <2> QED BY <2>5
<1>3. r \in S
  <2> HIDE DEF S
  <2>1. \A i \in 0..r : i \in S
    BY <1>1, <1>2, UpTo
  <2> QED BY <2>1
<1> QED
  BY <1>3

(* The rounds of Credence, from which ThresholdsYielded takes its result.    *)
LoweringRounds(b, size) == CHOOSE g : Lowerings(b, size, b.totalThreshold, g)

(* A round of Credence's loop is its start, a stop, or one more threshold    *)
(* lowered.                                                                  *)
LEMMA LoweringStep ==
  ASSUME NEW b, NEW size, b.totalThreshold \in Nat, NEW n \in 0..b.totalThreshold
  PROVE  LET g == LoweringRounds(b, size)
         IN  /\ n = 0 => g[n] = b
             /\ n > 0 /\ ThresholdFits(g[n - 1], size) => g[n] = g[n - 1]
             /\ n > 0 /\ ~ThresholdFits(g[n - 1], size) => g[n] = Yields(g[n - 1])
<1> DEFINE g == LoweringRounds(b, size)
           r == b.totalThreshold
<1>1. Lowerings(b, size, r, g)
  BY LoweringsExist DEF LoweringRounds
<1> HIDE DEF g, r
<1>2. n \in 0..r
  BY DEF r
<1>3. g[n] = IF n = 0 THEN b
             ELSE IF ThresholdFits(g[n - 1], size) THEN g[n - 1] ELSE Yields(g[n - 1])
  BY <1>1, <1>2 DEF Lowerings
<1>4. n > 0 => n # 0
  BY <1>2
<1> QED
  BY <1>3, <1>4 DEF g

(* Credence's loop ends with its last round, or not at all.                  *)
LEMMA LoweredRound ==
  ASSUME NEW b, NEW size, NEW c
  PROVE  c \in ThresholdsYielded(b, size)
           <=> c = LoweringRounds(b, size)[b.totalThreshold] /\ ThresholdFits(c, size)
BY ThresholdsYieldedIsLoop DEF LoweringRounds

(* One round of Credence keeps the account balanced and touches only the     *)
(* thresholds of queues 1.                                                   *)
Yielded(b, c) ==
  /\ Balanced(c, TotalBuffer)
  /\ c.queueLength = b.queueLength /\ c.OccupiedBuffer = b.OccupiedBuffer
  /\ \A o \in Ports, q \in Queues : q # 1 => c.threshold[o][q] = b.threshold[o][q]

(* A threshold that yields is the longest, and loses a byte or more unless   *)
(* all are 0.                                                                *)
LEMMA YieldsLowers ==
  ASSUME TotalBuffer \in Nat, NEW b, Balanced(b, TotalBuffer)
  PROVE  /\ Yielded(b, Yields(b))
         /\ \/ /\ Yields(b).totalThreshold < b.totalThreshold
               /\ \E o \in Ports : b.threshold[o][1] # 0
            \/ \A o \in Ports : Yields(b).threshold[o][1] = 0
<1> DEFINE p == Longest(b.threshold)
           held == b.threshold[p][1]
           v == Monus(held, MTU)
           c == LoweredTo(b, p, 1, v)
           th == [b.threshold EXCEPT ![p][1] = v]
<1>1. b \in Account /\ b.threshold \in PerQueue(Nat) /\ b.totalThreshold \in Nat
  BY AccountFields DEF Balanced
<1>2. /\ p \in Ports /\ 1 \in Queues
      /\ \A o \in Ports : b.threshold[o][1] <= b.threshold[p][1] /\ b.threshold[o][1] \in Nat
  <2>1. 1 \in Queues
    BY FiniteQueues
  <2>2. p \in Ports /\ \A o \in Ports : b.threshold[o][1] <= b.threshold[p][1]
    BY <1>1, LongestIsLongest
  <2>3. \A o \in Ports : b.threshold[o][1] \in Nat
    BY <1>1, <2>1 DEF PerQueue
  <2> QED BY <2>1, <2>2, <2>3
<1>3. MTU \in Nat /\ MTU > 0 /\ held \in Nat
  BY <1>2, SharedBufferAssumption
<1>4. v \in Nat /\ v <= held /\ (held > 0 => v < held)
  <2> HIDE DEF held
  <2> QED BY <1>3 DEF Monus
<1>5. c = Yields(b)
  BY DEF Yields
<1>6. c.threshold = th
  BY <1>1 DEF LoweredTo, Account
<1>7. \A o \in Ports, q \in Queues : <<o, q>> # <<p, 1>> => th[o][q] = b.threshold[o][q]
  <2> HIDE DEF p, v
  <2> QED BY <1>1, <1>2 DEF PerQueue
<1>8. \A o \in Ports, q \in Queues : q # 1 => th[o][q] = b.threshold[o][q]
  <2> HIDE DEF th
  <2> QED BY <1>7
<1>9. th[p][1] = v
  <2> HIDE DEF p, v
  <2> QED BY <1>1, <1>2 DEF PerQueue
<1> HIDE DEF p, v, c, th
<1>10. /\ Balanced(c, TotalBuffer) /\ c.totalThreshold = b.totalThreshold - (held - v)
       /\ c.queueLength = b.queueLength /\ c.OccupiedBuffer = b.OccupiedBuffer
  BY <1>1, <1>2, <1>4, LoweredToBalanced, LoweredToFields DEF c
<1>11. Yielded(b, c)
  BY <1>6, <1>8, <1>10 DEF Yielded
<1>12. CASE held > 0
  <2> HIDE DEF held
  <2>1. c.totalThreshold < b.totalThreshold
    BY <1>1, <1>3, <1>4, <1>10, <1>12
  <2>2. b.threshold[p][1] # 0
    BY <1>12 DEF held
  <2> QED BY <1>2, <1>5, <1>11, <2>1, <2>2
<1>13. CASE held = 0
  <2>1. \A o \in Ports : b.threshold[o][1] = 0
    BY <1>2, <1>13
  <2>2. v = 0
    BY <1>3, <1>4, <1>13
  <2>3. \A o \in Ports : th[o][1] = 0
    BY <1>2, <1>7, <1>9, <2>1, <2>2
  <2> QED BY <1>5, <1>6, <1>11, <2>3
<1> QED
  BY <1>3, <1>12, <1>13

(* What every round keeps: the account is balanced and as it was but for the *)
(* thresholds of the queues 1, and the search is over or each round took a   *)
(* byte.                                                                     *)
Yielding(b, size, n, c) ==
  /\ Yielded(b, c)
  /\ \/ ThresholdFits(c, size)
     \/ \A o \in Ports : c.threshold[o][1] = 0
     \/ c.totalThreshold + n <= b.totalThreshold

(* After n rounds the packet fits, or the thresholds of queues 1 are 0, or   *)
(* the thresholds are lower by n bytes.                                      *)
LEMMA LoweringsYield ==
  ASSUME TotalBuffer \in Nat, NEW b, Balanced(b, TotalBuffer), NEW size
  PROVE  \A n \in 0..b.totalThreshold : Yielding(b, size, n, LoweringRounds(b, size)[n])
<1> DEFINE r == b.totalThreshold
           g == LoweringRounds(b, size)
           S == {n \in 0..r : Yielding(b, size, n, g[n])}
<1>1. r \in Nat
  BY AccountFields DEF Balanced
<1>2. 0 \in S
  <2>1. 0 \in 0..r /\ r + 0 <= r
    BY <1>1
  <2>2. g[0] = b
    BY <1>1, <2>1, LoweringStep
  <2> HIDE DEF g
  <2>3. Yielding(b, size, 0, g[0])
    BY <2>1, <2>2 DEF Yielding, Yielded
  <2> QED BY <2>1, <2>3
<1>3. ASSUME NEW i \in 1..r, i - 1 \in S
      PROVE  i \in S
  <2> DEFINE c == g[i - 1]
             d == Yields(c)
  <2>1. i \in 0..r /\ i > 0 /\ i - 1 \in 0..r /\ i \in Int
    BY <1>1
  <2>2. Yielding(b, size, i - 1, c)
    BY <1>3
  <2>3. /\ ThresholdFits(c, size) => g[i] = c
        /\ ~ThresholdFits(c, size) => g[i] = d
    BY <1>1, <2>1, LoweringStep
  <2>4. /\ Yielded(c, d)
        /\ \/ /\ d.totalThreshold < c.totalThreshold
              /\ \E o \in Ports : c.threshold[o][1] # 0
           \/ \A o \in Ports : d.threshold[o][1] = 0
    <3> HIDE DEF c
    <3> QED BY <2>2, YieldsLowers DEF Yielding, Yielded
  <2>5. c.totalThreshold \in Nat /\ d.totalThreshold \in Nat
    <3> HIDE DEF c, d
    <3> QED BY <2>2, <2>4, AccountFields DEF Yielding, Yielded, Balanced
  <2> HIDE DEF c, d, g, r
  <2>6. CASE ThresholdFits(c, size)
    BY <2>1, <2>2, <2>3, <2>6 DEF Yielding
  <2>7. CASE ~ThresholdFits(c, size)
    <3>1. Yielded(b, d)
      BY <2>2, <2>4 DEF Yielding, Yielded
    <3>2. \/ \A o \in Ports : d.threshold[o][1] = 0
          \/ d.totalThreshold + i <= b.totalThreshold
      <4>1. CASE \A o \in Ports : c.threshold[o][1] = 0
        BY <2>4, <4>1
      <4>2. CASE c.totalThreshold + (i - 1) <= b.totalThreshold
        BY <1>1, <2>1, <2>4, <2>5, <4>2 DEF r
      <4> QED BY <2>2, <2>7, <4>1, <4>2 DEF Yielding
    <3> QED BY <2>1, <2>3, <2>7, <3>1, <3>2 DEF Yielding
  <2> QED BY <2>6, <2>7
<1> HIDE DEF g, r, S
<1>4. \A n \in 0..r : n \in S
  BY <1>1, <1>2, <1>3, UpTo
<1> QED
  BY <1>4 DEF S, g, r

(* What Credence leaves fits the packet, with nothing else of the account    *)
(* changed.                                                                  *)
LEMMA ThresholdsYieldedSound ==
  ASSUME TotalBuffer \in Nat, NEW b, Balanced(b, TotalBuffer), NEW size,
         NEW c \in ThresholdsYielded(b, size)
  PROVE  Yielded(b, c) /\ ThresholdFits(c, size)
<1> DEFINE r == b.totalThreshold
<1>1. c = LoweringRounds(b, size)[r] /\ ThresholdFits(c, size)
  BY LoweredRound
<1>2. r \in 0..r
  BY AccountFields DEF Balanced
<1>3. Yielding(b, size, r, LoweringRounds(b, size)[r])
  BY <1>2, LoweringsYield
<1> QED
  BY <1>1, <1>3 DEF Yielding

(* A search without end has lowered every threshold of a queue 1 to 0.       *)
LEMMA ThresholdsYieldedEnds ==
  ASSUME TotalBuffer \in Nat, NEW b, Balanced(b, TotalBuffer), NEW size \in 1..MTU,
         ThresholdsYielded(b, size) = {}
  PROVE  OverQueues(b.threshold, Queues \ {1}) + MTU > TotalBuffer
<1> DEFINE r == b.totalThreshold
           c == LoweringRounds(b, size)[r]
           f == c.threshold
           h == b.threshold
           Q == Queues \ {1}
<1>1. r \in Nat /\ r \in 0..r
  BY AccountFields DEF Balanced
<1>2. Yielding(b, size, r, c)
  BY <1>1, LoweringsYield
<1>3. ~ThresholdFits(c, size)
  BY LoweredRound
<1>4. /\ c.totalThreshold \in Nat /\ f \in PerQueue(Nat) /\ h \in PerQueue(Nat)
      /\ c.totalThreshold = OverQueues(f, Queues)
  <2>1. b \in Account
    BY DEF Balanced
  <2> HIDE DEF c
  <2> QED BY <1>2, <2>1, AccountFields DEF Yielding, Yielded, Balanced
<1>5. \A o \in Ports : f[o][1] = 0
  <2>1. CASE c.totalThreshold + r <= r
    <3>1. OverQueues(f, Queues) = 0
      <4> HIDE DEF c
      <4> QED BY <1>1, <1>4, <2>1
    <3>2. \A o \in Ports : f[o][1] \in Nat /\ f[o][1] <= OverQueues(f, Queues)
      <4> HIDE DEF f
      <4> QED BY <1>4, OverQueuesNat, FiniteQueues DEF PerQueue
    <3> HIDE DEF f
    <3> QED BY <3>1, <3>2
  <2> QED BY <1>2, <1>3, <2>1 DEF Yielding
<1>6. OverQueues(f, Queues) = OverQueues(f, Q)
  <2> HIDE DEF f
  <2> QED BY <1>4, <1>5, OverQueuesSplit
<1>7. OverQueues(f, Q) = OverQueues(h, Q)
  <2>1. \A o \in Ports, q \in Q : f[o][q] = h[o][q]
    BY <1>2 DEF Yielding, Yielded
  <2> HIDE DEF f, h
  <2> QED BY <1>4, <2>1, OverQueuesSame
<1>8. size \in Nat /\ size <= MTU /\ MTU \in Nat
  BY SharedBufferAssumption
<1>9. c.totalThreshold + size > TotalBuffer
  <2> HIDE DEF c
  <2> QED BY <1>3, <1>4, <1>8 DEF ThresholdFits
<1> HIDE DEF c, f, h, Q, r
<1>10. OverQueues(h, Q) + MTU > TotalBuffer
  BY <1>4, <1>6, <1>7, <1>8, <1>9
<1> QED
  BY <1>10 DEF h, Q

-----------------------------------------------------------------------------
(* The inductive invariant *)

(* The shared memory and the queues, as the loops take them.                 *)
Shared == [buffer |-> buffer, packets |-> packets]

(* ABM's count of congested queues is the sum of what each contributes.      *)
Congested ==
  /\ saturated \in PerQueue(Nat)
  /\ N \in [Queues -> Int]
  /\ \A q \in Queues : N[q] = SumFunction([p \in Ports |-> saturated[p][q]])

(* The account is sound, so every step of a search starts from a sound one;  *)
(* the other conjuncts say which queue is served and what is a number.       *)
IInv ==
  /\ TotalBuffer \in Nat /\ staticBuffer \in Nat /\ bufferalg \in Policies
  /\ dequeueIndex \in [Ports -> Queues] /\ overcount \in [Ports -> Nat]
  /\ Sound(Shared)
  /\ Congested
  /\ SearchEnds

(* A table of zeros adds up to 0.                                            *)
LEMMA ZeroTables ==
  /\ Zero \in PerQueue(Nat)
  /\ \A Q \in SUBSET Queues : OverQueues(Zero, Q) = 0
<1>1. Zero \in PerQueue(Nat)
  BY DEF Zero, PerQueue
<1>2. ASSUME NEW Q \in SUBSET Queues
      PROVE  OverQueues(Zero, Q) = 0
  <2>1. \A pq \in Ports \X Q : Pairs(Zero, Q)[pq] = 0
    BY DEF Pairs, Zero
  <2>2. IsFiniteSet(Ports \X Q)
    BY FiniteQueues
  <2> QED BY <2>1, <2>2, SumZero, OverQueuesIsSum
<1> QED
  BY <1>1, <1>2

(* The invariant holds when the switch starts.                               *)
LEMMA InitIInv == Init => IInv
<1> SUFFICES ASSUME Init PROVE IInv
  OBVIOUS
<1>1. TotalBuffer \in Nat /\ staticBuffer \in Nat /\ bufferalg \in Policies
  <2>1. PICK c \in Configurations : /\ bufferalg = c.bufferalg
                                    /\ staticBuffer = c.staticBuffer
                                    /\ TotalBuffer = c.TotalBuffer
    BY DEF Init
  <2>2. c \in [bufferalg: Policies, staticBuffer: Nat, TotalBuffer: Nat, assertions: BOOLEAN]
    BY SharedBufferAssumption
  <2> QED BY <2>1, <2>2
<1>2. 0 \in Queues /\ 1 \in Queues
  BY SharedBufferAssumption DEF Queues
<1>3. dequeueIndex \in [Ports -> Queues] /\ overcount \in [Ports -> Nat]
  BY <1>2 DEF Init
<1>4. buffer = [OccupiedBuffer |-> 0, RemainingBuffer |-> TotalBuffer,
                queueLength |-> Zero, threshold |-> Zero, totalThreshold |-> 0]
  BY DEF Init
<1>5. Balanced(buffer, TotalBuffer)
  <2>1. buffer \in Account
    BY <1>1, <1>4, ZeroTables DEF Account
  <2> QED BY <1>1, <1>4, <2>1, ZeroTables DEF Balanced
<1>6. packets \in PerQueue(Sizes) /\ \A p \in Ports, q \in Queues : packets[p][q] = <<>>
  BY DEF Init, PerQueue, Sizes
<1>7. Charged(buffer, packets)
  <2>1. Total(<<>>) = 0
    <3>1. <<>> \in Sizes
      BY DEF Sizes
    <3> QED BY <3>1, TotalChange
  <2>2. \A p \in Ports, q \in Queues : Zero[p][q] = 0
    BY DEF Zero
  <2>3. buffer.OccupiedBuffer = 0 /\ buffer.queueLength = Zero
    BY <1>4
  <2> QED BY <1>6, <2>1, <2>2, <2>3, ZeroTables DEF Charged
<1>8. Sound(Shared)
  BY <1>5, <1>6, <1>7 DEF Sound, Shared, Balanced
<1>9. Congested
  <2>1. saturated = Zero /\ N = [q \in Queues |-> 0]
    BY DEF Init
  <2>2. ASSUME NEW q \in Queues
        PROVE  SumFunction([p \in Ports |-> Zero[p][q]]) = 0
    <3> DEFINE f == [p \in Ports |-> Zero[p][q]]
    <3>1. DOMAIN f = Ports /\ \A p \in Ports : f[p] = 0
      BY DEF Zero
    <3> HIDE DEF f
    <3>2. SumFunctionOnSet(f, Ports) = 0
      BY <3>1, FiniteQueues, SumZero
    <3>3. SumFunction(f) = 0
      BY <3>1, <3>2 DEF SumFunction
    <3> QED BY <3>3 DEF f
  <2> QED BY <2>1, <2>2, ZeroTables DEF Congested
<1>10. SearchEnds
  BY DEF Init, SearchEnds
<1> QED
  BY <1>1, <1>3, <1>8, <1>9, <1>10 DEF IInv

(* The bytes in the queues of a port are at least those of each of them.     *)
LEMMA HeldNat ==
  ASSUME NEW k \in PerQueue(Sizes), NEW p \in Ports
  PROVE  /\ Held(k[p]) \in Nat
         /\ \A q \in Queues : Total(k[p][q]) <= Held(k[p])
<1> DEFINE f == [q \in Queues |-> Total(k[p][q])]
<1>1. \A q \in Queues : k[p][q] \in Sizes
  BY DEF PerQueue
<1>2. \A s \in Sizes : Total(s) \in Nat
  BY TotalChange
<1>3. DOMAIN f = Queues /\ \A q \in Queues : f[q] = Total(k[p][q]) /\ f[q] \in Nat
  BY <1>1, <1>2
<1>4. Held(k[p]) = SumFunction(f)
  BY DEF Held
<1> HIDE DEF f
<1>5. Held(k[p]) = SumFunctionOnSet(f, Queues)
  BY <1>3, <1>4 DEF SumFunction
<1>6. SumFunctionOnSet(f, Queues) \in Nat
  BY <1>3, FiniteQueues, SumNat
<1>7. \A q \in Queues : f[q] <= SumFunctionOnSet(f, Queues)
  BY <1>3, FiniteQueues, TermWithinSum
<1> QED
  BY <1>3, <1>5, <1>6, <1>7

(* What the port's disc counts is no less.                                   *)
LEMMA BytesAtNat ==
  ASSUME packets \in PerQueue(Sizes), overcount \in [Ports -> Nat], NEW p \in Ports
  PROVE  /\ BytesAt(p) \in Nat
         /\ \A q \in Queues : Total(packets[p][q]) <= BytesAt(p)
<1>1. Held(packets[p]) \in Nat /\ \A q \in Queues : Total(packets[p][q]) <= Held(packets[p])
  BY HeldNat
<1>2. overcount[p] \in Nat
  OBVIOUS
<1>3. \A q \in Queues : Total(packets[p][q]) \in Nat
  <2>1. \A q \in Queues : packets[p][q] \in Sizes
    BY DEF PerQueue
  <2> QED BY <2>1, TotalChange
<1> QED
  BY <1>1, <1>2, <1>3 DEF BytesAt

(* Push-outs keep the excess of the port's disc a number.                    *)
LEMMA OvercountNat ==
  ASSUME staticBuffer \in Nat, packets \in PerQueue(Sizes), overcount \in [Ports -> Nat],
         NEW mem, mem.packets \in PerQueue(Sizes), PushOutsCounted(mem)
  PROVE  overcount' \in [Ports -> Nat]
<1> SUFFICES ASSUME NEW p \in Ports
             PROVE  Lesser(overcount[p] + Monus(Held(packets[p]), Held(mem.packets[p])),
                           staticBuffer) \in Nat
  BY DEF PushOutsCounted
<1>1. Held(packets[p]) \in Nat /\ Held(mem.packets[p]) \in Nat
  BY HeldNat
<1>2. Monus(Held(packets[p]), Held(mem.packets[p])) \in Nat
  BY <1>1, MonusNat
<1>3. overcount[p] \in Nat
  OBVIOUS
<1> QED
  BY <1>2, <1>3 DEF Lesser

(* What the policy prepares is sound.                                        *)
LEMMA PreparedSound ==
  ASSUME IInv, NEW p \in Ports, NEW q \in Queues, NEW size \in 1..MTU,
         NEW mem \in Prepared(p, q, size)
  PROVE  Sound(mem)
<1>1. TotalBuffer \in Nat /\ Sound(Shared)
  BY DEF IInv
<1>2. CASE bufferalg = "LQD"
  <2>1. mem \in RoomMade(Shared, size)
    BY <1>2 DEF Prepared, Shared
  <2> QED BY <1>1, <2>1, RoomMadeSound
<1>3. CASE bufferalg = "CREDENCE"
  <2>1. PICK b \in ThresholdsYielded(buffer, size) :
          mem = [Shared EXCEPT !.buffer = Raised(b, size, p, q)]
    BY <1>3 DEF Prepared, Shared
  <2>2. Balanced(buffer, TotalBuffer) /\ packets \in PerQueue(Sizes)
        /\ (staticBuffer = 0 => Charged(buffer, packets))
    BY <1>1 DEF Sound, Shared
  <2>3. Yielded(buffer, b) /\ b.totalThreshold + size <= TotalBuffer
    BY <1>1, <2>2, ThresholdsYieldedSound DEF ThresholdFits
  <2> DEFINE c == Raised(b, size, p, q)
  <2>4. /\ Balanced(c, TotalBuffer) /\ c.queueLength = buffer.queueLength
        /\ c.OccupiedBuffer = buffer.OccupiedBuffer
    BY <1>1, <2>3, RaisedBalanced DEF Yielded
  <2>5. mem = [buffer |-> c, packets |-> packets]
    BY <2>1 DEF Shared
  <2> HIDE DEF c
  <2>6. staticBuffer = 0 => Charged(c, packets)
    BY <2>2, <2>4 DEF Charged
  <2> QED BY <2>2, <2>4, <2>5, <2>6 DEF Sound, Balanced
<1>4. CASE bufferalg # "LQD" /\ bufferalg # "CREDENCE"
  <2>1. mem = Shared
    BY <1>4 DEF Prepared, Shared
  <2> QED BY <1>1, <2>1
<1> QED
  BY <1>2, <1>3, <1>4

-----------------------------------------------------------------------------
(* Every step keeps the invariant *)

(* The current memory, without the records of a search.                      *)
LEMMA SharedIsSound ==
  ASSUME IInv
  PROVE  /\ Balanced(buffer, TotalBuffer) /\ packets \in PerQueue(Sizes)
         /\ staticBuffer = 0 => Charged(buffer, packets)
         /\ TotalBuffer \in Nat /\ staticBuffer \in Nat /\ overcount \in [Ports -> Nat]
BY DEF IInv, Sound, Shared

(* A step keeps the memory sound if the memory it leaves is.                 *)
LEMMA SoundAfter ==
  ASSUME UNCHANGED config, Balanced(buffer', TotalBuffer), packets' \in PerQueue(Sizes),
         staticBuffer = 0 => Charged(buffer', packets')
  PROVE  Sound(Shared)'
BY DEF Sound, Shared, config, Balanced

(* A packet that enters or leaves a queue leaves queues behind.              *)
LEMMA QueueChanged ==
  ASSUME NEW k \in PerQueue(Sizes), NEW p \in Ports, NEW q \in Queues
  PROVE  /\ k[p][q] \in Sizes
         /\ \A s \in Sizes : [k EXCEPT ![p][q] = s] \in PerQueue(Sizes)
BY DEF PerQueue

(* An arrival is a packet of a queue, of at most an MTU.                     *)
LEMMA ArrivalFields ==
  ASSUME NEW pkt \in Arrivals
  PROVE  pkt.priority \in Queues /\ pkt.size \in 1..MTU
BY SharedBufferAssumption

(* A packet that enters by the reserve changes no account, and there is one  *)
(* only with a reserve.                                                      *)
LEMMA EnqueueReservedSound ==
  ASSUME IInv, NEW p \in Ports, NEW q \in Queues, NEW size \in 1..MTU,
         EnqueueReserved(p, q, size)
  PROVE  Sound(Shared)' /\ staticBuffer # 0
<1>1. /\ Balanced(buffer, TotalBuffer) /\ packets \in PerQueue(Sizes)
      /\ staticBuffer \in Nat /\ overcount \in [Ports -> Nat]
  BY SharedIsSound
<1>2. BytesAt(p) \in Nat /\ size \in Nat
  BY <1>1, BytesAtNat, SharedBufferAssumption
<1>3. staticBuffer # 0
  BY <1>1, <1>2 DEF EnqueueReserved, InReserve
<1>4. packets' \in PerQueue(Sizes)
  <2> DEFINE s == Append(packets[p][q], size)
  <2>1. s \in Sizes
    BY <1>1, QueueChanged, TotalChange
  <2>2. packets' = [packets EXCEPT ![p][q] = s]
    BY DEF EnqueueReserved
  <2> HIDE DEF s
  <2> QED BY <1>1, <2>1, <2>2, QueueChanged
<1>5. UNCHANGED config /\ buffer' = buffer
  BY DEF EnqueueReserved
<1> QED
  BY <1>1, <1>3, <1>4, <1>5, SoundAfter

(* DoEnqueue keeps the account sound through the policy's loop and the       *)
(* admission of the packet.                                                  *)
LEMMA EnqueueSharedSound ==
  ASSUME IInv, NEW p \in Ports, NEW q \in Queues, NEW size \in 1..MTU,
         EnqueueShared(p, q, size)
  PROVE  Sound(Shared)' /\ overcount' \in [Ports -> Nat]
<1>1. TotalBuffer \in Nat /\ UNCHANGED config
  BY DEF IInv, EnqueueShared
<1>2. PICK mem \in Prepared(p, q, size) : \E accept \in AcceptPacket(mem, p, q, size) :
        /\ PushOutsCounted(mem)
        /\ IF accept /\ mem.buffer.RemainingBuffer > size
           THEN /\ buffer' = Enqueued(mem.buffer, size, p, q)
                /\ packets' = [mem.packets EXCEPT ![p][q] = Append(mem.packets[p][q], size)]
           ELSE buffer' = mem.buffer /\ packets' = mem.packets
  BY DEF EnqueueShared
<1> DEFINE b == mem.buffer
           k == mem.packets
           s == Append(k[p][q], size)
<1>3. /\ Balanced(b, TotalBuffer) /\ k \in PerQueue(Sizes)
      /\ staticBuffer = 0 => Charged(b, k)
  BY PreparedSound DEF Sound
<1>4. overcount' \in [Ports -> Nat]
  BY <1>2, <1>3, SharedIsSound, OvercountNat
<1>5. CASE buffer' = b /\ packets' = k
  BY <1>1, <1>3, <1>4, <1>5, SoundAfter
<1>6. CASE /\ b.RemainingBuffer > size
           /\ buffer' = Enqueued(b, size, p, q) /\ packets' = [k EXCEPT ![p][q] = s]
  <2>1. s \in Sizes
    <3>1. k[p][q] \in Sizes
      BY <1>3, QueueChanged
    <3> HIDE DEF k
    <3> QED BY <3>1, TotalChange
  <2> HIDE DEF b, k
  <2>2. packets' \in PerQueue(Sizes)
    <3> HIDE DEF s
    <3> QED BY <1>3, <1>6, <2>1, QueueChanged
  <2>3. Balanced(buffer', TotalBuffer)
    BY <1>1, <1>3, <1>6, EnqueuedBalanced
  <2>4. staticBuffer = 0 => Charged(buffer', packets')
    <3>1. staticBuffer = 0 => Charged(Enqueued(b, size, p, q), [k EXCEPT ![p][q] = s])
      BY <1>1, <1>3, <1>6, EnqueuedCharged
    <3> QED BY <1>6, <3>1
  <2> QED BY <1>1, <1>4, <2>2, <2>3, <2>4, SoundAfter
<1> QED
  BY <1>2, <1>5, <1>6

(* The queue a disc serves: it scans from where it left off, and takes the   *)
(* first that is not empty.                                                  *)
Served(p) == Scanned(p)[Min(Nonempty(p))]

(* The queue that is served is one of the disc's and holds a packet.         *)
LEMMA ServedIsBacklogged ==
  ASSUME IInv, NEW p \in Ports, Nonempty(p) # {}
  PROVE  /\ Served(p) \in Queues /\ packets[p][Served(p)] # <<>>
         /\ NextIndex(Served(p)) \in Queues
<1>1. nPrior \in Nat /\ nPrior > 1 /\ dequeueIndex[p] \in Queues
  BY SharedBufferAssumption DEF IInv
<1>2. Start(p) \in Nat
  BY <1>1 DEF Start, Queues
<1>3. \A a \in Int : a % nPrior \in Queues
  BY <1>1 DEF Queues
<1>4. \A i \in 1..nPrior : Scanned(p)[i] \in Queues
  BY <1>2, <1>3 DEF Scanned
<1>5. Min(Nonempty(p)) \in Nonempty(p)
  <2>1. Nonempty(p) \subseteq Nat
    BY DEF Nonempty
  <2>2. \E n \in Nonempty(p) : \A m \in Nonempty(p) : n <= m
    BY <2>1, LeastNatural
  <2> QED BY <2>2 DEF Min
<1>6. Served(p) \in Queues /\ packets[p][Served(p)] # <<>>
  BY <1>4, <1>5 DEF Served, Nonempty
<1>7. NextIndex(Served(p)) \in Queues
  <2>1. \A q \in Queues : q + 1 \in Int
    BY DEF Queues
  <2> QED BY <1>3, <1>6, <2>1 DEF NextIndex
<1> QED
  BY <1>6, <1>7

(* What a departure does: the first packet of a queue leaves, discharged     *)
(* when the port holds more than its reserve.                                *)
LEMMA DequeueEffect ==
  ASSUME IInv, NEW p \in Ports, Dequeue(p)
  PROVE  \E q \in Queues, size \in 1..MTU, s \in Sizes :
           /\ Total(packets[p][q]) = size + Total(s)
           /\ packets' = [packets EXCEPT ![p][q] = s]
           /\ buffer' = IF Discharges(p) THEN Dequeued(buffer, size, p, q) ELSE buffer
           /\ dequeueIndex' \in [Ports -> Queues] /\ overcount' = overcount
<1> DEFINE q == Served(p)
           size == Head(packets[p][q])
           s == Tail(packets[p][q])
<1>1. q \in Queues /\ packets[p][q] # <<>> /\ NextIndex(q) \in Queues
  BY ServedIsBacklogged DEF Dequeue
<1>2. packets[p][q] \in Sizes
  BY <1>1, SharedIsSound, QueueChanged
<1>3. size \in 1..MTU /\ s \in Sizes /\ Total(packets[p][q]) = size + Total(s)
  <2> HIDE DEF q
  <2> QED BY <1>1, <1>2, TotalChange
<1>4. /\ packets' = [packets EXCEPT ![p][q] = s]
      /\ buffer' = IF Discharges(p) THEN Dequeued(buffer, size, p, q) ELSE buffer
      /\ dequeueIndex' = [dequeueIndex EXCEPT ![p] = NextIndex(q)] /\ overcount' = overcount
  BY DEF Dequeue, Served
<1>5. dequeueIndex' \in [Ports -> Queues]
  <2> HIDE DEF q
  <2> QED BY <1>1, <1>4 DEF IInv
<1> HIDE DEF q, size, s
<1> QED
  BY <1>1, <1>3, <1>4, <1>5

(* DoDequeue keeps the account sound: what it discharges is what left.       *)
LEMMA DequeueSound ==
  ASSUME IInv, NEW p \in Ports, Dequeue(p)
  PROVE  Sound(Shared)'
<1>1. /\ Balanced(buffer, TotalBuffer) /\ packets \in PerQueue(Sizes)
      /\ staticBuffer = 0 => Charged(buffer, packets)
      /\ TotalBuffer \in Nat /\ staticBuffer \in Nat /\ overcount \in [Ports -> Nat]
  BY SharedIsSound
<1>2. PICK q \in Queues, size \in 1..MTU, s \in Sizes :
        /\ Total(packets[p][q]) = size + Total(s)
        /\ packets' = [packets EXCEPT ![p][q] = s]
        /\ buffer' = IF Discharges(p) THEN Dequeued(buffer, size, p, q) ELSE buffer
  BY DequeueEffect
<1>3. UNCHANGED config
  BY DEF Dequeue
<1>4. size \in Nat /\ size > 0
  BY SharedBufferAssumption
<1>5. packets' \in PerQueue(Sizes)
  BY <1>1, <1>2, QueueChanged
<1>6. Balanced(buffer', TotalBuffer)
  BY <1>1, <1>2, <1>4, DequeuedBalanced
<1>7. staticBuffer = 0 => Charged(buffer', packets')
  <2> SUFFICES ASSUME staticBuffer = 0 PROVE Charged(buffer', packets')
    OBVIOUS
  <2>1. Total(s) \in Nat
    BY TotalChange
  <2>2. BytesAt(p) > 0
    BY <1>1, <1>2, <1>4, <2>1, BytesAtNat
  <2>3. buffer' = Dequeued(buffer, size, p, q)
    BY <1>2, <2>2 DEF Discharges
  <2>4. /\ packets'[p][q] = s
        /\ \A o \in Ports, j \in Queues :
             <<o, j>> # <<p, q>> => packets'[o][j] = packets[o][j]
    BY <1>1, <1>2 DEF PerQueue
  <2>5. Total(packets[p][q]) = size + Total(packets'[p][q])
    BY <1>2, <2>4
  <2> QED BY <1>1, <1>4, <1>5, <2>3, <2>4, <2>5, DequeuedCharged
<1> QED
  BY <1>3, <1>5, <1>6, <1>7, SoundAfter

(* An arrival under ABM replaces its queue's part of the count.              *)
LEMMA CongestionCounts ==
  ASSUME IInv, NEW p \in Ports, NEW q \in Queues, Congestion(p, q)
  PROVE  Congested'
<1>1. /\ saturated \in PerQueue(Nat) /\ N \in [Queues -> Int]
      /\ \A k \in Queues : N[k] = SumFunction([o \in Ports |-> saturated[o][k]])
  BY DEF IInv, Congested
<1>2. CASE bufferalg # "ABM"
  BY <1>1, <1>2 DEF Congestion, abmVars, Congested
<1>3. CASE bufferalg = "ABM"
  <2> DEFINE v == SaturationAt(p, q)
  <2>1. v \in Nat
    <3>1. buffer.queueLength[p][q] \in Nat
      BY SharedIsSound, AccountFields DEF Balanced
    <3> QED BY <3>1, SharedBufferAssumption DEF SaturationAt, Lesser
  <2>2. /\ saturated' = [saturated EXCEPT ![p][q] = v]
        /\ N' = [N EXCEPT ![q] = N[q] + (v - saturated[p][q])]
    BY <1>3 DEF Congestion, NewN
  <2> HIDE DEF v
  <2>3. saturated' \in PerQueue(Nat) /\ saturated[p][q] \in Nat /\ N[q] \in Int
    BY <1>1, <2>1, <2>2 DEF PerQueue
  <2>4. N' \in [Queues -> Int]
    BY <1>1, <2>1, <2>2, <2>3
  <2>5. saturated'[p][q] = v
        /\ \A o \in Ports, k \in Queues :
             <<o, k>> # <<p, q>> => saturated'[o][k] = saturated[o][k]
    BY <1>1, <2>1, <2>2 DEF PerQueue
  <2>6. ASSUME NEW k \in Queues
        PROVE  N'[k] = SumFunction([o \in Ports |-> saturated'[o][k]])
    <3> DEFINE f == [o \in Ports |-> saturated[o][k]]
               g == [o \in Ports |-> saturated'[o][k]]
    <3>1. /\ DOMAIN f = Ports /\ DOMAIN g = Ports
          /\ \A o \in Ports : f[o] \in Int /\ g[o] \in Int
      BY <1>1, <2>3 DEF PerQueue
    <3>2. N[k] = SumFunctionOnSet(f, Ports)
      BY <1>1, <3>1 DEF SumFunction
    <3>3. SumFunction(g) = SumFunctionOnSet(g, Ports)
      BY <3>1 DEF SumFunction
    <3>4. CASE k = q
      <4>1. g[p] = v /\ f[p] = saturated[p][q]
        BY <2>5, <3>4
      <4>2. \A o \in Ports : o # p => g[o] = f[o]
        BY <2>5
      <4> HIDE DEF f, g
      <4>3. IsFiniteSet(Ports)
        BY FiniteQueues
      <4>4. \A o \in Ports : f[o] \in Int /\ g[o] \in Int
        BY <3>1
      <4>5. SumFunctionOnSet(g, Ports) = SumFunctionOnSet(f, Ports) + (g[p] - f[p])
        BY <4>2, <4>3, <4>4, SumChange
      <4>6. N'[k] = N[q] + (v - saturated[p][q])
        BY <1>1, <2>2, <3>4
      <4> QED BY <3>2, <3>3, <3>4, <4>1, <4>5, <4>6 DEF g
    <3>5. CASE k # q
      <4>1. \A o \in Ports : g[o] = f[o]
        BY <2>5, <3>5
      <4> HIDE DEF f, g
      <4>2. SumFunctionOnSet(g, Ports) = SumFunctionOnSet(f, Ports)
        BY <3>1, <4>1, FiniteQueues, SumSame
      <4>3. N'[k] = N[k]
        BY <1>1, <2>2, <3>5
      <4> QED BY <3>2, <3>3, <4>2, <4>3 DEF g
    <3> QED BY <3>4, <3>5
  <2> QED BY <2>3, <2>4, <2>6 DEF Congested
<1> QED
  BY <1>2, <1>3

(* A search that does not end has nothing left to take from the queues 1.    *)
LEMMA SearchForEverEnds ==
  ASSUME IInv, NEW p \in Ports, NEW q \in Queues, NEW size \in 1..MTU,
         SearchForEver(p, q, size)
  PROVE  SearchEnds'
<1>1. /\ TotalBuffer \in Nat /\ Sound(Shared) /\ Balanced(buffer, TotalBuffer)
      /\ bufferalg \in Policies
  BY SharedIsSound DEF IInv
<1>2. /\ Prepared(p, q, size) = {} /\ UNCHANGED <<bufferalg, staticBuffer, TotalBuffer>>
      /\ buffer' = buffer
  BY DEF SearchForEver, config
<1> SUFFICES ASSUME staticBuffer = 0
             PROVE  OverQueues(IF bufferalg = "LQD" THEN buffer.queueLength
                                                   ELSE buffer.threshold, Queues \ {1})
                      + MTU > TotalBuffer
  BY <1>2 DEF SearchEnds
<1>3. CASE bufferalg = "LQD"
  <2>1. RoomMade(Shared, size) = {} /\ Shared.buffer = buffer
    BY <1>2, <1>3 DEF Prepared, Shared
  <2>2. OverQueues(Shared.buffer.queueLength, Queues \ {1}) + MTU > TotalBuffer
    BY <1>1, <2>1, RoomMadeEnds
  <2> QED BY <1>3, <2>1, <2>2
<1>4. CASE bufferalg = "CREDENCE"
  <2>1. ThresholdsYielded(buffer, size) = {}
    <3>1. {[Shared EXCEPT !.buffer = Raised(b, size, p, q)] :
             b \in ThresholdsYielded(buffer, size)} = {}
      BY <1>2, <1>4 DEF Prepared, Shared
    <3> QED BY <3>1
  <2>2. OverQueues(buffer.threshold, Queues \ {1}) + MTU > TotalBuffer
    BY <1>1, <2>1, ThresholdsYieldedEnds
  <2> QED BY <1>4, <2>2
<1>5. CASE bufferalg # "LQD" /\ bufferalg # "CREDENCE"
  <2>1. Prepared(p, q, size) = {Shared}
    BY <1>5 DEF Prepared, Shared
  <2> QED BY <1>2, <2>1
<1> QED
  BY <1>3, <1>4, <1>5

(* DoEnqueue keeps the invariant; a search that does not end stops at the    *)
(* state SearchEnds describes.                                               *)
LEMMA EnqueueStep ==
  ASSUME IInv, NEW p \in Ports, NEW pkt \in Arrivals, Enqueue(p, pkt)
  PROVE  IInv'
<1> DEFINE q == pkt.priority
           size == pkt.size
<1>1. q \in Queues /\ size \in 1..MTU
  BY ArrivalFields
<1>2. UNCHANGED config /\ UNCHANGED dequeueIndex
  BY DEF Enqueue, EnqueueReserved, EnqueueShared, SearchForEver, discVars
<1>3. /\ TotalBuffer' \in Nat /\ staticBuffer' \in Nat /\ bufferalg' \in Policies
      /\ dequeueIndex' \in [Ports -> Queues]
  BY <1>2 DEF IInv, config
<1>4. CASE EnqueueReserved(p, q, size)
  <2>1. Sound(Shared)'
    BY <1>1, <1>4, EnqueueReservedSound
  <2>2. Congested'
    BY <1>4 DEF IInv, Congested, EnqueueReserved, abmVars
  <2>3. SearchEnds' /\ overcount' \in [Ports -> Nat]
    BY <1>4 DEF IInv, EnqueueReserved, SearchEnds, Running, ended
  <2> QED BY <1>3, <2>1, <2>2, <2>3 DEF IInv
<1>5. CASE EnqueueShared(p, q, size)
  <2>1. Sound(Shared)' /\ overcount' \in [Ports -> Nat]
    BY <1>1, <1>5, EnqueueSharedSound
  <2>2. Congested'
    BY <1>1, <1>5, CongestionCounts DEF EnqueueShared
  <2>3. SearchEnds'
    BY <1>5 DEF EnqueueShared, SearchEnds, Running, ended
  <2> QED BY <1>3, <2>1, <2>2, <2>3 DEF IInv
<1>6. CASE SearchForEver(p, q, size)
  <2>1. Sound(Shared)' /\ overcount' \in [Ports -> Nat]
    <3>1. buffer' = buffer /\ packets' = packets /\ overcount' = overcount
      BY <1>6 DEF SearchForEver, discVars
    <3> QED BY <1>2, <3>1, SharedIsSound, SoundAfter
  <2>2. Congested'
    BY <1>6 DEF IInv, Congested, SearchForEver, abmVars
  <2>3. SearchEnds'
    BY <1>1, <1>6, SearchForEverEnds
  <2> QED BY <1>3, <2>1, <2>2, <2>3 DEF IInv
<1> QED
  BY <1>4, <1>5, <1>6 DEF Enqueue

(* DoDequeue keeps the invariant.                                            *)
LEMMA DequeueStep ==
  ASSUME IInv, NEW p \in Ports, Dequeue(p)
  PROVE  IInv'
<1>1. Sound(Shared)'
  BY DequeueSound
<1>2. dequeueIndex' \in [Ports -> Queues] /\ overcount' \in [Ports -> Nat]
  BY DequeueEffect, SharedIsSound
<1>3. UNCHANGED config /\ UNCHANGED abmVars /\ ~hung'
  BY DEF Dequeue, Running, ended
<1>4. TotalBuffer' \in Nat /\ staticBuffer' \in Nat /\ bufferalg' \in Policies
  BY <1>3 DEF IInv, config
<1>5. Congested' /\ SearchEnds'
  BY <1>3 DEF IInv, Congested, SearchEnds, abmVars
<1> QED
  BY <1>1, <1>2, <1>4, <1>5 DEF IInv

(* An assertion that fails and ABM's timer, which reads N and writes nofP,   *)
(* leave what the invariant is about; so does a step that changes nothing.   *)
LEMMA OtherStep ==
  ASSUME IInv, (\E p \in Ports : DequeueAborts(p) \/ InvokeUpdates(p)) \/ UNCHANGED vars
  PROVE  IInv'
<1>1. /\ UNCHANGED <<bufferalg, staticBuffer, TotalBuffer>>
      /\ UNCHANGED <<buffer, packets, overcount, dequeueIndex, saturated, N, hung>>
  BY DEF DequeueAborts, InvokeUpdates, vars, config, discVars, abmVars, ended
<1> QED
  BY <1>1 DEF IInv, Sound, Shared, Balanced, Congested, SearchEnds

(* A step is an arrival, a departure, a failed assertion or ABM's timer, of  *)
(* some port.                                                                *)
LEMMA StepCases ==
  ASSUME [Next]_vars
  PROVE  \/ \E p \in Ports, pkt \in Arrivals : Enqueue(p, pkt)
         \/ \E p \in Ports : Dequeue(p)
         \/ (\E p \in Ports : DequeueAborts(p) \/ InvokeUpdates(p)) \/ UNCHANGED vars
BY DEF Next

(* The invariant is inductive.                                               *)
THEOREM InvariantHolds == Spec => []IInv
<1>1. IInv /\ [Next]_vars => IInv'
  BY StepCases, EnqueueStep, DequeueStep, OtherStep
<1> QED
  BY <1>1, InitIInv, PTL DEF Spec

(* The account of the shared memory is what the discs hold, through push-   *)
(* outs, refusals and clamps; thresholds and congestion counts add up.       *)
THEOREM AccountsCorrect == Spec => []AccountsAgree
<1>1. IInv => AccountsAgree
  <2> SUFFICES ASSUME IInv PROVE AccountsAgree
    OBVIOUS
  <2>1. /\ Balanced(buffer, TotalBuffer) /\ TotalBuffer \in Nat
        /\ staticBuffer = 0 => Charged(buffer, packets)
    BY SharedIsSound
  <2>2. buffer.OccupiedBuffer \in Nat /\ buffer.RemainingBuffer \in Nat
    BY <2>1, AccountFields DEF Balanced
  <2>3. buffer.OccupiedBuffer + buffer.RemainingBuffer = TotalBuffer
    BY <2>1 DEF Balanced
  <2>4. buffer.OccupiedBuffer \in 0..TotalBuffer
    BY <2>1, <2>2, <2>3
  <2>5. \A q \in Queues : N[q] = SumFunction([p \in Ports |-> saturated[p][q]])
    BY DEF IInv, Congested
  <2> QED BY <2>1, <2>3, <2>4, <2>5 DEF AccountsAgree, Balanced, Charged
<1> QED
  BY <1>1, InvariantHolds, PTL

(* The loops of LQD and Credence end, without a reserve, whenever the queues *)
(* they do not search leave room for a packet.                               *)
THEOREM SearchesEnd == Spec => []SearchEnds
<1>1. IInv => SearchEnds
  BY DEF IInv
<1> QED
  BY <1>1, InvariantHolds, PTL

(* LQD, without a reserve, takes from the longest queues only.               *)
THEOREM LongestGiveWay == Spec => TakenFromLongest
<1> DEFINE Step == \A p \in Ports, pkt \in Arrivals :
             bufferalg = "LQD" /\ staticBuffer = 0 /\ Enqueue(p, pkt) =>
               \A v \in Ports : Len(packets'[v][1]) < Len(packets[v][1]) =>
                 \A o \in Ports \ {p} :
                   Total(packets'[v][1]) + MTU >= Total(packets'[o][1])
<1>1. ASSUME IInv, NEW p \in Ports, NEW pkt \in Arrivals,
             bufferalg = "LQD", staticBuffer = 0, Enqueue(p, pkt),
             NEW v \in Ports, Len(packets'[v][1]) < Len(packets[v][1]),
             NEW o \in Ports \ {p}
      PROVE  Total(packets'[v][1]) + MTU >= Total(packets'[o][1])
  <2> DEFINE q == pkt.priority
             size == pkt.size
  <2>1. q \in Queues /\ size \in 1..MTU /\ 1 \in Queues
    BY ArrivalFields, FiniteQueues
  <2>2. packets[v][1] \in Sizes /\ MTU \in Nat
    BY <1>1, <2>1, SharedIsSound, SharedBufferAssumption DEF PerQueue
  <2>3. Len(packets[v][1]) \in Nat
    BY <2>2 DEF Sizes
  <2>4. EnqueueShared(p, q, size)
    <3>1. packets' # packets
      BY <1>1, <2>3
    <3>2. ~EnqueueReserved(p, q, size)
      BY <1>1, <2>1, EnqueueReservedSound
    <3>3. ~SearchForEver(p, q, size)
      BY <3>1 DEF SearchForEver, discVars
    <3> QED BY <1>1, <3>2, <3>3 DEF Enqueue
  <2>5. PICK mem \in Prepared(p, q, size) : \E accept \in AcceptPacket(mem, p, q, size) :
          IF accept /\ mem.buffer.RemainingBuffer > size
          THEN /\ buffer' = Enqueued(mem.buffer, size, p, q)
               /\ packets' = [mem.packets EXCEPT ![p][q] = Append(mem.packets[p][q], size)]
          ELSE buffer' = mem.buffer /\ packets' = mem.packets
    BY <2>4 DEF EnqueueShared
  <2> DEFINE k == mem.packets
  <2>6. Sound(mem) /\ TakenFrom(packets, k)
    <3>1. mem \in RoomMade(Shared, size)
      BY <1>1 DEF Prepared, Shared
    <3>2. Sound(Shared) /\ TotalBuffer \in Nat /\ Shared.packets = packets
      BY <1>1 DEF IInv, Shared
    <3> QED BY <1>1, <3>1, <3>2, RoomMadeSound
  <2>7. k \in PerQueue(Sizes)
    BY <2>6 DEF Sound
  <2> HIDE DEF k
  <2>8. k[v][1] \in Sizes /\ k[o][1] \in Sizes /\ k[p][1] \in Sizes
    BY <2>1, <2>7 DEF PerQueue
  <2>9. \A s \in Sizes : Total(s) \in Nat /\ Len(s) \in Nat
    BY TotalChange DEF Sizes
  <2>10. \/ packets' = k
         \/ packets' = [k EXCEPT ![p][q] = Append(k[p][q], size)]
    BY <2>5 DEF k
  <2>11. packets'[o][1] = k[o][1]
    BY <2>1, <2>7, <2>10 DEF PerQueue
  <2>12. \/ packets'[v][1] = k[v][1]
         \/ packets'[v][1] = Append(k[v][1], size)
    BY <2>1, <2>7, <2>10 DEF PerQueue
  <2>13. /\ Len(packets'[v][1]) >= Len(k[v][1])
         /\ Total(packets'[v][1]) >= Total(k[v][1]) /\ Total(packets'[v][1]) \in Nat
    <3>1. CASE packets'[v][1] = k[v][1]
      BY <2>8, <2>9, <3>1
    <3>2. CASE packets'[v][1] = Append(k[v][1], size)
      <4> DEFINE s == k[v][1]
                 x == size
      <4>1. s \in Sizes /\ x \in 1..MTU /\ x \in Nat
        BY <2>1, <2>2, <2>8
      <4> HIDE DEF s, x
      <4>2. Total(Append(s, x)) = Total(s) + x /\ Total(s) \in Nat
        BY <4>1, TotalChange
      <4>3. Len(Append(s, x)) = Len(s) + 1 /\ Len(s) \in Nat
        BY <4>1 DEF Sizes
      <4> QED BY <3>2, <4>1, <4>2, <4>3 DEF s, x
    <3> QED BY <2>12, <3>1, <3>2
  <2>14. Len(k[v][1]) < Len(packets[v][1])
    <3>1. Len(k[v][1]) \in Nat /\ Len(packets'[v][1]) \in Int
      <4>1. packets'[v][1] \in Sizes
        BY <2>1, <2>8, <2>12, TotalChange
      <4> QED BY <2>8, <2>9, <4>1
    <3> QED BY <1>1, <2>3, <2>13, <3>1
  <2>15. Total(k[v][1]) + MTU >= Total(k[o][1])
    BY <2>6, <2>14 DEF TakenFrom
  <2> QED BY <2>2, <2>8, <2>9, <2>11, <2>13, <2>15
<1>2. IInv /\ [Next]_vars => [Step]_vars
  BY <1>1
<1>3. TakenFromLongest <=> [][Step]_vars
  BY DEF TakenFromLongest
<1> HIDE DEF Step
<1> QED
  BY <1>2, <1>3, InvariantHolds, PTL DEF Spec

-----------------------------------------------------------------------------
(* Dynamic thresholds *)

(* The bytes of the queues of U, and the number of its subsets: 2^|U|.       *)
Within(f, U) == SumFunctionOnSet(Pairs(f, Queues), U)
Parts(U) == Cardinality(SUBSET U)

(* Whichever queues U one looks at, what they leave of the buffer, with an   *)
(* MTU more, is at least the buffer and an MTU in Parts(U) parts: half with  *)
(* one queue, a quarter with two.                                            *)
LeavesRoom(f, total) ==
  \A U \in SUBSET (Ports \X Queues) :
    Parts(U) * ((total - Within(f, U)) + MTU) >= total + MTU

(* No queue may take more than what remains.                                 *)
AlphaAtMostOne == \A q \in Queues : alphas[q] <= AlphaUnit

(* The inductive invariant of dynamic thresholds.                            *)
DtInv == bufferalg = "DT" /\ staticBuffer = 0 /\ AlphaAtMostOne
           => LeavesRoom(buffer.queueLength, TotalBuffer)

(* A set with one element more has twice as many subsets.                    *)
LEMMA PartsDouble ==
  ASSUME NEW U, IsFiniteSet(U)
  PROVE  /\ Parts(U) \in Nat
         /\ U = {} => Parts(U) = 1
         /\ \A x : x \notin U => Parts(U \cup {x}) = 2 * Parts(U)
<1>1. IsFiniteSet(SUBSET U) /\ Parts(U) \in Nat
  BY FS_SUBSET, FS_CardinalityType DEF Parts
<1>2. U = {} => Parts(U) = 1
  <2>1. U = {} => SUBSET U = {{}}
    OBVIOUS
  <2> QED BY <2>1, FS_Singleton DEF Parts
<1>3. ASSUME NEW x, x \notin U
      PROVE  Parts(U \cup {x}) = 2 * Parts(U)
  <2> DEFINE A == SUBSET U
             B == {s \cup {x} : s \in A}
             f == [s \in A |-> s \cup {x}]
  <2>1. SUBSET (U \cup {x}) = A \cup B
    <3>1. ASSUME NEW s \in SUBSET (U \cup {x}), x \in s
          PROVE  s \in B
      <4>1. s \ {x} \in A /\ s = (s \ {x}) \cup {x}
        BY <3>1
      <4> QED BY <4>1
    <3>2. \A s \in SUBSET (U \cup {x}) : x \notin s => s \in A
      OBVIOUS
    <3>3. \A s \in A \cup B : s \in SUBSET (U \cup {x})
      OBVIOUS
    <3> HIDE DEF A, B
    <3> QED BY <3>1, <3>2, <3>3
  <2>2. A \cap B = {}
    BY <1>3
  <2>3. f \in Bijection(A, B)
    <3>1. \A s, t \in A : f[s] = f[t] => s = t
      BY <1>3
    <3>2. f \in [A -> B] /\ \A t \in B : \E s \in A : f[s] = t
      OBVIOUS
    <3> HIDE DEF A, B, f
    <3> QED BY <3>1, <3>2 DEF Bijection, Injection, IsInjective, Surjection
  <2> HIDE DEF A, B, f
  <2>4. IsFiniteSet(B) /\ Cardinality(B) = Cardinality(A)
    BY <1>1, <2>3, FS_Bijection, Zenon DEF A, ExistsBijection
  <2>5. Cardinality(A \cup B) = Cardinality(A) + Cardinality(B)
    <3>1. IsFiniteSet(A) /\ IsFiniteSet(B) /\ Cardinality(A) \in Nat
      BY <1>1, <2>4 DEF A, Parts
    <3>2. Cardinality(A \cup B) = Cardinality(A) + Cardinality(B) - Cardinality(A \cap B)
      BY <3>1, FS_Union
    <3>3. Cardinality(A \cap B) = 0
      BY <2>2, FS_EmptySet
    <3> QED BY <2>4, <3>1, <3>2, <3>3
  <2>6. Cardinality(A) = Parts(U) /\ Cardinality(A \cup B) = Parts(U \cup {x})
    BY <2>1 DEF Parts, A
  <2> QED BY <1>1, <2>4, <2>5, <2>6
<1> QED
  BY <1>1, <1>2, <1>3

(* The entries of a table of lengths, by their pairs, are natural numbers.   *)
LEMMA PairsNat ==
  ASSUME NEW f \in PerQueue(Nat)
  PROVE  \A x \in Ports \X Queues : /\ Pairs(f, Queues)[x] = f[x[1]][x[2]]
                                    /\ Pairs(f, Queues)[x] \in Nat
BY DEF Pairs, PerQueue

(* The bytes of some queues are a natural number, at most those of all.      *)
LEMMA WithinNat ==
  ASSUME NEW f \in PerQueue(Nat), NEW U \in SUBSET (Ports \X Queues)
  PROVE  IsFiniteSet(U) /\ Within(f, U) \in Nat /\ Within(f, U) <= OverQueues(f, Queues)
<1>1. \A x \in Ports \X Queues : Pairs(f, Queues)[x] \in Nat
  BY PairsNat
<1>2. IsFiniteSet(Ports \X Queues) /\ IsFiniteSet(U)
  BY FiniteQueues, FS_Subset
<1>3. Within(f, U) \in Nat
  BY <1>1, <1>2, SumNat DEF Within
<1>4. Within(f, U) <= OverQueues(f, Queues)
  BY <1>1, <1>2, PartWithinSum, OverQueuesIsSum DEF Within
<1> QED
  BY <1>1, <1>2, <1>3, <1>4

(* Queues that shrink leave as much room.                                    *)
LEMMA ShrinkingLeavesRoom ==
  ASSUME NEW f \in PerQueue(Nat), NEW h \in PerQueue(Nat), NEW total \in Nat,
         \A p \in Ports, q \in Queues : h[p][q] <= f[p][q], LeavesRoom(f, total)
  PROVE  LeavesRoom(h, total)
<1> SUFFICES ASSUME NEW U \in SUBSET (Ports \X Queues)
             PROVE  Parts(U) * ((total - Within(h, U)) + MTU) >= total + MTU
  BY DEF LeavesRoom
<1>1. IsFiniteSet(U) /\ Within(f, U) \in Nat /\ Within(h, U) \in Nat
  BY WithinNat
<1>2. Within(h, U) <= Within(f, U)
  <2>1. \A x \in U : /\ Pairs(h, Queues)[x] \in Int /\ Pairs(f, Queues)[x] \in Int
                     /\ Pairs(h, Queues)[x] <= Pairs(f, Queues)[x]
    <3>1. \A x \in Ports \X Queues : h[x[1]][x[2]] <= f[x[1]][x[2]]
      OBVIOUS
    <3> QED BY <3>1, PairsNat
  <2> QED BY <1>1, <2>1, SumMonotone DEF Within
<1>3. Parts(U) \in Nat /\ MTU \in Nat
  BY <1>1, PartsDouble, SharedBufferAssumption
<1>4. Parts(U) * ((total - Within(f, U)) + MTU) >= total + MTU
  BY DEF LeavesRoom
<1>5. \A n \in Nat, a, b \in Int : a <= b => n * a <= n * b
  OBVIOUS
<1> DEFINE a == (total - Within(f, U)) + MTU
           b == (total - Within(h, U)) + MTU
<1>6. a \in Int /\ b \in Int /\ a <= b
  BY <1>1, <1>2, <1>3
<1>7. Parts(U) * a <= Parts(U) * b /\ Parts(U) * a >= total + MTU
  BY <1>3, <1>4, <1>5, <1>6
<1>8. Parts(U) * a \in Int /\ Parts(U) * b \in Int
  BY <1>3, <1>6
<1> HIDE DEF a, b
<1>9. Parts(U) * b >= total + MTU
  BY <1>3, <1>7, <1>8
<1> QED
  BY <1>9 DEF b

(* A queue that grows to at most what remains leaves room: half of what the  *)
(* other queues of U leave.                                                  *)
LEMMA GrowingLeavesRoom ==
  ASSUME NEW f \in PerQueue(Nat), NEW h \in PerQueue(Nat), NEW total \in Nat,
         NEW p \in Ports, NEW q \in Queues, NEW size \in 1..MTU,
         h[p][q] = f[p][q] + size, h[p][q] <= total - OverQueues(f, Queues),
         \A o \in Ports, k \in Queues : <<o, k>> # <<p, q>> => h[o][k] = f[o][k],
         LeavesRoom(f, total)
  PROVE  LeavesRoom(h, total)
<1> DEFINE x == <<p, q>>
<1> SUFFICES ASSUME NEW U \in SUBSET (Ports \X Queues)
             PROVE  Parts(U) * ((total - Within(h, U)) + MTU) >= total + MTU
  BY DEF LeavesRoom
<1> DEFINE V == U \ {x}
<1>1. V \in SUBSET (Ports \X Queues) /\ x \in Ports \X Queues /\ V \cup {x} \in SUBSET (Ports \X Queues)
  OBVIOUS
<1>2. /\ IsFiniteSet(U) /\ IsFiniteSet(V) /\ Within(f, V) \in Nat /\ OverQueues(f, Queues) \in Nat
      /\ Within(h, U) \in Nat
  <2> HIDE DEF V, x
  <2> QED BY <1>1, WithinNat, OverQueuesNat
<1>3. Within(h, V) = Within(f, V)
  <2>1. \A y \in V : Pairs(f, Queues)[y] \in Int /\ Pairs(h, Queues)[y] = Pairs(f, Queues)[y]
    <3>1. \A y \in V : Pairs(f, Queues)[y] = f[y[1]][y[2]] /\ Pairs(f, Queues)[y] \in Nat
                       /\ Pairs(h, Queues)[y] = h[y[1]][y[2]]
      BY PairsNat
    <3>2. \A y \in V : h[y[1]][y[2]] = f[y[1]][y[2]]
      OBVIOUS
    <3> HIDE DEF V
    <3> QED BY <3>1, <3>2
  <2> HIDE DEF V
  <2> QED BY <1>2, <2>1, SumSame DEF Within
<1>4. Parts(V) * ((total - Within(f, V)) + MTU) >= total + MTU
  <2> HIDE DEF V
  <2> QED BY <1>1 DEF LeavesRoom
<1>5. CASE x \notin U
  <2>1. V = U
    BY <1>5
  <2> HIDE DEF V, x
  <2> QED BY <1>3, <1>4, <2>1
<1>6. CASE x \in U
  <2>1. U = V \cup {x} /\ x \notin V
    BY <1>6
  <2>2. Within(h, U) = h[p][q] + Within(h, V)
    <3>1. \A y \in U : Pairs(h, Queues)[y] \in Int
      BY PairsNat
    <3>2. Pairs(h, Queues)[x] = h[p][q]
      <4>1. Pairs(h, Queues)[x] = h[x[1]][x[2]]
        <5> HIDE DEF x
        <5> QED BY <1>1, PairsNat
      <4> QED BY <4>1
    <3> HIDE DEF x
    <3>3. Within(h, U) = Pairs(h, Queues)[x] + Within(h, V)
      BY <1>2, <1>6, <3>1, SumAnyOrder DEF Within
    <3> QED BY <3>2, <3>3
  <2>3. f[p][q] + Within(f, V) <= OverQueues(f, Queues)
    <3>1. V \cup {x} \in SUBSET (Ports \X Queues) /\ (V \cup {x}) \ {x} = V
      BY <2>1
    <3>2. \A y \in V \cup {x} : Pairs(f, Queues)[y] \in Int
      BY PairsNat
    <3>3. Pairs(f, Queues)[x] = f[p][q]
      <4>1. Pairs(f, Queues)[x] = f[x[1]][x[2]]
        <5> HIDE DEF x
        <5> QED BY <1>1, PairsNat
      <4> QED BY <4>1
    <3> HIDE DEF x, V
    <3>4. IsFiniteSet(V \cup {x}) /\ Within(f, V \cup {x}) <= OverQueues(f, Queues)
      BY <3>1, WithinNat
    <3>5. Within(f, V \cup {x}) = Pairs(f, Queues)[x] + Within(f, V)
      <4>1. x \in V \cup {x}
        OBVIOUS
      <4>2. SumFunctionOnSet(Pairs(f, Queues), V \cup {x})
              = Pairs(f, Queues)[x] + SumFunctionOnSet(Pairs(f, Queues), (V \cup {x}) \ {x})
        BY <3>2, <3>4, <4>1, SumAnyOrder
      <4> QED BY <3>1, <4>2 DEF Within
    <3> QED BY <3>3, <3>4, <3>5
  <2>4. Parts(V) \in Nat /\ Parts(U) = 2 * Parts(V)
    <3> HIDE DEF V, x
    <3> QED BY <1>2, <2>1, PartsDouble
  <2> DEFINE w == Within(f, V)
             a == f[p][q]
             y == (total - w) + MTU
             z == (total - (h[p][q] + w)) + MTU
  <2>5. a \in Nat /\ size \in Nat /\ MTU \in Nat /\ size <= MTU
    BY SharedBufferAssumption DEF PerQueue
  <2>6. y \in Int /\ z \in Int /\ y <= 2 * z
    <3>1. a + size <= total - (a + w)
      <4>1. a + size <= total - OverQueues(f, Queues) /\ a + w <= OverQueues(f, Queues)
        BY <2>3
      <4> HIDE DEF a, w
      <4>2. w \in Nat
        BY <1>2 DEF w
      <4> QED BY <1>2, <2>5, <4>1, <4>2
    <3>2. w \in Nat
      BY <1>2
    <3>3. h[p][q] = a + size
      OBVIOUS
    <3> HIDE DEF a, w
    <3> QED BY <2>5, <3>1, <3>2, <3>3
  <2>7. \A n \in Nat, c, d \in Int : c <= 2 * d => n * c <= (2 * n) * d
    <3> SUFFICES ASSUME NEW n \in Nat, NEW c \in Int, NEW d \in Int, c <= 2 * d
                 PROVE  n * c <= (2 * n) * d
      OBVIOUS
    <3>1. n * c <= n * (2 * d)
      <4>1. \A e, g \in Int : e <= g => n * e <= n * g
        OBVIOUS
      <4>2. 2 * d \in Int
        OBVIOUS
      <4> QED BY <4>1, <4>2
    <3>2. n * (2 * d) = (2 * n) * d
      OBVIOUS
    <3> QED BY <3>1, <3>2
  <2>8. total + MTU <= Parts(V) * y /\ Within(h, U) = h[p][q] + w
    BY <1>3, <1>4, <2>2
  <2> HIDE DEF y, z, w, a, V
  <2>9. Parts(V) * y <= Parts(U) * z
    BY <2>4, <2>6, <2>7
  <2>10. Parts(V) * y \in Int /\ Parts(U) * z \in Int
    BY <2>4, <2>6
  <2>11. Parts(U) * z >= total + MTU
    BY <2>5, <2>8, <2>9, <2>10
  <2> QED BY <2>8, <2>11 DEF z
<1> QED
  BY <1>5, <1>6

(* A share of what remains, with an alpha of at most 1, is at most that.     *)
LEMMA ShareBounded ==
  ASSUME NEW alpha \in Nat, alpha <= AlphaUnit, buffer.RemainingBuffer \in Nat
  PROVE  Share(alpha) <= buffer.RemainingBuffer /\ Share(alpha) \in Int
<1> DEFINE R == buffer.RemainingBuffer
<1>1. AlphaUnit \in Nat /\ AlphaUnit > 0 /\ R \in Nat
  BY SharedBufferAssumption
<1>2. alpha * R <= AlphaUnit * R
  <2>1. \A a, b, n \in Nat : a <= b => a * n <= b * n
    OBVIOUS
  <2> HIDE DEF R
  <2> QED BY <1>1, <2>1
<1>3. \A m, n, k \in Nat : k > 0 /\ m <= k * n => m \div k <= n /\ m \div k \in Int
  <2> SUFFICES ASSUME NEW m \in Nat, NEW n \in Nat, NEW k \in Nat, k > 0, m <= k * n
               PROVE  m \div k <= n /\ m \div k \in Int
    OBVIOUS
  <2>1. m \div k \in Int /\ k * (m \div k) <= m
    OBVIOUS
  <2> DEFINE d == m \div k
  <2>2. ~(d >= n + 1)
    <3>1. d >= n + 1 => k * d >= k * (n + 1)
      <4>1. \A a \in Nat, b, c \in Int : b >= c => a * b >= a * c
        OBVIOUS
      <4> HIDE DEF d
      <4> QED BY <2>1, <4>1 DEF d
    <3>2. k * (n + 1) = k * n + k
      OBVIOUS
    <3>3. k * d \in Int /\ k * n \in Int
      BY <2>1
    <3> HIDE DEF d
    <3> QED BY <2>1, <3>1, <3>2, <3>3 DEF d
  <2> QED BY <2>1, <2>2
<1>4. alpha * R \in Nat
  <2> HIDE DEF R
  <2> QED BY <1>1
<1> QED
  BY <1>1, <1>2, <1>3, <1>4 DEF Share

(* Under dynamic thresholds an arrival is charged only if its queue stays   *)
(* within what remained.                                                     *)
LEMMA DtEnqueueStep ==
  ASSUME IInv, NEW p \in Ports, NEW pkt \in Arrivals, Enqueue(p, pkt),
         bufferalg = "DT", staticBuffer = 0, AlphaAtMostOne,
         LeavesRoom(buffer.queueLength, TotalBuffer)
  PROVE  LeavesRoom(buffer'.queueLength, TotalBuffer)
<1> DEFINE q == pkt.priority
           size == pkt.size
           f == buffer.queueLength
           h == buffer'.queueLength
<1>1. q \in Queues /\ size \in 1..MTU
  BY ArrivalFields
<1>2. /\ Balanced(buffer, TotalBuffer) /\ Charged(buffer, packets) /\ TotalBuffer \in Nat
      /\ f \in PerQueue(Nat) /\ buffer.RemainingBuffer \in Nat
      /\ buffer.OccupiedBuffer \in Nat
  BY SharedIsSound, AccountFields DEF Balanced
<1>3. CASE buffer' = buffer
  BY <1>3
<1>4. CASE /\ FitsBelow(p, q, size, Share(alphas[q]))
           /\ buffer' = Enqueued(buffer, size, p, q) /\ buffer.RemainingBuffer > size
  <2>1. f[p][q] + size <= buffer.RemainingBuffer
    <3>1. alphas[q] \in Nat /\ alphas[q] <= AlphaUnit
      BY <1>1, SharedBufferAssumption DEF AlphaAtMostOne
    <3>2. Share(alphas[q]) <= buffer.RemainingBuffer /\ Share(alphas[q]) \in Int
      BY <1>2, <3>1, ShareBounded
    <3>3. f[p][q] \in Nat /\ size \in Nat
      BY <1>1, <1>2, SharedBufferAssumption DEF PerQueue
    <3> QED BY <1>2, <1>4, <3>2, <3>3 DEF FitsBelow
  <2>1a. Balanced(buffer', TotalBuffer)
    <3> HIDE DEF q, size
    <3> QED BY <1>1, <1>2, <1>4, EnqueuedBalanced
  <2>2. h = [f EXCEPT ![p][q] = f[p][q] + size]
    <3>1. buffer \in Account
      BY <1>2 DEF Balanced
    <3> HIDE DEF q, size
    <3> QED BY <1>4, <3>1 DEF Enqueued, Account
  <2>3. h \in PerQueue(Nat)
    BY <2>1a, AccountFields DEF Balanced
  <2> HIDE DEF f, h, q, size
  <2>4. /\ h[p][q] = f[p][q] + size
        /\ \A o \in Ports, k \in Queues : <<o, k>> # <<p, q>> => h[o][k] = f[o][k]
    BY <1>1, <1>2, <2>2 DEF PerQueue
  <2>5. buffer.RemainingBuffer = TotalBuffer - OverQueues(f, Queues)
    BY <1>2 DEF Balanced, Charged, f
  <2>6. h[p][q] <= TotalBuffer - OverQueues(f, Queues)
    BY <2>1, <2>4, <2>5
  <2>7. LeavesRoom(f, TotalBuffer)
    BY DEF f
  <2>8. LeavesRoom(h, TotalBuffer)
    BY <1>1, <1>2, <2>3, <2>4, <2>6, <2>7, GrowingLeavesRoom
  <2> QED BY <2>8 DEF h
<1>5. buffer' = buffer \/ EnqueueShared(p, q, size)
  <2>1. ~EnqueueReserved(p, q, size)
    BY <1>1, EnqueueReservedSound
  <2> QED BY <2>1 DEF Enqueue, SearchForEver
<1>6. CASE EnqueueShared(p, q, size)
  <2>1. Prepared(p, q, size) = {Shared} /\ Shared.buffer = buffer
    BY DEF Prepared, Shared
  <2>2. AcceptPacket(Shared, p, q, size) = {FitsBelow(p, q, size, Share(alphas[q]))}
    BY DEF AcceptPacket
  <2>3. \E accept \in AcceptPacket(Shared, p, q, size) :
          IF accept /\ Shared.buffer.RemainingBuffer > size
          THEN buffer' = Enqueued(Shared.buffer, size, p, q)
          ELSE buffer' = Shared.buffer
    <3> HIDE DEF q, size
    <3> QED BY <1>6, <2>1 DEF EnqueueShared
  <2> HIDE DEF q, size
  <2>4. \/ buffer' = buffer
        \/ /\ FitsBelow(p, q, size, Share(alphas[q]))
           /\ buffer' = Enqueued(buffer, size, p, q) /\ buffer.RemainingBuffer > size
    BY <2>1, <2>2, <2>3
  <2> QED BY <1>3, <1>4, <2>4
<1> QED
  BY <1>3, <1>5, <1>6

(* A departure shortens a queue or changes no account.                       *)
LEMMA DtDequeueStep ==
  ASSUME IInv, NEW p \in Ports, Dequeue(p), LeavesRoom(buffer.queueLength, TotalBuffer)
  PROVE  LeavesRoom(buffer'.queueLength, TotalBuffer)
<1> DEFINE f == buffer.queueLength
           h == buffer'.queueLength
<1>1. PICK q \in Queues, size \in 1..MTU :
        buffer' = IF Discharges(p) THEN Dequeued(buffer, size, p, q) ELSE buffer
  BY DequeueEffect
<1>2. /\ Balanced(buffer, TotalBuffer) /\ TotalBuffer \in Nat
      /\ buffer \in Account /\ f \in PerQueue(Nat) /\ size \in Nat
  BY SharedIsSound, AccountFields, SharedBufferAssumption DEF Balanced
<1>3. CASE buffer' = buffer
  BY <1>3
<1>4. CASE buffer' = Dequeued(buffer, size, p, q)
  <2>1. h \in PerQueue(Nat)
    BY <1>2, <1>4, DequeuedBalanced, AccountFields
  <2> DEFINE v == Monus(f[p][q], size)
  <2>2. h = [f EXCEPT ![p][q] = v]
    BY <1>2, <1>4 DEF Dequeued, LoweredTo, Account
  <2>3. v <= f[p][q] /\ \A o \in Ports, k \in Queues : f[o][k] \in Nat
    BY <1>2, MonusNat DEF PerQueue
  <2> HIDE DEF v, f, h
  <2>4. \A o \in Ports, k \in Queues : h[o][k] <= f[o][k]
    BY <1>2, <2>2, <2>3 DEF PerQueue
  <2>5. LeavesRoom(f, TotalBuffer)
    BY DEF f
  <2>6. LeavesRoom(h, TotalBuffer)
    BY <1>2, <2>1, <2>4, <2>5, ShrinkingLeavesRoom
  <2> QED BY <2>6 DEF h
<1> QED
  BY <1>1, <1>3, <1>4

(* An empty buffer leaves room.                                              *)
LEMMA InitDtInv == Init => DtInv
<1> SUFFICES ASSUME Init
             PROVE  LeavesRoom(Zero, TotalBuffer)
  <2>1. Init => buffer.queueLength = Zero
    BY DEF Init
  <2> QED BY <2>1 DEF DtInv
<1> SUFFICES ASSUME NEW U \in SUBSET (Ports \X Queues)
             PROVE  Parts(U) * ((TotalBuffer - Within(Zero, U)) + MTU) >= TotalBuffer + MTU
  BY DEF LeavesRoom
<1>1. TotalBuffer \in Nat /\ MTU \in Nat
  BY InitIInv, SharedBufferAssumption DEF IInv
<1>2. IsFiniteSet(U) /\ Within(Zero, U) = 0
  <2>1. IsFiniteSet(U)
    BY ZeroTables, WithinNat
  <2>2. \A x \in U : Pairs(Zero, Queues)[x] = 0
    BY DEF Pairs, Zero
  <2> QED BY <2>1, <2>2, SumZero DEF Within
<1>3. Parts(U) \in Nat /\ Parts(U) # 0
  <2>1. IsFiniteSet(SUBSET U) /\ {} \in SUBSET U
    BY <1>2, FS_SUBSET
  <2> QED BY <2>1, FS_EmptySet, FS_CardinalityType DEF Parts
<1>4. \A n \in Nat, m \in Nat : n # 0 => n * m >= m
  <2>1. \A a, b, n \in Nat : a <= b => a * n <= b * n
    OBVIOUS
  <2>2. \A n \in Nat : n # 0 => 1 <= n
    OBVIOUS
  <2>3. \A m \in Nat : 1 * m = m
    OBVIOUS
  <2> QED BY <2>1, <2>2, <2>3
<1> DEFINE m == TotalBuffer + MTU
<1>5. m \in Nat /\ (TotalBuffer - 0) + MTU = m
  BY <1>1
<1> HIDE DEF m
<1>6. Parts(U) * m >= m
  BY <1>3, <1>4, <1>5
<1> QED
  BY <1>2, <1>5, <1>6 DEF m

(* Dynamic thresholds leave room after every step: an arrival takes at most  *)
(* what remained, a departure only shortens a queue.                         *)
LEMMA DtStep ==
  ASSUME IInv, DtInv, [Next]_vars
  PROVE  DtInv'
<1>1. UNCHANGED <<bufferalg, staticBuffer, TotalBuffer>>
  BY StepCases DEF Enqueue, EnqueueReserved, EnqueueShared, SearchForEver, Dequeue,
                   DequeueAborts, InvokeUpdates, vars, config
<1> SUFFICES ASSUME bufferalg = "DT", staticBuffer = 0, AlphaAtMostOne
             PROVE  LeavesRoom(buffer'.queueLength, TotalBuffer)
  BY <1>1 DEF DtInv, LeavesRoom
<1>2. LeavesRoom(buffer.queueLength, TotalBuffer)
  BY DEF DtInv
<1>3. CASE \E p \in Ports, pkt \in Arrivals : Enqueue(p, pkt)
  BY <1>2, <1>3, DtEnqueueStep
<1>4. CASE \E p \in Ports : Dequeue(p)
  BY <1>2, <1>4, DtDequeueStep
<1>5. CASE (\E p \in Ports : DequeueAborts(p) \/ InvokeUpdates(p)) \/ UNCHANGED vars
  <2>1. buffer' = buffer
    BY <1>5 DEF DequeueAborts, InvokeUpdates, vars
  <2> QED BY <1>2, <2>1
<1> QED
  BY <1>3, <1>4, <1>5, StepCases

(* Dynamic thresholds with alpha at most 1 leave a part of the buffer free:  *)
(* half of it with one queue in use, a quarter with two.                     *)
THEOREM NewcomersFindRoom == Spec => []DtLeavesRoom
<1>1. IInv /\ DtInv => DtLeavesRoom
  <2> SUFFICES ASSUME IInv, DtInv, bufferalg = "DT", staticBuffer = 0, AlphaAtMostOne
               PROVE  LET used == {pq \in Ports \X Queues :
                                     buffer.queueLength[pq[1]][pq[2]] > 0}
                          parts == 2^Cardinality(used)
                      IN  parts * buffer.RemainingBuffer + (parts - 1) * MTU >= TotalBuffer
    BY DEF DtLeavesRoom, AlphaAtMostOne
  <2> DEFINE f == buffer.queueLength
             used == {pq \in Ports \X Queues : f[pq[1]][pq[2]] > 0}
             n == Parts(used)
             R == buffer.RemainingBuffer
  <2>1. /\ f \in PerQueue(Nat) /\ R \in Nat /\ TotalBuffer \in Nat /\ MTU \in Nat
        /\ R = TotalBuffer - OverQueues(f, Queues)
    <3>1. /\ Balanced(buffer, TotalBuffer) /\ Charged(buffer, packets)
          /\ TotalBuffer \in Nat /\ MTU \in Nat
      BY SharedIsSound, SharedBufferAssumption
    <3>2. /\ f \in PerQueue(Nat) /\ R \in Nat /\ buffer.OccupiedBuffer \in Nat
      BY <3>1, AccountFields DEF Balanced
    <3> QED BY <3>1, <3>2 DEF Balanced, Charged
  <2>2. used \in SUBSET (Ports \X Queues)
    OBVIOUS
  <2>3. IsFiniteSet(used) /\ n \in Nat /\ 2^Cardinality(used) = n
    <3>1. IsFiniteSet(used)
      <4> HIDE DEF used, f
      <4> QED BY <2>1, <2>2, WithinNat
    <3> HIDE DEF used
    <3> QED BY <3>1, PartsDouble, FS_SUBSET DEF Parts
  <2>4. OverQueues(f, Queues) = Within(f, used)
    <3> DEFINE S == Ports \X Queues
               rest == S \ used
               A == Pairs(f, Queues)
    <3>1. /\ \A x \in S : A[x] = f[x[1]][x[2]] /\ A[x] \in Nat
      <4> HIDE DEF f
      <4> QED BY <2>1, PairsNat
    <3>2. \A x \in rest : A[x] = 0
      <4>1. \A x \in rest : ~(f[x[1]][x[2]] > 0)
        OBVIOUS
      <4> HIDE DEF A, f
      <4> QED BY <3>1, <4>1
    <3>3. IsFiniteSet(used) /\ IsFiniteSet(rest) /\ used \cap rest = {} /\ used \cup rest = S
      <4>1. IsFiniteSet(S)
        BY FiniteQueues
      <4>2. rest \in SUBSET S /\ used \in SUBSET S
        OBVIOUS
      <4> HIDE DEF used
      <4> QED BY <4>1, <4>2, FS_Subset
    <3>4. \A x \in used \cup rest : A[x] \in Int
      <4> HIDE DEF used, A
      <4> QED BY <3>1, <3>3
    <3> HIDE DEF A, S, rest, used
    <3>5. SumFunctionOnSet(A, used \cup rest)
            = SumFunctionOnSet(A, used) + SumFunctionOnSet(A, rest)
      BY <3>3, <3>4, SumDisjoint
    <3>6. SumFunctionOnSet(A, rest) = 0
      BY <3>2, <3>3, SumZero
    <3>7. SumFunctionOnSet(A, used) \in Int
      BY <3>3, <3>4, SumInt
    <3>8. OverQueues(f, Queues) = SumFunctionOnSet(A, used \cup rest)
      BY <3>3, OverQueuesIsSum DEF A, S
    <3> QED BY <3>5, <3>6, <3>7, <3>8 DEF Within, A
  <2>5. n * ((TotalBuffer - Within(f, used)) + MTU) >= TotalBuffer + MTU
    BY <2>2 DEF DtInv, LeavesRoom
  <2>6. (TotalBuffer - Within(f, used)) + MTU = R + MTU
    BY <2>1, <2>4
  <2> HIDE DEF f, used, n, R
  <2>7. n * (R + MTU) >= TotalBuffer + MTU
    BY <2>5, <2>6
  <2>8. n * (R + MTU) = n * R + n * MTU /\ (n - 1) * MTU = n * MTU - MTU
    <3>1. \A a, b, c \in Nat : a * (b + c) = a * b + a * c /\ (a - 1) * c = a * c - c
      OBVIOUS
    <3> QED BY <2>1, <2>3, <3>1
  <2>9. n * R \in Nat /\ n * MTU \in Nat
    BY <2>1, <2>3
  <2>10. n * R + (n - 1) * MTU >= TotalBuffer
    BY <2>1, <2>7, <2>8, <2>9
  <2> QED BY <2>3, <2>10 DEF used, f, R
<1>2. IInv /\ DtInv /\ [Next]_vars => DtInv'
  BY DtStep
<1>3. Spec => []DtInv
  BY <1>2, InitDtInv, InvariantHolds, PTL DEF Spec
<1> QED
  BY <1>1, <1>3, InvariantHolds, PTL

=============================================================================
