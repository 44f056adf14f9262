----------------------------- MODULE SharedBuffer -----------------------------
(***************************************************************************)
(* The buffer that the ports of a switch share in the ABM and Credence     *)
(* simulations (shared-memory.cc), and the queue disc of each port that    *)
(* asks it for room (gen-queue-disc.cc).  A disc has nPrior FIFO queues;   *)
(* the policy bufferalg decides which packets may enter.  LQD makes room   *)
(* in the queues of the other ports, and Credence keeps a threshold for    *)
(* each queue that follows what LQD would do: both search for the longest  *)
(* of the queues 1, in a loop that ends when there is room.                *)
(*                                                                         *)
(* The account of the shared memory is the record `buffer'; `packets' is   *)
(* what the FIFO queues hold, each packet by its size.  The dequeue rates  *)
(* of ABM, the flow counters of FAB and the predictions of Credence only   *)
(* enter one comparison each: they are any value the code bounds them to.  *)
(* Averages, traces and telemetry are left out.                            *)
(***************************************************************************)
EXTENDS Integers, Sequences, FiniteSetsExt, Functions

CONSTANTS
  numPorts, nPrior,
  MTU,                       \* 1500
  Arrivals,                  \* [priority, size]
  Configurations,            \* [bufferalg, staticBuffer, TotalBuffer, assertions]
  alphas, alphaUnsched, AlphaUnit,       \* over AlphaUnit
  sat,                       \* queue length that counts as one congested queue
  DeqRates, RateUnit,        \* what UpdateDequeueRate may find, over RateUnit
  enablePredictions,
  round_robin

Ports == 0..(numPorts - 1)
Queues == 0..(nPrior - 1)
Policies == {"DT", "FAB", "CS", "ABM", "LQD", "CREDENCE"}

ASSUME SharedBufferAssumption ==
  /\ numPorts \in Nat \ {0} /\ nPrior \in Nat \ {0, 1}
  /\ MTU \in Nat \ {0}
  /\ Arrivals \subseteq [priority: Queues, size: 1..MTU]
  /\ Configurations \subseteq
       [bufferalg: Policies, staticBuffer: Nat, TotalBuffer: Nat, assertions: BOOLEAN]
  /\ alphas \in [Queues -> Nat] /\ alphaUnsched \in Nat /\ AlphaUnit \in Nat \ {0}
  /\ sat \in Nat \ {0} /\ RateUnit \in Nat \ {0} /\ DeqRates \subseteq 1..RateUnit
  /\ enablePredictions \in BOOLEAN /\ round_robin \in BOOLEAN

VARIABLES
  bufferalg, staticBuffer, TotalBuffer,
  assertions,        \* does the build check NS_ASSERT?  (run-main.sh runs one that does not)
  buffer,            \* OccupiedBuffer, RemainingBuffer, queueLength, threshold, totalThreshold
  packets,           \* [Ports -> [Queues -> sequences of sizes]]
  overcount,         \* [Ports -> bytes pushed out of a disc that its m_nBytes still counts,
                     \* up to staticBuffer, beyond which they make no difference]
  miscounted,        \* ports whose FIFO disc 1 has had packets pushed out: its counters
                     \* of packets in, out and held no longer add up (if anyone checks)
  dequeueIndex,      \* [Ports -> Queues]
  saturated, N,      \* ABM: [Ports -> [Queues -> 0..sat]] and its sums, over sat
  nofP,              \* ABM: [Ports -> [Queues -> N when last read]], 0 before
  hung,              \* a search for room that does not end
  failed             \* an assertion has ended the program

config == <<bufferalg, staticBuffer, TotalBuffer, assertions>>
discVars == <<packets, overcount, miscounted, dequeueIndex>>
abmVars == <<saturated, N, nofP>>
ended == <<hung, failed>>
vars == <<config, buffer, discVars, abmVars, ended>>

Zero == [p \in Ports |-> [q \in Queues |-> 0]]

Init ==
  /\ \E c \in Configurations :
       /\ bufferalg = c.bufferalg /\ staticBuffer = c.staticBuffer
       /\ TotalBuffer = c.TotalBuffer /\ assertions = c.assertions
  /\ buffer = [OccupiedBuffer |-> 0, RemainingBuffer |-> TotalBuffer,
               queueLength |-> Zero, threshold |-> Zero, totalThreshold |-> 0]
  /\ packets = [p \in Ports |-> [q \in Queues |-> <<>>]]
  /\ overcount = [p \in Ports |-> 0] /\ miscounted = {}
  /\ dequeueIndex = [p \in Ports |-> 0]
  /\ saturated = Zero /\ N = [q \in Queues |-> 0]
  /\ nofP = Zero
  /\ hung = FALSE /\ failed = FALSE

Running == ~hung /\ ~failed

Lesser(a, b) == IF a <= b THEN a ELSE b
Monus(a, b) == IF a >= b THEN a - b ELSE 0
Total(sizes) == SumFunction(sizes)
OverQueues(f, Q) == SumFunction([pq \in Ports \X Q |-> f[pq[1]][pq[2]]])
Held(fifos) == SumFunction([q \in Queues |-> Total(fifos[q])])

(* GetCurrentSize of a port's disc: push-outs do not lower it.              *)
BytesAt(p) == Held(packets[p]) + overcount[p]

(* A loop that repeats step until fits holds: what it ends with, if it ends *)
(* within so many rounds.                                                   *)
Repeated(step(_), fits(_), start, rounds) ==
  LET after[n \in 0..rounds] ==
        IF n = 0 THEN start
        ELSE IF fits(after[n - 1]) THEN after[n - 1] ELSE step(after[n - 1])
  IN  {m \in {after[rounds]} : fits(m)}

-----------------------------------------------------------------------------
(* SharedMemoryBuffer *)

(* findLongestQueue and findLongestThreshold: the first of the longest.     *)
LongestByPort(len) == Max(Ports)                                                   \* faulty
Longest(len) == CHOOSE p \in Ports : \A o \in Ports :
                  len[o][1] < len[p][1] \/ (len[o][1] = len[p][1] /\ p <= o)

Enqueued(b, size, p, q) ==
  [b EXCEPT !.RemainingBuffer = @ - size,
            !.OccupiedBuffer = Lesser(@ + size, TotalBuffer),
            !.queueLength[p][q] = @ + size]

(* Both account for what leaves: the threshold of a queue that has drained  *)
(* is forgotten.                                                            *)
LoweredTo(b, p, q, new) ==
  [b EXCEPT !.totalThreshold = Monus(@, b.threshold[p][q] - new), !.threshold[p][q] = new]

Dequeued(b, size, p, q) ==
  LET left == Monus(b.queueLength[p][q], size)
      charged == [b EXCEPT !.OccupiedBuffer = Monus(@, size),
                           !.RemainingBuffer = IF b.OccupiedBuffer > size THEN @ + size
                                                                          ELSE TotalBuffer,
                           !.queueLength[p][q] = left]
  IN  LoweredTo(charged, p, q, IF left = 0 THEN 0 ELSE Monus(b.threshold[p][q], size))

(* UpdateThreshold: the longest thresholds give way, an MTU at a time, until*)
(* the packet's size fits.  At most totalThreshold rounds lower anything.   *)
Yields(b) == LET p == Longest(b.threshold) IN LoweredTo(b, p, 1, Monus(b.threshold[p][1], MTU))

ThresholdsYielded(b, size) ==
  LET fits(c) == c.totalThreshold + size <= TotalBuffer
  IN  Repeated(Yields, fits, b, b.totalThreshold)

Raised(b, size, p, q) ==
  [b EXCEPT !.threshold[p][q] = Lesser(@ + size, TotalBuffer),
            !.totalThreshold = Lesser(@ + size, TotalBuffer)]

(* RemoveLongestQueuePacket: the account and the queues after it.           *)
PushedOutByMtu(mem) ==                                                             \* faulty
  LET p == Longest(mem.buffer.queueLength)
  IN  IF mem.packets[p][1] = <<>> THEN mem
      ELSE [buffer |-> Dequeued(mem.buffer, MTU, p, 1),
            packets |-> [mem.packets EXCEPT ![p][1] = SubSeq(@, 1, Len(@) - 1)]]

PushedOut(mem) ==
  LET p == Longest(mem.buffer.queueLength)
      queue == mem.packets[p][1]
  IN  IF queue = <<>> THEN mem
      ELSE [buffer |-> Dequeued(mem.buffer, queue[Len(queue)], p, 1),
            packets |-> [mem.packets EXCEPT ![p][1] = SubSeq(@, 1, Len(@) - 1)]]

RoomMadeToSpare(mem, size) ==                                                      \* faulty
  LET fits(m) == m.buffer.RemainingBuffer > size
  IN  Repeated(PushedOut, fits, mem, mem.buffer.OccupiedBuffer)

RoomMade(mem, size) ==
  LET fits(m) == m.buffer.RemainingBuffer >= size
  IN  Repeated(PushedOut, fits, mem, mem.buffer.OccupiedBuffer)

-----------------------------------------------------------------------------
(* GenQueueDisc: AcceptPacket *)

(* What the policy does to the shared memory before it decides: nothing to  *)
(* choose from if its loop does not end.                                    *)
Prepared(p, q, size) ==
  LET mem == [buffer |-> buffer, packets |-> packets]
  IN  CASE bufferalg = "LQD" -> RoomMade(mem, size)
        [] bufferalg = "CREDENCE" ->
             {[mem EXCEPT !.buffer = Raised(b, size, p, q)] : b \in ThresholdsYielded(buffer, size)}
        [] OTHER -> {mem}

FitsBelowUnsized(p, q, size, maxSize) ==                                           \* faulty
  buffer.queueLength[p][q] <= maxSize /\ buffer.RemainingBuffer >= size

FitsBelow(p, q, size, maxSize) ==
  buffer.queueLength[p][q] + size <= maxSize /\ buffer.RemainingBuffer >= size

Alphas(q) == {alphas[q], alphaUnsched}
Share(alpha) == (alpha * buffer.RemainingBuffer) \div AlphaUnit

(* nofP after InvokeUpdates, run by a disc's first arrival, then by a timer.*)
GetNofP(n) == [q \in Queues |-> IF n[q] >= sat THEN n[q] ELSE sat]
ActiveShare(alpha, congested, rate) ==
  (alpha * buffer.RemainingBuffer * sat * rate) \div (AlphaUnit * congested * RateUnit)

(* setSaturated, by every arrival under ABM.                                *)
SaturationAt(p, q) == Lesser(buffer.queueLength[p][q], sat)
NewN(p, q) == [N EXCEPT ![q] = @ + SaturationAt(p, q) - saturated[p][q]]
NewNofP(p, q) == IF nofP[p][q] = 0 THEN GetNofP(NewN(p, q)) ELSE nofP[p]

(* Credence asks for a prediction only in a buffer with a long queue.       *)
CredenceAccepts(mem, p, q, size) ==
  LET length == mem.buffer.queueLength
  IN  IF length[Longest(length)][1] * numPorts > TotalBuffer /\ q = 1
      THEN IF length[p][q] + size <= mem.buffer.threshold[p][q]
           THEN IF enablePredictions THEN BOOLEAN ELSE {TRUE}
           ELSE {FALSE}
      ELSE {TRUE}

AcceptPacket(mem, p, q, size) ==
  CASE bufferalg = "DT" -> {FitsBelow(p, q, size, Share(alphas[q]))}
    [] bufferalg = "FAB" -> {FitsBelow(p, q, size, Share(a)) : a \in Alphas(q)}
    [] bufferalg = "ABM" -> {FitsBelow(p, q, size, ActiveShare(a, NewNofP(p, q)[q], r)) :
                               a \in Alphas(q), r \in DeqRates}
    [] bufferalg = "CS" -> {buffer.RemainingBuffer >= size}
    [] bufferalg = "LQD" -> {TRUE}
    [] bufferalg = "CREDENCE" -> CredenceAccepts(mem, p, q, size)

-----------------------------------------------------------------------------
(* DoEnqueue *)

InReserve(p, size) == BytesAt(p) + size < staticBuffer

EnqueueReserved(p, q, size) ==
  /\ Running /\ InReserve(p, size)
  /\ packets' = [packets EXCEPT ![p][q] = Append(@, size)]
  /\ UNCHANGED <<config, buffer, overcount, miscounted, dequeueIndex, abmVars, ended>>

Congestion(p, q) ==
  IF bufferalg = "ABM"
  THEN /\ saturated' = [saturated EXCEPT ![p][q] = SaturationAt(p, q)]
       /\ N' = NewN(p, q)
       /\ nofP' = [nofP EXCEPT ![p] = NewNofP(p, q)]
  ELSE UNCHANGED abmVars

(* Bound: with a reserve, what DoDequeue forgets to discharge adds up in    *)
(* the accounts of the queues, which are followed up to the buffer's size.  *)
Followed == staticBuffer > 0 => OverQueues(buffer.queueLength, Queues) <= TotalBuffer

(* DropAfterEnqueue tells the FIFO disc of a push-out, not the port's disc. *)
PushOutsCounted(mem) ==
  /\ overcount' = [p \in Ports |->
       Lesser(overcount[p] + Monus(Held(packets[p]), Held(mem.packets[p])), staticBuffer)]
  /\ miscounted' = miscounted \cup {p \in Ports : assertions /\ mem.packets[p] # packets[p]}

(* EnqueueBuffer wants more room than the packet's size: what the policy    *)
(* accepts may still be dropped.                                            *)
EnqueueShared(p, q, size) ==
  /\ Running /\ ~InReserve(p, size) /\ Followed
  /\ \E mem \in Prepared(p, q, size) : \E accept \in AcceptPacket(mem, p, q, size) :
       /\ PushOutsCounted(mem)
       /\ IF accept /\ mem.buffer.RemainingBuffer > size
          THEN /\ buffer' = Enqueued(mem.buffer, size, p, q)
               /\ packets' = [mem.packets EXCEPT ![p][q] = Append(@, size)]
          ELSE buffer' = mem.buffer /\ packets' = mem.packets
  /\ Congestion(p, q)
  /\ UNCHANGED <<config, dequeueIndex, ended>>

SearchForEver(p, q, size) ==
  /\ Running /\ ~InReserve(p, size)
  /\ Prepared(p, q, size) = {}
  /\ hung' = TRUE
  /\ UNCHANGED <<config, buffer, discVars, abmVars, failed>>

-----------------------------------------------------------------------------
(* DoDequeue and the timer of ABM *)

Start(p) == IF round_robin THEN dequeueIndex[p] ELSE 0
Scanned(p) == [i \in 1..nPrior |-> (Start(p) + i - 1) % nPrior]
Nonempty(p) == {i \in 1..nPrior : packets[p][Scanned(p)[i]] # <<>>}

NextIndexSame(q) == q                                                              \* faulty
NextIndex(q) == (q + 1) % nPrior

Discharges(p) == BytesAt(p) > staticBuffer

(* QueueDisc::Dequeue of each FIFO disc that the scan tries, up to the first*)
(* with a packet, asserts that its counters add up (queue-disc.cc:934).     *)
Tried(p) == {Scanned(p)[i] : i \in 1..Min(Nonempty(p) \cup {nPrior})}
AssertFails(p) == assertions /\ p \in miscounted /\ 1 \in Tried(p)

DequeueAborts(p) ==
  /\ Running /\ AssertFails(p)
  /\ failed' = TRUE
  /\ UNCHANGED <<config, buffer, discVars, abmVars, hung>>

Dequeue(p) ==
  /\ Running /\ Nonempty(p) # {} /\ ~AssertFails(p)
  /\ LET q == Scanned(p)[Min(Nonempty(p))]
         size == Head(packets[p][q])
     IN  /\ packets' = [packets EXCEPT ![p][q] = Tail(@)]
         /\ buffer' = IF Discharges(p) THEN Dequeued(buffer, size, p, q) ELSE buffer
         /\ dequeueIndex' = [dequeueIndex EXCEPT ![p] = NextIndex(q)]
  /\ UNCHANGED <<config, overcount, miscounted, abmVars, ended>>

InvokeUpdates(p) ==
  /\ Running /\ nofP[p] # Zero[p]
  /\ nofP' = [nofP EXCEPT ![p] = GetNofP(N)]
  /\ UNCHANGED <<config, buffer, discVars, saturated, N, ended>>

Enqueue(p, pkt) ==
  \/ EnqueueReserved(p, pkt.priority, pkt.size)
  \/ EnqueueShared(p, pkt.priority, pkt.size)
  \/ SearchForEver(p, pkt.priority, pkt.size)

Next == \E p \in Ports :
  \/ \E pkt \in Arrivals : Enqueue(p, pkt)
  \/ Dequeue(p) \/ DequeueAborts(p)
  \/ InvokeUpdates(p)

Spec == Init /\ [][Next]_vars

(* A device asks for the next packet when it has sent the one before.       *)
FairSpec == Spec /\ \A p \in Ports : WF_vars(Dequeue(p) \/ DequeueAborts(p))

-----------------------------------------------------------------------------
(* Properties *)

(* The shared memory's account is what the discs hold, without a reserve:   *)
(* through push-outs, packets accepted but refused room, and clamps.        *)
(* Credence's thresholds add up to totalThreshold, and ABM's N to the       *)
(* saturation of the queues, though each is updated by differences.         *)
AccountsAgree ==
  /\ buffer.OccupiedBuffer + buffer.RemainingBuffer = TotalBuffer
  /\ buffer.OccupiedBuffer \in 0..TotalBuffer
  /\ staticBuffer = 0 =>
       /\ \A p \in Ports, q \in Queues : buffer.queueLength[p][q] = Total(packets[p][q])
       /\ buffer.OccupiedBuffer = OverQueues(buffer.queueLength, Queues)
  /\ buffer.totalThreshold = OverQueues(buffer.threshold, Queues)
  /\ buffer.totalThreshold <= TotalBuffer
  /\ \A q \in Queues : N[q] = SumFunction([p \in Ports |-> saturated[p][q]])

(* The loops of LQD and Credence end, without a reserve, as long as the     *)
(* other queues leave room for one packet: "we assume only queue id 1 at    *)
(* each port receives data packets" (shared-memory.cc:132) is all they need.*)
SearchEnds ==
  hung /\ staticBuffer = 0 =>
    LET length == IF bufferalg = "LQD" THEN buffer.queueLength ELSE buffer.threshold
    IN  OverQueues(length, Queues \ {1}) + MTU > TotalBuffer

(* Dynamic thresholds with alpha at most 1 keep part of the buffer free for *)
(* newcomers whatever came before: half of it when one queue is in use, a   *)
(* quarter when two are, and so on.  No one compares more than one queue.   *)
DtLeavesRoom ==
  LET used == {pq \in Ports \X Queues : buffer.queueLength[pq[1]][pq[2]] > 0}
      parts == 2^Cardinality(used)
  IN  bufferalg = "DT" /\ staticBuffer = 0 /\ (\A q \in Queues : alphas[q] <= AlphaUnit)
        => parts * buffer.RemainingBuffer + (parts - 1) * MTU >= TotalBuffer

(* LQD, without a reserve, takes from the longest queues only: one that an  *)
(* arrival pushed packets out of is left within an MTU of the queue 1 of    *)
(* every port but the arrival's own, which may have been the longest and    *)
(* grown since.                                                             *)
TakenFromLongest ==
  [][\A p \in Ports, pkt \in Arrivals :
        bufferalg = "LQD" /\ staticBuffer = 0 /\ Enqueue(p, pkt) =>
          \A v \in Ports : Len(packets'[v][1]) < Len(packets[v][1]) =>
            \A o \in Ports \ {p} : Total(packets'[v][1]) + MTU >= Total(packets'[o][1])]_vars

(* Every queue that stays backlogged is served again and again, for as long *)
(* as the program runs.  A packet pushed out is not one served.             *)
EveryQueueServed ==
  \A p \in Ports, q \in Queues :
    <>[](Running /\ packets[p][q] # <<>>)
      => []<><<Dequeue(p) /\ Len(packets'[p][q]) < Len(packets[p][q])>>_vars

=============================================================================
