# A verification of the RDMA datacenter simulator in TLA+

The repository is ns-3.39 with a datacenter extension: RDMA hosts, switches with
a shared buffer and priority flow control (PFC), several congestion control and
buffer management algorithms. The extension's own logic is what this directory
specifies; ns-3 itself is its environment. Source paths below are relative to
`src/simulator/ns-3.39/src/`, those without a directory to
`point-to-point/model/`.

Everything runs in one event loop: a handler runs to its end before the next one
starts. The concurrency is between handlers, that is between arrivals, completed
transmissions, timers and PFC frames on several devices, in an order that rates,
delays and queue lengths decide. A step of a model is one handler, or one of the
calls a handler makes when they can interleave with the devices it touches.

## 1. Inventory

| component | source | state | operations | hard behaviour | correct when |
|---|---|---|---|---|---|
| Switch MMU | `switch-mmu.cc` | bytes per ingress and egress queue, headroom and reserve used, totals per pool, pause flag per ingress queue | check, charge and discharge a packet at ingress and egress; should-pause, should-resume; thresholds DT, FAB, ABM, Reverie | ten counters kept by four handlers, with subtractions that clamp or wrap | counters equal what is buffered; headroom holds lossless bytes only, within its size; pause follows headroom |
| Switch node | `switch-node.cc` | `m_bytes[in][out][q]`, the routing table | `SendToDev` (admit, pause, enqueue), `SwitchNotifyDequeue` (discharge, resume) | PFC frames race with data | nothing lossless is dropped; both ends agree on who is paused; charge and discharge match |
| Device, switch side | `qbb-net-device.cc` | transmitter READY or BUSY, `m_paused` per queue, link up | `Receive`, `SwitchSend`, `SendPfc`, `DequeueAndTransmit`, `TransmitComplete`, `Resume`, `TakeDown` | re-entrance: a dequeue sends a RESUME, which starts another port | work conserving; a link failure leaves the accounts right |
| Egress queue | `network/utils/broadcom-egress-queue.cc` | one FIFO per queue index, `m_rrlast` | `DoEnqueue`, `DoDequeueRR` | fairness among queues | no starvation |
| Link | `qbb-channel.cc` | frames in flight | `TransmitStart`, the device's receive error model | loss, link down | FIFO |
| Host NIC | `RdmaEgressQueue` and host branch of `DequeueAndTransmit` | the queue pair group, round-robin index, ACK queue, TCP queue, the wake-up timer | `GetNextQindex`, `DequeueQindex`, `NewQp`, `UpdateNextAvail` | an index into a vector that is compacted; a single wake-up timer for all flows | no flow lost, none starved, never idle with work |
| RDMA transport | `rdma-hw.cc`, `rdma-queue-pair.cc` | `snd_nxt`, `snd_una`; `ReceiverNextExpectedSeq`, NACK timer, milestone | `GetNxtPacket`, `ReceiveUdp`, `ReceiveAck`, `RecoverQueue`, `QpComplete` | lost frames, NACKs and ACKs that cross, packets after completion | nothing acknowledged that has not arrived; completion means delivery |
| Congestion control: DCQCN | `rdma-hw.cc` (MLX_CNP) | rate, target rate, alpha, three events | CNP, alpha update, rate decrease, rate increase | events that restart, meet and outlive each other | rates within limits; no timer after completion; recovery |
| Congestion control: UFCC | `rdma-hw.cc` | state INIT, STEADY or BURST, the bounds of its search, steps up and down | full update once per round trip, fast reaction on the other ACKs | steps computed from one window and applied in another | the bounds never cross, no negative rate |
| Congestion control: others | `rdma-hw.cc` (HPCC, PowerTCP, Timely, DCTCP, Swift, QCNs, UFCC_CWND) | rate, window, per-hop state | one handler per ACK | floating point | - |
| Driver, client | `rdma-driver.cc`, `applications/model/rdma-client.cc` | NIC list | add a queue pair, completion callback | - | - |
| Shared-memory queue discs | `traffic-control/model/{shared-memory,gen-queue-disc}.cc` | occupancy per pool, port and priority | enqueue, dequeue, push-out, admission DT, FAB, CS, IB, ABM, LQD, Credence | accounts shared by several queue discs | never over the buffer, accounts agree, searches for room end |
| Advanced TCP | `internet/model/tcp-advanced.cc` | per-RTT telemetry, window | per ACK handlers | once-per-RTT updates | - |
| Headers and tags | `pause-header.cc`, `cn-header.cc`, `network/utils/custom-header.cc`, ... | - | (de)serialise | widths of fields | - |
| Simulation programs | `examples/{PowerTCP,ABM,Reverie,Credence}` | - | build topologies, take links down, complete flows | - | the environment |

Interactions. A frame arrives at a device (`Receive`), which hands it to its node:
the switch node asks the MMU, charges it and enqueues it at the output device,
whose `DequeueAndTransmit` later calls back into the node (`SwitchNotifyDequeue`),
which discharges the packet and may send a RESUME from the input device. The host
hands the frame to `RdmaHw`, which enqueues an ACK in the NIC's high-priority
queue and triggers it. MMU and peer share one fact, the pause state, in two
copies that only frames in flight reconcile. The NIC and `RdmaHw` share the queue
pair objects: the NIC decides by `IsFinished`, `IsWinBound` and `m_nextAvail`,
which ACKs change between two of its scans. ACKs also drive congestion control,
which sets the rate that the NIC paces by; DCQCN sets it from timers too, which
completion has to stop. The queue discs of a switch in the TCP simulations share
one `SharedMemoryBuffer`; LQD reaches into the queues of the other ports.

## 2. Modules

| module | what it is |
|---|---|
| `SwitchMmu` | the MMU: `Admit` and `Release` of a packet; `held` is the caller's side of the contract |
| `EgressScheduler` | the choice of `DoDequeueRR`, pure operators |
| `SwitchNode` | node, ports, egress queues, links and the peers' PFC state; has an instance of `SwitchMmu` over its own counters |
| `ReliableTransfer` | abstract: what a flow promises its application |
| `RdmaTransport` | sender and receiver of one flow over lossy FIFO channels; implements `ReliableTransfer` |
| `NicScheduler` | the host NIC: several queue pairs, ACKs, TCP packets, pacing, PFC |
| `DcqcnTimers` | the rate of a DCQCN flow: CNPs and the three timers |
| `SharedBuffer` | shared memory and the `GenQueueDisc` of each port, with six policies |
| `Ufcc` | the rate of a UFCC flow: search, steady state, burst |
| `MC*` | values of the constants for TLC |
| `SwitchMmuProofs`, `SwitchNodeProofs`, `RdmaTransportProofs`, `NicSchedulerProofs`, `DcqcnTimersProofs`, `SharedBufferProofs`, `UfccProofs` | theorems about the module each is named after |
| `SumTheorems` | lemmas on sums over finite sets, for the proofs that count bytes |

### How the models correspond to the code

*SwitchMmu.* Counters have their names in the code. `ChargePacket` is the path of
`SendToDev` through `CheckIngressAdmission`, `CheckEgressAdmission`,
`UpdateIngressAdmission`, `UpdateEgressAdmission` and `CheckAndSendPfc`;
`DischargePacket` that of `SwitchNotifyDequeue`. Guarded subtractions are `Monus`,
unguarded ones in `uint64_t` are `Wrap`, with modulus `W64`. Where the code reads
a counter in the middle of an update (the threshold in `GoesToHeadroom`), the
model passes the value it has at that point. `alpha`, a double in the code, is a
fraction over `AlphaUnit`, and the threshold is rounded down as the conversion to
`uint64_t` does.

*SwitchNode.* `m_queue`, `busy`, `m_paused`, `m_linkUp` are the fields of
`QbbNetDevice`. The handlers call `DequeueAndTransmit` of one or two devices
before they return: `calls` is the stack of the calls still to be made, and no
event runs while it is not empty. PFC frames travel on the same wires as
packets, in queue 0. ECN marks and telemetry are left out; no step of the switch
reads them. The peer is the same device class seen from outside: it sends unless
the PFC frames it has received forbid it.

*RdmaTransport.* Sequence numbers on the wire are modulo `W32`, the window
arithmetic modulo `W64`. `inMap` says whether the queue pair is in `m_qpMap`
(not completed), `inGroup` whether the NIC still scans it. A packet's length is what
is left of the flow, cut to the 32 bits of `payload_size`. `InOrder`,
`OutOfOrder` and `Duplicate` are the three branches of `ReceiverCheckSeq`; the
milestone branch is the condition it amounts to, because `ReceiveUdp` sets
`m_milestone_rx` to `m_ack_interval` before each packet. `received` is a history
variable. The NACK timer may expire at any moment.

*NicScheduler.* `ScanOrder` is the loop of `GetNextQindex`, `Kept` its
compaction (the flow at position `i` moves to `Rank(i)`, the number of those kept up
to it), `ReturnedIndex` the index it returns and `FlowsAt` what the caller
finds there. Each way through `DequeueAndTransmit` is an action. Times are kept
as what is left of them; a packet takes one unit. `rdmaTurn`, the parity of
`hostDequeueIndex`, starts with either value because the code never initialises
it; a scan that finds a flow after TCP had nothing to send has counted twice, so that
TCP's turn is next. An acknowledgement may be for anything up to what was ever sent
(`sent`), positive or negative, and may leave any pacing gap: this is where congestion
control is abstracted. After a NACK it may be for more than `snd_nxt`; `GetOnTheFly`
then wraps and the flow is bound by its window, also by one of INT_MAX (`IsWinBound`).

*DcqcnTimers.* `events` holds, for each of the three kinds of event, the times
left of those scheduled, oldest first; the handle in the queue pair is the last,
and `Cancelled` cancels only that one, as `Simulator::Cancel` does. So a second
timer, were one started, would live on. `ReceiveAck` has the order of the code: the completion
an ACK brings comes before its CNP. Alpha is a fraction over `AlphaUnit`, rounded
down; rates are integers in the code and here. A nanosecond is one unit of time
and a microsecond `MicroSecond` of them, which is all the offset of one nanosecond
needs. `m_rpTimeStage`, which only counts up, stops one beyond the threshold. What
follows the CNP in `ReceiveAck` does nothing in MLX mode.

*SharedBuffer.* `buffer` is the account of `SharedMemoryBuffer`, `packets` the FIFO
queues. `Enqueue` is `DoEnqueue`: into the reserve, or through `AcceptPacket` and
`EnqueueBuffer`. What LQD and Credence do to the shared memory before they decide
is `Prepared`, their loops are unrolled by a recursive function (`Repeated`) as often
as they can change anything, and a loop that would not end is the action `SearchForEver`.
FAB's flow counters choose between two alphas, ABM's dequeue rates and Credence's
predictions are any value of their range; `nofP`, which a timer refreshes, is
kept. Packets have one size, where the code adds the IP header in the comparison
with the reserve. A push-out lowers the counters of the FIFO disc but not those of the
port's disc: `overcount` is what that disc's `m_nBytes`, which the reserve is compared
with, counts in excess. It is followed up to the reserve, beyond which a packet never
fits into it; the wrap of `m_nBytes` at 2^32 is not modelled. `miscounted` are the ports
whose FIFO disc no longer adds up; its next `Dequeue` is the action `DequeueAborts` where
assertions are compiled in (`assertions`).

*Ufcc.* The record `ufcc` is the struct of that name. One action per state and kind
of update: `InitUpdate`, `BurstGoesOn`, `BurstEnds` are full updates
(`UpdateRateUfcc`), `InitReact` and `BurstReact` fast reactions (`HandleAckUfcc`),
`SteadyAck` is both. `fresh` counts the packets sent since `m_lastUpdateSeq`, so that
an ACK is for a full update when all packets in flight are fresh, and `BytesSent`
is `snd_nxt - m_lastUpdateSeq`. `aborted` is the failed assertion of
`DataRate::operator-`. A quotient by zero, which a double takes for infinite, gives
`Huge` or 0. Left out because they never act: `wait_count` (always 0), the states
RELEASE and PREEMPT, and the third branch of line 2058.

## 3. Runs

| run | configuration | checks | shows |
|---|---|---|---|
| `mmu` | `MCSwitchMmu.cfg` | `TypeOK`, `ChargedExactly`, `HeadroomHoldsLossless`, `SharedPoolIsTheRest`, `HeadroomPausesPeer`, `PausedQueueHoldsBytes`, `HeadroomWithinXoff`, `PoolsNotOverrun` | the accounts agree in every order of arrivals and departures |
| `node` | `MCSwitchNode.cfg` | `NoLosslessDrop`, `PauseSignalsAgree`, `BytesEnqueued`, `UsesMmu` | PFC works while its frames race with data; the node implements the MMU's contract |
| `node_faults` | `MCSwitchNodeFaults.cfg` | `TypeOK`, `NeverUndercounts`, `WorkConserving`, `PausedPeerResumes` | loss, link failure and control packets never make the MMU count too little; no forgotten transmission; without faults no peer paused for ever, unless a port starves the queue that keeps it paused |
| `node_lost_pause` | `MCSwitchNodeLostPause.cfg` | `MustBePaused` | violated |
| `node_round_robin` | `MCSwitchNodeRoundRobin.cfg` | `EveryQueueServed` | violated |
| `rdma` | `MCRdmaTransport.cfg` | `TypeOK`, `AckedIsReceived`, `IsReliable`, `CompletesWithoutLoss`, `DiesOut` | reliability under loss, completion without |
| `rdma_window` | `MCRdmaTransportWindow.cfg` | `OnTheFlyIsUnacknowledged` | violated |
| `nic` | `MCNicScheduler.cfg` | `TypeOK`, `ChosenFlowIsSent`, `UnfinishedStays`, `IdleForPacingOnly`, `EveryFlowServed` | scheduling of the NIC |
| `dcqcn` | `MCDcqcnTimers.cfg` | `RatesInBounds`, `OneEventOfAKind`, `EventsEndWithFlow`, `DecreaseAfterAlpha`, `RecoverBeforeIncrease`, `RateRecovers` | the timers of a flow never multiply, never outlive it (but for one case), and raise the rate as documented |
| `shared_buffer` | `MCSharedBuffer.cfg` | `AccountsAgree`, `SearchEnds`, `DtLeavesRoom`, `TakenFromLongest`, `EveryQueueServed` | the shared buffer under each policy |
| `ufcc` | `MCUfcc.cfg` | `SearchIsBracketed`, `NegativeOnlyWhenHasty`, `LeavesBurst` | the search keeps its bounds whatever the round-trip times |
| `ufcc_negative` | `MCUfccNegative.cfg` | `NeverNegative` | violated |

### Bounds, and why they are enough

- `mmu`: two input ports and one output port, one queue that carries both
  classes, packets of one and two units, 16 units of buffer, reserve 2 and
  headroom 3 per queue. Queues enter the headroom, overshoot the threshold with
  the large packet, pause, drain headroom first, resume; the buffer, the headroom
  and the lossy pool all fill up. Counters of different queues meet only in
  totals, for which two queues suffice.
- `node`: two senders and a lossy flow of the second of them towards port 3;
  one frame on each wire (`WireCap`) and one packet sent between PAUSE and
  reaction (`Reaction`), so that `PacketsInFlight` is 2 and the headroom of 2
  is exactly what `Provisioned` asks for. `Reaction` counts packets the peer
  sends after the MMU has issued the PAUSE: in a network it is bounded by the
  delay of a frame behind another on the link; with less headroom than that,
  `NoLosslessDrop` says nothing and the code does drop. `PfcCap` bounds how
  many PFC frames for one queue may be under way to a peer that is sending; 2
  lets a RESUME catch up with a PAUSE and a PAUSE with a RESUME.
- `node_faults`: one sender of RDMA packets in queue 3 and TCP packets in queue 1, a
  next hop that pauses and resumes queue 3 of the switch, one loss, one link taken down,
  ACKs in queue 0, one of them in the switch at a time (`ControlCap`). `W32` is 2, so that `m_bytes` of
  queue 0, which only grows, wraps. Three units of buffer and a shared pool of one
  are enough to enter the headroom of 2 with the second packet. `PausedPeerResumes`
  is about behaviours without loss and without a link taken down: after a fault a peer
  may stay paused, see section 6. Nor does it hold where a port starves the queue
  (`Starved`: the port goes on serving others, and this one never again): the egress
  priority is strict (section 6), and TCP in queue 1, or ACKs, can keep RDMA packets in
  queue 3, and with them their sender paused, for ever. Without that exception TLC
  finds the property violated in this run. Where it excuses nothing, a paused next hop
  included, the RESUME is sent. `CHECK_DEADLOCK` is off, because a switch whose link is
  down does stop.
- `rdma`: 7 bytes, packets of 2, chunks of 4, acknowledgements from byte 3: the
  last packet is short and ends the flow inside a chunk. Three frames in flight
  in each direction and two losses let several NACKs for different bytes be in
  flight at once. `CHECK_DEADLOCK` is off: a completed flow does stop, and so
  does one whose last frame was lost.
- `nic`: a flow of two packets and one of a single packet with a stop time, one
  ACK and one TCP packet waiting (`QueueCap`), gaps of no or one unit (`MaxGap`), as many
  packets of a flow on the way as it has (`FlightCap`; what is beyond counts as lost). A
  flow finishes and is compacted away before or behind the other, is rewound by a NACK,
  acknowledged beyond `snd_nxt` afterwards, stops, starts late. PFC pauses class 3 only,
  as in the simulation programs, where TCP is lossy, and windows have their INT_MAX,
  which is what `GetWin` amounts to unless the algorithm is PowerTCP, Swift, UFCC_CWND or
  one of the QCNs: a flow is bound by its window when `GetOnTheFly` has wrapped.
- `dcqcn`: a device rate of 13, a minimum of 2, alpha in quarters, intervals of 1,
  2 and 3 microseconds. The periods meet in every combination, the rate reaches
  its minimum and its maximum, odd rates lose a unit when halved, and every stage
  (fast recovery, active and hyper increase) is reached. CNPs and the end of
  the flow come at any moment. `quiet` stops at `QuietTime`, the least time that
  the property asks for. `CHECK_DEADLOCK` is off: a completed flow without events
  stops.
- `shared_buffer`: two ports, a queue for ACKs of size 1 and one for data of size 2
  or 1, buffers from 2 to 7, by policy. `Configurations` is chosen in `Init`, so that one run
  covers every policy without a reserve, CS and LQD with one, and LQD with and without
  assertions; with a reserve the accounts of the queues leak
  (section 6) and are followed up to the size of the buffer (`Followed`). For the same
  reason `SearchEnds`, `DtLeavesRoom` and `TakenFromLongest` are about switches without a
  reserve: a leaked account makes LQD look for bytes in a queue that is empty.
  `TakenFromLongest` leaves out the queue of the port the packet arrives at, which grows
  by it.
  `CHECK_DEADLOCK` is off: a search that does not end, and a failed assertion, stop
  everything. `EveryQueueServed` is about programs that go on; what LQD pushes out of a
  queue is not served.
- `ufcc`: rates from 10 to 22, so that bisection takes a few steps, three packets
  in flight, round-trip times of an empty path, of a standing queue and of a burst.
  `Huge` only has to exceed every rate. `CHECK_DEADLOCK` is off: the flow ends with
  its short packet, and a failed assertion ends the program.

### Fairness

The event loop runs every scheduled event. So calls return, transmissions complete and
frames arrive. In `SwitchNode` this is `WF` of `DequeueAndTransmit`, and for each event that it is
again and again not scheduled or again and again run: handlers that run in between
disable it for a moment but do not cancel it. The conditions under which each event is
scheduled are written out (`Transmitting`, `FrameComing`, `Leaving`): an event that stays
scheduled runs, and nothing is asked of one that is cancelled. A peer that has paused the switch
resumes it while the link is up: without this the network can be stopped from
outside, for good. In `RdmaTransport` the NIC polls a queue pair that can send,
frames arrive, and the NACK timer expires. In `NicScheduler` the event loop goes on while
anything is scheduled or time still has to pass (`Pending`), and `Tick` waits for events
that are due; `Pending` is when `EventLoop` is enabled, so this is its weak fairness, written the same way. In `DcqcnTimers` the
same holds for the three events and time. In `SharedBuffer` the device of a port takes the
next packet when it has sent the one before, or the assertion there fails. In `Ufcc` the
NIC sends while the window has room and every packet is acknowledged. Packets from
applications, ACKs, PFC frames and losses are under no fairness.

`CompletesWithoutLoss` assumes no loss because the code has no retransmission
timer: after the loss of the last packet, or of the last ACK, a flow stops, which
is how the simulator is meant to be used (PFC). It also assumes that the last
packet is acknowledged at all (`LastIsAcked`): the receiver only acknowledges
after `L2AckInterval` bytes or at the end of a chunk.

### When the NIC's wake-up fails

The wake-up timer takes the minimum over all flows with bytes left. A flow that PFC or
its window holds back with its gap already over makes that minimum lie in the past, and
no timer is set (`qbb-net-device.cc:525`). In TCP's turn with TCP's class paused
`DequeueAndTransmit` returns before it sets the timer (`:480`). The NIC then sleeps until
an unrelated event, such as the next ACK. `IdleForPacingOnly` therefore promises a timer
for the flows that wait for their pacing only where neither is the case (`Undisturbed`);
that an idle NIC has no ACK, no TCP packet and no flow that could go out at once it
promises always. The first case needs no small window and no second class: the flow
that a NACK has taken back and a late ACK then moved beyond `snd_nxt` (section 6, 3) is held
back by any window, and the run reaches an idle NIC without a timer that way.
For the same reason `EveryFlowServed` assumes that the NIC is undisturbed again and
again. No text of the repository claims otherwise, so there is no run for it.

## 4. Proofs

TLAPS checks these theorems for every value of the constants that meets the named
assumptions.

`SwitchMmuProofs`:
- `TypeCorrect`: `Spec => []TypeOK`. Every subtraction in the code is guarded or
  wraps, which is what keeps the counters natural numbers.
- `HeadroomPauses`: `Spec => []HeadroomPausesPeer`. Inductive with `TypeOK`.
- `PausedHoldsBytes`: `Spec => []PausedQueueHoldsBytes`, by the same two-sided
  argument: pause sets in only with headroom, and resume is examined with the
  queue's new values whenever the headroom has gone.
- `BufferBound`: `Spec => []BufferNotOverrun`, the buffer and the egress pools
  bound what is charged, whatever the thresholds, alphas and headroom.
- `CountersExact`: `Spec => []ChargedExactly`, every counter is the sum of the bytes
  of the packets it is charged with; `HeadroomIsLossless` and `SharedPoolExact` (the
  unguarded subtraction of the shared pool, modulo `W64`, is the true difference) go
  with it in one inductive invariant, `Books`. No guarded subtraction ever finds less
  than it takes, and nothing wraps, because `bufferPool < W64`.
- `HeadroomLimit`: `Spec => []HeadroomWithinXoff`: `xoffUsed` stays within `xoff` if the
  headroom holds a packet and the reserve (`HeadroomSized`, part of the property), also
  when both classes share a queue. The first packet charged to the headroom skips the
  limit and so enters an empty one; a later one may pass on the reserve alone, hence
  the invariant on the bytes of the queue that the proof carries along.
- `PoolsBound`: `Spec => []PoolsNotOverrun`, the pools from the limits of the queues.

The steps of the proofs go through two lemmas, `AdmitEffect` and
`ReleaseEffect`, which say what a step does to the counters of one queue.

`SumTheorems`. The sums are folds of the community modules over a set, in an order
that CHOOSE fixes. An induction rule is an operator with a parameter, which the
provers cannot instantiate; the lemmas argue by the least counterexample instead, a
subset of the finite set that is least under inclusion, and show that the order does
not matter (`SumAnyOrder`), what a change of one term does (`SumChange`), and how sums
split, compare and are renumbered.

`SwitchNodeProofs` takes the theorems about the MMU over as those of an instance `P` of
`SwitchMmuProofs` with the node's counters; the lemmas at its beginning show that its
operators are those of the model's instance `Mmu`.
- `TypeCorrect`: `Spec => []TypeOK`, under all faults.
- `NoSenderForgotten`: `Spec => []WorkConserving`, under all faults: a port that could
  transmit has a call pending.
- `NodeUsesMmu`: `Spec => UsesMmu` when no link is taken down (`MaxTakeDowns = 0`): the
  refinement of `SwitchMmu`, step by step. A link taken down drops packets the MMU goes
  on charging, so the hypothesis is needed; `NodeNeverUndercounts`,
  `Spec => []NeverUndercounts`, is what remains under all faults.
- `SignalsNeverDisagree`: in states up to which nothing was lost or taken down,
  `PauseSignalsAgree`. The invariant adds where every PFC frame is that the pause flags
  are not yet reconciled by: in the queue of the port, on the wire, or being sent.
  `ResumeFindsPaused` is its consequence, the assertion of `Resume` (`MustBePaused`, which
  `node_lost_pause` shows violated after a loss).
- `BytesAreEnqueued`: `BytesEnqueued` as long as no link is taken down, if
  `bufferPool < W32` (a buffer of less than 4 GB): the 32-bit counters then never wrap.
- `LosslessNeverDropped`: in the same states as `SignalsNeverDisagree`, `NoLosslessDrop`.
  The hypotheses besides `Provisioned`, which is part of the property, are `EgressOpen`,
  that the egress thresholds of lossless traffic are as large as the buffer
  (`egressAlphaHigh` is 10000 and the lossless egress pool is the buffer in
  `examples/Reverie/reverie-evaluation-sigcomm2023.cc:1304` and `:1328`), and that the
  reserves are part of the ingress pool. The invariant, `HeadroomBudget`: the headroom in
  use of a queue is at most the number of packets that have come of those the peer could
  still send, times any bound on their size. A packet leaves the budget when it arrives;
  the peer's next packets enter it only while it has not yet reacted to the PAUSE, which
  `PauseSignalsAgree` ties to the headroom being in use.

`RdmaTransportProofs`, under `NoWrap == m_size < W32` (a flow shorter than the
sequence space; the simulator's flows are below 4 GiB):
- `Inductive`: `Spec => []IInv` with
  `IInv == TypeOK /\ HonestFrames /\ HonestCounters /\ CompletedIsReceived`.
  `AckedIsReceived` is not inductive: an ACK in flight becomes `snd_una`, and a
  data frame in flight becomes `received`. `HonestFrames` says that frames in
  flight lie within the flow and that no acknowledgement exceeds what the
  receiver has had, nor, before completion, what it expects now; the latter needs
  the rounding down to chunks to be monotone and idempotent (the `ChunkStart`
  lemmas), since in back-to-zero mode the receiver itself moves back.
- `TransportTypes`, `NothingAckedTooEarly`: its consequences.
- `FlowIsReliable`: `Spec => IsReliable`, the refinement of `ReliableTransfer`
  with `completed` mapped to `~inMap`; each step delivers, expires, completes or
  stutters.

`NicSchedulerProofs`:
- `Inductive`: `Spec => []IInv`: types, `snd_una` and `snd_nxt` each within what has been
  sent (but in no order, see `rdma_window`), no flow twice in the group, a flow not yet
  added has sent nothing (or an ACK could complete it before it is added), and
  `UnfinishedStays`. `TypeCorrect` and `UnfinishedStay` are its consequences.
- `ChosenIsSent`: `Spec => []ChosenFlowIsSent`. Both rest on `RanksNumber`: ranks number the
  positions that are kept from 1 to their number, each once, so the compacted group is
  a renumbering of what is kept, and on `ScanVisitsAll`: the scan visits every position,
  wherever it starts (`RemainderIs` on `%`).
- `IdleForAReason`: `Spec => []IdleForPacingOnly`, for all classes, windows and PFC. A NIC
  falls idle in `SendNothing` or in TCP's turn; where no flow is held back and TCP is not
  paused, the soonest flow is one that waits, and its wait lies ahead. With `IInv` the
  property is inductive: whatever gives an idle NIC something to send calls
  `DequeueAndTransmit`.

`DcqcnTimersProofs`:
- `Inductive`: `Spec => []IInv` with `IInv` the conjunction of `TypeOK`, three of the
  invariants the run checks, and three facts none of them says. `NoCnpNoEvent`:
  before its first CNP a flow has no event and sends at the device's rate, so the
  first cut does not raise it. `OddDistance`: the alpha and the decrease event are
  an odd number of nanoseconds apart (a microsecond being an even number of them),
  which no rescheduling changes. `QuietSinceDecrease`: the time since the last
  decrease and what is left of the increase timer make up a full period for each
  stage reached.
- `TypeCorrect`, `RatesStayInBounds`, `TimersRunOnce`, `NoEventSurvives`,
  `NeverAtOnce` (from `OddDistance`) and the action property `RecoveryComesFirst`
  (from `QuietSinceDecrease`) follow. The rates need that the minimum is even, as
  100 Mb/s is: two halves of an odd one, each rounded down, fall below it.

`SharedBufferProofs`:
- `InvariantHolds`: `Spec => []IInv`. `IInv` says that the account balances (`Sound`:
  what is occupied and what remains make up the buffer, the thresholds add up) and,
  without a reserve, charges what the queues hold, that ABM's sums are right
  (`Congested`), and `SearchEnds`. `Sound` is a predicate of an account and queues,
  not of the current state, because a round of a loop starts where the last one stopped.
- The loops are recursive functions over their rounds. `PushOutsExist` and
  `LoweringsExist` show that such functions exist, by extending the one with a round
  less; `UpTo` is induction on a set of naturals, from the least element outside it.
  What a round keeps then holds of the result (`RoundsSound`, `RoundsSearch`,
  `LoweringsYield`).
- `AccountsCorrect`: `Spec => []AccountsAgree`.
- `SearchesEnd`: `Spec => []SearchEnds`. A round of LQD or Credence frees a byte or more, unless
  every queue 1 is empty, so within as many rounds as there are bytes there is room
  or the other queues hold what is occupied.
- `LongestGiveWay`: `Spec => TakenFromLongest`. A queue that lost a packet was the longest
  when it did, and the others have not grown since, but for the arrival's own.
- `NewcomersFindRoom`: `Spec => []DtLeavesRoom`. The property is about the queues in use and
  is not inductive, because a queue that drains leaves that set. `LeavesRoom` says
  for every set of queues `U`, in use or not, that what they leave of the buffer, plus an
  MTU, is at least the 2^|U|-th part of the buffer plus an MTU. An arrival into a queue
  of `U` takes at most what was left, which is at most what `U` without that queue
  left; so it halves the bound, as one element less halves the number of subsets.

`UfccProofs`:
- `Inductive` and `SearchStaysBracketed`: `Spec => []SearchIsBracketed`. The invariant
  adds that while the search may replace a bound by `last_rate` (one of the flags
  `low`, `high` is set, in INIT), that rate lies between the bounds, and that what has
  been sent is not empty at a full update of the search, so that the step up is a number.
  It needs nothing of the round-trip times: whatever they are, every comparison
  with them has some outcome.

- `NegativeOnlyIfHasty`: `Spec => []NegativeOnlyWhenHasty` if `m_mtu >= 500`, in bytes
  (`RdmaHw`'s default is 1000). `Left` counts the ACKs that may still lower the rate by the
  current `down_rate`: those of packets sent before the last full update, and the one
  that makes the next. The invariant, `StepsFit`: `down_rate * Left` is at most the
  distance from the rate to `low_rate`. At a full update it holds because `down_rate` is
  500 times that distance divided by the bytes of at least `Left` packets of 500 bytes;
  the short last packet ends the flow, so it is not divided by alone. With an MTU below
  500 the invariant fails, as TLC shows with 300.

Only model-checked is all liveness: `PausedPeerResumes`, `CompletesWithoutLoss`,
`DiesOut`, `EveryFlowServed`, `RateRecovers`, `EveryQueueServed` and `LeavesBurst`. No
invariant and no action property of a passing run is left without a theorem.

Liveness under fairness, `ENABLED`, induction rules (whose parameter is an operator)
and RECURSIVE operators are out of the prover's reach; the modules contain no
RECURSIVE operator, and where a proof needs induction it is made on a set.

## 5. Not modelled, and why

- ABM and Reverie thresholds of the RDMA switch (`switch-mmu.cc`), with rate
  estimation and filters in floating point. `BufferBound` holds for any threshold,
  theirs included; what they promise beyond it is a share computed by a filter.
- HPCC, PowerTCP, Timely, DCTCP, Swift, the QCNs and UFCC_CWND: control laws in
  floating point, whose results, a rate and a window, the transport takes as any
  value. Loss in `Ufcc`: a NACK takes `snd_nxt` back, and the differences the laws
  divide by can then be zero or wrap.
- Intelligent Buffer and AFD of the queue discs (estimators and random drops), a child disc
  that refuses a packet after it has been charged (`gen-queue-disc.cc:666`; the
  programs give the child queues no limit that binds, but a RED child may refuse a
  packet that is not ECN-capable), averages and telemetry.
- ECN marking, INT and PINT stamping, statistics, traces: no modelled step reads
  them.
- `TakeDown` of a host NIC with re-routing (`SetLinkDown`, `RedistributeQp`), the
  MPI channel.
- Advanced TCP: control laws in floating point inside ns-3's own TCP.
- Headers: formats. Driver and client: thin layers over `AddQueuePair` and
  `QpComplete`.
- Upstream ns-3, NetAnim, Bake.

## 6. Where the code departs from what it says

Shown by a run that expects a violation:

1. `MustBePaused`: a lost PAUSE makes the next RESUME fail an assertion
   (`qbb-net-device.cc:668` and `:596`).
2. `EveryQueueServed` of `SwitchNode`: the egress "round-robin" is strict priority
   (`broadcom-egress-queue.cc:123`).
3. `OnTheFlyIsUnacknowledged`: a second NACK rewinds `snd_nxt` below what a
   later ACK confirms; the window then looks full (`rdma-queue-pair.cc:164`).
4. `NeverNegative`: UFCC restarts its search between two updates and divides by
   the bytes sent since the last one, which may be none; the next step down fails
   the assertion "Data Rate cannot be negative." (`rdma-hw.cc:1969`).

Met while modelling, and visible in the models:

- With a reserve, headroom and reserve count the same bytes, so that the
  per-queue occupancy documented at `switch-mmu.cc:837` is negative and
  `GetIngressSharedUsed` wraps (`:335`). Each packet is still accounted exactly once
  in `ingress_bytes` and `totalUsed` (`ChargedExactly`).
- `TakeDown` of a switch port drops packets the MMU goes on charging
  (`qbb-net-device.cc:921`): counters stay too high, which no property excludes
  (`NeverUndercounts` bounds them from the other side).
- Strict priority can keep an upstream paused without any fault (`Starved`).
- A flow chosen by the NIC's scan that is past its stop time is removed while its
  index is being returned, and another flow sends out of turn
  (`qbb-net-device.cc:218`, the exception in `ChosenFlowIsSent`).
- The first CNP of a DCQCN flow that comes with the completing ACK starts timers
  that reschedule each other for ever (`rdma-hw.cc:713`, the exception `lateStart`
  in `EventsEndWithFlow`).
- The loops of LQD and Credence spin for ever when ACKs in queue 0 fill the account
  (`gen-queue-disc.cc:369`, `shared-memory.cc:141`, the premise of `SearchEnds`).
- With a reserve, a queue disc discharges by what is queued when a packet leaves
  and not by how it entered, so the accounts of the queues leak
  (`gen-queue-disc.cc:765`).
- LQD's push-out calls `DropAfterEnqueue` of the FIFO disc only (`shared-memory.cc:289`). That
  lowers `m_nPackets` and counts no dequeue (`traffic-control/model/queue-disc.cc:768`),
  so in a build with assertions the disc's next `Dequeue` fails at `:934` (action
  `DequeueAborts`). `examples/Credence/run-main.sh:105` runs the optimized build, which
  checks nothing. The port's own disc goes on counting the bytes (`overcount`), so that
  after some push-outs nothing enters by the reserve any more.
- A flow taken back by a NACK and then acknowledged beyond `snd_nxt` keeps the NIC's
  wake-up timer from being set (section 3).
- What DT, FAB, ABM and CS accept because it fits exactly, `EnqueueBuffer` still
  refuses (`shared-memory.cc:171`).
- UFCC's rate may fall to 95% of "Minimum rate of a throttled flow"
  (`rdma-hw.cc:1944`), and `ChangeRate(qp, qp->m_rate)` (`:1990`) never moves
  `m_nextAvail`, since the rate is already the new one.

## 7. Plan

Done, in this order: buffer and PFC, one flow, the NIC, DCQCN's timers, the shared
buffer of the queue discs, UFCC. What is left:

1. Host link failure: `TakeDown` of a NIC and `RedistributeQp`, with the queue pairs
   of several NICs; two flows whose keys collide in `m_qpMap` (`rdma-hw.cc:354`).
2. The per-RTT bookkeeping of HPCC and PowerTCP (`m_lastUpdateSeq`), the fast path
   against the slow path.
3. ABM and Reverie as further values of `ingressAlg` and `egressAlg` in `SwitchMmu`.
