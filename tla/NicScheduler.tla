---------------------------- MODULE NicScheduler ----------------------------
(***************************************************************************)
(* What a host's NIC sends next: RdmaEgressQueue and the host side of      *)
(* QbbNetDevice::DequeueAndTransmit (qbb-net-device.cc).  Queue pairs take *)
(* turns in RdmaEgressQueue::m_qpGrp, each held back by PFC, its window    *)
(* and its pacing; ACKs go before them and TCP packets between them.       *)
(*                                                                         *)
(* Every handler ends in DequeueAndTransmit: `trigger' says that it is     *)
(* still to be called, and nothing else happens before it is.  Time is     *)
(* discrete, a packet takes one unit, and a time is kept as what is left   *)
(* of it (the code's m_nextAvail minus Now, not below zero).               *)
(*                                                                         *)
(* Flows are counted in packets.  What their frames go through is module   *)
(* RdmaTransport; here each packet on the way may have a reply, an ACK or  *)
(* a NACK of anything up to the last packet ever sent.                     *)
(* The DCQCN timers, which change a rate without an ACK, are left out.     *)
(***************************************************************************)
EXTENDS Integers, Sequences, FiniteSetsExt, Functions

CONSTANTS
  Flows, Size,       \* [Flows -> packets]
  Classes, m_pg,     \* traffic classes, [Flows -> Classes]
  ack_q_idx,         \* the class that holds back ACKs when it is paused
  tcpip_q_idx,       \* the class of TCP packets
  PfcClasses,        \* classes the switch may pause
  Windowed,          \* may GetWin() bind?  PowerTCP, Swift, UFCC_CWND and the
                     \* QCNs shrink it; the others leave INT_MAX
  Stopping,          \* flows with a stopTime that may pass
  MaxGap,            \* bound: longest pacing gap
  QueueCap           \* bound: ACKs, and TCP packets, waiting

ASSUME NicAssumption ==
  /\ Size \in [Flows -> Nat \ {0}] /\ m_pg \in [Flows -> Classes]
  /\ {ack_q_idx, tcpip_q_idx} \subseteq Classes /\ PfcClasses \subseteq Classes
  /\ Windowed \in BOOLEAN /\ Stopping \subseteq Flows
  /\ MaxGap \in Nat \ {0} /\ QueueCap \in Nat

FlightCap(f) == Size[f]   \* bound: packets of a flow on the way, the rest are lost

NONE == -1           \* an event that is not scheduled

VARIABLES
  started,           \* flows that AddQueuePair has created
  m_qps,             \* the NIC's queue pair group
  completed,         \* those that QpComplete has taken out of m_qpMap
  snd_nxt, snd_una, expired, bound,   \* of each flow; bound: its window is full
  sent, inFlight,    \* of each flow: the highest snd_nxt so far, its packets,
                     \* or the replies to them, that are on the way
  wait,              \* of each flow: m_nextAvail - Now
  m_rrlast,          \* index in m_qps of the flow that sent last
  rdmaTurn,          \* is the next hostDequeueIndex odd?
  ackQ, tcpQ,        \* packets waiting in m_ackQ and in m_queue
  m_paused,
  tx,                \* time to TransmitComplete, NONE when READY
  m_nextSend,        \* time to the event of that name, NONE when it is expired
  trigger            \* is DequeueAndTransmit to be called?

flowVars == <<started, completed, snd_nxt, snd_una, expired, bound, sent, inFlight, wait>>
turnVars == <<m_qps, m_rrlast, rdmaTurn>>
vars == <<flowVars, turnVars, ackQ, tcpQ, m_paused, tx, m_nextSend, trigger>>

(* The constructor resets QbbNetDevice's hostDequeueIndex; the one that     *)
(* GetNextQindex reads, RdmaEgressQueue's, starts with whatever was there.  *)
Init ==
  /\ started = {} /\ completed = {} /\ m_qps = <<>>
  /\ snd_nxt = [f \in Flows |-> 0] /\ snd_una = [f \in Flows |-> 0]
  /\ expired = [f \in Flows |-> FALSE] /\ bound = [f \in Flows |-> FALSE]
  /\ sent = [f \in Flows |-> 0] /\ inFlight = [f \in Flows |-> 0]
  /\ wait = [f \in Flows |-> 0]
  /\ m_rrlast = 0 /\ rdmaTurn \in BOOLEAN
  /\ ackQ = 0 /\ tcpQ = 0
  /\ m_paused = [c \in Classes |-> FALSE]
  /\ tx = NONE /\ m_nextSend = NONE /\ trigger = FALSE

-----------------------------------------------------------------------------
(* GetNextQindex *)

BytesLeft(f) == snd_nxt[f] < Size[f]
IsFinished(f) == expired[f] \/ snd_una[f] >= Size[f]

(* Behind snd_una the unsigned GetOnTheFly wraps round: no window is wide   *)
(* enough then.                                                             *)
IsWinBound(f) == bound[f] \/ snd_una[f] > snd_nxt[f]

Eligible(f) == ~m_paused[m_pg[f]] /\ BytesLeft(f) /\ ~IsWinBound(f)
AckReady == ackQ > 0 /\ ~m_paused[ack_q_idx]

(* The positions of m_qps in the order of the scan, from 1 where the code   *)
(* counts from 0; the scan ends at the first flow that may send now.        *)
ScanOrderFromStart == [k \in DOMAIN m_qps |-> (k % Len(m_qps)) + 1]       \* faulty

ScanOrder == [k \in DOMAIN m_qps |-> ((k + m_rrlast) % Len(m_qps)) + 1]

Available(k) == Eligible(m_qps[ScanOrder[k]]) /\ wait[m_qps[ScanOrder[k]]] = 0
ScanLength == Min({k \in DOMAIN m_qps : Available(k)} \cup {Len(m_qps) + 1})
Found == ScanLength <= Len(m_qps)
Chosen == ScanOrder[ScanLength]

(* If the scan meets finished flows, it removes them and all the finished   *)
(* ones behind the first of them.                                           *)
FinishedMet ==
  {i \in {ScanOrder[k] : k \in 1..(ScanLength - 1)} :
     ~Eligible(m_qps[i]) /\ IsFinished(m_qps[i])}

KeptIfUnsent ==                            \* faulty: removes what is not acknowledged
  {i \in DOMAIN m_qps :
     FinishedMet # {} => i < Min(FinishedMet) \/ BytesLeft(m_qps[i])}

Kept ==
  {i \in DOMAIN m_qps :
     FinishedMet # {} => i < Min(FinishedMet) \/ ~IsFinished(m_qps[i])}

(* They keep their order.                                                   *)
Rank(i) == Cardinality({j \in Kept : j <= i})
KeptAt(k) == CHOOSE i \in Kept : Rank(i) = k

CleanedQpsNotResized ==                                                   \* faulty
  [k \in DOMAIN m_qps |-> m_qps[IF k <= Cardinality(Kept) THEN KeptAt(k) ELSE k]]

CleanedQps == [k \in 1..Cardinality(Kept) |-> m_qps[KeptAt(k)]]

(* Where the chosen flow is after the removal, as GetNextQindex returns it. *)
ReturnedIndexUnmoved == Chosen                                            \* faulty

ReturnedIndex == IF Chosen \in Kept THEN Rank(Chosen) ELSE Chosen

(* The flow at that index; beyond the end, whatever flow was there before.  *)
FlowsAt(i) == IF i \in DOMAIN CleanedQps THEN {CleanedQps[i]} ELSE started

-----------------------------------------------------------------------------
(* DequeueAndTransmit *)

Ready == trigger /\ trigger' = FALSE

ChannelBusy ==
  /\ Ready /\ tx # NONE
  /\ UNCHANGED <<flowVars, turnVars, ackQ, tcpQ, m_paused, tx, m_nextSend>>

SendAck ==
  /\ Ready /\ tx = NONE /\ AckReady
  /\ ackQ' = ackQ - 1 /\ tx' = 1
  /\ UNCHANGED <<flowVars, turnVars, tcpQ, m_paused, m_nextSend>>

(* Scans and TCP's turns alternate; a scan that comes second, because TCP   *)
(* had nothing, has used up both.  The scan cleans the group in any case.   *)
SendFlow ==
  /\ Ready /\ tx = NONE /\ ~AckReady
  /\ rdmaTurn \/ tcpQ = 0
  /\ Found
  /\ m_rrlast' = ReturnedIndex - 1
  /\ rdmaTurn' = FALSE
  /\ m_qps' = CleanedQps
  /\ \E f \in FlowsAt(ReturnedIndex), gap \in 1..MaxGap, full \in {FALSE, Windowed} :
       /\ snd_nxt' = [snd_nxt EXCEPT ![f] = IF BytesLeft(f) THEN @ + 1 ELSE @]
       /\ sent' = [sent EXCEPT ![f] = Max({@, snd_nxt'[f]})]
       /\ inFlight' = [inFlight EXCEPT ![f] = IF @ < FlightCap(f) THEN @ + 1 ELSE @]
       /\ wait' = [wait EXCEPT ![f] = Max({@, gap})]
       /\ bound' = [bound EXCEPT ![f] = full]
  /\ tx' = 1
  /\ UNCHANGED <<started, completed, snd_una, expired, ackQ, tcpQ, m_paused, m_nextSend>>

(* TCP's turn is spent even if PFC does not let the packet go.              *)
SendTcp ==
  /\ Ready /\ tx = NONE /\ ~AckReady
  /\ tcpQ > 0 /\ (rdmaTurn => ~Found)
  /\ m_qps' = IF rdmaTurn THEN CleanedQps ELSE m_qps
  /\ rdmaTurn' = TRUE
  /\ IF m_paused[tcpip_q_idx]
     THEN UNCHANGED <<tcpQ, tx>>
     ELSE tcpQ' = tcpQ - 1 /\ tx' = 1
  /\ UNCHANGED <<flowVars, m_rrlast, ackQ, m_paused, m_nextSend>>

(* Nothing to send: come back when the first pacing gap ends.  The minimum  *)
(* is taken over all flows with bytes left, those PFC holds back included.  *)
SoonestOfAll(qps) == Min({wait[qps[i]] : i \in DOMAIN qps} \cup {MaxGap + 1})   \* faulty

Soonest(qps) ==
  Min({wait[qps[i]] : i \in {j \in DOMAIN qps : BytesLeft(qps[j])}} \cup {MaxGap + 1})

SendNothing ==
  LET t == Soonest(CleanedQps)
  IN  /\ Ready /\ tx = NONE /\ ~AckReady
      /\ ~Found /\ tcpQ = 0
      /\ m_qps' = CleanedQps
      /\ m_nextSend' = IF m_nextSend = NONE /\ t \in 1..MaxGap THEN t ELSE m_nextSend
      /\ UNCHANGED <<flowVars, m_rrlast, rdmaTurn, ackQ, tcpQ, m_paused, tx>>

DequeueAndTransmit == ChannelBusy \/ SendAck \/ SendFlow \/ SendTcp \/ SendNothing

-----------------------------------------------------------------------------
(* The handlers that call it *)

Idle == ~trigger
Triggers == Idle /\ trigger' = TRUE

AddQueuePair(f) ==
  /\ Triggers /\ f \notin started
  /\ started' = started \cup {f}
  /\ m_qps' = Append(m_qps, f)
  /\ wait' = [wait EXCEPT ![f] = 0]                         \* NewQp
  /\ UNCHANGED <<completed, snd_nxt, snd_una, expired, bound, sent, inFlight, m_rrlast, rdmaTurn,
                 ackQ, tcpQ, m_paused, tx, m_nextSend>>

TransmitComplete ==
  /\ Triggers /\ tx = 0 /\ tx' = NONE
  /\ UNCHANGED <<flowVars, turnVars, ackQ, tcpQ, m_paused, m_nextSend>>

NextSend ==
  /\ Triggers /\ m_nextSend = 0 /\ m_nextSend' = NONE
  /\ UNCHANGED <<flowVars, turnVars, ackQ, tcpQ, m_paused, tx>>

Pause(c) ==
  /\ Idle /\ c \in PfcClasses /\ ~m_paused[c]
  /\ m_paused' = [m_paused EXCEPT ![c] = TRUE]
  /\ UNCHANGED <<flowVars, turnVars, ackQ, tcpQ, tx, m_nextSend, trigger>>

Resume(c) ==
  /\ Triggers /\ m_paused[c]
  /\ m_paused' = [m_paused EXCEPT ![c] = FALSE]
  /\ UNCHANGED <<flowVars, turnVars, ackQ, tcpQ, tx, m_nextSend>>

(* ReceiveUdp answers a packet, and TCP sends one.                          *)
RdmaEnqueueHighPrioQ ==
  /\ Triggers /\ ackQ < QueueCap /\ ackQ' = ackQ + 1
  /\ UNCHANGED <<flowVars, turnVars, tcpQ, m_paused, tx, m_nextSend>>

Send ==
  /\ Triggers /\ tcpQ < QueueCap /\ tcpQ' = tcpQ + 1
  /\ UNCHANGED <<flowVars, turnVars, ackQ, m_paused, tx, m_nextSend>>

UpdateNextAvail(t) ==
  m_nextSend' = IF m_nextSend # NONE /\ t < m_nextSend THEN t ELSE m_nextSend

(* At every ACK congestion control may change the flow's rate, with it its  *)
(* m_nextAvail (ChangeRate), and its window.  A NACK also goes back to      *)
(* snd_una (RecoverQueue): what was sent beyond it may still be accepted,   *)
(* so that a later reply acknowledges more than snd_nxt.  Once the flow is  *)
(* complete, GetQp finds no queue pair for the replies that are left.       *)
ReceiveAck(f) ==
  /\ Triggers /\ f \notin completed
  /\ inFlight[f] > 0
  /\ \E una \in snd_una[f]..sent[f], nack \in BOOLEAN :
       /\ snd_una' = [snd_una EXCEPT ![f] = una]
       /\ snd_nxt' = [snd_nxt EXCEPT ![f] = IF nack THEN una ELSE @]
  /\ IF expired[f] \/ snd_una'[f] >= Size[f]
     THEN completed' = completed \cup {f} /\ inFlight' = [inFlight EXCEPT ![f] = 0]
     ELSE completed' = completed /\ inFlight' = [inFlight EXCEPT ![f] = @ - 1]
  /\ \/ UNCHANGED <<wait, m_nextSend>>
     \/ \E t \in 0..MaxGap : wait' = [wait EXCEPT ![f] = t] /\ UpdateNextAvail(t)
  /\ \E full \in {FALSE, Windowed} :
       bound' = [bound EXCEPT ![f] = full /\ snd_una'[f] < snd_nxt'[f]]
  /\ UNCHANGED <<started, expired, sent, turnVars, ackQ, tcpQ, m_paused, tx>>

StopTimePasses(f) ==
  /\ Idle /\ f \in Stopping /\ f \in started /\ ~expired[f]
  /\ expired' = [expired EXCEPT ![f] = TRUE]
  /\ UNCHANGED <<started, completed, snd_nxt, snd_una, bound, sent, inFlight, wait, turnVars, ackQ,
                 tcpQ, m_paused, tx, m_nextSend, trigger>>

Earlier(t) == IF t > 0 THEN t - 1 ELSE t

(* Time passes when no event is due.                                        *)
Tick ==
  /\ Idle /\ tx # 0 /\ m_nextSend # 0
  /\ wait' = [f \in Flows |-> Earlier(wait[f])]
  /\ tx' = Earlier(tx) /\ m_nextSend' = Earlier(m_nextSend)
  /\ UNCHANGED <<started, completed, snd_nxt, snd_una, expired, bound, sent, inFlight, turnVars,
                 ackQ, tcpQ, m_paused, trigger>>

Next ==
  \/ DequeueAndTransmit
  \/ TransmitComplete \/ NextSend \/ RdmaEnqueueHighPrioQ \/ Send \/ Tick
  \/ \E f \in Flows : AddQueuePair(f) \/ ReceiveAck(f) \/ StopTimePasses(f)
  \/ \E c \in Classes : Pause(c) \/ Resume(c)

Spec == Init /\ [][Next]_vars

(* The simulator goes on while there is an event: a call returns, what is   *)
(* due fires, or time passes when nothing is.  Pending is when EventLoop is *)
(* enabled, so this is WF_vars(EventLoop), in a form that is quick to check.*)
EventLoop == DequeueAndTransmit \/ TransmitComplete \/ NextSend \/ Tick
Pending == trigger \/ tx # NONE \/ m_nextSend # NONE \/ \E f \in Flows : wait[f] > 0

FairSpec == Spec /\ ([]<>~Pending \/ []<><<EventLoop>>_vars)

-----------------------------------------------------------------------------
(* Properties *)

(* Every variable has its type; a flow is in the group at most once.        *)
TypeOK ==
  /\ started \subseteq Flows /\ completed \subseteq started
  /\ m_qps \in Seq(started) /\ IsInjective(m_qps)
  /\ \A f \in Flows :
       /\ snd_una[f] \in 0..sent[f] /\ snd_nxt[f] \in 0..sent[f] /\ sent[f] <= Size[f]
       /\ inFlight[f] \in 0..FlightCap(f)
  /\ expired \in [Flows -> BOOLEAN] /\ bound \in [Flows -> BOOLEAN]
  /\ wait \in [Flows -> 0..MaxGap]
  /\ m_rrlast \in Nat /\ rdmaTurn \in BOOLEAN
  /\ ackQ \in 0..QueueCap /\ tcpQ \in 0..QueueCap
  /\ m_paused \in [Classes -> BOOLEAN]
  /\ tx \in {NONE, 0, 1} /\ m_nextSend \in NONE..MaxGap /\ trigger \in BOOLEAN

(* The comment at qbb-net-device.cc:223, "update res to the idx after       *)
(* removing finished qp": the index that GetNextQindex returns is that of   *)
(* the flow it has chosen, unless that flow is itself one of those removed, *)
(* past its stopTime with bytes left: then another flow sends out of turn.  *)
ChosenFlowIsSent == Found /\ ~expired[m_qps[Chosen]] => FlowsAt(ReturnedIndex) = {m_qps[Chosen]}

(* The group never loses a flow that still has something to send or to have *)
(* acknowledged.                                                            *)
UnfinishedStays == \A f \in started : ~IsFinished(f) => \E i \in DOMAIN m_qps : m_qps[i] = f

(* A flow with bytes left whose time has come, but that PFC or its window   *)
(* holds back.  DequeueAndTransmit takes its m_nextAvail for the minimum,   *)
(* and then schedules no event for the other flows.                         *)
HeldBack(f) == BytesLeft(f) /\ ~Eligible(f) /\ wait[f] = 0

(* Neither such a flow nor a paused TCP packet, which spends its turn with  *)
(* no event scheduled, is in the way.                                       *)
Undisturbed ==
  /\ \A i \in DOMAIN m_qps : ~HeldBack(m_qps[i])
  /\ tcpQ > 0 => ~m_paused[tcpip_q_idx]

(* An idle NIC has nothing it could send, and when nothing is in the way an *)
(* event is scheduled for the flows that only wait for their pacing.        *)
IdleForPacingOnly ==
  Idle /\ tx = NONE =>
    /\ ~AckReady
    /\ tcpQ = 0 \/ m_paused[tcpip_q_idx]
    /\ Undisturbed => \A i \in DOMAIN m_qps : Eligible(m_qps[i]) => m_nextSend # NONE

(* Every queue pair has its turn: one that stays able to send, with no ACKs *)
(* before it, does send, however many others and however much TCP there is, *)
(* also while others finish, or stop, and the indices behind them move, if  *)
(* what is in the way of the wake-up does not stay there for ever.          *)
EveryFlowServed ==
  \A f \in Flows :
    <>[](f \in started /\ ~expired[f] /\ Eligible(f) /\ ~AckReady) /\ []<>Undisturbed
      => []<><<snd_nxt'[f] > snd_nxt[f]>>_vars

=============================================================================
