----------------------------- MODULE DcqcnTimers -----------------------------
(***************************************************************************)
(* DCQCN as Mellanox NICs run it (rdma-hw.cc, CC_MODE::MLX_CNP): the rate  *)
(* of one flow, cut by CNPs and raised again by timers.  ACKs bring the    *)
(* CNPs; three events of the simulator do the rest: the update of alpha,   *)
(* the check for a rate decrease and the rate increase.  An event may      *)
(* outlive what it was scheduled for, so they are kept as a queue for each *)
(* kind, of the times left, oldest first; the handle in the queue pair     *)
(* (m_eventUpdateAlpha, m_eventDecreaseRate, m_rpTimer) is the last one.   *)
(*                                                                         *)
(* Rates are integers, as DataRate keeps them, and each operation rounds   *)
(* down where DataRate does.  alpha and the gain, doubles in the code, are *)
(* fractions over AlphaUnit.  When the flow completes is decided by module *)
(* RdmaTransport: here any ACK may be the last.                            *)
(***************************************************************************)
EXTENDS Integers, Sequences

CONSTANTS
  m_minRate, m_max_rate,    \* m_max_rate is the device's rate
  m_rai, m_rhai,
  AlphaUnit, m_g, m_rateOnFirstCNP,      \* the last two over AlphaUnit
  m_EcnClampTgtRate,
  m_rpgThreshold,
  m_alpha_resume_interval, m_rateDecreaseInterval, m_rpgTimeReset    \* in microseconds

ASSUME DcqcnAssumption ==
  /\ {m_minRate, m_max_rate, m_rai, m_rhai, AlphaUnit, m_g, m_rateOnFirstCNP} \subseteq Nat
  /\ AlphaUnit > 0 /\ m_g <= AlphaUnit /\ m_rateOnFirstCNP <= AlphaUnit
  /\ m_EcnClampTgtRate \in BOOLEAN /\ m_rpgThreshold \in Nat
  /\ {m_alpha_resume_interval, m_rateDecreaseInterval, m_rpgTimeReset} \subseteq Nat \ {0}
  /\ m_minRate % 2 = 0                                                \* 100 Mb/s
  /\ m_minRate <= (m_max_rate * m_rateOnFirstCNP) \div AlphaUnit

MicroSecond == 2            \* 1000 ns in the code; a nanosecond is the smallest step
NanoSecond == 1

Kinds == {"alpha", "decrease", "increase"}

VARIABLES
  m_rate, m_targetRate, m_alpha,
  m_alpha_cnp_arrived, m_decrease_cnp_arrived, m_first_cnp,
  m_rpTimeStage,            \* up to m_rpgThreshold + 1, beyond which all is alike
  events,                   \* [Kinds -> sequences of times left]
  completed,
  lateStart,                \* history: the completing ACK brought the first CNP
  quiet                     \* history: time since the last decrease, up to QuietTime

rateVars == <<m_rate, m_targetRate, m_rpTimeStage>>
cnpVars == <<m_alpha_cnp_arrived, m_decrease_cnp_arrived, m_first_cnp>>
vars == <<rateVars, m_alpha, cnpVars, events, completed, lateStart, quiet>>

Init ==
  /\ m_rate = m_max_rate /\ m_targetRate = m_max_rate /\ m_alpha = AlphaUnit
  /\ m_alpha_cnp_arrived = FALSE /\ m_decrease_cnp_arrived = FALSE /\ m_first_cnp = TRUE
  /\ m_rpTimeStage = 0
  /\ events = [k \in Kinds |-> <<>>]
  /\ completed = FALSE /\ lateStart = FALSE
  /\ quiet = 0

Lesser(a, b) == IF a <= b THEN a ELSE b
Larger(a, b) == IF a >= b THEN a ELSE b
Cancelled(queue) == IF queue = <<>> THEN <<>> ELSE SubSeq(queue, 1, Len(queue) - 1)

-----------------------------------------------------------------------------
(* ReceiveAck *)

AlphaDelay == m_alpha_resume_interval * MicroSecond
DecreaseDelaySame(delta) == m_rateDecreaseInterval * MicroSecond                   \* faulty
DecreaseDelay(delta) == m_rateDecreaseInterval * MicroSecond + delta * NanoSecond
IncreaseDelay == m_rpgTimeReset * MicroSecond

FirstRate == (m_rate * m_rateOnFirstCNP) \div AlphaUnit

(* cnp_received_mlx, on the events that QpComplete has left.                *)
CnpReceived(pending) ==
  /\ m_decrease_cnp_arrived' = TRUE
  /\ m_first_cnp' = FALSE
  /\ IF m_first_cnp
     THEN /\ m_alpha' = AlphaUnit /\ m_alpha_cnp_arrived' = FALSE
          /\ m_rate' = FirstRate /\ m_targetRate' = FirstRate
          /\ events' = [pending EXCEPT !["alpha"] = Append(@, AlphaDelay),
                                       !["decrease"] = Append(@, DecreaseDelay(1))]
     ELSE /\ m_alpha_cnp_arrived' = TRUE
          /\ events' = pending
          /\ UNCHANGED <<m_alpha, m_rate, m_targetRate>>
  /\ UNCHANGED m_rpTimeStage

(* QpComplete.                                                              *)
AfterCompleteButIncrease ==                                                        \* faulty
  [k \in Kinds |-> IF k = "increase" THEN events[k] ELSE Cancelled(events[k])]

AfterComplete == [k \in Kinds |-> Cancelled(events[k])]

(* The CNP is handled after the completion that the same ACK may bring.     *)
ReceiveAck(cnp, last) ==
  LET pending == IF last THEN AfterComplete ELSE events
  IN  /\ ~completed
      /\ completed' = last
      /\ IF cnp THEN CnpReceived(pending)
                ELSE events' = pending /\ UNCHANGED <<rateVars, m_alpha, cnpVars>>
      /\ lateStart' = (cnp /\ last /\ m_first_cnp)
      /\ UNCHANGED quiet

-----------------------------------------------------------------------------
(* The events *)

Due(k) == events[k] # <<>> /\ Head(events[k]) = 0
Rescheduled(k, delay) == Append(Tail(events[k]), delay)

Fed == IF m_alpha_cnp_arrived THEN m_g ELSE 0
NewAlpha == ((AlphaUnit - m_g) * m_alpha + Fed * AlphaUnit) \div AlphaUnit

UpdateAlpha ==
  /\ Due("alpha")
  /\ m_alpha' = NewAlpha
  /\ m_alpha_cnp_arrived' = FALSE
  /\ events' = [events EXCEPT !["alpha"] = Rescheduled("alpha", AlphaDelay)]
  /\ UNCHANGED <<rateVars, m_decrease_cnp_arrived, m_first_cnp, completed, lateStart, quiet>>

Clamp == m_EcnClampTgtRate \/ m_rpTimeStage # 0
ReducedUnbounded == (m_rate * (2 * AlphaUnit - m_alpha)) \div (2 * AlphaUnit)      \* faulty
Reduced == Larger(m_minRate, (m_rate * (2 * AlphaUnit - m_alpha)) \div (2 * AlphaUnit))

(* The increase timer after a decrease.                                     *)
RestartedTwice == Append(events["increase"], IncreaseDelay)                        \* faulty
RestartedNever == Cancelled(events["increase"])                                    \* faulty
Restarted == Append(Cancelled(events["increase"]), IncreaseDelay)

CheckRateDecrease ==
  /\ Due("decrease")
  /\ IF m_decrease_cnp_arrived
     THEN /\ m_targetRate' = IF Clamp THEN m_rate ELSE m_targetRate
          /\ m_rate' = Reduced
          /\ m_rpTimeStage' = 0 /\ m_decrease_cnp_arrived' = FALSE
          /\ events' = [events EXCEPT !["decrease"] = Rescheduled("decrease", DecreaseDelay(0)),
                                      !["increase"] = Restarted]
          /\ quiet' = 0
     ELSE /\ events' = [events EXCEPT !["decrease"] = Rescheduled("decrease", DecreaseDelay(0))]
          /\ UNCHANGED <<rateVars, m_decrease_cnp_arrived, quiet>>
  /\ UNCHANGED <<m_alpha, m_alpha_cnp_arrived, m_first_cnp, completed, lateStart>>

(* FastRecoveryMlx, ActiveIncreaseMlx and HyperIncreaseMlx.                 *)
TargetFromFirst ==                                                                 \* faulty
  Lesser(m_max_rate, m_targetRate + (IF m_rpTimeStage <= m_rpgThreshold THEN m_rai ELSE m_rhai))

IncreasedTarget ==
  IF m_rpTimeStage < m_rpgThreshold THEN m_targetRate
  ELSE Lesser(m_max_rate,
              m_targetRate + (IF m_rpTimeStage = m_rpgThreshold THEN m_rai ELSE m_rhai))

RateIncEventTimer ==
  /\ Due("increase")
  /\ events' = [events EXCEPT !["increase"] = Rescheduled("increase", IncreaseDelay)]
  /\ m_targetRate' = IncreasedTarget
  /\ m_rate' = (m_rate \div 2) + (IncreasedTarget \div 2)
  /\ m_rpTimeStage' = Lesser(m_rpTimeStage + 1, m_rpgThreshold + 1)
  /\ UNCHANGED <<m_alpha, cnpVars, completed, lateStart, quiet>>

(* Time passes when no event is due.                                        *)
QuietTime == (m_rpgThreshold + 1) * IncreaseDelay

Tick ==
  /\ \A k \in Kinds : ~Due(k)
  /\ \E k \in Kinds : events[k] # <<>>
  /\ events' = [k \in Kinds |-> [i \in DOMAIN events[k] |-> events[k][i] - 1]]
  /\ quiet' = Lesser(quiet + 1, QuietTime)
  /\ UNCHANGED <<rateVars, m_alpha, cnpVars, completed, lateStart>>

Next ==
  \/ \E cnp, last \in BOOLEAN : ReceiveAck(cnp, last)
  \/ UpdateAlpha \/ CheckRateDecrease \/ RateIncEventTimer \/ Tick

Spec == Init /\ [][Next]_vars

(* The simulator runs every event at its time.                              *)
FairSpec ==
  /\ Spec
  /\ WF_vars(UpdateAlpha) /\ WF_vars(CheckRateDecrease) /\ WF_vars(RateIncEventTimer)
  /\ WF_vars(Tick)

-----------------------------------------------------------------------------
(* Properties *)

(* Every variable has its type.                                             *)
TypeOK ==
  /\ {m_rate, m_targetRate} \subseteq Nat /\ m_alpha \in 0..AlphaUnit
  /\ {m_alpha_cnp_arrived, m_decrease_cnp_arrived, m_first_cnp} \subseteq BOOLEAN
  /\ m_rpTimeStage \in 0..(m_rpgThreshold + 1)
  /\ events \in [Kinds -> Seq(Nat)]
  /\ {completed, lateStart} \subseteq BOOLEAN
  /\ quiet \in 0..QuietTime

(* The rate stays between "Minimum rate of a throttled flow" (rdma-hw.cc:38)*)
(* and its target, and the target within what the device can send, though   *)
(* no step checks all three: the decrease bounds the rate from below only,  *)
(* the increases the target from above only, and halving rounds.            *)
RatesInBounds ==
  m_minRate <= m_rate /\ m_rate <= m_targetRate /\ m_targetRate <= m_max_rate

(* There is at most one event of a kind: no timer of the flow runs twice,   *)
(* though a rate decrease may come at any time of the increase timer.       *)
OneEventOfAKind == \A k \in Kinds : Len(events[k]) <= 1

(* QpComplete leaves no event of the flow behind, unless the ACK that       *)
(* completes it brings its first CNP: then the CNP is handled after the     *)
(* events were cancelled, and the alpha and decrease events it starts       *)
(* reschedule each other for ever.                                          *)
EventsEndWithFlow ==
  completed /\ ~lateStart => \A k \in Kinds : events[k] = <<>>

(* "add 1 ns to make sure rate decrease is after alpha update"              *)
(* (rdma-hw.cc:1092): whenever both fall in one microsecond, for all the    *)
(* periods that follow the first.                                           *)
DecreaseAfterAlpha == ~(Due("decrease") /\ Due("alpha"))

(* The target is raised only after m_rpgThreshold rounds of fast recovery   *)
(* without a single decrease, and one more: no earlier decrease's timer     *)
(* and no left-over stage hastens it.                                       *)
RecoverBeforeIncrease == [][m_targetRate' > m_targetRate => quiet = QuietTime]_vars

(* Congestion does not throttle a flow for good: if the CNPs end, its rate  *)
(* climbs back to the device's, but for the units that halving loses twice. *)
RateRecovers ==
  []<>m_decrease_cnp_arrived \/ <>[](completed \/ m_rate >= m_max_rate - 2)

=============================================================================
