--------------------------------- MODULE Ufcc ---------------------------------
(***************************************************************************)
(* The rate control UFCC of one queue pair (rdma-hw.cc, HandleAckUfcc and  *)
(* UpdateRateUfcc).  In INIT it searches for the rate between low_rate and *)
(* high_rate by bisection, in STEADY it alternates between two rates that  *)
(* have met, in BURST it backs off.  The first ACK of what was sent since  *)
(* the last full update makes the next one; the ACKs before it make it     *)
(* react fast.                                                             *)
(*                                                                         *)
(* Rates are DataRate, integers that every operation truncates.  A double  *)
(* times a rate is computed exactly here, then truncated as in the code.   *)
(*                                                                         *)
(* Left out: loss (the path is lossless and in order, each packet has its  *)
(* ACK), wait_count, which is 0 all the time, and what ChangeRate does to  *)
(* pacing, which is nothing: its caller has set m_rate already.            *)
(***************************************************************************)
EXTENDS Integers

CONSTANTS
  m_minRate, m_max_rate,
  m_mtu,
  low_rtt, high_rtt, burst_rtt,
  BaseRtt,           \* m_baseRtt + 72
  Rtts,              \* the round-trip times a packet may meet
  Huge,              \* a rate that stands for an infinite quotient
  Window             \* bound: packets in flight

ASSUME UfccAssumption ==
  /\ m_minRate \in Nat \ {0} /\ m_max_rate \in Nat /\ m_minRate <= m_max_rate
  /\ m_mtu \in Nat \ {0} /\ Window \in Nat \ {0}
  /\ {low_rtt, high_rtt, burst_rtt} \subseteq Nat
  /\ BaseRtt \in Nat \ {0} /\ Rtts \subseteq Nat \ {0}
  /\ Huge \in Nat /\ Huge > m_max_rate

VARIABLES
  ufcc,              \* the struct of the same name in the queue pair
  m_rate,
  inFlight,          \* packets whose ACK has not come
  fresh,             \* those of them sent since m_lastUpdateSeq was set
  tail,              \* bytes of the packet sent last
  aborted,           \* has NS_ASSERT stopped the program?
  hasty              \* history: is down_rate from a restart by fast reaction?

flow == <<inFlight, fresh, tail>>
vars == <<ufcc, m_rate, flow, aborted, hasty>>

Init ==
  /\ ufcc = [low_rate |-> m_minRate, high_rate |-> m_max_rate, last_rate |-> 0,
             up_rate |-> 0, down_rate |-> 0, low |-> FALSE, high |-> FALSE,
             state |-> "INIT", state_count |-> 0,
             lastRtt |-> 0, arvgRtt |-> 0, minRtt |-> 0]
  /\ m_rate = m_max_rate
  /\ inFlight = 0 /\ fresh = 0 /\ tail = m_mtu
  /\ aborted = FALSE /\ hasty = FALSE

-----------------------------------------------------------------------------
(* Arithmetic *)

Lesser(a, b) == IF a <= b THEN a ELSE b
Larger(a, b) == IF a >= b THEN a ELSE b
Percent(p, rate) == (p * rate) \div 100
Mean(a, b) == (a + b) \div 2

(* snd_nxt - m_lastUpdateSeq.                                               *)
BytesSent == IF fresh = 0 THEN 0 ELSE m_mtu * (fresh - 1) + tail

UpRate(rate, high) == (1000 * Lesser((high - rate) \div 2, high)) \div BytesSent

DownRateWhole(rate, low) == {(1000 * (rate - low)) \div m_mtu}      \* faulty

(* The step down; with nothing sent the quotient is infinite, or no number, *)
(* and so is, once cast, any DataRate the compiler makes of it.             *)
DownRate(rate, low) ==
  IF BytesSent = 0 THEN {0, Huge} ELSE {(500 * (rate - low)) \div BytesSent}

-----------------------------------------------------------------------------
(* Sending *)

(* Only the last packet of the flow is short, and may be of one byte.       *)
SendPacket ==
  /\ tail = m_mtu /\ ~aborted /\ inFlight < Window
  /\ tail' \in {1, m_mtu}
  /\ inFlight' = inFlight + 1 /\ fresh' = fresh + 1
  /\ UNCHANGED <<ufcc, m_rate, aborted, hasty>>

-----------------------------------------------------------------------------
(* What every ACK does *)

MinRtt(rtt) == Lesser(rtt, ufcc.minRtt)
Bursts(rtt) == rtt > MinRtt(rtt) + burst_rtt

StateFor(rtt) == IF Bursts(rtt) THEN "BURST" ELSE ufcc.state

TakeAck == inFlight > 0 /\ inFlight' = inFlight - 1 /\ UNCHANGED tail

FirstAck(rtt) ==
  /\ ~aborted /\ ufcc.lastRtt = 0 /\ TakeAck
  /\ ufcc' = [ufcc EXCEPT !.arvgRtt = rtt, !.minRtt = Lesser(rtt, BaseRtt), !.lastRtt = rtt]
  /\ fresh' = 0
  /\ UNCHANGED <<m_rate, aborted, hasty>>

(* ack_seq > m_lastUpdateSeq: all that is unacknowledged was sent since.    *)
IsFull == fresh = inFlight

(* The last lines of UpdateRateUfcc.                                        *)
FullUpdate(rtt, new) ==
  /\ IsFull /\ fresh' = 0
  /\ ufcc' = [new EXCEPT !.minRtt = MinRtt(rtt), !.lastRtt = rtt, !.last_rate = m_rate',
                         !.arvgRtt = (3 * @ + 7 * rtt) \div 10]

FastReact(rtt, new) ==
  /\ ~IsFull /\ UNCHANGED fresh
  /\ ufcc' = [new EXCEPT !.minRtt = MinRtt(rtt)]

AckIn(state, rtt) ==
  ~aborted /\ ufcc.lastRtt # 0 /\ StateFor(rtt) = state /\ TakeAck

-----------------------------------------------------------------------------
(* INIT: the search *)

Faster(rtt) == rtt <= ufcc.lastRtt

RateInInit(rtt) ==
  IF Faster(rtt) THEN Lesser(m_rate + ufcc.up_rate, ufcc.high_rate)
                 ELSE Larger(m_rate - ufcc.down_rate, ufcc.low_rate)

(* NS_ASSERT_MSG (m_bps >= rhs.m_bps, "Data Rate cannot be negative.").     *)
Negative(rtt) == ~Faster(rtt) /\ m_rate < ufcc.down_rate

FlagsAfter(rtt) ==
  IF Faster(rtt) THEN [ufcc EXCEPT !.high = FALSE] ELSE [ufcc EXCEPT !.low = FALSE]

AssertionFails(rtt) ==
  /\ AckIn("INIT", rtt) /\ Negative(rtt)
  /\ aborted' = TRUE
  /\ UNCHANGED <<ufcc, m_rate, fresh, hasty>>

InitReact(rtt) ==
  /\ AckIn("INIT", rtt) /\ ~Negative(rtt)
  /\ m_rate' = RateInInit(rtt)
  /\ FastReact(rtt, FlagsAfter(rtt))
  /\ UNCHANGED <<aborted, hasty>>

(* A window that never sped up has last_rate for its upper bound, one that  *)
(* never slowed down for its lower bound.                                   *)
Narrowed(f) ==
  [f EXCEPT !.low_rate = IF f.low THEN f.last_rate ELSE @,
            !.high_rate = IF f.high THEN f.last_rate ELSE @,
            !.low = TRUE, !.high = TRUE]

(* When the bounds have met: STEADY, or, with a standing queue, a lower     *)
(* bound every other time.                                                  *)
HasMet(f) == f.low_rate >= Percent(95, f.high_rate)
QueueStands(f, rtt) == f.arvgRtt > MinRtt(rtt) + high_rtt
IsLowered(f, rtt) == HasMet(f) /\ QueueStands(f, rtt) /\ f.state_count + 3 >= 5
Lowered(f) == Larger(f.low_rate - m_minRate \div 10, m_minRate)

Settled(f, rtt) ==
  IF ~HasMet(f) THEN f
  ELSE IF ~QueueStands(f, rtt) THEN [f EXCEPT !.state_count = 0, !.state = "STEADY"]
  ELSE IF IsLowered(f, rtt) THEN [f EXCEPT !.state_count = 0, !.low_rate = Lowered(f)]
  ELSE [f EXCEPT !.state_count = @ + 3]

InitUpdate(rtt) ==
  LET narrow == Narrowed(FlagsAfter(rtt))
      new == Settled(narrow, rtt)
      rate == IF IsLowered(narrow, rtt) THEN new.low_rate ELSE RateInInit(rtt)
  IN  /\ AckIn("INIT", rtt) /\ ~Negative(rtt)
      /\ m_rate' = Lesser(new.high_rate, Larger(new.low_rate, rate))
      /\ \E down \in DownRate(m_rate', new.low_rate) :
           FullUpdate(rtt, [new EXCEPT !.up_rate = UpRate(m_rate', new.high_rate),
                                       !.down_rate = down])
      /\ hasty' = FALSE
      /\ UNCHANGED aborted

-----------------------------------------------------------------------------
(* STEADY *)

RateInSteady(rtt) ==
  IF 10 * ufcc.arvgRtt < 10 * MinRtt(rtt) + 7 * (low_rtt + high_rtt)
  THEN Lesser(m_max_rate, Percent(105, ufcc.high_rate))
  ELSE IF rtt <= ufcc.arvgRtt THEN ufcc.high_rate
  ELSE IF QueueStands(ufcc, rtt) THEN Percent(95, ufcc.low_rate)
  ELSE ufcc.low_rate

StateCount(rtt) ==
  IF 4 * rtt < 4 * MinRtt(rtt) + low_rtt /\ RateInSteady(rtt) # m_max_rate
  THEN ufcc.state_count + 1
  ELSE 0

Restarted(down) ==
  [ufcc EXCEPT !.high_rate = m_max_rate, !.up_rate = 0, !.down_rate = down,
               !.low = FALSE, !.high = FALSE, !.state = "INIT", !.state_count = 0]

SteadyAck(rtt) ==
  /\ AckIn("STEADY", rtt)
  /\ UNCHANGED aborted
  /\ IF StateCount(rtt) < 3
     THEN LET new == [ufcc EXCEPT !.state_count = StateCount(rtt)]
          IN  /\ m_rate' = RateInSteady(rtt)
              /\ FullUpdate(rtt, new) \/ FastReact(rtt, new)
              /\ UNCHANGED hasty
     ELSE \E down \in DownRate(m_max_rate, ufcc.low_rate) :
            /\ m_rate' = m_max_rate
            /\ \/ FullUpdate(rtt, Restarted(down)) /\ hasty' = FALSE
               \/ FastReact(rtt, Restarted(down)) /\ hasty' = TRUE

-----------------------------------------------------------------------------
(* BURST *)

CalmAtMin(rtt) == rtt <= MinRtt(rtt)      \* faulty
Calm(rtt) == ~Bursts(rtt)

InBurst == [ufcc EXCEPT !.state = "BURST"]

BurstReact(rtt) ==
  /\ AckIn("BURST", rtt)
  /\ m_rate' = IF Calm(rtt)
               THEN Lesser(Mean(Percent(99, ufcc.low_rate), ufcc.high_rate),
                           Percent(198, ufcc.low_rate))
               ELSE Larger(ufcc.low_rate \div 2, m_minRate)
  /\ FastReact(rtt, InBurst)
  /\ UNCHANGED <<aborted, hasty>>

BurstGoesOn(rtt) ==
  /\ AckIn("BURST", rtt) /\ ~Calm(rtt)
  /\ UNCHANGED <<m_rate, aborted, hasty>>
  /\ FullUpdate(rtt, InBurst)

HighAfterBurstWidth == (ufcc.high_rate - ufcc.low_rate) \div 2      \* faulty

HighAfterBurst ==
  IF ufcc.low_rate >= Percent(80, ufcc.high_rate)
  THEN Mean(m_max_rate, ufcc.high_rate)
  ELSE Mean(ufcc.low_rate, ufcc.high_rate)

BurstEnds(rtt) ==
  LET low == Larger(Percent(99, ufcc.low_rate), m_minRate)
      rate == Lesser(Mean(low, HighAfterBurst), 2 * low)
  IN  /\ AckIn("BURST", rtt) /\ Calm(rtt)
      /\ m_rate' = rate
      /\ FullUpdate(rtt, [ufcc EXCEPT
           !.low_rate = low, !.high_rate = HighAfterBurst,
           !.up_rate = UpRate(rate, HighAfterBurst), !.down_rate = 0,
           !.low = FALSE, !.high = FALSE, !.state = "INIT", !.state_count = 0])
      /\ hasty' = FALSE
      /\ UNCHANGED aborted

-----------------------------------------------------------------------------
ReceiveAck(rtt) ==
  \/ FirstAck(rtt) \/ AssertionFails(rtt)
  \/ InitReact(rtt) \/ InitUpdate(rtt)
  \/ SteadyAck(rtt)
  \/ BurstReact(rtt) \/ BurstGoesOn(rtt) \/ BurstEnds(rtt)

Next == SendPacket \/ \E rtt \in Rtts : ReceiveAck(rtt)

Spec == Init /\ [][Next]_vars

(* The NIC polls the queue pair and every packet is acknowledged.           *)
FairSpec ==
  Spec /\ WF_vars(SendPacket) /\ WF_vars(\E rtt \in Rtts : ReceiveAck(rtt))

-----------------------------------------------------------------------------
(* Properties *)

(* The two bounds never cross, whatever the round-trip times and in which   *)
(* state they come, and the search stays between them.  Elsewhere the rate  *)
(* may leave them: up to the rate of the link, and down to 95% of the       *)
(* minimum.                                                                 *)
SearchIsBracketed ==
  /\ m_minRate <= ufcc.low_rate /\ ufcc.low_rate <= ufcc.high_rate
  /\ ufcc.high_rate <= m_max_rate
  /\ ufcc.state = "INIT" => ufcc.low_rate <= m_rate /\ m_rate <= ufcc.high_rate
  /\ Percent(95, m_minRate) <= m_rate /\ m_rate <= m_max_rate

(* The steps down of a window add up to half of the way to low_rate: no     *)
(* difference of rates is negative, as long as down_rate was computed from  *)
(* the bytes of a whole window.  A restart by fast reaction divides by what *)
(* was sent since the last update, which may be nothing.                    *)
NegativeOnlyWhenHasty == aborted => hasty

(* A flow whose round-trip times calm down leaves BURST, while it lasts.    *)
LeavesBurst ==
  [](tail = m_mtu /\ ~aborted) =>
    \/ []<>(ufcc.state # "BURST")
    \/ []<><<\E rtt \in Rtts : ReceiveAck(rtt) /\ Bursts(rtt)>>_vars

(* "Data Rate cannot be negative." (data-rate.cc:152).                      *)
NeverNegative == ~aborted

=============================================================================
