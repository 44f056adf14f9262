------------------------------ MODULE UfccProofs ------------------------------
(***************************************************************************)
(* The search of UFCC stays between its bounds, and the bounds never       *)
(* cross, for all rates and thresholds and whatever round-trip times the   *)
(* packets meet.                                                           *)
(***************************************************************************)
EXTENDS Ufcc, TLAPS

Fields ==
  {"low_rate", "high_rate", "last_rate", "up_rate", "down_rate", "low", "high",
   "state", "state_count", "lastRtt", "arvgRtt", "minRtt"}

(* A struct ufcc whose rates are rates.                                     *)
HasRates(u) ==
  /\ DOMAIN u = Fields
  /\ u.low_rate \in Nat /\ u.high_rate \in Nat /\ u.last_rate \in Nat
  /\ u.up_rate \in Nat /\ u.down_rate \in Nat

Ordered(u) ==
  m_minRate <= u.low_rate /\ u.low_rate <= u.high_rate /\ u.high_rate <= m_max_rate

Between(u, rate) == u.low_rate <= rate /\ rate <= u.high_rate

InRange(rate) == rate \in Nat /\ Percent(95, m_minRate) <= rate /\ rate <= m_max_rate

(* When a window of the search may narrow the bounds to last_rate, that     *)
(* rate is between them: whatever ends the search or begins it anew clears  *)
(* both flags.                                                              *)
Bracketed(u, rate) ==
  /\ HasRates(u) /\ Ordered(u) /\ InRange(rate)
  /\ u.state = "INIT" => /\ Between(u, rate)
                         /\ (u.low = TRUE \/ u.high = TRUE) => Between(u, u.last_rate)

(* Every packet has a positive size, so a window that is not empty has.     *)
Windows == inFlight \in Nat /\ fresh \in Nat /\ tail \in Nat \ {0}

IInv == Bracketed(ufcc, m_rate) /\ Windows

-----------------------------------------------------------------------------

(* What the assumption says of each constant.                               *)
LEMMA Constants ==
  /\ m_minRate \in Nat \ {0} /\ m_max_rate \in Nat /\ m_minRate <= m_max_rate
  /\ m_mtu \in Nat \ {0} /\ Huge \in Nat
BY UfccAssumption

(* The invariant holds at first.                                            *)
LEMMA InitInv == Init => IInv
<1> SUFFICES ASSUME Init PROVE IInv
  OBVIOUS
<1>1. HasRates(ufcc) /\ Ordered(ufcc) /\ InRange(m_rate) /\ Between(ufcc, m_rate)
  BY Constants DEF Init, HasRates, Fields, Ordered, InRange, Percent, Between
<1>2. ufcc.low = FALSE /\ ufcc.high = FALSE
  BY DEF Init
<1>3. Windows
  BY Constants DEF Init, Windows
<1> QED
  BY <1>1, <1>2, <1>3 DEF IInv, Bracketed

(* A quotient of naturals.                                                  *)
LEMMA Quotients ==
  ASSUME NEW a \in Nat, NEW b \in Nat, b # 0
  PROVE  a \div b \in Nat
BY SMT

(* Bytes have been sent since the last update if packets have.              *)
LEMMA BytesSentPositive ==
  ASSUME Windows
  PROVE  BytesSent \in Nat /\ (fresh # 0 => BytesSent # 0)
<1>1. CASE fresh = 0
  BY <1>1 DEF BytesSent
<1>2. CASE fresh # 0
  <2>1. m_mtu \in Nat /\ fresh - 1 \in Nat /\ tail \in Nat \ {0}
    BY <1>2, Constants DEF Windows
  <2>2. m_mtu * (fresh - 1) \in Nat
    BY <2>1, SMT
  <2> DEFINE m == m_mtu * (fresh - 1)
  <2>3. BytesSent = m + tail
    BY <1>2 DEF BytesSent
  <2> HIDE DEF m
  <2> QED
    BY <2>1, <2>2, <2>3 DEF m
<1> QED
  BY <1>1, <1>2

(* The steps computed from a window with something in it are natural.       *)
LEMMA StepUp ==
  ASSUME Windows, fresh # 0, NEW rate \in Nat, NEW high \in Nat, rate <= high
  PROVE  UpRate(rate, high) \in Nat
<1>1. 1000 * Lesser((high - rate) \div 2, high) \in Nat
  BY DEF Lesser
<1> QED
  BY <1>1, BytesSentPositive, Quotients DEF UpRate

(* A step down is a number of bits per second, never below zero.            *)
LEMMA StepDown ==
  ASSUME Windows, NEW rate \in Nat, NEW low \in Nat, low <= rate
  PROVE  DownRate(rate, low) \subseteq Nat
<1>1. 500 * (rate - low) \in Nat
  OBVIOUS
<1>2. BytesSent # 0 => (500 * (rate - low)) \div BytesSent \in Nat
  BY <1>1, BytesSentPositive, Quotients
<1> QED
  BY <1>2, Constants DEF DownRate

-----------------------------------------------------------------------------
(* What ends an ACK *)

(* The bookkeeping of an update leaves rates and flags as they were, but    *)
(* for last_rate.                                                           *)
LEMMA AfterFull ==
  ASSUME IInv, NEW rtt, NEW new, FullUpdate(rtt, new), HasRates(new), Ordered(new),
         InRange(m_rate'), new.state = "INIT" => Between(new, m_rate')
  PROVE  Bracketed(ufcc', m_rate')
<1>1. /\ DOMAIN ufcc' = Fields
      /\ ufcc'.low_rate = new.low_rate /\ ufcc'.high_rate = new.high_rate
      /\ ufcc'.up_rate = new.up_rate /\ ufcc'.down_rate = new.down_rate
      /\ ufcc'.last_rate = m_rate' /\ ufcc'.state = new.state
  BY DEF FullUpdate, HasRates, Fields
<1> QED
  BY <1>1 DEF Bracketed, HasRates, Ordered, InRange, Between

(* What follows every fast reaction keeps the bounds.                       *)
LEMMA AfterFast ==
  ASSUME NEW rtt, NEW new, FastReact(rtt, new), Bracketed(new, m_rate')
  PROVE  Bracketed(ufcc', m_rate')
<1>1. /\ DOMAIN ufcc' = Fields
      /\ ufcc'.low_rate = new.low_rate /\ ufcc'.high_rate = new.high_rate
      /\ ufcc'.up_rate = new.up_rate /\ ufcc'.down_rate = new.down_rate
      /\ ufcc'.last_rate = new.last_rate /\ ufcc'.state = new.state
  BY DEF FastReact, HasRates, Bracketed, Fields
<1>2. ufcc'.low = new.low /\ ufcc'.high = new.high
  BY DEF FastReact, HasRates, Bracketed, Fields
<1> QED
  BY <1>1, <1>2 DEF Bracketed, HasRates, Ordered, InRange, Between

(* An ACK keeps the packets in flight and the fresh ones in order.          *)
LEMMA WindowsOnAck ==
  ASSUME Windows, TakeAck, fresh' \in {0, fresh}
  PROVE  Windows'
BY DEF Windows, TakeAck

-----------------------------------------------------------------------------
(* Every action preserves the invariant *)

LEMMA SendInv ==
  ASSUME IInv, SendPacket
  PROVE  IInv'
<1>1. Bracketed(ufcc', m_rate')
  BY DEF IInv, SendPacket
<1>2. Windows'
  BY Constants DEF IInv, SendPacket, Windows
<1> QED
  BY <1>1, <1>2 DEF IInv, Bracketed, HasRates, Ordered, InRange, Between

(* The first ACK, and the one that stops the program, leave rates alone.    *)
LEMMA FirstAckInv ==
  ASSUME IInv, NEW rtt, FirstAck(rtt)
  PROVE  IInv'
<1>1. /\ DOMAIN ufcc' = Fields
      /\ ufcc'.low_rate = ufcc.low_rate /\ ufcc'.high_rate = ufcc.high_rate
      /\ ufcc'.up_rate = ufcc.up_rate /\ ufcc'.down_rate = ufcc.down_rate
      /\ ufcc'.last_rate = ufcc.last_rate /\ ufcc'.state = ufcc.state
      /\ m_rate' = m_rate
  BY DEF FirstAck, IInv, Bracketed, HasRates, Fields
<1>2. ufcc'.low = ufcc.low /\ ufcc'.high = ufcc.high
  BY DEF FirstAck, IInv, Bracketed, HasRates, Fields
<1>3. Bracketed(ufcc', m_rate')
  BY <1>1, <1>2 DEF IInv, Bracketed, HasRates, Ordered, InRange, Between
<1>4. Windows'
  BY WindowsOnAck DEF IInv, FirstAck
<1> QED
  BY <1>3, <1>4 DEF IInv, Bracketed, HasRates, Ordered, InRange, Between

(* A failed assertion changes nothing the invariant speaks of.              *)
LEMMA AssertionInv ==
  ASSUME IInv, NEW rtt, AssertionFails(rtt)
  PROVE  IInv'
<1>1. Windows'
  BY WindowsOnAck DEF IInv, AssertionFails, AckIn
<1> QED
  BY <1>1 DEF IInv, AssertionFails, Bracketed, HasRates, Ordered, InRange, Between

(* One step of the search starts and ends between the bounds.               *)
LEMMA SearchStep ==
  ASSUME IInv, NEW rtt, AckIn("INIT", rtt), ~Negative(rtt)
  PROVE  /\ ufcc.state = "INIT"
         /\ RateInInit(rtt) \in Nat /\ Between(ufcc, RateInInit(rtt)) /\ InRange(RateInInit(rtt))
         /\ HasRates(FlagsAfter(rtt)) /\ Bracketed(FlagsAfter(rtt), RateInInit(rtt))
<1>1. ufcc.state = "INIT"
  BY DEF AckIn, StateFor
<1>2. HasRates(ufcc) /\ Ordered(ufcc) /\ Between(ufcc, m_rate) /\ InRange(m_rate)
  BY <1>1 DEF IInv, Bracketed
<1>3. RateInInit(rtt) \in Nat /\ Between(ufcc, RateInInit(rtt))
  <2>1. CASE Faster(rtt)
    BY <1>2, <2>1 DEF RateInInit, Between, HasRates, Ordered, InRange, Lesser
  <2>2. CASE ~Faster(rtt)
    <3>1. m_rate >= ufcc.down_rate
      BY <1>2, <2>2 DEF Negative, HasRates, InRange
    <3> QED
      BY <1>2, <2>2, <3>1 DEF RateInInit, Between, HasRates, Ordered, InRange, Larger
  <2> QED
    BY <2>1, <2>2
<1>4. InRange(RateInInit(rtt))
  BY <1>2, <1>3, Constants DEF InRange, Between, Ordered, Percent, HasRates
<1> DEFINE f == FlagsAfter(rtt)
<1>5. /\ DOMAIN f = Fields
      /\ f.low_rate = ufcc.low_rate /\ f.high_rate = ufcc.high_rate
      /\ f.up_rate = ufcc.up_rate /\ f.down_rate = ufcc.down_rate
      /\ f.last_rate = ufcc.last_rate /\ f.state = ufcc.state
  BY <1>2 DEF FlagsAfter, HasRates, Fields
<1>6. (f.low = TRUE => ufcc.low = TRUE) /\ (f.high = TRUE => ufcc.high = TRUE)
  BY <1>2 DEF FlagsAfter, HasRates, Fields
<1>7. (ufcc.low = TRUE \/ ufcc.high = TRUE) => Between(ufcc, ufcc.last_rate)
  BY <1>1 DEF IInv, Bracketed
<1> HIDE DEF f
<1>8. HasRates(f)
  BY <1>2, <1>5 DEF HasRates
<1>9. Bracketed(f, RateInInit(rtt))
  BY <1>2, <1>3, <1>4, <1>5, <1>6, <1>7, <1>8 DEF Bracketed, Ordered, Between
<1> QED
  BY <1>1, <1>3, <1>4, <1>8, <1>9 DEF f

(* The fast reaction of the search keeps the invariant.                     *)
LEMMA InitReactInv ==
  ASSUME IInv, NEW rtt, InitReact(rtt)
  PROVE  IInv'
<1>1. AckIn("INIT", rtt) /\ ~Negative(rtt) /\ m_rate' = RateInInit(rtt)
      /\ FastReact(rtt, FlagsAfter(rtt))
  BY DEF InitReact
<1>2. Bracketed(FlagsAfter(rtt), m_rate')
  BY <1>1, SearchStep
<1>3. Bracketed(ufcc', m_rate')
  BY <1>1, <1>2, AfterFast
<1>4. Windows'
  BY <1>1, WindowsOnAck DEF IInv, AckIn, FastReact
<1> QED
  BY <1>3, <1>4 DEF IInv, Bracketed, HasRates, Ordered, InRange, Between

(* Narrowing keeps the bounds in order.                                     *)
LEMMA NarrowedOrdered ==
  ASSUME NEW f, NEW rate, Bracketed(f, rate), f.state = "INIT"
  PROVE  HasRates(Narrowed(f)) /\ Ordered(Narrowed(f)) /\ Narrowed(f).state = "INIT"
<1> DEFINE n == Narrowed(f)
<1>1. /\ DOMAIN n = Fields
      /\ n.up_rate = f.up_rate /\ n.down_rate = f.down_rate
      /\ n.last_rate = f.last_rate /\ n.state = f.state
  BY DEF Bracketed, HasRates, Narrowed, Fields
<1>2. /\ n.low_rate = (IF f.low THEN f.last_rate ELSE f.low_rate)
      /\ n.high_rate = (IF f.high THEN f.last_rate ELSE f.high_rate)
  BY DEF Bracketed, HasRates, Narrowed, Fields
<1>3. HasRates(f) /\ Ordered(f) /\ ((f.low = TRUE \/ f.high = TRUE) => Between(f, f.last_rate))
  BY DEF Bracketed
<1>4. /\ n.low_rate = f.low_rate \/ (n.low_rate = f.last_rate /\ Between(f, f.last_rate))
      /\ n.high_rate = f.high_rate \/ (n.high_rate = f.last_rate /\ Between(f, f.last_rate))
  BY <1>2, <1>3
<1> HIDE DEF n
<1>5. HasRates(n) /\ Ordered(n)
  BY <1>1, <1>3, <1>4, Constants DEF HasRates, Ordered, Between
<1> QED
  BY <1>1, <1>5 DEF n

(* So does lowering the lower bound, which stops at m_minRate.              *)
LEMMA SettledOrdered ==
  ASSUME NEW f, NEW rtt, HasRates(f), Ordered(f)
  PROVE  HasRates(Settled(f, rtt)) /\ Ordered(Settled(f, rtt))
<1> DEFINE s == Settled(f, rtt)
<1>1. /\ DOMAIN s = Fields
      /\ s.up_rate = f.up_rate /\ s.down_rate = f.down_rate /\ s.last_rate = f.last_rate
      /\ s.high_rate = f.high_rate
      /\ s.low_rate = f.low_rate \/ s.low_rate = Lowered(f)
  BY DEF Settled, HasRates, Fields
<1>2. Lowered(f) \in Nat /\ m_minRate <= Lowered(f) /\ Lowered(f) <= f.low_rate
  BY Constants DEF HasRates, Ordered, Lowered, Larger
<1> HIDE DEF s
<1>3. HasRates(s) /\ Ordered(s)
  BY <1>1, <1>2, Constants DEF HasRates, Ordered
<1> QED
  BY <1>3 DEF s

(* What a full update narrows and settles are bounds in order.              *)
LEMMA SearchNarrows ==
  ASSUME IInv, NEW rtt, AckIn("INIT", rtt), ~Negative(rtt)
  PROVE  /\ RateInInit(rtt) \in Nat
         /\ HasRates(Settled(Narrowed(FlagsAfter(rtt)), rtt))
         /\ Ordered(Settled(Narrowed(FlagsAfter(rtt)), rtt))
<1>1. ufcc.state = "INIT" /\ Bracketed(FlagsAfter(rtt), RateInInit(rtt)) /\ RateInInit(rtt) \in Nat
  BY SearchStep
<1>2. FlagsAfter(rtt).state = ufcc.state
  BY DEF FlagsAfter, IInv, Bracketed, HasRates, Fields
<1>3. HasRates(Narrowed(FlagsAfter(rtt))) /\ Ordered(Narrowed(FlagsAfter(rtt)))
  BY <1>1, <1>2, NarrowedOrdered
<1> QED
  BY <1>1, <1>3, SettledOrdered

(* The full update of the search keeps the invariant.                       *)
LEMMA InitUpdateInv ==
  ASSUME IInv, NEW rtt, InitUpdate(rtt)
  PROVE  IInv'
<1> DEFINE narrow == Narrowed(FlagsAfter(rtt))
           new == Settled(narrow, rtt)
           rate == IF IsLowered(narrow, rtt) THEN new.low_rate ELSE RateInInit(rtt)
<1>1. AckIn("INIT", rtt) /\ ~Negative(rtt)
      /\ m_rate' = Lesser(new.high_rate, Larger(new.low_rate, rate))
  BY DEF InitUpdate
<1>2. PICK down \in DownRate(m_rate', new.low_rate) :
        FullUpdate(rtt, [new EXCEPT !.up_rate = UpRate(m_rate', new.high_rate),
                                    !.down_rate = down])
  BY Zenon DEF InitUpdate
<1>3. RateInInit(rtt) \in Nat
  BY <1>1, SearchNarrows
<1>4. HasRates(new) /\ Ordered(new)
  BY <1>1, SearchNarrows
<1> DEFINE last == [new EXCEPT !.up_rate = UpRate(m_rate', new.high_rate), !.down_rate = down]
<1> HIDE DEF narrow, new
<1>5. m_rate' \in Nat /\ new.low_rate <= m_rate' /\ m_rate' <= new.high_rate
  <2>1. rate \in Nat
    BY <1>3, <1>4 DEF HasRates
  <2> HIDE DEF rate
  <2> QED
    BY <1>1, <1>4, <2>1 DEF HasRates, Ordered, Lesser, Larger
<1>6. Windows /\ fresh # 0
  BY <1>1, <1>2 DEF IInv, Windows, AckIn, TakeAck, FullUpdate, IsFull
<1>7. UpRate(m_rate', new.high_rate) \in Nat /\ down \in Nat
  BY <1>2, <1>4, <1>5, <1>6, StepUp, StepDown DEF HasRates
<1>8. /\ DOMAIN last = Fields
      /\ last.up_rate = UpRate(m_rate', new.high_rate) /\ last.down_rate = down
      /\ last.low_rate = new.low_rate /\ last.high_rate = new.high_rate
      /\ last.last_rate = new.last_rate
  BY <1>4 DEF HasRates, Fields
<1>9. FullUpdate(rtt, last)
  BY <1>2
<1> HIDE DEF last
<1>10. HasRates(last) /\ Ordered(last) /\ Between(last, m_rate')
  BY <1>4, <1>5, <1>7, <1>8 DEF HasRates, Ordered, Between
<1>11. InRange(m_rate')
  BY <1>4, <1>5, Constants DEF InRange, Percent, HasRates, Ordered
<1>12. Bracketed(ufcc', m_rate')
  BY <1>9, <1>10, <1>11, AfterFull
<1>13. Windows'
  BY <1>1, <1>9, WindowsOnAck DEF IInv, AckIn, FullUpdate
<1> QED
  BY <1>12, <1>13 DEF IInv, Bracketed, HasRates, Ordered, InRange, Between

(* In the steady state the rate may leave the bounds, but by 5% only.       *)
LEMMA SteadyRate ==
  ASSUME IInv, NEW rtt
  PROVE  InRange(RateInSteady(rtt))
<1>1. HasRates(ufcc) /\ Ordered(ufcc)
  BY DEF IInv, Bracketed
<1>2. /\ InRange(Lesser(m_max_rate, Percent(105, ufcc.high_rate)))
      /\ InRange(ufcc.high_rate) /\ InRange(ufcc.low_rate)
      /\ InRange(Percent(95, ufcc.low_rate))
  BY <1>1, Constants DEF InRange, HasRates, Ordered, Percent, Lesser
<1> QED
  BY <1>2 DEF RateInSteady

(* An ACK in the steady state keeps the invariant.                          *)
LEMMA SteadyInv ==
  ASSUME IInv, NEW rtt, SteadyAck(rtt)
  PROVE  IInv'
<1>1. AckIn("STEADY", rtt) /\ ufcc.state = "STEADY"
  BY DEF SteadyAck, AckIn, StateFor
<1>2. HasRates(ufcc) /\ Ordered(ufcc) /\ Windows
  BY DEF IInv, Bracketed
<1>3. CASE StateCount(rtt) < 3
  <2> DEFINE new == [ufcc EXCEPT !.state_count = StateCount(rtt)]
  <2>1. m_rate' = RateInSteady(rtt) /\ (FullUpdate(rtt, new) \/ FastReact(rtt, new))
    BY <1>3, Zenon DEF SteadyAck
  <2>2. /\ DOMAIN new = Fields
        /\ new.low_rate = ufcc.low_rate /\ new.high_rate = ufcc.high_rate
        /\ new.up_rate = ufcc.up_rate /\ new.down_rate = ufcc.down_rate
        /\ new.last_rate = ufcc.last_rate /\ new.state = "STEADY"
    BY <1>1, <1>2 DEF HasRates, Fields
  <2> HIDE DEF new
  <2>3. HasRates(new) /\ Ordered(new) /\ new.state # "INIT"
    BY <1>2, <2>2 DEF HasRates, Ordered
  <2>4. InRange(m_rate')
    BY <2>1, SteadyRate DEF InRange
  <2>5. Bracketed(ufcc', m_rate')
    <3>1. CASE FullUpdate(rtt, new)
      BY <2>3, <2>4, <3>1, AfterFull
    <3>2. CASE FastReact(rtt, new)
      BY <2>3, <2>4, <3>2, AfterFast DEF Bracketed
    <3> QED
      BY <2>1, <3>1, <3>2
  <2>6. Windows'
    BY <1>1, <2>1, WindowsOnAck DEF IInv, AckIn, FullUpdate, FastReact
  <2> QED
    BY <2>5, <2>6 DEF IInv, Bracketed, HasRates, Ordered, InRange, Between
<1>4. CASE ~(StateCount(rtt) < 3)
  <2>1. m_rate' = m_max_rate /\ \E down \in DownRate(m_max_rate, ufcc.low_rate) :
          FullUpdate(rtt, Restarted(down)) \/ FastReact(rtt, Restarted(down))
    BY <1>4, Constants, Zenon DEF SteadyAck
  <2>2. PICK down \in DownRate(m_max_rate, ufcc.low_rate) :
          FullUpdate(rtt, Restarted(down)) \/ FastReact(rtt, Restarted(down))
    BY <2>1
  <2>3. down \in Nat
    <3>1. ufcc.low_rate \in Nat /\ ufcc.low_rate <= m_max_rate
      BY <1>2, Constants DEF HasRates, Ordered
    <3> QED
      BY <1>2, <2>2, <3>1, StepDown, Constants
  <2> DEFINE new == Restarted(down)
  <2>4. /\ DOMAIN new = Fields
        /\ new.low_rate = ufcc.low_rate /\ new.high_rate = m_max_rate
        /\ new.up_rate = 0 /\ new.down_rate = down /\ new.last_rate = ufcc.last_rate
    BY <1>2 DEF HasRates, Fields, Restarted
  <2>5. new.low = FALSE /\ new.high = FALSE
    BY <1>2 DEF HasRates, Fields, Restarted
  <2>6. FullUpdate(rtt, new) \/ FastReact(rtt, new)
    BY <2>2
  <2> HIDE DEF new
  <2>7. HasRates(new) /\ Ordered(new) /\ Between(new, m_rate')
    BY <1>2, <2>1, <2>3, <2>4, Constants DEF HasRates, Ordered, Between
  <2>8. InRange(m_rate')
    BY <2>1, Constants DEF InRange, Percent
  <2>9. Bracketed(ufcc', m_rate')
    <3>1. CASE FullUpdate(rtt, new)
      BY <2>7, <2>8, <3>1, AfterFull
    <3>2. CASE FastReact(rtt, new)
      BY <2>5, <2>7, <2>8, <3>2, AfterFast DEF Bracketed
    <3> QED
      BY <2>6, <3>1, <3>2
  <2>10. Windows'
    BY <1>1, <2>6, WindowsOnAck DEF IInv, AckIn, FullUpdate, FastReact
  <2> QED
    BY <2>9, <2>10 DEF IInv, Bracketed, HasRates, Ordered, InRange, Between
<1> QED
  BY <1>3, <1>4

(* A flow in a burst keeps its bounds.                                      *)
LEMMA BurstKeepsBounds ==
  ASSUME IInv
  PROVE  HasRates(InBurst) /\ Ordered(InBurst) /\ InBurst.state = "BURST"
<1> DEFINE new == InBurst
<1>1. /\ DOMAIN new = Fields
      /\ new.low_rate = ufcc.low_rate /\ new.high_rate = ufcc.high_rate
      /\ new.up_rate = ufcc.up_rate /\ new.down_rate = ufcc.down_rate
      /\ new.last_rate = ufcc.last_rate /\ new.state = "BURST"
  BY DEF IInv, Bracketed, HasRates, Fields, InBurst
<1> HIDE DEF new
<1>2. HasRates(new) /\ Ordered(new)
  BY <1>1 DEF IInv, Bracketed, HasRates, Ordered
<1> QED
  BY <1>1, <1>2 DEF new

(* The fast reaction in a burst keeps the invariant.                        *)
LEMMA BurstReactInv ==
  ASSUME IInv, NEW rtt, BurstReact(rtt)
  PROVE  IInv'
<1>1. HasRates(ufcc) /\ Ordered(ufcc)
  BY DEF IInv, Bracketed
<1>2. InRange(m_rate')
  <2>1. /\ InRange(Lesser(Mean(Percent(99, ufcc.low_rate), ufcc.high_rate),
                          Percent(198, ufcc.low_rate)))
        /\ InRange(Larger(ufcc.low_rate \div 2, m_minRate))
    BY <1>1, Constants DEF InRange, HasRates, Ordered, Percent, Lesser, Larger, Mean
  <2> QED
    BY <2>1 DEF BurstReact, InRange
<1>3. FastReact(rtt, InBurst) /\ AckIn("BURST", rtt)
  BY DEF BurstReact
<1>4. InBurst.state # "INIT"
  BY BurstKeepsBounds
<1>5. Bracketed(InBurst, m_rate')
  BY <1>2, <1>4, BurstKeepsBounds, Zenon DEF Bracketed
<1>6. Bracketed(ufcc', m_rate')
  BY <1>3, <1>5, AfterFast
<1>7. Windows'
  BY <1>3, WindowsOnAck DEF IInv, AckIn, FastReact
<1> QED
  BY <1>6, <1>7 DEF IInv, Bracketed, HasRates, Ordered, InRange, Between

(* A full update that stays in the burst keeps the invariant.               *)
LEMMA BurstGoesOnInv ==
  ASSUME IInv, NEW rtt, BurstGoesOn(rtt)
  PROVE  IInv'
<1>1. FullUpdate(rtt, InBurst) /\ AckIn("BURST", rtt) /\ m_rate' = m_rate
  BY DEF BurstGoesOn
<1>2. InRange(m_rate')
  BY <1>1 DEF IInv, Bracketed, InRange
<1>3. InBurst.state # "INIT"
  BY BurstKeepsBounds
<1>4. Bracketed(ufcc', m_rate')
  BY <1>1, <1>2, <1>3, BurstKeepsBounds, AfterFull
<1>5. Windows'
  BY <1>1, WindowsOnAck DEF IInv, AckIn, FullUpdate
<1> QED
  BY <1>4, <1>5 DEF IInv, Bracketed, HasRates, Ordered, InRange, Between

(* A full update that ends the burst keeps the invariant.                   *)
LEMMA BurstEndsInv ==
  ASSUME IInv, NEW rtt, BurstEnds(rtt)
  PROVE  IInv'
<1> DEFINE low == Larger(Percent(99, ufcc.low_rate), m_minRate)
           high == HighAfterBurst
           rate == Lesser(Mean(low, high), 2 * low)
           new == [ufcc EXCEPT !.low_rate = low, !.high_rate = high,
                               !.up_rate = UpRate(rate, high), !.down_rate = 0,
                               !.low = FALSE, !.high = FALSE, !.state = "INIT",
                               !.state_count = 0]
<1>1. AckIn("BURST", rtt) /\ m_rate' = rate /\ FullUpdate(rtt, new)
  BY DEF BurstEnds
<1>2. HasRates(ufcc) /\ Ordered(ufcc) /\ Windows
  BY DEF IInv, Bracketed
<1>3. low \in Nat /\ m_minRate <= low /\ low <= ufcc.low_rate
  BY <1>2, Constants DEF HasRates, Ordered, Percent, Larger
<1>4. high \in Nat /\ ufcc.low_rate <= high /\ high <= m_max_rate
  BY <1>2, Constants DEF HasRates, Ordered, HighAfterBurst, Mean
<1>5. fresh # 0
  BY <1>1, <1>2 DEF Windows, AckIn, TakeAck, FullUpdate, IsFull
<1>6. DOMAIN new = Fields
  BY <1>2 DEF HasRates, Fields
<1>7. /\ new.low_rate = low /\ new.high_rate = high
      /\ new.up_rate = UpRate(rate, high) /\ new.down_rate = 0
      /\ new.last_rate = ufcc.last_rate
  BY <1>2 DEF HasRates, Fields
<1> HIDE DEF low, high
<1>8. rate \in Nat /\ low <= rate /\ rate <= high /\ low <= high
  BY <1>2, <1>3, <1>4 DEF HasRates, Mean, Lesser
<1> HIDE DEF rate
<1>9. UpRate(rate, high) \in Nat
  BY <1>2, <1>4, <1>5, <1>8, StepUp
<1> HIDE DEF new
<1>10. HasRates(new) /\ Ordered(new) /\ Between(new, m_rate')
  BY <1>1, <1>2, <1>3, <1>4, <1>6, <1>7, <1>8, <1>9 DEF HasRates, Ordered, Between
<1>11. InRange(m_rate')
  BY <1>1, <1>3, <1>4, <1>8, Constants DEF InRange, Percent
<1>12. Bracketed(ufcc', m_rate')
  BY <1>1, <1>10, <1>11, AfterFull
<1>13. Windows'
  BY <1>1, WindowsOnAck DEF IInv, AckIn, FullUpdate
<1> QED
  BY <1>12, <1>13 DEF IInv, Bracketed, HasRates, Ordered, InRange, Between

-----------------------------------------------------------------------------
(* The theorems *)

(* The invariant is inductive: wherever a round of the search begins, its   *)
(* flags are clear or last_rate lies between the bounds.                    *)
THEOREM Inductive == Spec => []IInv
<1>1. ASSUME IInv, [Next]_vars PROVE IInv'
  <2>1. CASE SendPacket
    BY <1>1, <2>1, SendInv
  <2>2. ASSUME NEW rtt \in Rtts, ReceiveAck(rtt) PROVE IInv'
    BY <1>1, <2>2, FirstAckInv, AssertionInv, InitReactInv, InitUpdateInv, SteadyInv,
       BurstReactInv, BurstGoesOnInv, BurstEndsInv DEF ReceiveAck
  <2>3. CASE UNCHANGED vars
    BY <1>1, <2>3 DEF vars, flow, IInv, Bracketed, HasRates, Ordered, InRange, Between, Windows
  <2> QED
    BY <1>1, <2>1, <2>2, <2>3 DEF Next
<1> QED
  BY <1>1, InitInv, PTL DEF Spec

(* Whatever the round-trip times, the lower bound of the search never       *)
(* passes the upper one, the rate of a search lies between them, and any    *)
(* rate within 5% of what the flow may use.                                 *)
THEOREM SearchStaysBracketed == Spec => []SearchIsBracketed
<1>1. IInv => SearchIsBracketed
  BY DEF IInv, Bracketed, Ordered, InRange, Between, SearchIsBracketed
<1> QED
  BY <1>1, Inductive, PTL

-----------------------------------------------------------------------------
(* No negative rate *)

(* The ACKs that may still lower the rate by down_rate: those of the packets*)
(* sent before the last update, and the first of those sent since.          *)
Left == (inFlight - fresh) + (IF tail = m_mtu \/ fresh > 0 THEN 1 ELSE 0)

(* The steps down that are left all fit above low_rate.                     *)
StepsFit == ufcc.down_rate * Left <= m_rate - ufcc.low_rate

Running ==
  /\ fresh <= inFlight
  /\ ufcc.lastRtt = 0 => ufcc.down_rate = 0
  /\ ufcc.state = "INIT" /\ ~hasty => StepsFit

NInv == (aborted => hasty) /\ (~aborted => Running)

(* A step down is half of the way to low_rate for each packet of MTU bytes. *)
LEMMA QuotientFits ==
  ASSUME NEW X \in Nat, NEW B \in Nat, B # 0, NEW L \in Nat, 500 * L <= B
  PROVE  ((500 * X) \div B) * L <= X
<1> DEFINE D == (500 * X) \div B
<1>1. D \in Nat /\ B * D <= 500 * X
  OBVIOUS
<1> HIDE DEF D
<1>2. (500 * L) * D <= B * D
  <2>1. PICK e \in Nat : B = 500 * L + e
    <3>1. B - 500 * L \in Nat /\ B = 500 * L + (B - 500 * L)
      OBVIOUS
    <3> QED BY <3>1
  <2>2. B * D = (500 * L) * D + e * D /\ e * D \in Nat /\ (500 * L) * D \in Nat
    BY <1>1, <2>1
  <2> QED BY <2>2
<1>3. (500 * L) * D = 500 * (D * L) /\ D * L \in Nat
  BY <1>1
<1> DEFINE P == D * L  R == B * D
<1>4. 500 * P <= R /\ R <= 500 * X /\ P \in Nat /\ R \in Nat
  BY <1>1, <1>2, <1>3
<1> HIDE DEF P, R
<1>5. P <= X
  BY <1>4
<1> QED BY <1>5 DEF P, D

(* One ACK is one step less.                                                *)
LEMMA OneLess ==
  ASSUME NEW D \in Nat, NEW L \in Nat, L # 0
  PROVE  D * (L - 1) \in Nat /\ D * L = D * (L - 1) + D
<1>1. PICK k \in Nat : L = k + 1
  <2>1. L - 1 \in Nat /\ L = (L - 1) + 1
    OBVIOUS
  <2> QED BY <2>1
<1>2. L - 1 = k /\ D * k \in Nat /\ D * (k + 1) = D * k + D
  BY <1>1
<1> QED BY <1>1, <1>2

(* The steps of a new window fit: it is divided by the bytes of as many     *)
(* packets as ACKs will use it.                                             *)
LEMMA NewWindowFits ==
  ASSUME 500 <= m_mtu, Windows, IsFull, TakeAck, fresh' = 0,
         NEW rate \in Nat, NEW low \in Nat, low <= rate, NEW down \in DownRate(rate, low)
  PROVE  down * Left' <= rate - low
<1>1. /\ inFlight \in Nat /\ inFlight # 0 /\ fresh = inFlight /\ tail \in Nat /\ tail # 0
      /\ inFlight' = inFlight - 1 /\ tail' = tail /\ m_mtu \in Nat
  BY Constants DEF Windows, IsFull, TakeAck
<1> DEFINE k == inFlight - 1
           L == k + (IF tail = m_mtu THEN 1 ELSE 0)
<1>2. k \in Nat /\ L \in Nat /\ Left' = L
  BY <1>1 DEF Left
<1>3. BytesSent = m_mtu * k + tail /\ BytesSent \in Nat /\ BytesSent # 0
  BY <1>1, BytesSentPositive DEF BytesSent
<1> HIDE DEF k
<1>4. 500 * L <= BytesSent
  <2>1. 500 * k <= m_mtu * k
    <3>1. PICK e \in Nat : m_mtu = 500 + e
      <4>1. m_mtu - 500 \in Nat /\ m_mtu = 500 + (m_mtu - 500)
        BY <1>1
      <4> QED BY <4>1
    <3>2. (500 + e) * k = 500 * k + e * k /\ e * k \in Nat /\ 500 * k \in Nat
      BY <1>2
    <3> QED BY <3>1, <3>2
  <2>2. 500 * L = 500 * k + (IF tail = m_mtu THEN 500 ELSE 0)
    BY <1>2
  <2>3. m_mtu * k \in Nat /\ 500 * k \in Nat
    BY <1>1, <1>2
  <2> DEFINE a == 500 * k  b == m_mtu * k
  <2> HIDE DEF a, b, L
  <2>4. a <= b /\ a \in Nat /\ b \in Nat /\ 500 * L = a + (IF tail = m_mtu THEN 500 ELSE 0)
        /\ BytesSent = b + tail
    BY <1>3, <2>1, <2>2, <2>3 DEF a, b
  <2> QED BY <1>1, <2>4
<1>5. rate - low \in Nat
  OBVIOUS
<1>6. down = (500 * (rate - low)) \div BytesSent
  BY <1>3 DEF DownRate
<1> HIDE DEF L
<1> DEFINE X == rate - low  B == BytesSent
<1>7. X \in Nat /\ B \in Nat /\ B # 0 /\ L \in Nat /\ 500 * L <= B
  BY <1>2, <1>3, <1>4, <1>5
<1> HIDE DEF X, B
<1>8. ((500 * X) \div B) * L <= X
  BY <1>7, QuotientFits
<1>9. ((500 * (rate - low)) \div BytesSent) * L <= rate - low
  BY <1>8 DEF X, B
<1> QED BY <1>2, <1>6, <1>9

(* What an update or a fast reaction leaves of the struct it is given.      *)
LEMMA FullSets ==
  ASSUME NEW rtt, NEW new, FullUpdate(rtt, new), DOMAIN new = Fields
  PROVE  /\ ufcc'.low_rate = new.low_rate /\ ufcc'.down_rate = new.down_rate
         /\ ufcc'.state = new.state /\ ufcc'.lastRtt = rtt
         /\ IsFull /\ fresh' = 0
BY DEF FullUpdate, Fields

(* So does a fast reaction.                                                 *)
LEMMA FastSets ==
  ASSUME NEW rtt, NEW new, FastReact(rtt, new), DOMAIN new = Fields
  PROVE  /\ ufcc'.low_rate = new.low_rate /\ ufcc'.down_rate = new.down_rate
         /\ ufcc'.state = new.state /\ ufcc'.lastRtt = new.lastRtt
         /\ ~IsFull /\ fresh' = fresh
BY DEF FastReact, Fields

(* A full update begins a window: what it sets is all that has to fit.      *)
LEMMA AfterFullRuns ==
  ASSUME IInv, NEW rtt \in Rtts, NEW new, FullUpdate(rtt, new), DOMAIN new = Fields, TakeAck,
         new.state = "INIT" => new.down_rate * Left' <= m_rate' - new.low_rate
  PROVE  Running'
<1>1. inFlight \in Nat /\ inFlight # 0 /\ inFlight' = inFlight - 1
  BY DEF IInv, Windows, TakeAck
<1>2. /\ ufcc'.low_rate = new.low_rate /\ ufcc'.down_rate = new.down_rate
      /\ ufcc'.state = new.state /\ ufcc'.lastRtt = rtt /\ fresh' = 0
  BY FullSets
<1>3. rtt # 0
  BY UfccAssumption
<1>4. fresh' <= inFlight' /\ ufcc'.lastRtt # 0
  BY <1>1, <1>2, <1>3
<1>5. ufcc'.state = "INIT" => StepsFit'
  BY <1>2 DEF StepsFit
<1> QED BY <1>4, <1>5, Zenon DEF Running

(* A fast reaction is an ACK of what was sent before.                       *)
LEMMA AfterFastRuns ==
  ASSUME IInv, Running, NEW rtt, NEW new, FastReact(rtt, new), DOMAIN new = Fields, TakeAck,
         ufcc.lastRtt # 0, new.lastRtt = ufcc.lastRtt,
         new.state = "INIT" /\ ~hasty' => new.down_rate * Left' <= m_rate' - new.low_rate
  PROVE  Running'
<1>1. /\ inFlight \in Nat /\ inFlight # 0 /\ inFlight' = inFlight - 1
      /\ fresh \in Nat /\ fresh <= inFlight
  BY DEF IInv, Windows, TakeAck, Running
<1>2. /\ ufcc'.low_rate = new.low_rate /\ ufcc'.down_rate = new.down_rate
      /\ ufcc'.state = new.state /\ ufcc'.lastRtt = new.lastRtt
      /\ ~IsFull /\ fresh' = fresh
  BY FastSets
<1>3. fresh' <= inFlight' /\ ufcc'.lastRtt # 0
  BY <1>1, <1>2 DEF IsFull
<1>4. ufcc'.state = "INIT" /\ ~hasty' => StepsFit'
  BY <1>2, Zenon DEF StepsFit
<1> QED BY <1>3, <1>4, Zenon DEF Running

(* The packets of an old window have their ACKs one by one.                 *)
LEMMA LeftOnAck ==
  ASSUME Windows, fresh <= inFlight, TakeAck
  PROVE  /\ Left \in Nat /\ Left # 0
         /\ fresh' = fresh /\ ~IsFull => Left' = Left - 1
BY DEF Windows, TakeAck, Left, IsFull

(* No assertion fails in a search that steps down by what a whole window    *)
(* was divided by.                                                          *)
LEMMA AssertionIsHasty ==
  ASSUME IInv, NInv, NEW rtt, AssertionFails(rtt)
  PROVE  hasty /\ hasty' = hasty
<1>1. /\ ~aborted /\ TakeAck /\ m_rate < ufcc.down_rate /\ ufcc.state = "INIT"
      /\ hasty' = hasty
  BY DEF AssertionFails, AckIn, Negative, StateFor
<1>2. Running
  BY <1>1 DEF NInv
<1>3. Left \in Nat /\ Left # 0
  BY <1>1, <1>2, LeftOnAck DEF IInv, Running
<1>4. ufcc.down_rate \in Nat /\ ufcc.low_rate \in Nat /\ m_rate \in Nat
  BY DEF IInv, Bracketed, HasRates, InRange
<1> DEFINE D == ufcc.down_rate  R == D * Left  Q == D * (Left - 1)
<1>5. Q \in Nat /\ R = Q + D
  BY <1>3, <1>4, OneLess
<1> HIDE DEF R, Q
<1>6. ~(R <= m_rate - ufcc.low_rate)
  BY <1>1, <1>4, <1>5
<1>7. ~StepsFit
  BY <1>6 DEF R, StepsFit
<1> QED BY <1>1, <1>2, <1>7, Zenon DEF Running

(* A fast reaction of the search takes one of the steps down, or none.      *)
LEMMA InitReactRuns ==
  ASSUME IInv, Running, NEW rtt, InitReact(rtt)
  PROVE  Running'
<1>1. /\ AckIn("INIT", rtt) /\ ~Negative(rtt) /\ m_rate' = RateInInit(rtt)
      /\ FastReact(rtt, FlagsAfter(rtt)) /\ hasty' = hasty
  BY DEF InitReact
<1>2. ufcc.lastRtt # 0 /\ TakeAck /\ ufcc.state = "INIT"
  BY <1>1 DEF AckIn, StateFor
<1> DEFINE new == FlagsAfter(rtt)
<1>3. DOMAIN new = Fields
  BY <1>1, SearchStep DEF HasRates
<1>4. /\ new.low_rate = ufcc.low_rate /\ new.down_rate = ufcc.down_rate
      /\ new.lastRtt = ufcc.lastRtt
  BY DEF FlagsAfter, IInv, Bracketed, HasRates, Fields
<1>5. /\ Left \in Nat /\ Left # 0 /\ Left' = Left - 1
  BY <1>1, <1>2, <1>3, FastSets, LeftOnAck DEF IInv, Running
<1>6. /\ ufcc.down_rate \in Nat /\ ufcc.low_rate \in Nat /\ m_rate \in Nat
      /\ ufcc.high_rate \in Nat /\ ufcc.up_rate \in Nat /\ m_rate <= ufcc.high_rate
  BY <1>2 DEF IInv, Bracketed, HasRates, InRange, Between
<1>7. m_rate' >= m_rate - ufcc.down_rate /\ m_rate' \in Nat
  <2>1. CASE Faster(rtt)
    BY <1>1, <1>6, <2>1 DEF RateInInit, Lesser
  <2>2. CASE ~Faster(rtt)
    BY <1>1, <1>6, <2>2 DEF RateInInit, Larger, Negative
  <2> QED BY <2>1, <2>2
<1>8. StepsFit => ufcc.down_rate * Left' <= m_rate' - ufcc.low_rate
  <2> DEFINE R == ufcc.down_rate * Left  Q == ufcc.down_rate * (Left - 1)
  <2>1. Q \in Nat /\ R = Q + ufcc.down_rate
    BY <1>5, <1>6, OneLess
  <2> HIDE DEF R, Q
  <2>2. R <= m_rate - ufcc.low_rate => Q <= m_rate' - ufcc.low_rate
    BY <1>6, <1>7, <2>1
  <2> QED BY <1>5, <2>2 DEF R, Q, StepsFit
<1>9. ~hasty' => new.down_rate * Left' <= m_rate' - new.low_rate
  <2>1. ~hasty' => StepsFit
    BY <1>1, <1>2, Zenon DEF Running
  <2> HIDE DEF new
  <2> QED BY <1>4, <1>8, <2>1
<1> HIDE DEF new
<1>10. FastReact(rtt, new)
  BY <1>1 DEF new
<1> QED BY <1>2, <1>3, <1>4, <1>9, <1>10, AfterFastRuns

(* The full update of the search begins with steps that fit.                *)
LEMMA InitUpdateRuns ==
  ASSUME 500 <= m_mtu, IInv, IInv', NEW rtt \in Rtts, InitUpdate(rtt)
  PROVE  Running'
<1> DEFINE new == Settled(Narrowed(FlagsAfter(rtt)), rtt)
<1>1. AckIn("INIT", rtt) /\ ~Negative(rtt) /\ TakeAck
  BY DEF InitUpdate, AckIn
<1>2. PICK down \in DownRate(m_rate', new.low_rate) :
        FullUpdate(rtt, [new EXCEPT !.up_rate = UpRate(m_rate', new.high_rate),
                                    !.down_rate = down])
  BY Zenon DEF InitUpdate
<1>3. HasRates(new)
  BY <1>1, SearchNarrows
<1> HIDE DEF new
<1> DEFINE last == [new EXCEPT !.up_rate = UpRate(m_rate', new.high_rate), !.down_rate = down]
<1>4. /\ DOMAIN last = Fields
      /\ last.low_rate = new.low_rate /\ last.down_rate = down /\ last.state = new.state
  BY <1>3 DEF HasRates, Fields
<1>5. FullUpdate(rtt, last)
  BY <1>2
<1> HIDE DEF last
<1>6. /\ ufcc'.low_rate = last.low_rate /\ ufcc'.state = last.state
      /\ IsFull /\ fresh' = 0
  BY <1>4, <1>5, FullSets
<1>7. last.state = "INIT" => last.down_rate * Left' <= m_rate' - last.low_rate
  <2> SUFFICES ASSUME last.state = "INIT" PROVE down * Left' <= m_rate' - new.low_rate
    BY <1>4
  <2>1. new.low_rate \in Nat /\ m_rate' \in Nat /\ new.low_rate <= m_rate'
    BY <1>3, <1>4, <1>6 DEF IInv, Bracketed, Between, HasRates, InRange
  <2> DEFINE r == m_rate'  low == new.low_rate
  <2>2. down \in DownRate(r, low) /\ r \in Nat /\ low \in Nat /\ low <= r
    BY <1>2, <2>1
  <2> HIDE DEF r, low
  <2>3. Windows
    BY DEF IInv
  <2>4. down * Left' <= r - low
    BY <1>1, <1>6, <2>2, <2>3, NewWindowFits
  <2> QED BY <2>4 DEF r, low
<1> QED BY <1>1, <1>4, <1>5, <1>7, AfterFullRuns

(* An ACK in the steady state: a restart in a full update begins with steps *)
(* that fit, one in a fast reaction is hasty.                               *)
LEMMA SteadyRuns ==
  ASSUME 500 <= m_mtu, IInv, Running, NEW rtt \in Rtts, SteadyAck(rtt)
  PROVE  Running'
<1>1. ufcc.lastRtt # 0 /\ TakeAck /\ ufcc.state = "STEADY"
  BY DEF SteadyAck, AckIn, StateFor
<1>2. HasRates(ufcc) /\ Ordered(ufcc) /\ Windows
  BY DEF IInv, Bracketed
<1>3. CASE StateCount(rtt) < 3
  <2> DEFINE new == [ufcc EXCEPT !.state_count = StateCount(rtt)]
  <2>1. FullUpdate(rtt, new) \/ FastReact(rtt, new)
    BY <1>3, Zenon DEF SteadyAck
  <2>2. DOMAIN new = Fields /\ new.state # "INIT" /\ new.lastRtt = ufcc.lastRtt
    BY <1>1, <1>2 DEF HasRates, Fields
  <2> HIDE DEF new
  <2> QED BY <1>1, <2>1, <2>2, AfterFullRuns, AfterFastRuns
<1>4. CASE ~(StateCount(rtt) < 3)
  <2>1. PICK down \in DownRate(m_max_rate, ufcc.low_rate) :
          /\ m_rate' = m_max_rate
          /\ \/ FullUpdate(rtt, Restarted(down))
             \/ FastReact(rtt, Restarted(down)) /\ hasty' = TRUE
    BY <1>4, Zenon DEF SteadyAck
  <2> DEFINE new == Restarted(down)
  <2>2. /\ DOMAIN new = Fields /\ new.lastRtt = ufcc.lastRtt
        /\ new.low_rate = ufcc.low_rate /\ new.down_rate = down
    BY <1>2 DEF HasRates, Fields, Restarted
  <2>3. /\ m_rate' = m_max_rate
        /\ \/ FullUpdate(rtt, new)
           \/ FastReact(rtt, new) /\ hasty' = TRUE
    BY <2>1
  <2> HIDE DEF new
  <2>4. CASE FullUpdate(rtt, new)
    <3>1. IsFull /\ fresh' = 0
      BY <2>2, <2>4, FullSets
    <3>2. m_max_rate \in Nat /\ ufcc.low_rate \in Nat /\ ufcc.low_rate <= m_max_rate
      BY <1>2, Constants DEF HasRates, Ordered
    <3> DEFINE low == ufcc.low_rate
    <3>3. down \in DownRate(m_max_rate, low)
      BY <2>1
    <3>4. low \in Nat /\ low <= m_max_rate
      BY <3>2
    <3> HIDE DEF low
    <3>5. down * Left' <= m_max_rate - low
      BY <1>1, <1>2, <3>1, <3>2, <3>3, <3>4, NewWindowFits
    <3>6. new.down_rate * Left' <= m_rate' - new.low_rate
      BY <2>2, <2>3, <3>5 DEF low
    <3> QED BY <1>1, <2>2, <2>4, <3>6, AfterFullRuns
  <2>5. CASE FastReact(rtt, new) /\ hasty' = TRUE
    <3>1. ~(~hasty')
      BY <2>5, Zenon
    <3> QED BY <1>1, <2>2, <2>5, <3>1, AfterFastRuns
  <2> QED BY <2>3, <2>4, <2>5
<1> QED
  BY <1>3, <1>4

(* In a burst there is no search, and the next one begins without a step.   *)
LEMMA BurstRuns ==
  ASSUME IInv, IInv', Running, NEW rtt \in Rtts, BurstReact(rtt) \/ BurstGoesOn(rtt) \/ BurstEnds(rtt)
  PROVE  Running'
<1>1. ufcc.lastRtt # 0 /\ TakeAck
  BY DEF BurstReact, BurstGoesOn, BurstEnds, AckIn
<1>2. DOMAIN ufcc = Fields
  BY DEF IInv, Bracketed, HasRates
<1>3. CASE BurstReact(rtt) \/ BurstGoesOn(rtt)
  <2>1. FullUpdate(rtt, InBurst) \/ FastReact(rtt, InBurst)
    BY <1>3, Zenon DEF BurstReact, BurstGoesOn
  <2>2. DOMAIN InBurst = Fields /\ InBurst.state # "INIT" /\ InBurst.lastRtt = ufcc.lastRtt
    BY <1>2 DEF InBurst, Fields
  <2> HIDE DEF InBurst
  <2> QED BY <1>1, <2>1, <2>2, AfterFullRuns, AfterFastRuns
<1>4. CASE BurstEnds(rtt)
  <2> DEFINE low == Larger(Percent(99, ufcc.low_rate), m_minRate)
             rate == Lesser(Mean(low, HighAfterBurst), 2 * low)
             new == [ufcc EXCEPT !.low_rate = low, !.high_rate = HighAfterBurst,
                                 !.up_rate = UpRate(rate, HighAfterBurst), !.down_rate = 0,
                                 !.low = FALSE, !.high = FALSE, !.state = "INIT",
                                 !.state_count = 0]
  <2>1. FullUpdate(rtt, new)
    BY <1>4 DEF BurstEnds
  <2>2. DOMAIN new = Fields /\ new.down_rate = 0 /\ new.low_rate = low /\ new.state = "INIT"
    BY <1>2 DEF Fields
  <2> HIDE DEF new, low
  <2>3. ufcc'.low_rate = low /\ ufcc'.state = "INIT" /\ fresh' = 0
    BY <2>1, <2>2, FullSets
  <2>4. low \in Nat /\ m_rate' \in Nat /\ low <= m_rate'
    BY <2>3 DEF IInv, Bracketed, HasRates, InRange, Between
  <2>5. Left' \in Int
    BY <2>3 DEF Left, IInv, Windows
  <2>6. new.down_rate * Left' <= m_rate' - new.low_rate
    <3> DEFINE n == Left'
    <3>1. n \in Int
      BY <2>5
    <3> HIDE DEF n
    <3>2. 0 * n = 0
      BY <3>1
    <3>3. 0 <= m_rate' - low
      <4>1. \A a, b \in Nat : b <= a => 0 <= a - b
        OBVIOUS
      <4> HIDE DEF rate
      <4> QED BY <2>4, <4>1
    <3> QED BY <2>2, <3>2, <3>3 DEF n
  <2> QED BY <1>1, <2>1, <2>2, <2>6, AfterFullRuns
<1> QED
  BY <1>3, <1>4

(* Before the first ACK there is no step down.                              *)
LEMMA FirstAckRuns ==
  ASSUME IInv, Running, NEW rtt \in Rtts, FirstAck(rtt)
  PROVE  Running'
<1>1. /\ ufcc'.low_rate = ufcc.low_rate /\ ufcc'.down_rate = ufcc.down_rate
      /\ ufcc'.state = ufcc.state /\ ufcc'.lastRtt = rtt
      /\ ufcc.lastRtt = 0 /\ m_rate' = m_rate /\ fresh' = 0 /\ TakeAck
  BY DEF FirstAck, IInv, Bracketed, HasRates, Fields
<1>2. ufcc.down_rate = 0
  BY <1>1 DEF Running
<1>3. inFlight \in Nat /\ inFlight # 0 /\ inFlight' = inFlight - 1 /\ Left' \in Int
  BY <1>1 DEF IInv, Windows, TakeAck, Left
<1>4. rtt # 0
  BY UfccAssumption
<1>5. fresh' <= inFlight' /\ ufcc'.lastRtt # 0
  BY <1>1, <1>3, <1>4
<1>6. ufcc'.state = "INIT" => StepsFit'
  <2> SUFFICES ASSUME ufcc.state = "INIT" PROVE StepsFit'
    BY <1>1
  <2>1. ufcc.low_rate \in Nat /\ m_rate \in Nat /\ ufcc.low_rate <= m_rate
    BY DEF IInv, Bracketed, Between, HasRates, InRange
  <2> QED BY <1>1, <1>2, <1>3, <2>1 DEF StepsFit
<1> QED BY <1>5, <1>6, Zenon DEF Running

(* A packet sent is one more that an ACK of the next window is for.         *)
LEMMA SendRuns ==
  ASSUME IInv, Running, SendPacket
  PROVE  Running'
<1>1. /\ inFlight \in Nat /\ fresh \in Nat /\ fresh <= inFlight /\ tail = m_mtu
      /\ inFlight' = inFlight + 1 /\ fresh' = fresh + 1
      /\ ufcc' = ufcc /\ m_rate' = m_rate /\ hasty' = hasty
  BY DEF IInv, Windows, Running, SendPacket
<1>2. Left' = Left /\ fresh' <= inFlight'
  BY <1>1 DEF Left
<1>3. StepsFit' = StepsFit
  BY <1>1, <1>2 DEF StepsFit
<1> QED BY <1>1, <1>2, <1>3, Zenon DEF Running

(* With packets of 500 bytes or more the program is only ever stopped by a  *)
(* rate below zero after a restart by fast reaction.                        *)
THEOREM NegativeOnlyIfHasty == ASSUME 500 <= m_mtu PROVE Spec => []NegativeOnlyWhenHasty
<1>1. Init => NInv
  <2> SUFFICES ASSUME Init PROVE NInv
    OBVIOUS
  <2>1. IInv
    BY InitInv
  <2>2. inFlight = 0 /\ fresh = 0 /\ ufcc.down_rate = 0
    BY DEF Init
  <2>3. ufcc.state = "INIT" => ufcc.low_rate \in Nat /\ m_rate \in Nat /\ ufcc.low_rate <= m_rate
    BY <2>1 DEF IInv, Bracketed, Between, HasRates, InRange
  <2>4. Left \in Int /\ fresh <= inFlight
    BY <2>2 DEF Left
  <2>5. ufcc.state = "INIT" => StepsFit
    BY <2>2, <2>3, <2>4 DEF StepsFit
  <2>6. Running
    BY <2>2, <2>4, <2>5, Zenon DEF Running
  <2>7. aborted = FALSE
    BY DEF Init
  <2> QED BY <2>6, <2>7, Zenon DEF NInv
<1>2. IInv /\ IInv' /\ NInv /\ [Next]_vars => NInv'
  <2> SUFFICES ASSUME IInv, IInv', NInv, [Next]_vars PROVE NInv'
    OBVIOUS
  <2>1. CASE SendPacket
    <3>1. ~aborted /\ aborted' = aborted
      BY <2>1, Zenon DEF SendPacket
    <3>2. Running'
      BY <2>1, <3>1, SendRuns DEF NInv
    <3> QED BY <3>1, <3>2, Zenon DEF NInv
  <2>2. ASSUME NEW rtt \in Rtts, AssertionFails(rtt) PROVE NInv'
    <3>1. hasty /\ hasty' = hasty
      BY <2>2, AssertionIsHasty
    <3>2. aborted' = TRUE
      BY <2>2, Zenon DEF AssertionFails
    <3> QED BY <3>1, <3>2, Zenon DEF NInv
  <2>3. ASSUME NEW rtt \in Rtts,
               \/ FirstAck(rtt) \/ InitReact(rtt) \/ InitUpdate(rtt) \/ SteadyAck(rtt)
               \/ BurstReact(rtt) \/ BurstGoesOn(rtt) \/ BurstEnds(rtt)
        PROVE  NInv'
    <3>1. ~aborted /\ aborted' = aborted
      BY <2>3, Zenon DEF FirstAck, InitReact, InitUpdate, SteadyAck, BurstReact, BurstGoesOn,
                         BurstEnds, AckIn
    <3>2. Running
      BY <3>1 DEF NInv
    <3>3. Running'
      BY <2>3, <3>2, FirstAckRuns, InitReactRuns, InitUpdateRuns, SteadyRuns, BurstRuns
    <3> QED BY <3>1, <3>3, Zenon DEF NInv
  <2>4. CASE UNCHANGED vars
    BY <2>4, Zenon DEF vars, flow, NInv, Running, StepsFit, Left
  <2> QED
    BY <2>1, <2>2, <2>3, <2>4 DEF Next, ReceiveAck
<1>3. NInv => NegativeOnlyWhenHasty
  BY DEF NInv, NegativeOnlyWhenHasty
<1> QED
  BY <1>1, <1>2, <1>3, Inductive, PTL DEF Spec

=============================================================================
