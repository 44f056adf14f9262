-------------------------- MODULE DcqcnTimersProofs --------------------------
(***************************************************************************)
(* The timers of a DCQCN flow for every rate, gain, threshold and period:  *)
(* rates stay in bounds, no event of a kind runs twice or outlives the     *)
(* flow, alpha is updated before the rate is cut, and the target rises     *)
(* only after a whole recovery without congestion.                         *)
(***************************************************************************)
EXTENDS DcqcnTimers, SequenceTheorems, TLAPS

-----------------------------------------------------------------------------
(* Arithmetic *)

(* A product of naturals is one, and grows with its factors.                *)
LEMMA Products ==
  ASSUME NEW a \in Nat, NEW b \in Nat, NEW c \in Nat, a <= b
  PROVE  a * c \in Nat /\ c * a \in Nat /\ a * c <= b * c /\ c * a <= c * b
BY SMT

(* A quotient of a product by more than one factor is at most the other.    *)
LEMMA Quotient ==
  ASSUME NEW x \in Nat, NEW a \in Nat, NEW c \in Nat \ {0}, x <= a * c
  PROVE  x \div c \in Nat /\ x \div c <= a
<1> DEFINE q == x \div c
<1>1. q \in Nat /\ q * c <= x
  BY SMT
<1>2. q * c <= a * c
  <2> HIDE DEF q
  <2>1. a * c \in Nat /\ q * c \in Nat
    BY <1>1, SMT
  <2> QED
    BY <1>1, <2>1
<1>3. q <= a
  <2> HIDE DEF q
  <2> QED
    BY <1>1, <1>2, SMT
<1> QED
  BY <1>1, <1>3

(* What a flow loses at a CNP is a part of its rate.                        *)
LEMMA Part ==
  ASSUME NEW r \in Nat, NEW b \in Nat, NEW c \in Nat \ {0}, b <= c
  PROVE  (r * b) \div c \in Nat /\ (r * b) \div c <= r
<1>1. r * b \in Nat /\ r * b <= r * c
  BY Products
<1> QED
  BY <1>1, Quotient

(* The next alpha is a mean of the present one and of 0 or 1.               *)
LEMMA Mean ==
  ASSUME NEW u \in Nat \ {0}, NEW g \in 0..u, NEW a \in 0..u, NEW f \in 0..g
  PROVE  ((u - g) * a + f * u) \div u \in 0..u
<1> DEFINE x == (u - g) * a + f * u
<1>1. (u - g) * a \in Nat /\ (u - g) * a <= (u - g) * u
  BY Products
<1>2. f * u \in Nat /\ f * u <= g * u
  BY Products
<1>3. (u - g) * u + g * u = u * u
  BY SMT
<1>4. x \in Nat /\ x <= u * u
  BY <1>1, <1>2, <1>3, Products
<1> QED
  BY <1>4, Quotient

-----------------------------------------------------------------------------
(* Queues of at most one event *)

IsOne(s, n) == s \in Seq(Nat) /\ Len(s) = 1 /\ Head(s) = n /\ s # <<>>

(* What it says, for a prover that does not expand it.                      *)
LEMMA OneIsQueue ==
  \A s, n : IsOne(s, n) => s \in Seq(Nat) /\ Len(s) <= 1 /\ s # <<>> /\ Head(s) = n
BY DEF IsOne

(* An event scheduled when none is.                                         *)
LEMMA AppendToNone ==
  ASSUME NEW n \in Nat
  PROVE  IsOne(Append(<<>>, n), n)
BY DEF IsOne

(* Of at most one event, cancelling leaves none, and rescheduling one.      *)
LEMMA OneEvent ==
  ASSUME NEW s \in Seq(Nat), Len(s) <= 1, NEW n \in Nat
  PROVE  /\ Cancelled(s) = <<>> /\ IsOne(Append(Cancelled(s), n), n)
         /\ s # <<>> => Head(s) \in Nat /\ Head(s) = s[1] /\ Len(s) = 1
         /\ s # <<>> => IsOne(Append(Tail(s), n), n)
<1>1. CASE s = <<>>
  BY <1>1, AppendToNone DEF Cancelled
<1>2. CASE s # <<>>
  <2>1. Len(s) = 1
    <3>1. Len(s) \in Nat \ {0}
      BY <1>2, EmptySeq, Zenon
    <3>2. \A k \in Nat \ {0} : k <= 1 => k = 1
      OBVIOUS
    <3> QED
      BY <3>1, <3>2, Zenon
  <2>2. Cancelled(s) = <<>>
    BY <1>2, <2>1, SubSeqEmpty DEF Cancelled
  <2>3. Tail(s) \in Seq(Nat) /\ Len(Tail(s)) = 0 /\ Head(s) \in Nat
    BY <1>2, <2>1, HeadTailProperties
  <2>4. Tail(s) = <<>>
    BY <2>3, EmptySeq
  <2>5. Head(s) = s[1]
    BY <1>2
  <2> QED
    BY <1>2, <2>1, <2>2, <2>3, <2>4, <2>5, AppendToNone
<1> QED
  BY <1>1, <1>2

(* Time takes one from what is left of an event that is not due.            *)
LEMMA Ticked ==
  ASSUME NEW s \in Seq(Nat), Len(s) <= 1, s # <<>> => Head(s) # 0
  PROVE  LET t == [i \in DOMAIN s |-> s[i] - 1]
         IN  /\ t \in Seq(Nat) /\ Len(t) = Len(s) /\ (t = <<>> <=> s = <<>>)
             /\ s # <<>> => Head(t) = Head(s) - 1
<1> DEFINE t == [i \in DOMAIN s |-> s[i] - 1]
<1>1. CASE s = <<>>
  <2>1. Len(s) = 0 /\ DOMAIN s = 1..0
    BY <1>1, EmptySeq, LenProperties
  <2>2. t \in [1..0 -> Nat]
    BY <2>1
  <2>3. t \in Seq(Nat) /\ Len(t) = 0
    BY <2>2, SeqDef
  <2> QED
    BY <1>1, <2>1, <2>3, EmptySeq
<1>2. CASE s # <<>>
  <2>1. Len(s) = 1 /\ Head(s) \in Nat /\ Head(s) = s[1] /\ s[1] - 1 \in Nat
    BY <1>2, OneEvent
  <2>2. DOMAIN s = 1..1
    BY <2>1, LenProperties
  <2>3. t \in [1..1 -> Nat] /\ t[1] = s[1] - 1
    BY <2>1, <2>2
  <2>4. t \in Seq(Nat) /\ Len(t) = 1
    BY <2>3, SeqDef
  <2>5. t # <<>> /\ Head(t) = t[1]
    BY <2>4, EmptySeq
  <2> QED
    BY <1>2, <2>1, <2>3, <2>4, <2>5
<1> QED
  BY <1>1, <1>2

-----------------------------------------------------------------------------
(* The inductive invariant *)

(* Before the first CNP nothing happens to the flow.                        *)
NoCnpNoEvent ==
  m_first_cnp => /\ m_rate = m_max_rate /\ m_targetRate = m_max_rate
                 /\ \A k \in Kinds : events[k] = <<>>

(* All periods are whole microseconds, so the nanosecond that the first     *)
(* decrease is late keeps the two events apart for ever.                    *)
OddDistance ==
  events["alpha"] # <<>> /\ events["decrease"] # <<>>
    => (Head(events["alpha"]) - Head(events["decrease"])) % 2 = 1

(* Each round of recovery has taken a full period since the last decrease.  *)
QuietSinceDecrease ==
  events["increase"] # <<>>
    => \/ quiet = QuietTime
       \/ quiet + Head(events["increase"]) >= (m_rpTimeStage + 1) * IncreaseDelay

IInv ==
  /\ TypeOK /\ RatesInBounds /\ OneEventOfAKind /\ EventsEndWithFlow
  /\ NoCnpNoEvent /\ OddDistance /\ QuietSinceDecrease

(* The assumption on the constants, by parts.                               *)
LEMMA Constants ==
  /\ m_minRate \in Nat /\ m_max_rate \in Nat /\ m_rai \in Nat /\ m_rhai \in Nat
  /\ AlphaUnit \in Nat \ {0} /\ m_g \in 0..AlphaUnit
  /\ m_rateOnFirstCNP \in 0..AlphaUnit /\ m_rpgThreshold \in Nat
  /\ m_minRate % 2 = 0 /\ m_minRate <= (m_max_rate * m_rateOnFirstCNP) \div AlphaUnit
BY DcqcnAssumption

(* Periods are whole microseconds; the first decrease is late by one unit.  *)
LEMMA Delays ==
  /\ AlphaDelay \in Nat /\ AlphaDelay % 2 = 0
  /\ DecreaseDelay(0) \in Nat /\ DecreaseDelay(0) % 2 = 0
  /\ DecreaseDelay(1) \in Nat /\ DecreaseDelay(1) % 2 = 1
  /\ IncreaseDelay \in Nat \ {0}
<1>1. {m_alpha_resume_interval, m_rateDecreaseInterval, m_rpgTimeReset} \subseteq Nat \ {0}
  BY DcqcnAssumption
<1> QED
  BY <1>1 DEF AlphaDelay, DecreaseDelay, IncreaseDelay, MicroSecond, NanoSecond

(* The periods of a recovery, one by one.                                   *)
LEMMA Rounds ==
  /\ \A n \in Nat : n * IncreaseDelay \in Nat
  /\ \A n \in Nat : (n + 1) * IncreaseDelay = n * IncreaseDelay + IncreaseDelay
  /\ \A m, n \in Nat : m <= n => m * IncreaseDelay <= n * IncreaseDelay
  /\ QuietTime \in Nat /\ QuietTime = (m_rpgThreshold + 1) * IncreaseDelay
<1>1. ASSUME NEW d \in Nat
      PROVE  /\ \A n \in Nat : n * d \in Nat
             /\ \A n \in Nat : (n + 1) * d = n * d + d
             /\ \A m, n \in Nat : m <= n => m * d <= n * d
  <2>1. ASSUME NEW n \in Nat PROVE n * d \in Nat /\ (n + 1) * d = n * d + d
    BY SMT
  <2>2. ASSUME NEW m \in Nat, NEW n \in Nat, m <= n PROVE m * d <= n * d
    BY <2>2, Products
  <2> QED
    BY <2>1, <2>2
<1>2. IncreaseDelay \in Nat /\ m_rpgThreshold + 1 \in Nat
  BY Delays, Constants
<1> QED
  BY <1>1, <1>2 DEF QuietTime

(* The rate with which a flow meets its first CNP.                          *)
LEMMA MinBelowMax == m_minRate <= m_max_rate
BY Constants, Part

(* The invariant holds at first.                                            *)
LEMMA InitInv == Init => IInv
<1> SUFFICES ASSUME Init PROVE IInv
  OBVIOUS
<1>1. \A k \in Kinds : events[k] = <<>>
  BY DEF Init
<1>2. TypeOK
  <2>1. events \in [Kinds -> Seq(Nat)]
    BY EmptySeq DEF Init
  <2>2. {m_alpha_cnp_arrived, m_decrease_cnp_arrived, m_first_cnp} \subseteq BOOLEAN
    BY Zenon DEF Init
  <2>3. {completed, lateStart} \subseteq BOOLEAN
    BY Zenon DEF Init
  <2>4. quiet \in 0..QuietTime /\ m_rpTimeStage \in 0..(m_rpgThreshold + 1)
    BY Constants, Rounds DEF Init
  <2>5. {m_rate, m_targetRate} \subseteq Nat /\ m_alpha \in 0..AlphaUnit
    BY Constants DEF Init
  <2> QED
    BY <2>1, <2>2, <2>3, <2>4, <2>5 DEF TypeOK
<1>3. RatesInBounds
  BY Constants, MinBelowMax DEF Init, RatesInBounds
<1>4. OneEventOfAKind
  BY <1>1, EmptySeq DEF OneEventOfAKind
<1>5. EventsEndWithFlow /\ NoCnpNoEvent
  BY <1>1 DEF Init, EventsEndWithFlow, NoCnpNoEvent
<1>6. OddDistance /\ QuietSinceDecrease
  BY <1>1 DEF OddDistance, QuietSinceDecrease, Kinds
<1> QED
  BY <1>2, <1>3, <1>4, <1>5, <1>6 DEF IInv

-----------------------------------------------------------------------------
(* Every action preserves it *)

Queues(pending) ==
  pending \in [Kinds -> Seq(Nat)] /\ \A k \in Kinds : Len(pending[k]) <= 1

(* The queues of an invariant state.                                        *)
LEMMA QueuesNow == IInv => Queues(events)
BY DEF IInv, TypeOK, OneEventOfAKind, Queues

(* What completion leaves of the events.                                    *)
LEMMA Pending ==
  ASSUME IInv
  PROVE  Queues(AfterComplete) /\ \A k \in Kinds : AfterComplete[k] = <<>>
<1>1. \A k \in Kinds : AfterComplete[k] = <<>>
  BY QueuesNow, OneEvent DEF AfterComplete, Queues
<1>2. AfterComplete \in [Kinds -> Seq(Nat)]
  BY <1>1, EmptySeq DEF AfterComplete
<1> QED
  BY <1>1, <1>2, EmptySeq DEF Queues

(* ReceiveAck may start the first two events, or end all, or both.          *)
LEMMA AckInv ==
  ASSUME IInv, NEW cnp \in BOOLEAN, NEW last \in BOOLEAN, ReceiveAck(cnp, last)
  PROVE  IInv'
<1> DEFINE pending == IF last THEN AfterComplete ELSE events
<1>1. /\ Queues(pending)
      /\ last => \A k \in Kinds : pending[k] = <<>>
      /\ ~last => pending = events
  BY QueuesNow, Pending
<1>2. /\ ~completed /\ completed' = last /\ quiet' = quiet /\ m_rpTimeStage' = m_rpTimeStage
      /\ lateStart' = (cnp /\ last /\ m_first_cnp)
  BY DEF ReceiveAck, CnpReceived, rateVars
<1>3. {completed', lateStart'} \subseteq BOOLEAN /\ quiet' \in 0..QuietTime
      /\ m_rpTimeStage' \in 0..(m_rpgThreshold + 1)
  <2>1. completed' \in BOOLEAN /\ lateStart' \in BOOLEAN
    BY <1>2, Zenon
  <2> QED
    BY <1>2, <2>1 DEF IInv, TypeOK
<1>4. CASE cnp /\ m_first_cnp
  <2>1. /\ m_decrease_cnp_arrived' = TRUE /\ m_first_cnp' = FALSE /\ m_alpha_cnp_arrived' = FALSE
        /\ m_alpha' = AlphaUnit /\ m_rate' = FirstRate /\ m_targetRate' = FirstRate
        /\ events' = [pending EXCEPT !["alpha"] = Append(@, AlphaDelay),
                                     !["decrease"] = Append(@, DecreaseDelay(1))]
    BY <1>4 DEF ReceiveAck, CnpReceived
  <2>2. m_rate = m_max_rate /\ \A k \in Kinds : pending[k] = <<>>
    BY <1>1, <1>4 DEF IInv, NoCnpNoEvent
  <2>3. /\ IsOne(events'["alpha"], AlphaDelay)
        /\ IsOne(events'["decrease"], DecreaseDelay(1))
        /\ events'["increase"] = <<>>
        /\ DOMAIN events' = Kinds /\ events' = [k \in Kinds |-> events'[k]]
    BY <1>1, <2>1, <2>2, AppendToNone, Delays DEF Queues, Kinds
  <2>4. FirstRate \in Nat /\ m_minRate <= FirstRate /\ FirstRate <= m_max_rate
    BY <2>2, Constants, Part DEF FirstRate
  <2>5. Queues(events')
    <3>1. \A k \in Kinds : events'[k] \in Seq(Nat) /\ Len(events'[k]) <= 1
      <4>1. <<>> \in Seq(Nat) /\ Len(<<>>) <= 1
        BY EmptySeq
      <4> QED
        BY <2>3, <4>1, OneIsQueue, Zenon DEF Kinds
    <3> QED
      BY <2>3, <3>1 DEF Queues
  <2>6. TypeOK'
    <3>1. {m_alpha_cnp_arrived', m_decrease_cnp_arrived', m_first_cnp'} \subseteq BOOLEAN
      BY <2>1, Zenon
    <3>2. {m_rate', m_targetRate'} \subseteq Nat /\ m_alpha' \in 0..AlphaUnit
      BY <2>1, <2>4, Constants
    <3> QED
      BY <1>3, <2>5, <3>1, <3>2 DEF TypeOK, Queues
  <2>7. RatesInBounds'
    BY <2>1, <2>4 DEF RatesInBounds
  <2>8. OneEventOfAKind'
    BY <2>5 DEF OneEventOfAKind, Queues
  <2>9. EventsEndWithFlow' /\ NoCnpNoEvent'
    BY <1>2, <1>4, <2>1 DEF EventsEndWithFlow, NoCnpNoEvent
  <2>10. OddDistance'
    <3>1. Head(events'["alpha"]) = AlphaDelay /\ Head(events'["decrease"]) = DecreaseDelay(1)
      BY <2>3, OneIsQueue, Zenon
    <3>2. \A a, d \in Nat : a % 2 = 0 /\ d % 2 = 1 => (a - d) % 2 = 1
      BY SMT
    <3>3. (AlphaDelay - DecreaseDelay(1)) % 2 = 1
      BY <3>2, Delays, Zenon
    <3> QED
      BY <3>1, <3>3, Zenon DEF OddDistance
  <2>11. QuietSinceDecrease'
    BY <2>3 DEF QuietSinceDecrease
  <2> QED
    BY <2>6, <2>7, <2>8, <2>9, <2>10, <2>11 DEF IInv
<1>5. CASE ~(cnp /\ m_first_cnp)
  <2>1. /\ events' = pending /\ m_rate' = m_rate /\ m_targetRate' = m_targetRate
        /\ m_alpha' = m_alpha /\ lateStart' = FALSE
        /\ m_first_cnp' = m_first_cnp
    <3>1. CASE cnp
      BY <1>2, <1>5, <3>1, Zenon DEF ReceiveAck, CnpReceived, IInv, TypeOK
    <3>2. CASE ~cnp
      BY <1>2, <3>2, Zenon DEF ReceiveAck, rateVars, cnpVars
    <3> QED
      BY <3>1, <3>2
  <2>2. {m_alpha_cnp_arrived', m_decrease_cnp_arrived', m_first_cnp'} \subseteq BOOLEAN
    <3>1. CASE cnp
      BY <1>5, <3>1, Zenon DEF ReceiveAck, CnpReceived
    <3>2. CASE ~cnp
      BY <3>2, Zenon DEF ReceiveAck, cnpVars, IInv, TypeOK
    <3> QED
      BY <3>1, <3>2
  <2>3. TypeOK'
    BY <1>1, <1>3, <2>1, <2>2 DEF IInv, TypeOK, Queues
  <2>4. RatesInBounds' /\ OneEventOfAKind'
    BY <1>1, <2>1 DEF IInv, RatesInBounds, OneEventOfAKind, Queues
  <2>5. EventsEndWithFlow'
    BY <1>1, <1>2, <2>1 DEF EventsEndWithFlow
  <2>6. NoCnpNoEvent'
    BY <1>1, <2>1 DEF IInv, NoCnpNoEvent
  <2>7. OddDistance' /\ QuietSinceDecrease'
    <3>1. CASE last
      BY <1>1, <2>1, <3>1 DEF OddDistance, QuietSinceDecrease, Kinds
    <3>2. CASE ~last
      BY <1>1, <1>2, <2>1, <3>2 DEF IInv, OddDistance, QuietSinceDecrease
    <3> QED
      BY <3>1, <3>2
  <2> QED
    BY <2>3, <2>4, <2>5, <2>6, <2>7 DEF IInv
<1> QED
  BY <1>4, <1>5

(* An event that is due is replaced by its successor.                       *)
LEMMA Replaced ==
  ASSUME IInv, NEW k \in Kinds, NEW d \in Nat, NEW s, IsOne(s, d)
  PROVE  /\ Queues([events EXCEPT ![k] = s])
         /\ \A o \in Kinds : [events EXCEPT ![k] = s][o] = IF o = k THEN s ELSE events[o]
BY QueuesNow, OneIsQueue DEF Queues

(* An event that is due is the only one of its kind, and so is the one that *)
(* replaces it.                                                             *)
LEMMA DueEvent ==
  ASSUME IInv, NEW k \in Kinds, Due(k), NEW d \in Nat
  PROVE  IsOne(Rescheduled(k, d), d) /\ events[k] # <<>> /\ Head(events[k]) = 0
BY QueuesNow, OneEvent DEF Queues, Due, Rescheduled

(* With an event pending, the flow has had its first CNP and, unless that   *)
(* came with the last ACK, is not complete.                                 *)
LEMMA Pended ==
  ASSUME IInv, NEW k \in Kinds, events[k] # <<>>
  PROVE  m_first_cnp # TRUE /\ ~(completed /\ ~lateStart)
BY DEF IInv, NoCnpNoEvent, EventsEndWithFlow

(* UpdateAlpha comes an odd time before or after the decrease check.        *)
LEMMA AlphaInv ==
  ASSUME IInv, UpdateAlpha
  PROVE  IInv'
<1> DEFINE s == Rescheduled("alpha", AlphaDelay)
<1>1. IsOne(s, AlphaDelay) /\ events["alpha"] # <<>> /\ Head(events["alpha"]) = 0
  BY DueEvent, Delays DEF UpdateAlpha, Kinds
<1>2. /\ m_alpha' = NewAlpha /\ m_alpha_cnp_arrived' = FALSE
      /\ events' = [events EXCEPT !["alpha"] = s]
      /\ UNCHANGED <<m_rate, m_targetRate, m_rpTimeStage, m_decrease_cnp_arrived, m_first_cnp,
                     completed, lateStart, quiet>>
  BY DEF UpdateAlpha, rateVars
<1>3. /\ Queues(events')
      /\ events'["alpha"] = s /\ events'["decrease"] = events["decrease"]
      /\ events'["increase"] = events["increase"]
  <2> HIDE DEF s
  <2>1. /\ "alpha" \in Kinds /\ "decrease" \in Kinds /\ "increase" \in Kinds
        /\ "decrease" # "alpha" /\ "increase" # "alpha"
    BY DEF Kinds
  <2>2. /\ Queues([events EXCEPT !["alpha"] = s])
        /\ \A o \in Kinds : [events EXCEPT !["alpha"] = s][o] = IF o = "alpha" THEN s ELSE events[o]
    BY <1>1, <2>1, Replaced, Delays
  <2> QED
    BY <1>2, <2>1, <2>2
<1>4. m_first_cnp # TRUE /\ ~(completed /\ ~lateStart)
  BY <1>1, Pended DEF Kinds
<1>5. TypeOK'
  <2>1. m_alpha' \in 0..AlphaUnit
    <3>1. Fed \in 0..m_g /\ m_alpha \in 0..AlphaUnit
      BY Constants DEF Fed, IInv, TypeOK
    <3> QED
      BY <1>2, <3>1, Mean, Constants DEF NewAlpha
  <2>2. {m_alpha_cnp_arrived', m_decrease_cnp_arrived', m_first_cnp'} \subseteq BOOLEAN
    BY <1>2, Zenon DEF IInv, TypeOK
  <2> QED
    BY <1>2, <1>3, <2>1, <2>2 DEF IInv, TypeOK, Queues
<1>6. RatesInBounds' /\ OneEventOfAKind'
  BY <1>2, <1>3 DEF IInv, RatesInBounds, OneEventOfAKind, Queues
<1>7. EventsEndWithFlow' /\ NoCnpNoEvent'
  BY <1>2, <1>4 DEF EventsEndWithFlow, NoCnpNoEvent, IInv, TypeOK
<1>8. OddDistance'
  <2> SUFFICES ASSUME events["decrease"] # <<>>
               PROVE  (AlphaDelay - Head(events["decrease"])) % 2 = 1
    BY <1>1, <1>3, OneIsQueue DEF OddDistance
  <2>1. (0 - Head(events["decrease"])) % 2 = 1
    BY <1>1 DEF IInv, OddDistance
  <2>2. Head(events["decrease"]) \in Nat
    BY QueuesNow, OneEvent DEF Queues, Kinds
  <2>3. \A a, d \in Nat : a % 2 = 0 /\ (0 - d) % 2 = 1 => (a - d) % 2 = 1
    BY SMT
  <2> QED
    BY <2>1, <2>2, <2>3, Delays
<1>9. QuietSinceDecrease'
  BY <1>2, <1>3 DEF IInv, QuietSinceDecrease
<1> QED
  BY <1>5, <1>6, <1>7, <1>8, <1>9 DEF IInv

(* The kinds are three.                                                     *)
LEMMA KindsDiffer ==
  /\ "alpha" \in Kinds /\ "decrease" \in Kinds /\ "increase" \in Kinds
  /\ "alpha" # "decrease" /\ "alpha" # "increase" /\ "decrease" # "increase"
  /\ \A k \in Kinds : k = "alpha" \/ k = "decrease" \/ k = "increase"
BY DEF Kinds

(* The check for a decrease is rescheduled an even time from now.           *)
LEMMA OddAfterDecrease ==
  ASSUME IInv, events["decrease"] # <<>>, Head(events["decrease"]) = 0,
         events'["alpha"] = events["alpha"], Head(events'["decrease"]) = DecreaseDelay(0)
  PROVE  OddDistance'
<1> SUFFICES ASSUME events["alpha"] # <<>>
             PROVE  (Head(events["alpha"]) - DecreaseDelay(0)) % 2 = 1
  BY DEF OddDistance
<1>1. (Head(events["alpha"]) - 0) % 2 = 1
  BY DEF IInv, OddDistance
<1>2. Head(events["alpha"]) \in Nat
  BY QueuesNow, OneEvent, KindsDiffer DEF Queues
<1>3. \A a, d \in Nat : (a - 0) % 2 = 1 /\ d % 2 = 0 => (a - d) % 2 = 1
  BY SMT
<1> QED
  BY <1>1, <1>2, <1>3, Delays, Zenon

(* CheckRateDecrease cuts the rate, and starts recovery anew.               *)
LEMMA DecreaseInv ==
  ASSUME IInv, CheckRateDecrease
  PROVE  IInv'
<1> DEFINE s == Rescheduled("decrease", DecreaseDelay(0))
           u == Restarted
<1>1. IsOne(s, DecreaseDelay(0)) /\ events["decrease"] # <<>> /\ Head(events["decrease"]) = 0
  BY DueEvent, Delays, KindsDiffer DEF CheckRateDecrease
<1>2. IsOne(u, IncreaseDelay)
  BY QueuesNow, OneEvent, Delays, KindsDiffer DEF Queues, Restarted
<1>3. m_first_cnp # TRUE /\ ~(completed /\ ~lateStart)
  BY <1>1, Pended, KindsDiffer
<1>4. UNCHANGED <<m_alpha, m_alpha_cnp_arrived, m_first_cnp, completed, lateStart>>
  BY DEF CheckRateDecrease
<1>5. EventsEndWithFlow' /\ NoCnpNoEvent'
  BY <1>3, <1>4 DEF EventsEndWithFlow, NoCnpNoEvent, IInv, TypeOK
<1>6. CASE m_decrease_cnp_arrived
  <2>1. /\ m_targetRate' = (IF Clamp THEN m_rate ELSE m_targetRate)
        /\ m_rate' = Reduced
        /\ m_rpTimeStage' = 0 /\ m_decrease_cnp_arrived' = FALSE /\ quiet' = 0
        /\ events' = [events EXCEPT !["decrease"] = s, !["increase"] = u]
    BY <1>6 DEF CheckRateDecrease
  <2>2. /\ Queues(events')
        /\ events'["decrease"] = s /\ events'["increase"] = u
        /\ events'["alpha"] = events["alpha"]
    <3> HIDE DEF s, u
    <3>1. /\ s \in Seq(Nat) /\ u \in Seq(Nat) /\ Len(s) <= 1 /\ Len(u) <= 1
      BY <1>1, <1>2, OneIsQueue, Zenon
    <3>2. /\ events'["decrease"] = s /\ events'["increase"] = u
          /\ events'["alpha"] = events["alpha"]
          /\ DOMAIN events' = Kinds /\ events' = [k \in Kinds |-> events'[k]]
      BY <2>1, KindsDiffer, QueuesNow DEF Queues
    <3>3. \A k \in Kinds : events'[k] \in Seq(Nat) /\ Len(events'[k]) <= 1
      BY <3>1, <3>2, KindsDiffer, QueuesNow, Zenon DEF Queues
    <3> QED
      BY <3>2, <3>3 DEF Queues
  <2>3. m_rate' \in Nat /\ m_minRate <= m_rate' /\ m_rate' <= m_rate
    <3> DEFINE left == (m_rate * (2 * AlphaUnit - m_alpha)) \div (2 * AlphaUnit)
    <3>1. /\ m_rate \in Nat /\ m_minRate <= m_rate /\ m_alpha \in 0..AlphaUnit
      BY DEF IInv, TypeOK, RatesInBounds
    <3>2. /\ 2 * AlphaUnit - m_alpha \in Nat /\ 2 * AlphaUnit \in Nat \ {0}
          /\ 2 * AlphaUnit - m_alpha <= 2 * AlphaUnit
      BY <3>1, Constants
    <3>3. left \in Nat /\ left <= m_rate
      BY <3>1, <3>2, Part
    <3>4. m_rate' = Larger(m_minRate, left)
      BY <2>1 DEF Reduced
    <3> HIDE DEF left
    <3> QED
      BY <3>1, <3>3, <3>4, Constants DEF Larger
  <2>4. m_targetRate' \in Nat /\ m_rate <= m_targetRate' /\ m_targetRate' <= m_max_rate
    BY <2>1, Constants DEF IInv, TypeOK, RatesInBounds
  <2>5. TypeOK'
    <3>1. {m_alpha_cnp_arrived', m_decrease_cnp_arrived', m_first_cnp'} \subseteq BOOLEAN
      BY <1>4, <2>1, Zenon DEF IInv, TypeOK
    <3>2. quiet' \in 0..QuietTime /\ m_rpTimeStage' \in 0..(m_rpgThreshold + 1)
      BY <2>1, Rounds, Constants
    <3> QED
      BY <1>4, <2>2, <2>3, <2>4, <3>1, <3>2 DEF IInv, TypeOK, Queues
  <2>6. RatesInBounds' /\ OneEventOfAKind'
    <3>1. m_rate \in Nat
      BY DEF IInv, TypeOK
    <3> QED
      BY <2>2, <2>3, <2>4, <3>1, Constants DEF RatesInBounds, OneEventOfAKind, Queues
  <2>7. OddDistance'
    BY <1>1, <2>2, OneIsQueue, OddAfterDecrease
  <2>8. QuietSinceDecrease'
    <3>1. Head(events'["increase"]) = IncreaseDelay
      BY <1>2, <2>2, OneIsQueue, Zenon
    <3>2. 0 + IncreaseDelay >= (0 + 1) * IncreaseDelay
      BY Delays
    <3> QED
      BY <2>1, <3>1, <3>2 DEF QuietSinceDecrease
  <2> QED
    BY <1>5, <2>5, <2>6, <2>7, <2>8 DEF IInv
<1>7. CASE ~m_decrease_cnp_arrived
  <2>1. /\ events' = [events EXCEPT !["decrease"] = s]
        /\ UNCHANGED <<m_rate, m_targetRate, m_rpTimeStage, m_decrease_cnp_arrived, quiet>>
    BY <1>7 DEF CheckRateDecrease, rateVars
  <2>2. /\ Queues(events')
        /\ events'["decrease"] = s /\ events'["increase"] = events["increase"]
        /\ events'["alpha"] = events["alpha"]
    <3> HIDE DEF s
    <3>1. /\ Queues([events EXCEPT !["decrease"] = s])
          /\ \A o \in Kinds :
               [events EXCEPT !["decrease"] = s][o] = IF o = "decrease" THEN s ELSE events[o]
      BY <1>1, KindsDiffer, Replaced, Delays
    <3> QED
      BY <2>1, <3>1, KindsDiffer
  <2>3. TypeOK'
    <3>1. {m_alpha_cnp_arrived', m_decrease_cnp_arrived', m_first_cnp'} \subseteq BOOLEAN
      BY <1>4, <2>1, Zenon DEF IInv, TypeOK
    <3> QED
      BY <1>4, <2>1, <2>2, <3>1 DEF IInv, TypeOK, Queues
  <2>4. RatesInBounds' /\ OneEventOfAKind'
    BY <2>1, <2>2 DEF IInv, RatesInBounds, OneEventOfAKind, Queues
  <2>5. OddDistance'
    BY <1>1, <2>2, OneIsQueue, OddAfterDecrease
  <2>6. QuietSinceDecrease'
    BY <2>1, <2>2 DEF IInv, QuietSinceDecrease
  <2> QED
    BY <1>5, <2>3, <2>4, <2>5, <2>6 DEF IInv
<1> QED
  BY <1>6, <1>7

(* Two halves, each rounded down, between the bounds of what was halved.    *)
LEMMA Halves ==
  ASSUME NEW min \in Nat, min % 2 = 0, NEW r \in Nat, NEW t \in Nat, min <= r, r <= t
  PROVE  /\ (r \div 2) + (t \div 2) \in Nat
         /\ min <= (r \div 2) + (t \div 2) /\ (r \div 2) + (t \div 2) <= t
BY SMT

(* RateIncEventTimer completes a round of recovery.                         *)
LEMMA IncreaseInv ==
  ASSUME IInv, RateIncEventTimer
  PROVE  IInv'
<1> DEFINE s == Rescheduled("increase", IncreaseDelay)
<1>1. IsOne(s, IncreaseDelay) /\ events["increase"] # <<>> /\ Head(events["increase"]) = 0
  BY DueEvent, Delays, KindsDiffer DEF RateIncEventTimer
<1>2. /\ events' = [events EXCEPT !["increase"] = s]
      /\ m_targetRate' = IncreasedTarget
      /\ m_rate' = (m_rate \div 2) + (IncreasedTarget \div 2)
      /\ m_rpTimeStage' = Lesser(m_rpTimeStage + 1, m_rpgThreshold + 1)
      /\ UNCHANGED <<m_alpha, m_alpha_cnp_arrived, m_decrease_cnp_arrived, m_first_cnp,
                     completed, lateStart, quiet>>
  BY DEF RateIncEventTimer, cnpVars
<1>3. /\ Queues(events')
      /\ events'["increase"] = s /\ events'["decrease"] = events["decrease"]
      /\ events'["alpha"] = events["alpha"]
  <2> HIDE DEF s
  <2>1. /\ Queues([events EXCEPT !["increase"] = s])
        /\ \A o \in Kinds :
             [events EXCEPT !["increase"] = s][o] = IF o = "increase" THEN s ELSE events[o]
    BY <1>1, KindsDiffer, Replaced, Delays
  <2> QED
    BY <1>2, <2>1, KindsDiffer
<1>4. m_first_cnp # TRUE /\ ~(completed /\ ~lateStart)
  BY <1>1, Pended, KindsDiffer
<1>5. /\ m_rate \in Nat /\ m_targetRate \in Nat /\ m_rpTimeStage \in 0..(m_rpgThreshold + 1)
      /\ m_minRate <= m_rate /\ m_rate <= m_targetRate /\ m_targetRate <= m_max_rate
      /\ quiet \in 0..QuietTime
  BY DEF IInv, TypeOK, RatesInBounds
<1>6. IncreasedTarget \in Nat /\ m_targetRate <= IncreasedTarget /\ IncreasedTarget <= m_max_rate
  BY <1>5, Constants DEF IncreasedTarget, Lesser
<1>7. m_rate' \in Nat /\ m_minRate <= m_rate' /\ m_rate' <= m_targetRate'
  <2>1. m_rate <= IncreasedTarget
    BY <1>5, <1>6
  <2> QED
    BY <1>2, <1>5, <1>6, <2>1, Halves, Constants
<1>8. m_rpTimeStage' \in 0..(m_rpgThreshold + 1)
  BY <1>2, <1>5, Constants DEF Lesser
<1>9. TypeOK'
  <2>1. {m_alpha_cnp_arrived', m_decrease_cnp_arrived', m_first_cnp'} \subseteq BOOLEAN
    BY <1>2, Zenon DEF IInv, TypeOK
  <2>2. {m_rate', m_targetRate'} \subseteq Nat
    BY <1>2, <1>6, <1>7
  <2> QED
    BY <1>2, <1>3, <1>8, <2>1, <2>2 DEF IInv, TypeOK, Queues
<1>10. RatesInBounds' /\ OneEventOfAKind'
  BY <1>2, <1>3, <1>6, <1>7 DEF RatesInBounds, OneEventOfAKind, Queues
<1>11. EventsEndWithFlow' /\ NoCnpNoEvent'
  BY <1>2, <1>4 DEF EventsEndWithFlow, NoCnpNoEvent, IInv, TypeOK
<1>12. OddDistance'
  BY <1>3 DEF IInv, OddDistance
<1>13. QuietSinceDecrease'
  <2> SUFFICES ASSUME quiet # QuietTime
               PROVE  quiet + IncreaseDelay >= (m_rpTimeStage' + 1) * IncreaseDelay
    BY <1>1, <1>2, <1>3, OneIsQueue DEF QuietSinceDecrease
  <2>1. quiet + 0 >= (m_rpTimeStage + 1) * IncreaseDelay
    BY <1>1 DEF IInv, QuietSinceDecrease
  <2>2. m_rpTimeStage + 1 \in Nat /\ m_rpTimeStage' \in Nat
        /\ m_rpTimeStage' <= m_rpTimeStage + 1
    BY <1>2, <1>5, Constants DEF Lesser
  <2>3. /\ (m_rpTimeStage' + 1) * IncreaseDelay = m_rpTimeStage' * IncreaseDelay + IncreaseDelay
        /\ m_rpTimeStage' * IncreaseDelay <= (m_rpTimeStage + 1) * IncreaseDelay
        /\ m_rpTimeStage' * IncreaseDelay \in Nat /\ (m_rpTimeStage + 1) * IncreaseDelay \in Nat
    BY <2>2, Rounds
  <2> DEFINE a == m_rpTimeStage' * IncreaseDelay
             b == (m_rpTimeStage + 1) * IncreaseDelay
             c == (m_rpTimeStage' + 1) * IncreaseDelay
  <2>4. IncreaseDelay \in Nat /\ quiet \in Nat /\ a \in Nat /\ b \in Nat
        /\ c = a + IncreaseDelay /\ a <= b /\ quiet + 0 >= b
    BY <1>5, <2>1, <2>3, Delays, Rounds
  <2>5. quiet + IncreaseDelay >= c
    <3> HIDE DEF a, b, c
    <3> QED
      BY <2>4
  <2> QED
    BY <2>5
<1> QED
  BY <1>9, <1>10, <1>11, <1>12, <1>13 DEF IInv

(* Time brings all events nearer by as much.                                *)
LEMMA TickInv ==
  ASSUME IInv, Tick
  PROVE  IInv'
<1>1. /\ \A k \in Kinds : ~Due(k)
      /\ events' = [k \in Kinds |-> [i \in DOMAIN events[k] |-> events[k][i] - 1]]
      /\ quiet' = Lesser(quiet + 1, QuietTime)
      /\ UNCHANGED <<m_rate, m_targetRate, m_rpTimeStage, m_alpha, m_alpha_cnp_arrived,
                     m_decrease_cnp_arrived, m_first_cnp, completed, lateStart>>
  BY DEF Tick, rateVars, cnpVars
<1>2. \A k \in Kinds : /\ events'[k] \in Seq(Nat) /\ Len(events'[k]) <= 1
                       /\ events'[k] = <<>> <=> events[k] = <<>>
                       /\ events[k] # <<>> => Head(events'[k]) = Head(events[k]) - 1
  <2> TAKE k \in Kinds
  <2>1. events[k] \in Seq(Nat) /\ Len(events[k]) <= 1 /\ (events[k] # <<>> => Head(events[k]) # 0)
    BY <1>1, QueuesNow DEF Queues, Due
  <2>2. events'[k] = [i \in DOMAIN events[k] |-> events[k][i] - 1]
    BY <1>1
  <2> QED
    BY <2>1, <2>2, Ticked
<1>3. \A k \in Kinds : events[k] # <<>> => Head(events[k]) \in Nat
  BY QueuesNow, OneEvent DEF Queues
<1>4. Queues(events')
  BY <1>1, <1>2 DEF Queues
<1>5. quiet \in 0..QuietTime /\ quiet' \in 0..QuietTime /\ QuietTime \in Nat
  <2>1. QuietTime \in Nat
    BY Rounds
  <2>2. quiet \in 0..QuietTime
    BY DEF IInv, TypeOK
  <2>3. \A n \in Nat : quiet \in 0..n => Lesser(quiet + 1, n) \in 0..n
    BY DEF Lesser
  <2> QED
    BY <1>1, <2>1, <2>2, <2>3, Zenon
<1>6. TypeOK'
  <2>1. {m_alpha_cnp_arrived', m_decrease_cnp_arrived', m_first_cnp'} \subseteq BOOLEAN
    BY <1>1, Zenon DEF IInv, TypeOK
  <2> QED
    BY <1>1, <1>4, <1>5, <2>1 DEF IInv, TypeOK, Queues
<1>7. RatesInBounds' /\ OneEventOfAKind'
  BY <1>1, <1>4 DEF IInv, RatesInBounds, OneEventOfAKind, Queues
<1>8. EventsEndWithFlow' /\ NoCnpNoEvent'
  BY <1>1, <1>2 DEF IInv, EventsEndWithFlow, NoCnpNoEvent
<1>9. OddDistance'
  <2> SUFFICES ASSUME events["alpha"] # <<>>, events["decrease"] # <<>>
               PROVE  (Head(events'["alpha"]) - Head(events'["decrease"])) % 2 = 1
    BY <1>2, KindsDiffer DEF OddDistance
  <2>1. (Head(events["alpha"]) - Head(events["decrease"])) % 2 = 1
    BY DEF IInv, OddDistance
  <2>2. Head(events["alpha"]) \in Nat /\ Head(events["decrease"]) \in Nat
    BY <1>3, KindsDiffer
  <2>3. Head(events'["alpha"]) = Head(events["alpha"]) - 1
        /\ Head(events'["decrease"]) = Head(events["decrease"]) - 1
    BY <1>2, KindsDiffer
  <2>4. \A a, d \in Nat : (a - d) % 2 = 1 => ((a - 1) - (d - 1)) % 2 = 1
    BY SMT
  <2> QED
    BY <2>1, <2>2, <2>3, <2>4, Zenon
<1>10. QuietSinceDecrease'
  <2> SUFFICES ASSUME events["increase"] # <<>>, quiet' # QuietTime
               PROVE  quiet' + Head(events'["increase"]) >= (m_rpTimeStage + 1) * IncreaseDelay
    BY <1>1, <1>2, KindsDiffer DEF QuietSinceDecrease
  <2>1. quiet' = quiet + 1 /\ quiet # QuietTime
    BY <1>1, <1>5 DEF Lesser
  <2>2. quiet + Head(events["increase"]) >= (m_rpTimeStage + 1) * IncreaseDelay
    BY <2>1 DEF IInv, QuietSinceDecrease
  <2>3. Head(events["increase"]) \in Nat /\ Head(events'["increase"]) = Head(events["increase"]) - 1
    BY <1>2, <1>3, KindsDiffer
  <2>4. quiet' + Head(events'["increase"]) = quiet + Head(events["increase"])
    BY <1>5, <2>1, <2>3
  <2> QED
    BY <2>2, <2>4, Zenon
<1> QED
  BY <1>6, <1>7, <1>8, <1>9, <1>10 DEF IInv

-----------------------------------------------------------------------------
(* The theorems *)

(* The invariant is inductive, and holds in every reachable state.          *)
THEOREM Inductive == Spec => []IInv
<1>1. ASSUME IInv, [Next]_vars PROVE IInv'
  <2>1. ASSUME NEW cnp \in BOOLEAN, NEW last \in BOOLEAN, ReceiveAck(cnp, last) PROVE IInv'
    BY <1>1, <2>1, AckInv
  <2>2. CASE UpdateAlpha
    BY <1>1, <2>2, AlphaInv
  <2>3. CASE CheckRateDecrease
    BY <1>1, <2>3, DecreaseInv
  <2>4. CASE RateIncEventTimer
    BY <1>1, <2>4, IncreaseInv
  <2>5. CASE Tick
    BY <1>1, <2>5, TickInv
  <2>6. CASE UNCHANGED vars
    BY <1>1, <2>6 DEF vars, rateVars, cnpVars, IInv, TypeOK, RatesInBounds, OneEventOfAKind,
       EventsEndWithFlow, NoCnpNoEvent, OddDistance, QuietSinceDecrease
  <2> QED
    BY <1>1, <2>1, <2>2, <2>3, <2>4, <2>5, <2>6 DEF Next
<1> QED
  BY <1>1, InitInv, PTL DEF Spec

(* Rates, alpha, the stage and the times left of the events have their      *)
(* types, whatever the rates, gains and periods configured.                 *)
THEOREM TypeCorrect == Spec => []TypeOK
<1>1. IInv => TypeOK
  BY DEF IInv
<1> QED
  BY <1>1, Inductive, PTL

(* The rate of a throttled flow never leaves the range from the minimum to  *)
(* its target, nor the target what the device can send, although the        *)
(* decrease and the increases each check one bound only.                    *)
THEOREM RatesStayInBounds == Spec => []RatesInBounds
<1>1. IInv => RatesInBounds
  BY DEF IInv
<1> QED
  BY <1>1, Inductive, PTL

(* No timer of the flow ever runs twice: what CheckRateDecrease restarts it *)
(* has cancelled, and every other event reschedules itself alone.           *)
THEOREM TimersRunOnce == Spec => []OneEventOfAKind
<1>1. IInv => OneEventOfAKind
  BY DEF IInv
<1> QED
  BY <1>1, Inductive, PTL

(* QpComplete ends every event of the flow, but for a first CNP on the ACK  *)
(* that completes it.                                                       *)
THEOREM NoEventSurvives == Spec => []EventsEndWithFlow
<1>1. IInv => EventsEndWithFlow
  BY DEF IInv
<1> QED
  BY <1>1, Inductive, PTL

(* The nanosecond added to the first decrease keeps the decrease check and  *)
(* the update of alpha at different times for ever, for all periods of      *)
(* whole microseconds.                                                      *)
THEOREM NeverAtOnce == Spec => []DecreaseAfterAlpha
<1>1. IInv => DecreaseAfterAlpha
  <2> SUFFICES ASSUME IInv, Due("decrease"), Due("alpha") PROVE FALSE
    BY DEF DecreaseAfterAlpha
  <2>1. (0 - 0) % 2 = 1
    BY DEF IInv, OddDistance, Due
  <2> QED
    BY <2>1
<1> QED
  BY <1>1, Inductive, PTL

(* The target is raised only when a whole recovery, m_rpgThreshold rounds   *)
(* and one more, has passed since the last decrease.                        *)
THEOREM RecoveryComesFirst == Spec => RecoverBeforeIncrease
<1>1. ASSUME IInv, [Next]_vars, m_targetRate' > m_targetRate
      PROVE  quiet = QuietTime
  <2>1. /\ m_rate \in Nat /\ m_targetRate \in Nat /\ m_rate <= m_targetRate
        /\ m_targetRate <= m_max_rate /\ quiet \in 0..QuietTime
        /\ m_rpTimeStage \in 0..(m_rpgThreshold + 1)
    BY <1>1 DEF IInv, TypeOK, RatesInBounds
  <2>2. ASSUME NEW cnp \in BOOLEAN, NEW last \in BOOLEAN, ReceiveAck(cnp, last) PROVE FALSE
    <3>1. m_targetRate' = m_targetRate \/ (m_first_cnp /\ m_targetRate' = FirstRate)
      BY <2>2 DEF ReceiveAck, CnpReceived, rateVars
    <3>2. m_first_cnp => FirstRate <= m_max_rate /\ m_targetRate = m_max_rate /\ FirstRate \in Nat
      BY <1>1, Constants, Part DEF IInv, NoCnpNoEvent, FirstRate
    <3> QED
      BY <1>1, <2>1, <3>1, <3>2, Constants
  <2>3. CASE RateIncEventTimer
    <3>1. m_rpTimeStage >= m_rpgThreshold
      BY <1>1, <2>1, <2>3, Constants DEF RateIncEventTimer, IncreasedTarget
    <3>2. events["increase"] # <<>> /\ Head(events["increase"]) = 0
      BY <2>3 DEF RateIncEventTimer, Due
    <3>3. quiet = QuietTime \/ quiet + 0 >= (m_rpTimeStage + 1) * IncreaseDelay
      BY <1>1, <3>2 DEF IInv, QuietSinceDecrease
    <3>4. (m_rpTimeStage + 1) * IncreaseDelay >= QuietTime
          /\ (m_rpTimeStage + 1) * IncreaseDelay \in Nat
      <4>1. m_rpTimeStage + 1 \in Nat /\ m_rpgThreshold + 1 \in Nat
            /\ m_rpgThreshold + 1 <= m_rpTimeStage + 1
        BY <2>1, <3>1, Constants
      <4>2. (m_rpgThreshold + 1) * IncreaseDelay <= (m_rpTimeStage + 1) * IncreaseDelay
            /\ (m_rpTimeStage + 1) * IncreaseDelay \in Nat
        BY <4>1, Rounds
      <4> DEFINE a == (m_rpTimeStage + 1) * IncreaseDelay
                 b == (m_rpgThreshold + 1) * IncreaseDelay
      <4>3. b <= a /\ a \in Nat /\ QuietTime = b /\ QuietTime \in Nat
        BY <4>2, Rounds
      <4> HIDE DEF a, b
      <4>4. a >= QuietTime
        BY <4>3
      <4> QED
        BY <4>3, <4>4 DEF a
    <3> DEFINE a == (m_rpTimeStage + 1) * IncreaseDelay
    <3>5. (quiet = QuietTime \/ quiet + 0 >= a) /\ a >= QuietTime /\ a \in Nat
      BY <3>3, <3>4
    <3> HIDE DEF a
    <3>6. \A n \in Nat : (quiet \in 0..n /\ (quiet = n \/ quiet + 0 >= a) /\ a >= n) => quiet = n
      BY <3>5
    <3>7. QuietTime \in Nat
      BY Rounds
    <3> QED
      BY <2>1, <3>5, <3>6, <3>7, Zenon
  <2>4. CASE CheckRateDecrease
    <3>1. m_targetRate' = m_targetRate \/ m_targetRate' = m_rate
      BY <2>4 DEF CheckRateDecrease, rateVars
    <3> QED
      BY <1>1, <2>1, <3>1
  <2>5. ASSUME m_targetRate' = m_targetRate PROVE FALSE
    BY <1>1, <2>1, <2>5
  <2>6. CASE UpdateAlpha \/ Tick \/ UNCHANGED vars
    BY <2>5, <2>6 DEF UpdateAlpha, Tick, vars, rateVars
  <2> QED
    BY <1>1, <2>2, <2>3, <2>4, <2>6 DEF Next
<1>2. IInv /\ [Next]_vars => [m_targetRate' > m_targetRate => quiet = QuietTime]_vars
  BY <1>1
<1> QED
  BY <1>2, Inductive, PTL DEF Spec, RecoverBeforeIncrease

=============================================================================
