--------------------------- MODULE ReliableTransfer ---------------------------
(***************************************************************************)
(* What an RDMA flow promises: the receiver gets m_size bytes in order,    *)
(* and the sender reports completion only when it has all of them - or     *)
(* when the flow's stop time has passed.                                   *)
(***************************************************************************)
EXTENDS Naturals

CONSTANTS m_size, MayStop

VARIABLES received, expired, completed

Init == received = 0 /\ expired = FALSE /\ completed = FALSE

Deliver ==
  /\ ~completed \/ expired
  /\ received' \in (received + 1)..m_size
  /\ UNCHANGED <<expired, completed>>

Expire ==
  /\ MayStop /\ expired' = TRUE
  /\ UNCHANGED <<received, completed>>

Complete ==
  /\ ~completed
  /\ received = m_size \/ expired
  /\ completed' = TRUE
  /\ UNCHANGED <<received, expired>>

Next == Deliver \/ Expire \/ Complete

Spec == Init /\ [][Next]_<<received, expired, completed>>
=============================================================================
