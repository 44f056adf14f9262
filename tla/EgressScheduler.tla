--------------------------- MODULE EgressScheduler ---------------------------
(***************************************************************************)
(* The choice BEgressQueue::DoDequeueRR makes among the queues of a port   *)
(* (broadcom-egress-queue.cc).  Queue 0 goes first and is never held back  *)
(* by a pause.  The scan of the others starts at 1 + m_rrlast, and m_rrlast *)
(* is reset to 0 inside the loop, so the lowest eligible index is taken.   *)
(***************************************************************************)
EXTENDS Integers, Sequences, FiniteSetsExt

Eligible(queues, paused) ==
  {q \in DOMAIN queues : q # 0 /\ queues[q] # <<>> /\ ~paused[q]}

CanDequeue(queues, paused) == queues[0] # <<>> \/ Eligible(queues, paused) # {}

NextQueue(queues, paused) ==
  IF queues[0] # <<>> THEN 0 ELSE Min(Eligible(queues, paused))

=============================================================================
