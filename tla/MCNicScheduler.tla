---------------------------- MODULE MCNicScheduler ----------------------------
(* Two flows of class 3, as ACKs are, and TCP in class 1.  With two        *)
(* packets a reply may acknowledge more than snd_nxt after a NACK.         *)
EXTENDS NicScheduler

MCFlows == 1..2
MCSize == [f \in MCFlows |-> IF f = 1 THEN 2 ELSE 1]
MCClasses == {1, 3}
MCPg == [f \in MCFlows |-> 3]
MCPfc == {3}
MCStopping == {2}
=============================================================================
