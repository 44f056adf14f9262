----------------------------- MODULE MCSwitchMmu -----------------------------
(* Two ingress ports and one egress port of a switch, headroom and reserve   *)
(* on every queue, sizes in units of half an MTU.                            *)
EXTENDS SwitchMmu

MCPorts == 1..3
MCQueues == {1, 3}
Each(n) == [p \in MCPorts |-> [q \in MCQueues |-> n]]
MCPools == [c \in Classes |-> IF c = "LOSSY" THEN 5 ELSE 20]
MCOne == Each(1)
MCTwo == Each(2)
MCThree == Each(3)
MCBig == Each(20)

(* Both classes in one queue, towards port 3; the lossy packets carry the    *)
(* unscheduled tag that raises alpha under FAB.                              *)
MCMixedPackets ==
  {[in |-> p, out |-> 3, q |-> 3, size |-> s, type |-> c, unsched |-> c = "LOSSY"] :
      p \in 1..2, s \in 1..2, c \in Classes}
MCFAB == [c \in Classes |-> "FAB"]
=============================================================================
