---------------------------- MODULE MCSwitchNode ----------------------------
(* Port 3 sends, port 1 (and port 2) receive; RDMA traffic in queue 3, TCP   *)
(* traffic in queue 1, sizes in MTUs.                                        *)
EXTENDS SwitchNode

TwoPorts == {1, 3}
ThreePorts == 1..3
NoPort == {}
Port3 == {<<3, 3>>}
OnlyRdma == {3}
RdmaAndTcp == {1, 3}

Rdma(p) == [in |-> p, out |-> 3, q |-> 3, size |-> 1, type |-> "LOSSLESS", unsched |-> FALSE]
Tcp(p) == [in |-> p, out |-> 3, q |-> 1, size |-> 1, type |-> "LOSSY", unsched |-> FALSE]
OneRdma == {Rdma(1)}
OneOfEach == {Rdma(1), Tcp(1)}
TwoRdma == {Rdma(1), Rdma(2)}
TwoRdmaOneTcp == {Rdma(1), Rdma(2), Tcp(2)}
NoControl == {}
Acks == {[in |-> 1, out |-> 3, q |-> 0, size |-> 1]}

Each(n) == [p \in Ports |-> [q \in Queues |-> n]]
None == Each(0)
One == Each(1)
Plenty == Each(20)
Headroom2 == [p \in Ports |-> [q \in Queues |-> IF q = 3 /\ p # 3 THEN 2 ELSE 0]]
Pools == [c \in {"LOSSLESS", "LOSSY"} |-> IF c = "LOSSY" THEN 2 ELSE 20]
DT == [c \in {"LOSSLESS", "LOSSY"} |-> "DT"]
=============================================================================
