--------------------------- MODULE MCSharedBuffer ---------------------------
(* Two ports with a queue for ACKs of size 1 and one for data, the last      *)
(* packet of a flow short.  Every policy without a reserve, two with it, and *)
(* LQD in a build with and without assertions.                               *)
EXTENDS SharedBuffer

AckAndData == {[priority |-> 0, size |-> 1], [priority |-> 1, size |-> 2],
               [priority |-> 1, size |-> 1]}
Sharing(policies, size) ==
  [bufferalg: policies, staticBuffer: {0}, TotalBuffer: {size}, assertions: {FALSE}]
Asserting(policies, size) ==
  [bufferalg: policies, staticBuffer: {0}, TotalBuffer: {size}, assertions: {TRUE}]
Reserving(policies, size) ==
  [bufferalg: policies, staticBuffer: {2}, TotalBuffer: {size}, assertions: {FALSE}]
EveryPolicy ==
  Sharing({"DT", "FAB", "CS", "LQD"}, 7) \cup Sharing({"CREDENCE"}, 4) \cup Sharing({"ABM"}, 3)
    \cup Asserting({"LQD"}, 5) \cup Reserving({"CS"}, 3) \cup Reserving({"LQD"}, 2)
One == [q \in Queues |-> 1]
HalfOrFull == {1, 2}
=============================================================================
