-------------------------------- MODULE MCUfcc --------------------------------
(* Round-trip times without a queue, with a standing queue and of a burst;   *)
(* rates from 10 to 22.                                                      *)
EXTENDS Ufcc

ThreeRtts == {1, 5, 7}
=============================================================================
