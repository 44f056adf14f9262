---------------------------- MODULE MCDcqcnTimers ----------------------------
(* A flow at a device of rate 13, alpha in quarters, gain one half, short    *)
(* periods that fall together every few microseconds.                        *)
EXTENDS DcqcnTimers
=============================================================================
