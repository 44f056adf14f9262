---------------------------- MODULE MCRdmaTransport ----------------------------
(* A flow of seven bytes in packets of two, chunks of four: the last packet  *)
(* is short, and ends the flow in the middle of a chunk.                     *)
EXTENDS RdmaTransport
=============================================================================
