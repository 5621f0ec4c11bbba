--------------------------- MODULE MCOutboundQueue ---------------------------
(* Instances of OutboundQueue for TLC. *)
EXTENDS OutboundQueue

CONSTANTS a, b, a1, a2, b1

(* Instance a runs two relay goroutines, b one. *)
MCInstanceOf == [w \in Workers |-> IF w = b1 THEN b ELSE a]
==============================================================================
