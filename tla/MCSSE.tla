------------------------------- MODULE MCSSE --------------------------------
(* A client with two connection slots, one of which it may have left. *)
EXTENDS SSE

CONSTANTS c1, c2
MCSlots == {c1, c2}
MCRetries == {-1, 9}
=============================================================================
