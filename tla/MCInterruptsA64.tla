--------------------------- MODULE MCInterruptsA64 ---------------------------
(* The timer and one other interrupt.                                         *)
EXTENDS InterruptsA64
=============================================================================
