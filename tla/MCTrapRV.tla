------------------------------ MODULE MCTrapRV ------------------------------
(* Two ticks of three time units; the timer is up to two periods late.       *)
EXTENDS TrapRV
=============================================================================
