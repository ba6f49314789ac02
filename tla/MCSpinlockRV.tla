--------------------------- MODULE MCSpinlockRV ---------------------------
(* An instance of SpinlockRV.                                              *)
EXTENDS SpinlockRV
CONSTANTS t1, t2, t3, t4
=============================================================================
