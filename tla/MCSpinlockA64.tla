--------------------------- MODULE MCSpinlockA64 ---------------------------
(* An instance of SpinlockA64.                                              *)
EXTENDS SpinlockA64
CONSTANTS t1, t2, t3, t4
=============================================================================
