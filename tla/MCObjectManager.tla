-------------------------- MODULE MCObjectManager --------------------------
(* Instances of ObjectManager.                                             *)
EXTENDS ObjectManager, TLC

CONSTANTS s1, s2, t1, t2, read, write

MCSymmetry == Permutations(Slots) \cup Permutations(Threads)
=============================================================================
