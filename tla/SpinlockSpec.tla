---------------------------- MODULE SpinlockSpec ----------------------------
(* What spin_lock and spin_unlock (include/sync/atomic.hpp) promise: one    *)
(* thread at a time is between the two, and while the lock is free and      *)
(* wanted, some thread that wants it gets it.  Which one is not promised.   *)
CONSTANT Threads

VARIABLES
  want,   \* threads that called spin_lock and have not returned from it
  cs      \* threads that returned from it and have not released the lock

Init == want = {} /\ cs = {}

Request(t) ==
  /\ t \notin want \cup cs
  /\ want' = want \cup {t}
  /\ UNCHANGED cs

Enter(t) ==
  /\ t \in want
  /\ cs = {}
  /\ cs' = {t}
  /\ want' = want \ {t}

Exit(t) ==
  /\ t \in cs
  /\ cs' = cs \ {t}
  /\ UNCHANGED want

Next == \E t \in Threads : Request(t) \/ Enter(t) \/ Exit(t)

Spec == Init /\ [][Next]_<<want, cs>>

Progress == want # {} ~> cs # {}
=============================================================================
