----------------------------- MODULE SpinlockRV -----------------------------
(* The spinlock as it is compiled for RISC-V: spin_lock and spin_unlock of   *)
(* include/sync/atomic.hpp over the primitives of include/sync/rvlock.hpp.   *)
(* One step is one access to lock->locked; memory is sequentially            *)
(* consistent, which the .aq of amoswap and the fences stand for.            *)
EXTENDS Integers

CONSTANT Threads

VARIABLES locked, pc

vars == <<locked, pc>>

Init == locked = 0 /\ pc = [t \in Threads |-> "out"]

Goto(t, label) == pc' = [pc EXCEPT ![t] = label]

spin_lock(t) ==
  /\ pc[t] = "out"
  /\ Goto(t, "try")
  /\ UNCHANGED locked

\* amoswap.w.aq: 1 goes in whatever comes out; a 0 that comes out is the lock.
atomic_exchange_acquire(t) ==
  /\ locked' = 1
  /\ Goto(t, IF locked = 0 THEN "in" ELSE "spin")

\* The exchange before the loop, and the one inside it.
FirstSwap(t) == pc[t] = "try" /\ atomic_exchange_acquire(t)

\* atomic_load in the loop; on a 1 cpu_relax (a fence) leads back to it.
LoopLoad(t) ==
  /\ pc[t] = "spin" /\ locked = 0
  /\ Goto(t, "swap")
  /\ UNCHANGED locked

\* Mutant: the loop enters on its load, without an exchange that tests.
LoopSwapBlind(t) ==
  /\ pc[t] = "swap"
  /\ locked' = 1
  /\ Goto(t, "in")

LoopSwap(t) == pc[t] = "swap" /\ atomic_exchange_acquire(t)

\* Mutant: the release does not store.
spin_unlock_nothing(t) ==
  /\ pc[t] = "in"
  /\ Goto(t, "out")
  /\ UNCHANGED locked

\* fence rw, w; sw zero.
spin_unlock(t) ==
  /\ pc[t] = "in"
  /\ locked' = 0
  /\ Goto(t, "out")

\* The steps of a thread inside spin_lock.
Locking(t) == FirstSwap(t) \/ LoopLoad(t) \/ LoopSwap(t)

Next == \E t \in Threads : spin_lock(t) \/ Locking(t) \/ spin_unlock(t)

Spec == Init /\ [][Next]_vars

\* A CPU inside spin_lock keeps executing.
FairSpec == Spec /\ \A t \in Threads : WF_vars(Locking(t))

----------------------------------------------------------------------------
(* Properties.                                                             *)

\* Every variable keeps its type.
TypeOK == locked \in {0, 1} /\ pc \in [Threads -> {"out", "try", "spin", "swap", "in"}]

\* spin_lock returns to one thread at a time, and the word is 1 exactly while
\* some thread has the lock: the blind stores of 1 by threads that lose the
\* exchange never outlive the owner.
MutualExclusion ==
  /\ \A t, u \in Threads : pc[t] = "in" /\ pc[u] = "in" => t = u
  /\ locked = 1 <=> \E t \in Threads : pc[t] = "in"

WantBar == {t \in Threads : pc[t] \in {"try", "spin", "swap"}}
CsBar   == {t \in Threads : pc[t] = "in"}

Abstract == INSTANCE SpinlockSpec WITH want <- WantBar, cs <- CsBar

\* The loop implements the abstract lock, step by step.
Implements == Abstract!Spec

\* While some thread spins in spin_lock, some thread gets the lock or has it:
\* threads that lose the exchange never keep each other out for ever.
LockProgress == Abstract!Progress
=============================================================================
