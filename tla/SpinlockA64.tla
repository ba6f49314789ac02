---------------------------- MODULE SpinlockA64 -----------------------------
(* The spinlock as it is compiled for arm64: spin_lock and spin_unlock of    *)
(* include/sync/atomic.hpp over the primitives of include/sync/a64lock.hpp,  *)
(* down to the exclusive pair, wfe and sev.  The exclusive monitor and the   *)
(* event register are the architecture's: a store to the word by another     *)
(* CPU clears a monitor, clearing a monitor sets the event register, sev     *)
(* sets all of them, wfe waits for its own and clears it, and stxr may fail  *)
(* for no reason.                                                            *)
EXTENDS Integers

CONSTANT Threads

VARIABLES
  locked,
  pc,
  old,       \* what ldaxr loaded
  monitor,   \* is the CPU's exclusive monitor set?
  event      \* its event register

vars == <<locked, pc, old, monitor, event>>

Init ==
  /\ locked = 0
  /\ pc = [t \in Threads |-> "out"]
  /\ old = [t \in Threads |-> 0]
  /\ monitor = [t \in Threads |-> FALSE]
  /\ event \in [Threads -> BOOLEAN]

Goto(t, label) == pc' = [pc EXCEPT ![t] = label]

\* A store to the word, by t.
Store(t, val) ==
  /\ locked' = val
  /\ monitor' = [u \in Threads |-> FALSE]
  /\ event' = [u \in Threads |-> event[u] \/ (u # t /\ monitor[u])]

spin_lock(t) ==
  /\ pc[t] = "out"
  /\ Goto(t, "ldaxr")
  /\ UNCHANGED <<locked, old, monitor, event>>

ldaxr(t) ==
  /\ pc[t] = "ldaxr"
  /\ old' = [old EXCEPT ![t] = locked]
  /\ monitor' = [monitor EXCEPT ![t] = TRUE]
  /\ Goto(t, "stxr")
  /\ UNCHANGED <<locked, event>>

\* The store happens: the value exchanged for the 1 decides.
stxr(t) ==
  /\ pc[t] = "stxr"
  /\ monitor[t]
  /\ Store(t, 1)
  /\ Goto(t, IF old[t] = 0 THEN "in" ELSE "poll")
  /\ UNCHANGED old

\* Mutant: the status of the store is not tested.
stxr_unchecked(t) ==
  /\ pc[t] = "stxr"
  /\ monitor' = [monitor EXCEPT ![t] = FALSE]
  /\ Goto(t, IF old[t] = 0 THEN "in" ELSE "poll")
  /\ UNCHANGED <<locked, old, event>>

\* It does not, and cbnz goes back to the load.
stxr_fail(t) ==
  /\ pc[t] = "stxr"
  /\ monitor' = [monitor EXCEPT ![t] = FALSE]
  /\ Goto(t, "ldaxr")
  /\ UNCHANGED <<locked, old, event>>

\* while (lock->locked != 0)
poll(t) ==
  /\ pc[t] = "poll"
  /\ Goto(t, IF locked = 0 THEN "ldaxr" ELSE "wfe")
  /\ UNCHANGED <<locked, old, monitor, event>>

\* cpu_relax()
wfe(t) ==
  /\ pc[t] = "wfe"
  /\ event[t]
  /\ event' = [event EXCEPT ![t] = FALSE]
  /\ Goto(t, "poll")
  /\ UNCHANGED <<locked, old, monitor>>

\* Mutant: the release does not store.
spin_unlock_nothing(t) ==
  /\ pc[t] = "in"
  /\ Goto(t, "sev")
  /\ UNCHANGED <<locked, old, monitor, event>>

\* atomic_store_release: stlr ...
spin_unlock(t) ==
  /\ pc[t] = "in"
  /\ Store(t, 0)
  /\ Goto(t, "sev")
  /\ UNCHANGED old

\* Mutant: no sev follows the store.
sev_missing(t) ==
  /\ pc[t] = "sev"
  /\ Goto(t, "out")
  /\ UNCHANGED <<locked, old, monitor, event>>

\* ... and sev.
sev(t) ==
  /\ pc[t] = "sev"
  /\ event' = [u \in Threads |-> TRUE]
  /\ Goto(t, "out")
  /\ UNCHANGED <<locked, old, monitor>>

Locking(t) == ldaxr(t) \/ stxr(t) \/ stxr_fail(t) \/ poll(t) \/ wfe(t)

Next == \E t \in Threads : spin_lock(t) \/ Locking(t) \/ spin_unlock(t) \/ sev(t)

Spec == Init /\ [][Next]_vars

\* A CPU keeps executing inside the primitives, and a store-exclusive that is
\* tried again and again succeeds in the end: strong fairness, without which
\* no load-exclusive/store-exclusive loop makes progress.
FairSpec ==
  /\ Spec
  /\ \A t \in Threads : WF_vars(Locking(t)) /\ WF_vars(sev(t)) /\ SF_vars(stxr(t))

----------------------------------------------------------------------------
(* Properties.                                                             *)

Labels == {"out", "ldaxr", "stxr", "poll", "wfe", "in", "sev"}

\* Every variable keeps its type.
TypeOK ==
  /\ locked \in {0, 1}
  /\ pc \in [Threads -> Labels]
  /\ old \in [Threads -> {0, 1}]
  /\ monitor \in [Threads -> BOOLEAN]
  /\ event \in [Threads -> BOOLEAN]

\* spin_lock returns to one thread at a time, and the word is 1 exactly while
\* some thread has the lock: a 1 that was loaded before a release is never
\* stored back after it.
MutualExclusion ==
  /\ \A t, u \in Threads : pc[t] = "in" /\ pc[u] = "in" => t = u
  /\ locked = 1 <=> \E t \in Threads : pc[t] = "in"

\* A CPU asleep in wfe while the lock is free is about to be woken: its event
\* register is set or the releasing CPU has its sev before it.
NoLostWakeup ==
  \A t \in Threads : pc[t] = "wfe" /\ locked = 0 =>
    event[t] \/ \E u \in Threads : pc[u] = "sev"

WantBar == {t \in Threads : pc[t] \in {"ldaxr", "stxr", "poll", "wfe"}}
CsBar   == {t \in Threads : pc[t] = "in"}

Abstract == INSTANCE SpinlockSpec WITH want <- WantBar, cs <- CsBar

\* The loop implements the abstract lock, step by step.
Implements == Abstract!Spec

\* While some thread spins or sleeps in spin_lock, some thread gets the lock
\* or has it.
LockProgress == Abstract!Progress
=============================================================================
