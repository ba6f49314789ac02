------------------------- MODULE SpinlockA64_proofs -------------------------
(* Mutual exclusion and wake-ups of the arm64 spinlock and its refinement of *)
(* SpinlockSpec, for every set of CPUs.                                      *)
EXTENDS SpinlockA64, TLAPS

\* A monitor is set only between ldaxr and stxr, and while it is, the word is
\* still what ldaxr loaded.
MonitorInv == \A t \in Threads : monitor[t] => pc[t] = "stxr" /\ old[t] = locked

IInv == TypeOK /\ MutualExclusion /\ MonitorInv /\ NoLostWakeup

LEMMA InitIInv == Init => IInv
  BY DEF Init, IInv, TypeOK, MutualExclusion, MonitorInv, NoLostWakeup, Labels

LEMMA NextIInv == IInv /\ [Next]_vars => IInv'
<1> SUFFICES ASSUME IInv, [Next]_vars PROVE IInv'
  OBVIOUS
<1> USE DEF IInv, TypeOK, MutualExclusion, MonitorInv, NoLostWakeup, Labels, Goto, Store
<1>1. CASE UNCHANGED vars
  BY <1>1 DEF vars
<1>2. ASSUME NEW t \in Threads, spin_lock(t) PROVE IInv'
  BY <1>2 DEF spin_lock
<1>3. ASSUME NEW t \in Threads, ldaxr(t) PROVE IInv'
  BY <1>3 DEF ldaxr
<1>4. ASSUME NEW t \in Threads, stxr(t) PROVE IInv'
  <2>1. TypeOK' /\ MonitorInv' /\ NoLostWakeup'
    BY <1>4 DEF stxr
  <2>2. MutualExclusion'
    <3>1. CASE old[t] = 0
      BY <1>4, <3>1 DEF stxr
    <3>2. CASE old[t] # 0
      BY <1>4, <3>2 DEF stxr
    <3> QED BY <3>1, <3>2
  <2> QED BY <2>1, <2>2
<1>5. ASSUME NEW t \in Threads, stxr_fail(t) PROVE IInv'
  BY <1>5 DEF stxr_fail
<1>6. ASSUME NEW t \in Threads, poll(t) PROVE IInv'
  BY <1>6 DEF poll
<1>7. ASSUME NEW t \in Threads, wfe(t) PROVE IInv'
  BY <1>7 DEF wfe
<1>8. ASSUME NEW t \in Threads, spin_unlock(t) PROVE IInv'
  BY <1>8 DEF spin_unlock
<1>9. ASSUME NEW t \in Threads, sev(t) PROVE IInv'
  BY <1>9 DEF sev
<1> QED
  BY <1>1, <1>2, <1>3, <1>4, <1>5, <1>6, <1>7, <1>8, <1>9 DEF Next, Locking

\* Type correctness.
THEOREM TypeCorrect == Spec => []TypeOK
<1>1. IInv => TypeOK
  BY DEF IInv
<1> QED BY <1>1, InitIInv, NextIInv, PTL DEF Spec

\* One CPU at a time is between spin_lock and spin_unlock, and locked is 1
\* exactly then.
THEOREM Exclusion == Spec => []MutualExclusion
<1>1. IInv => MutualExclusion
  BY DEF IInv
<1> QED BY <1>1, InitIInv, NextIInv, PTL DEF Spec

\* A CPU that sleeps in wfe on a free lock has its wake-up set or on its way.
THEOREM WakeupNotLost == Spec => []NoLostWakeup
<1>1. IInv => NoLostWakeup
  BY DEF IInv
<1> QED BY <1>1, InitIInv, NextIInv, PTL DEF Spec

\* Every step of the arm64 loop is a step of the abstract lock or leaves it as
\* it was.
THEOREM Refinement == Spec => Implements
<1>1. Init => Abstract!Init
  BY DEF Init, Abstract!Init, WantBar, CsBar
<1>2. IInv /\ [Next]_vars => [Abstract!Next]_<<WantBar, CsBar>>
  <2> SUFFICES ASSUME IInv, [Next]_vars
               PROVE  [Abstract!Next]_<<WantBar, CsBar>>
    OBVIOUS
  <2> USE DEF IInv, TypeOK, Labels, Goto, WantBar, CsBar
  <2>1. CASE UNCHANGED vars
    BY <2>1 DEF vars
  <2>2. ASSUME NEW t \in Threads, spin_lock(t) PROVE Abstract!Request(t)
    BY <2>2 DEF spin_lock, Abstract!Request
  <2>3. ASSUME NEW t \in Threads, stxr(t)
        PROVE  Abstract!Enter(t) \/ UNCHANGED <<WantBar, CsBar>>
    <3>1. CASE old[t] = 0
      BY <2>3, <3>1 DEF stxr, Abstract!Enter, MutualExclusion, MonitorInv
    <3>2. CASE old[t] # 0
      BY <2>3, <3>2 DEF stxr
    <3> QED BY <3>1, <3>2
  <2>4. ASSUME NEW t \in Threads, ldaxr(t) \/ stxr_fail(t) \/ poll(t) \/ wfe(t) \/ sev(t)
        PROVE  UNCHANGED <<WantBar, CsBar>>
    BY <2>4 DEF ldaxr, stxr_fail, poll, wfe, sev
  <2>5. ASSUME NEW t \in Threads, spin_unlock(t) PROVE Abstract!Exit(t)
    BY <2>5 DEF spin_unlock, Abstract!Exit
  <2> QED
    BY <2>1, <2>2, <2>3, <2>4, <2>5 DEF Next, Locking, Abstract!Next
<1> QED
  BY <1>1, <1>2, InitIInv, NextIInv, PTL DEF Spec, Implements, Abstract!Spec
=============================================================================
