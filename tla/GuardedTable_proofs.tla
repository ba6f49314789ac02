------------------------ MODULE GuardedTable_proofs ------------------------
(***************************************************************************)
(* The id table of the object manager: the spinlock that guards it, as it  *)
(* is compiled for RISC-V, and the hash table under it.                    *)
(*                                                                         *)
(* The lock: mutual exclusion and the refinement of SpinlockSpec, for      *)
(* every set of threads.  The table: the lists are exact (ListsExact) and  *)
(* implement a stack of values for each key (KeyStacks), for all keys,     *)
(* values and buckets, every hash and every finite set of nodes.           *)
(***************************************************************************)
EXTENDS HashTable, SpinlockRV, TLAPS, FiniteSetTheorems, WellFoundedInduction

----------------------------------------------------------------------------
(* The lock.                                                               *)

IInv == TypeOK /\ MutualExclusion

LEMMA InitIInv == Init => IInv
  BY DEF Init, IInv, TypeOK, MutualExclusion

LEMMA NextIInv == IInv /\ [Next]_vars => IInv'
<1> SUFFICES ASSUME IInv, [Next]_vars PROVE IInv'
  OBVIOUS
<1> USE DEF IInv, TypeOK, MutualExclusion, Goto
<1>1. CASE UNCHANGED vars
  BY <1>1 DEF vars
<1>2. ASSUME NEW t \in Threads, spin_lock(t) PROVE IInv'
  BY <1>2 DEF spin_lock
<1>3. ASSUME NEW t \in Threads, FirstSwap(t) PROVE IInv'
  BY <1>3 DEF FirstSwap, atomic_exchange_acquire
<1>4. ASSUME NEW t \in Threads, LoopLoad(t) PROVE IInv'
  BY <1>4 DEF LoopLoad
<1>5. ASSUME NEW t \in Threads, LoopSwap(t) PROVE IInv'
  BY <1>5 DEF LoopSwap, atomic_exchange_acquire
<1>6. ASSUME NEW t \in Threads, spin_unlock(t) PROVE IInv'
  BY <1>6 DEF spin_unlock
<1> QED
  BY <1>1, <1>2, <1>3, <1>4, <1>5, <1>6 DEF Next, Locking

\* One thread at a time is between spin_lock and spin_unlock, and locked is 1
\* exactly then.
THEOREM Exclusion == Spec => []MutualExclusion
<1>1. IInv => MutualExclusion
  BY DEF IInv
<1> QED BY <1>1, InitIInv, NextIInv, PTL DEF Spec

\* Type correctness.
THEOREM TypeCorrect == Spec => []TypeOK
<1>1. IInv => TypeOK
  BY DEF IInv
<1> QED BY <1>1, InitIInv, NextIInv, PTL DEF Spec

\* Every step of the RISC-V loop is a step of the abstract lock or leaves it
\* as it was.
THEOREM Refinement == Spec => Implements
<1>1. Init => Abstract!Init
  BY DEF Init, Abstract!Init, WantBar, CsBar
<1>2. IInv /\ [Next]_vars => [Abstract!Next]_<<WantBar, CsBar>>
  <2> SUFFICES ASSUME IInv, [Next]_vars
               PROVE  [Abstract!Next]_<<WantBar, CsBar>>
    OBVIOUS
  <2> USE DEF IInv, TypeOK, MutualExclusion, Goto, WantBar, CsBar
  <2>1. CASE UNCHANGED vars
    BY <2>1 DEF vars
  <2>2. ASSUME NEW t \in Threads, spin_lock(t) PROVE Abstract!Request(t)
    BY <2>2 DEF spin_lock, Abstract!Request
  <2>3. ASSUME NEW t \in Threads, FirstSwap(t) \/ LoopSwap(t)
        PROVE  Abstract!Enter(t) \/ UNCHANGED <<WantBar, CsBar>>
    <3>1. CASE locked = 0
      BY <2>3, <3>1 DEF FirstSwap, LoopSwap, atomic_exchange_acquire, Abstract!Enter
    <3>2. CASE locked # 0
      BY <2>3, <3>2 DEF FirstSwap, LoopSwap, atomic_exchange_acquire
    <3> QED BY <3>1, <3>2
  <2>4. ASSUME NEW t \in Threads, LoopLoad(t) PROVE UNCHANGED <<WantBar, CsBar>>
    BY <2>4 DEF LoopLoad
  <2>5. ASSUME NEW t \in Threads, spin_unlock(t) PROVE Abstract!Exit(t)
    BY <2>5 DEF spin_unlock, Abstract!Exit
  <2> QED
    BY <2>1, <2>2, <2>3, <2>4, <2>5 DEF Next, Locking, Abstract!Next
<1> QED
  BY <1>1, <1>2, InitIInv, NextIInv, PTL DEF Spec, Implements, Abstract!Spec

----------------------------------------------------------------------------
(* Least elements, and the induction that they give.                       *)

\* Every non-empty set of naturals has a least element, and Min is it.
LEMMA MinIsLeast ==
  ASSUME NEW S \in SUBSET Nat, S # {}
  PROVE  Min(S) \in S /\ \A x \in S : Min(S) <= x
<1> DEFINE Less == OpToRel(<, Nat)
<1>1. \E m \in S : \A x \in S : ~ (<<x, m>> \in Less)
  <2>1. IsWellFoundedOn(Less, Nat)
    BY NatLessThanWellFounded
  <2> HIDE DEF Less
  <2> QED BY <2>1, WFMin
<1>2. \A x, m \in S : x < m => <<x, m>> \in Less
  BY DEF OpToRel
<1>3. \E m \in S : \A x \in S : m <= x
  <2> HIDE DEF Less
  <2>1. PICK m \in S : \A x \in S : ~ (<<x, m>> \in Less)
    BY <1>1
  <2>2. \A x \in S : m <= x
    <3> TAKE x \in S
    <3>1. ~ (x < m)
      BY <2>1, <1>2, Zenon
    <3> QED BY <3>1
  <2> QED BY <2>2
<1> QED BY <1>3 DEF Min

\* A set that has 0 and, with every number below m, the next one, has the numbers up to m.
LEMMA UpTo ==
  ASSUME NEW m \in Nat, NEW S, 0 \in S, \A n \in 0 .. m - 1 : n \in S => n + 1 \in S
  PROVE  \A n \in 0 .. m : n \in S
<1> SUFFICES ASSUME NEW x \in 0 .. m, x \notin S PROVE FALSE
  OBVIOUS
<1>1. PICK T : T = {n \in 0 .. m : n \notin S}
  OBVIOUS
<1>2. T \in SUBSET Nat /\ T # {}
  BY <1>1
<1>3. PICK k : k = Min(T) /\ k \in T /\ \A y \in T : k <= y
  BY <1>2, MinIsLeast
<1>4. k \in 0 .. m /\ k \notin S /\ k # 0
  BY <1>1, <1>3
<1>5. k - 1 \in 0 .. m - 1 /\ k - 1 \in S
  BY <1>1, <1>3, <1>4
<1>6. (k - 1) + 1 \in S
  BY <1>5
<1> QED BY <1>4, <1>6

----------------------------------------------------------------------------
(* The order of positions.                                                 *)

\* As many positions as there are nodes, and one more for the end.
Size == Cardinality(Nodes)

LEMMA SizeIsNat == Size \in Nat
  BY HashAssumption, FS_CardinalityType DEF Size

\* p lists the elements of S in increasing order.
Ordered(p, S) ==
  /\ p \in Seq(S)
  /\ \A i, j \in 1 .. Len(p) : i < j => p[i] < p[j]
  /\ \A x \in S : \E i \in 1 .. Len(p) : p[i] = x

\* There is at most one order: where two first differ, the smaller position is missing
\* from one of them.
LEMMA OrderedPrefix ==
  ASSUME NEW S \in SUBSET Nat, NEW p, NEW q, Ordered(p, S), Ordered(q, S)
  PROVE  \A j \in 1 .. Len(p) : j \in 1 .. Len(q) /\ q[j] = p[j]
<1>1. /\ Len(p) \in Nat /\ Len(q) \in Nat
      /\ \A j \in 1 .. Len(p) : p[j] \in S /\ p[j] \in Nat
      /\ \A j \in 1 .. Len(q) : q[j] \in S /\ q[j] \in Nat
  <2>1. p \in Seq(S) /\ q \in Seq(S)
    BY DEF Ordered
  <2>2. \A r \in Seq(S) : Len(r) \in Nat /\ \A j \in 1 .. Len(r) : r[j] \in S
    OBVIOUS
  <2>3. \A x \in S : x \in Nat
    OBVIOUS
  <2> QED BY <2>1, <2>2, <2>3, Zenon
<1>2. PICK m, n : m = Len(p) /\ n = Len(q) /\ m \in Nat /\ n \in Nat
  BY <1>1
<1> SUFFICES ASSUME NEW x \in 1 .. m, ~ (x \in 1 .. n /\ q[x] = p[x]) PROVE FALSE
  BY <1>2
<1>3. PICK T : T = {j \in 1 .. m : ~ (j \in 1 .. n /\ q[j] = p[j])}
  OBVIOUS
<1>4. T \in SUBSET Nat /\ T # {}
  BY <1>3
<1>5. PICK k : k \in T /\ \A y \in T : k <= y
  BY <1>4, MinIsLeast
<1>6. k \in 1 .. m /\ \A j \in 1 .. k - 1 : j \in 1 .. n /\ q[j] = p[j]
  BY <1>2, <1>3, <1>5
<1>7. PICK i \in 1 .. n : q[i] = p[k]
  BY <1>1, <1>2, <1>6 DEF Ordered
<1>8. i >= k
  <2> SUFFICES ASSUME i < k PROVE FALSE
    BY <1>2, <1>6
  <2>1. i \in 1 .. k - 1 /\ i \in 1 .. m
    BY <1>2, <1>6
  <2>2. p[i] = p[k] /\ p[i] < p[k]
    BY <1>2, <1>6, <1>7, <2>1 DEF Ordered
  <2> QED BY <1>1, <1>2, <1>6, <2>2
<1>9. k \in 1 .. n
  BY <1>2, <1>6, <1>8
<1>10. q[k] # p[k]
  BY <1>3, <1>5, <1>9
<1>11. i > k
  BY <1>2, <1>6, <1>7, <1>8, <1>10
<1>12. q[k] < p[k]
  BY <1>2, <1>7, <1>9, <1>11 DEF Ordered
<1>13. PICK h \in 1 .. m : p[h] = q[k]
  BY <1>1, <1>2, <1>9 DEF Ordered
<1>14. h < k
  <2> SUFFICES ASSUME h >= k PROVE FALSE
    BY <1>2, <1>6
  <2>1. h = k \/ h > k
    BY <1>2, <1>6
  <2>2. h > k => p[k] < p[h]
    BY <1>2, <1>6 DEF Ordered
  <2> QED BY <1>1, <1>2, <1>6, <1>9, <1>12, <1>13, <2>1, <2>2
<1>15. q[h] = q[k] /\ h \in 1 .. n /\ q[h] < q[k]
  <2>1. h \in 1 .. k - 1
    BY <1>2, <1>6, <1>14
  <2>2. h \in 1 .. n /\ q[h] = p[h]
    BY <1>6, <2>1
  <2>3. q[h] < q[k]
    BY <1>2, <1>9, <1>14, <2>2 DEF Ordered
  <2> QED BY <1>13, <2>2, <2>3
<1> QED BY <1>1, <1>2, <1>9, <1>15

LEMMA SeqEqual ==
  ASSUME NEW S, NEW p \in Seq(S), NEW q \in Seq(S), Len(p) = Len(q), \A j \in 1 .. Len(p) : p[j] = q[j]
  PROVE  p = q
  OBVIOUS

LEMMA OrderedUnique ==
  ASSUME NEW S \in SUBSET Nat, NEW p, NEW q, Ordered(p, S), Ordered(q, S)
  PROVE  p = q
<1>1. /\ \A j \in 1 .. Len(p) : j \in 1 .. Len(q) /\ q[j] = p[j]
      /\ \A j \in 1 .. Len(q) : j \in 1 .. Len(p) /\ p[j] = q[j]
  BY OrderedPrefix
<1>2. p \in Seq(S) /\ q \in Seq(S)
  BY DEF Ordered
<1>3. PICK m, n : m = Len(p) /\ n = Len(q) /\ m \in Nat /\ n \in Nat
  BY <1>2
<1>4. m = n
  <2>1. m # 0 => m \in 1 .. n
    BY <1>1, <1>3
  <2>2. n # 0 => n \in 1 .. m
    BY <1>1, <1>3
  <2> QED BY <1>3, <2>1, <2>2
<1>5. Len(p) = Len(q) /\ \A j \in 1 .. Len(p) : p[j] = q[j]
  BY <1>1, <1>3, <1>4
<1> QED BY <1>2, <1>5, SeqEqual

\* There is one: the positions are taken in one after the other.
Below(S, n) == {x \in S : x < n}
HasOrder(S, n) == \E p : Ordered(p, Below(S, n)) /\ Len(p) <= n

LEMMA OrderedExists ==
  ASSUME NEW m \in Nat, NEW S \in SUBSET (0 .. m - 1)
  PROVE  \E p : Ordered(p, S) /\ Len(p) <= m
<1>0. \A x \in S : x \in Nat /\ x < m
  OBVIOUS
<1>1. PICK T : T = {n \in 0 .. m : HasOrder(S, n)}
  OBVIOUS
<1>2. 0 \in T
  <2>1. Below(S, 0) = {}
    <3>1. \A x \in S : ~ (x < 0)
      BY <1>0
    <3> QED BY <3>1, Zenon DEF Below
  <2>2. Ordered(<<>>, {}) /\ Len(<<>>) <= 0
    BY DEF Ordered
  <2>3. HasOrder(S, 0)
    BY <2>1, <2>2, Zenon DEF HasOrder
  <2> QED BY <1>1, <2>3
<1>3. ASSUME NEW n \in 0 .. m - 1, n \in T PROVE n + 1 \in T
  <2>1. PICK A, B : A = Below(S, n) /\ B = Below(S, n + 1)
    OBVIOUS
  <2>2. PICK p : Ordered(p, A) /\ Len(p) <= n
    BY <1>1, <1>3, <2>1 DEF HasOrder
  <2>3. PICK l : l = Len(p) /\ l \in Nat /\ l <= n /\ n \in Nat
    <3>1. p \in Seq(A)
      BY <2>2 DEF Ordered
    <3> QED BY <2>2, <3>1
  <2>4. ASSUME n \notin S PROVE HasOrder(S, n + 1)
    <3>1. A = B
      <4>1. \A x \in S : x < n <=> x < n + 1
        BY <1>0, <2>3, <2>4
      <4> QED BY <2>1, <4>1, Zenon DEF Below
    <3>2. Ordered(p, B) /\ Len(p) <= n + 1
      BY <2>2, <2>3, <3>1
    <3> QED BY <2>1, <3>2 DEF HasOrder
  <2>5. ASSUME n \in S PROVE HasOrder(S, n + 1)
    <3>1. B = A \cup {n} /\ \A x \in A : x < n /\ x \in Nat
      <4>1. \A x \in S : x < n + 1 <=> x < n \/ x = n
        BY <1>0, <2>3
      <4>2. \A x : x \in B <=> x \in A \/ x = n
        BY <2>1, <2>5, <4>1, Zenon DEF Below
      <4>3. \A x \in A : x < n /\ x \in Nat
        BY <1>0, <2>1, Zenon DEF Below
      <4> QED BY <4>2, <4>3, Zenon
    <3>2. PICK q : q = Append(p, n)
      OBVIOUS
    <3>3. p \in Seq(A)
      BY <2>2 DEF Ordered
    <3>4. p \in Seq(B)
      BY <3>1, <3>3
    <3>5. /\ q \in Seq(B) /\ Len(q) = l + 1 /\ q[l + 1] = n
          /\ \A j \in 1 .. l : q[j] = p[j] /\ p[j] \in A
      BY <2>3, <3>1, <3>2, <3>3, <3>4
    <3>6. ASSUME NEW i \in 1 .. l + 1, NEW j \in 1 .. l + 1, i < j PROVE q[i] < q[j]
      <4>1. i \in 1 .. l /\ q[i] = p[i] /\ p[i] \in A
        BY <2>3, <3>5, <3>6
      <4>2. CASE j = l + 1
        BY <3>1, <3>5, <4>1, <4>2
      <4>3. CASE j # l + 1
        <5>1. j \in 1 .. l
          BY <2>3, <4>3
        <5> QED BY <2>2, <2>3, <3>5, <3>6, <4>1, <5>1 DEF Ordered
      <4> QED BY <4>2, <4>3
    <3>7. ASSUME NEW x \in B PROVE \E i \in 1 .. l + 1 : q[i] = x
      <4>1. CASE x = n
        BY <2>3, <3>5, <4>1
      <4>2. CASE x \in A
        <5>1. PICK i \in 1 .. l : p[i] = x
          BY <2>2, <2>3, <4>2 DEF Ordered
        <5> QED BY <2>3, <3>5, <5>1
      <4> QED BY <3>1, <4>1, <4>2
    <3>8. Ordered(q, B)
      BY <3>5, <3>6, <3>7 DEF Ordered
    <3>9. Len(q) <= n + 1
      BY <2>3, <3>5
    <3> QED BY <2>1, <3>8, <3>9 DEF HasOrder
  <2>6. n + 1 \in 0 .. m
    OBVIOUS
  <2> QED BY <1>1, <2>4, <2>5, <2>6
<1>4. m \in T
  <2>1. \A n \in 0 .. m : n \in T
    BY <1>2, <1>3, UpTo
  <2> QED BY <2>1
<1>5. Below(S, m) = S
  BY <1>0 DEF Below
<1> QED BY <1>1, <1>4, <1>5 DEF HasOrder

\* What InOrder chooses.
LEMMA InOrderIs ==
  ASSUME NEW S \in SUBSET (0 .. Size - 1), NEW p, Ordered(p, S)
  PROVE  InOrder(S) = p
<1>1. Size \in Nat
  BY SizeIsNat
<1>2. S \in SUBSET Nat
  BY <1>1
<1>3. PICK r : Ordered(r, S) /\ Len(r) <= Size
  BY <1>1, OrderedExists
<1>4. r = p
  BY <1>2, <1>3, OrderedUnique
<1>5. ASSUME NEW q \in BoundedSeq(S, Size)
      PROVE  Ordered(q, S) <=> (\A i, j \in DOMAIN q : i < j => q[i] < q[j]) /\ Range(q) = S
  <2>1. PICK n \in 0 .. Size : q \in [1 .. n -> S]
    BY DEF BoundedSeq, SeqOf
  <2>2. q \in Seq(S) /\ Len(q) = n /\ DOMAIN q = 1 .. n
    BY <1>1, <2>1
  <2>3. Range(q) = S <=> \A x \in S : \E i \in 1 .. n : q[i] = x
    BY <2>1 DEF Range
  <2> QED BY <2>2, <2>3 DEF Ordered
<1>6. p \in BoundedSeq(S, Size)
  <2>1. PICK n : n = Len(p) /\ n \in 0 .. Size
    BY <1>1, <1>3, <1>4 DEF Ordered
  <2>2. p \in [1 .. n -> S]
    BY <2>1 DEF Ordered
  <2> QED BY <2>1, <2>2 DEF BoundedSeq, SeqOf
<1>7. PICK q : q = InOrder(S)
  OBVIOUS
<1>8. q \in BoundedSeq(S, Size) /\ (\A i, j \in DOMAIN q : i < j => q[i] < q[j]) /\ Range(q) = S
  <2>1. \E x \in BoundedSeq(S, Size) :
          (\A i, j \in DOMAIN x : i < j => x[i] < x[j]) /\ Range(x) = S
    BY <1>5, <1>6
  <2> QED BY <1>7, <2>1, Zenon DEF InOrder, Size
<1>9. Ordered(q, S)
  BY <1>5, <1>8
<1> QED BY <1>2, <1>7, <1>9, OrderedUnique

----------------------------------------------------------------------------
(* The nodes of a list by their positions.                                 *)

At == 0 .. Size

\* t follows the pointers g from h on.
Follows(t, h, g) ==
  t = [i \in At |-> IF i = 0 THEN h ELSE IF t[i - 1] = NULL THEN NULL ELSE g[t[i - 1]]]

FollowsUpTo(t, h, g, n) ==
  t = [i \in 0 .. n |-> IF i = 0 THEN h ELSE IF t[i - 1] = NULL THEN NULL ELSE g[t[i - 1]]]

\* Pointers can be followed from any head, and in one way only.
LEMMA FollowsExists ==
  ASSUME NEW h, NEW g
  PROVE  \E t : Follows(t, h, g)
<1>1. Size \in Nat
  BY SizeIsNat
<1>2. PICK S : S = {n \in 0 .. Size : \E t : FollowsUpTo(t, h, g, n)}
  OBVIOUS
<1>3. 0 \in S
  <2>1. PICK t : t = [i \in 0 .. 0 |-> h]
    OBVIOUS
  <2>2. FollowsUpTo(t, h, g, 0)
    BY <2>1 DEF FollowsUpTo
  <2> QED BY <1>1, <1>2, <2>2
<1>4. ASSUME NEW n \in 0 .. Size - 1, n \in S PROVE n + 1 \in S
  <2>1. PICK t : FollowsUpTo(t, h, g, n)
    BY <1>2, <1>4
  <2>2. PICK e : e = IF t[n] = NULL THEN NULL ELSE g[t[n]]
    OBVIOUS
  <2>3. PICK u : u = [i \in 0 .. n + 1 |-> IF i <= n THEN t[i] ELSE e]
    OBVIOUS
  <2>4. ASSUME NEW i \in 0 .. n + 1
        PROVE  u[i] = IF i = 0 THEN h ELSE IF u[i - 1] = NULL THEN NULL ELSE g[u[i - 1]]
    <3>1. CASE i = 0
      <4>1. u[i] = t[0] /\ 0 \in 0 .. n
        BY <2>3, <3>1
      <4> QED BY <2>1, <3>1, <4>1 DEF FollowsUpTo
    <3>2. CASE i # 0 /\ i <= n
      <4>1. i - 1 \in 0 .. n + 1 /\ i - 1 <= n /\ i \in 0 .. n
        BY <3>2
      <4>2. u[i] = t[i] /\ u[i - 1] = t[i - 1]
        BY <2>3, <3>2, <4>1
      <4>3. t[i] = IF t[i - 1] = NULL THEN NULL ELSE g[t[i - 1]]
        BY <2>1, <3>2, <4>1 DEF FollowsUpTo
      <4> QED BY <3>2, <4>2, <4>3
    <3>3. CASE i = n + 1
      <4>1. i - 1 = n /\ n \in 0 .. n + 1 /\ i # 0 /\ ~ (i <= n)
        BY <3>3
      <4>2. u[n] = t[n] /\ u[i] = e
        BY <2>3, <4>1
      <4> QED BY <2>2, <4>1, <4>2
    <3> QED BY <3>1, <3>2, <3>3
  <2>5. FollowsUpTo(u, h, g, n + 1)
    BY <2>3, <2>4 DEF FollowsUpTo
  <2>6. n + 1 \in 0 .. Size
    BY <1>1
  <2> QED BY <1>2, <2>5, <2>6
<1>5. Size \in S
  <2>1. \A n \in 0 .. Size : n \in S
    BY <1>1, <1>3, <1>4, UpTo
  <2> QED BY <1>1, <2>1
<1> QED BY <1>2, <1>5 DEF FollowsUpTo, Follows, At

\* Follows, entry by entry.
LEMMA FollowsSteps ==
  ASSUME NEW t, NEW h, NEW g, Follows(t, h, g)
  PROVE  /\ t = [i \in At |-> t[i]] /\ t[0] = h
         /\ \A i \in 0 .. Size - 1 : t[i + 1] = IF t[i] = NULL THEN NULL ELSE g[t[i]]
<1>1. Size \in Nat
  BY SizeIsNat
<1>2. \A i \in 0 .. Size - 1 : i + 1 \in At /\ (i + 1) - 1 = i /\ i + 1 # 0
  BY <1>1 DEF At
<1>3. 0 \in At
  BY <1>1 DEF At
<1> QED BY <1>2, <1>3 DEF Follows

LEMMA FollowsUnique ==
  ASSUME NEW h, NEW g, NEW t, NEW u, Follows(t, h, g), Follows(u, h, g)
  PROVE  t = u
<1>1. Size \in Nat
  BY SizeIsNat
<1>2. PICK S : S = {n \in 0 .. Size : t[n] = u[n]}
  OBVIOUS
<1>3. 0 \in S
  BY <1>1, <1>2 DEF Follows, At
<1>4. ASSUME NEW n \in 0 .. Size - 1, n \in S PROVE n + 1 \in S
  <2>1. n + 1 \in 0 .. Size /\ (n + 1) - 1 = n /\ n + 1 # 0
    BY <1>1
  <2>2. /\ t[n + 1] = IF t[n] = NULL THEN NULL ELSE g[t[n]]
        /\ u[n + 1] = IF u[n] = NULL THEN NULL ELSE g[u[n]]
    BY FollowsSteps
  <2>3. t[n] = u[n]
    BY <1>2, <1>4
  <2> QED BY <1>2, <2>1, <2>2, <2>3
<1>5. \A n \in 0 .. Size : t[n] = u[n]
  <2>1. \A n \in 0 .. Size : n \in S
    BY <1>1, <1>3, <1>4, UpTo
  <2> QED BY <1>2, <2>1
<1>6. t = [i \in At |-> t[i]] /\ u = [i \in At |-> u[i]]
  BY DEF Follows
<1> QED BY <1>5, <1>6 DEF At

\* What the recursive function Nth is, before a step and after it.
NthRule == \A b : Follows(Nth(b), buckets[b], next)

LEMMA NthRuleHolds == NthRule
<1> SUFFICES ASSUME NEW b PROVE Follows(Nth(b), buckets[b], next)
  BY DEF NthRule
<1>1. \E t : Follows(t, buckets[b], next)
  BY FollowsExists
<1> QED BY <1>1 DEF Nth, Follows, At, Size

LEMMA NthRuleNext == NthRule'
  BY NthRuleHolds, PTL

\* What is known to follow the pointers after a step is the list after it.
LEMMA NthNext ==
  ASSUME NEW b, NEW t, Follows(t, buckets'[b], next')
  PROVE  Nth(b)' = t
<1>1. Follows(Nth(b)', buckets'[b], next')
  BY NthRuleNext DEF NthRule
<1>2. PICK u : u = Nth(b)'
  OBVIOUS
<1>3. Follows(u, buckets'[b], next')
  BY <1>1, <1>2
<1>4. PICK h, g : h = buckets'[b] /\ g = next'
  OBVIOUS
<1>5. t = u
  BY <1>3, <1>4, FollowsUnique
<1> QED BY <1>2, <1>5

\* Entry by entry is enough.
LEMMA FollowsIs ==
  ASSUME NEW t, NEW h, NEW g, t = [i \in At |-> t[i]], t[0] = h,
         \A i \in 0 .. Size - 1 : t[i + 1] = IF t[i] = NULL THEN NULL ELSE g[t[i]]
  PROVE  Follows(t, h, g)
<1>1. Size \in Nat
  BY SizeIsNat
<1>2. ASSUME NEW i \in At
      PROVE  t[i] = IF i = 0 THEN h ELSE IF t[i - 1] = NULL THEN NULL ELSE g[t[i - 1]]
  <2>1. CASE i = 0
    BY <2>1
  <2>2. CASE i # 0
    <3>1. i - 1 \in 0 .. Size - 1 /\ (i - 1) + 1 = i
      BY <1>1, <2>2 DEF At
    <3> QED BY <2>2, <3>1
  <2> QED BY <2>1, <2>2
<1> QED BY <1>2 DEF Follows

----------------------------------------------------------------------------
(* Lists that share no node, and what insertion and removal make of them.  *)

Heads == Nodes \cup {NULL}

\* l[b] has the nodes of bucket b by their positions; C is what is in no list.
Shape(l, C) ==
  /\ C \subseteq Nodes
  /\ l \in [Buckets -> [At -> Heads]]
  /\ \A b \in Buckets : l[b][Size] = NULL
  /\ \A b \in Buckets : \A i \in 0 .. Size - 1 : l[b][i] = NULL => l[b][i + 1] = NULL
  /\ \A b, c \in Buckets : \A i, j \in At :
       l[b][i] # NULL /\ l[b][i] = l[c][j] => b = c /\ i = j
  /\ \A b \in Buckets : \A i \in At : l[b][i] \notin C
  /\ \A n \in Nodes \ C : \E b \in Buckets : \E i \in At : l[b][i] = n

LEMMA AtFacts ==
  /\ Size \in Nat /\ 0 \in At /\ Size \in At
  /\ \A i \in At : i \in Nat /\ i <= Size
  /\ \A i \in Nat : i <= Size => i \in At
  /\ \A i \in At : i # Size => i \in 0 .. Size - 1 /\ i + 1 \in At
  /\ \A i \in At : i # 0 => i - 1 \in At /\ i - 1 \in 0 .. Size - 1 /\ (i - 1) + 1 = i
  BY SizeIsNat DEF At

\* Once a list has ended, it has ended.
LEMMA EndStays ==
  ASSUME NEW l, NEW C, Shape(l, C), NEW b \in Buckets, NEW i \in At, NEW j \in At, i <= j, l[b][i] = NULL
  PROVE  l[b][j] = NULL
<1>1. Size \in Nat /\ i \in Nat /\ j \in Nat /\ i <= Size /\ j <= Size
  BY AtFacts
<1>2. PICK d : d = j - i /\ d \in Nat /\ i + d = j
  BY <1>1
<1>3. PICK S : S = {n \in 0 .. d : l[b][i + n] = NULL}
  OBVIOUS
<1>4. 0 \in S
  <2>1. i + 0 = i /\ 0 \in 0 .. d
    BY <1>1, <1>2
  <2> QED BY <1>3, <2>1
<1>5. ASSUME NEW n \in 0 .. d - 1, n \in S PROVE n + 1 \in S
  <2>1. i + n \in 0 .. Size - 1 /\ i + (n + 1) = (i + n) + 1 /\ n + 1 \in 0 .. d
    BY <1>1, <1>2
  <2>2. l[b][i + n] = NULL
    BY <1>3, <1>5
  <2>3. l[b][(i + n) + 1] = NULL
    BY <2>1, <2>2 DEF Shape
  <2> QED BY <1>3, <2>1, <2>3
<1>6. \A n \in 0 .. d : n \in S
  BY <1>2, <1>4, <1>5, UpTo
<1>7. d \in S
  BY <1>2, <1>6
<1> QED BY <1>2, <1>3, <1>7

\* While a node is in no list, no list fills all positions.
LEMMA RoomLeft ==
  ASSUME NEW l, NEW C, Shape(l, C), NEW n \in C, NEW b \in Buckets
  PROVE  Size # 0 /\ l[b][Size - 1] = NULL
<1>1. n \in Nodes /\ IsFiniteSet(Nodes)
  BY HashAssumption DEF Shape
<1>2. /\ IsFiniteSet(Nodes \ {n}) /\ Cardinality(Nodes \ {n}) = Size - 1
  BY <1>1, FS_RemoveElement DEF Size
<1>3. Size - 1 \in Nat /\ Size \in Nat
  BY <1>2, SizeIsNat, FS_CardinalityType
<1>4. Size # 0
  BY <1>3
<1> SUFFICES ASSUME l[b][Size - 1] # NULL PROVE FALSE
  BY <1>4
<1>5. Size - 1 \in At
  BY <1>3, <1>4 DEF At
<1>6. ASSUME NEW i \in 0 .. Size - 1 PROVE i \in At /\ l[b][i] # NULL
  <2>1. i \in At /\ i <= Size - 1
    BY <1>3 DEF At
  <2> QED BY <1>5, <2>1, EndStays
<1>7. PICK f : f = [i \in 0 .. Size - 1 |-> l[b][i]]
  OBVIOUS
<1>8. f \in [0 .. Size - 1 -> Nodes \ {n}]
  <2>1. ASSUME NEW i \in 0 .. Size - 1 PROVE l[b][i] \in Nodes \ {n}
    BY <1>6 DEF Shape, Heads
  <2> QED BY <1>7, <2>1
<1>9. IsFiniteSet(0 .. Size - 1) /\ Cardinality(0 .. Size - 1) = Size
  <2>1. 0 \in Int /\ Size - 1 \in Int
    BY <1>3
  <2>2. /\ IsFiniteSet(0 .. Size - 1)
        /\ Cardinality(0 .. Size - 1) = IF 0 > Size - 1 THEN 0 ELSE (Size - 1) - 0 + 1
    BY <2>1, FS_Interval
  <2>3. ~ (0 > Size - 1) /\ (Size - 1) - 0 + 1 = Size
    BY <1>3
  <2> QED BY <2>2, <2>3
<1>10. Cardinality(Nodes \ {n}) < Cardinality(0 .. Size - 1)
  BY <1>2, <1>3, <1>9
<1>11. PICK i, j \in 0 .. Size - 1 : i # j /\ f[i] = f[j]
  <2>1. PICK S, T : S = 0 .. Size - 1 /\ T = Nodes \ {n}
    OBVIOUS
  <2>2. IsFiniteSet(S) /\ IsFiniteSet(T) /\ Cardinality(T) < Cardinality(S) /\ f \in [S -> T]
    BY <1>2, <1>8, <1>9, <1>10, <2>1
  <2>3. \E x, y \in S : x # y /\ f[x] = f[y]
    BY <2>2, FS_PigeonHole
  <2> QED BY <2>1, <2>3
<1>12. l[b][i] = l[b][j] /\ l[b][i] # NULL /\ i \in At /\ j \in At
  BY <1>6, <1>7, <1>11
<1> QED BY <1>11, <1>12 DEF Shape

\* A list with n before it, and one without its position d.
Pushed(t, n) == [i \in At |-> IF i = 0 THEN n ELSE t[i - 1]]
Cut(t, d) == [i \in At |-> IF i < d THEN t[i] ELSE IF i = Size THEN NULL ELSE t[i + 1]]

\* No node is in two places.
LEMMA Apart ==
  ASSUME NEW l, NEW C, Shape(l, C), NEW b \in Buckets, NEW c \in Buckets, NEW i \in At, NEW j \in At,
         l[b][i] # NULL, l[b][i] = l[c][j]
  PROVE  b = c /\ i = j
  BY DEF Shape

\* Insertion takes n out of what is in no list and puts it first in the list of b.
LEMMA InsertShape ==
  ASSUME NEW l, NEW C, Shape(l, C), NEW n \in C, NEW b \in Buckets
  PROVE  Shape([l EXCEPT ![b] = Pushed(l[b], n)], C \ {n})
<1>1. /\ C \subseteq Nodes /\ n \in Nodes /\ n # NULL
      /\ l \in [Buckets -> [At -> Heads]]
  BY HashAssumption DEF Shape
<1>2. PICK m : m = [l EXCEPT ![b] = Pushed(l[b], n)]
  OBVIOUS
<1>3. /\ \A c \in Buckets : c # b => m[c] = l[c]
      /\ m[b] = Pushed(l[b], n)
  BY <1>1, <1>2
<1>4. /\ m[b][0] = n
      /\ \A i \in At : i # 0 => m[b][i] = l[b][i - 1]
      /\ \A i \in At : i # 0 => i - 1 \in At /\ i - 1 \in 0 .. Size - 1
  BY <1>3, AtFacts DEF Pushed
<1>5. m \in [Buckets -> [At -> Heads]]
  <2>1. \A i \in At : (IF i = 0 THEN n ELSE l[b][i - 1]) \in Heads
    <3>1. \A i \in At : i # 0 => l[b][i - 1] \in Heads
      BY <1>1, <1>4
    <3> QED BY <1>1, <3>1 DEF Heads
  <2>2. Pushed(l[b], n) \in [At -> Heads]
    BY <2>1 DEF Pushed
  <2> QED BY <1>1, <1>2, <2>2
<1>6. ASSUME NEW c \in Buckets PROVE m[c][Size] = NULL
  <2>1. CASE c = b
    <3>1. Size # 0 /\ l[b][Size - 1] = NULL
      BY RoomLeft
    <3> QED BY <1>4, <2>1, <3>1, AtFacts
  <2>2. CASE c # b
    BY <1>3, <2>2 DEF Shape
  <2> QED BY <2>1, <2>2
<1>7. ASSUME NEW c \in Buckets, NEW i \in 0 .. Size - 1, m[c][i] = NULL PROVE m[c][i + 1] = NULL
  <2>0. i \in At /\ i + 1 \in At /\ i + 1 # 0 /\ (i + 1) - 1 = i
    BY AtFacts
  <2>1. CASE c = b
    <3>1. i # 0
      BY <1>1, <1>4, <1>7, <2>1
    <3>2. l[b][i - 1] = NULL
      BY <1>4, <1>7, <2>0, <2>1, <3>1
    <3>3. i - 1 \in 0 .. Size - 1 /\ (i - 1) + 1 = i
      BY <2>0, <3>1, AtFacts
    <3>4. l[b][(i - 1) + 1] = NULL
      BY <3>2, <3>3 DEF Shape
    <3> QED BY <1>4, <2>0, <2>1, <3>3, <3>4
  <2>2. CASE c # b
    BY <1>3, <1>7, <2>2 DEF Shape
  <2> QED BY <2>1, <2>2
<1>8. \A c \in Buckets : \A i \in At : l[c][i] # n
  BY DEF Shape
<1>9. ASSUME NEW c \in Buckets, NEW e \in Buckets, NEW i \in At, NEW j \in At,
             m[c][i] # NULL, m[c][i] = m[e][j]
      PROVE  c = e /\ i = j
  <2>1. CASE c = b /\ i = 0
    <3>1. m[e][j] = n
      BY <1>4, <1>9, <2>1
    <3>2. e = b
      BY <1>3, <1>8, <3>1
    <3>3. j = 0
      BY <1>4, <1>8, <3>1, <3>2
    <3> QED BY <2>1, <3>2, <3>3
  <2>2. CASE e = b /\ j = 0
    <3>1. m[c][i] = n
      BY <1>4, <1>9, <2>2
    <3>2. c = b
      BY <1>3, <1>8, <3>1
    <3>3. i = 0
      BY <1>4, <1>8, <3>1, <3>2
    <3> QED BY <2>2, <3>2, <3>3
  <2>3. CASE ~ (c = b /\ i = 0) /\ ~ (e = b /\ j = 0)
    <3>1. PICK x : x = IF c = b THEN i - 1 ELSE i
      OBVIOUS
    <3>2. PICK y : y = IF e = b THEN j - 1 ELSE j
      OBVIOUS
    <3>3. x \in At /\ m[c][i] = l[c][x]
      BY <1>3, <1>4, <2>3, <3>1
    <3>4. y \in At /\ m[e][j] = l[e][y]
      BY <1>3, <1>4, <2>3, <3>2
    <3>5. c = e /\ x = y
      <4>1. l[c][x] # NULL /\ l[c][x] = l[e][y]
        BY <1>9, <3>3, <3>4
      <4> QED BY <3>3, <3>4, <4>1, Apart
    <3>6. i \in Nat /\ j \in Nat
      BY AtFacts
    <3> QED BY <3>1, <3>2, <3>5, <3>6
  <2> QED BY <2>1, <2>2, <2>3
<1>10. ASSUME NEW c \in Buckets, NEW i \in At PROVE m[c][i] \notin C \ {n}
  <2>1. CASE c = b /\ i = 0
    BY <1>4, <2>1
  <2>2. CASE c = b /\ i # 0
    <3>1. m[c][i] = l[b][i - 1] /\ i - 1 \in At
      BY <1>4, <2>2
    <3> QED BY <3>1 DEF Shape
  <2>3. CASE c # b
    BY <1>3, <2>3 DEF Shape
  <2> QED BY <2>1, <2>2, <2>3
<1>11. ASSUME NEW x \in Nodes \ (C \ {n}) PROVE \E c \in Buckets : \E i \in At : m[c][i] = x
  <2>1. CASE x = n
    BY <1>4, <2>1, AtFacts
  <2>2. CASE x # n
    <3>1. PICK c \in Buckets, i \in At : l[c][i] = x
      BY <2>2 DEF Shape
    <3>2. CASE c # b
      BY <1>3, <3>1, <3>2
    <3>3. CASE c = b
      <4>1. i # Size
        BY <1>11, <3>1, HashAssumption DEF Shape
      <4>2. i + 1 \in At /\ i + 1 # 0 /\ (i + 1) - 1 = i
        BY <4>1, AtFacts
      <4>3. m[b][i + 1] = x
        BY <1>4, <3>1, <3>3, <4>2
      <4> QED BY <4>2, <4>3
    <3> QED BY <3>2, <3>3
  <2> QED BY <2>1, <2>2
<1>12. C \ {n} \subseteq Nodes
  BY <1>1
<1>13. Shape(m, C \ {n})
  BY <1>5, <1>6, <1>7, <1>9, <1>10, <1>11, <1>12 DEF Shape
<1> QED BY <1>2, <1>13

\* Removal takes the node at position d out of the list of b.
LEMMA RemoveShape ==
  ASSUME NEW l, NEW C, Shape(l, C), NEW b \in Buckets, NEW d \in At, l[b][d] # NULL
  PROVE  Shape([l EXCEPT ![b] = Cut(l[b], d)], C \cup {l[b][d]})
<1>1. /\ C \subseteq Nodes /\ l \in [Buckets -> [At -> Heads]]
      /\ NULL \notin Nodes /\ l[b][Size] = NULL
  BY HashAssumption DEF Shape
<1>2. PICK x : x = l[b][d]
  OBVIOUS
<1>3. x \in Nodes /\ x # NULL
  BY <1>1, <1>2 DEF Heads
<1>4. PICK m : m = [l EXCEPT ![b] = Cut(l[b], d)]
  OBVIOUS
<1>5. /\ \A c \in Buckets : c # b => m[c] = l[c]
      /\ m[b] = Cut(l[b], d)
  BY <1>1, <1>4
<1>6. Size \in Nat /\ d \in Nat /\ d < Size
  <2>1. d # Size
    BY <1>1
  <2> QED BY <2>1, AtFacts
\* Where an entry of the shorter list comes from.
<1>7. /\ \A i \in At : i < d => m[b][i] = l[b][i]
      /\ \A i \in At : ~ (i < d) /\ i # Size => i + 1 \in At /\ m[b][i] = l[b][i + 1]
      /\ m[b][Size] = NULL
  <2>1. \A i \in At : m[b][i] = IF i < d THEN l[b][i] ELSE IF i = Size THEN NULL ELSE l[b][i + 1]
    BY <1>5 DEF Cut
  <2>2. ~ (Size < d) /\ Size \in At
    BY <1>6, AtFacts
  <2> QED BY <2>1, <2>2, AtFacts
<1>8. ASSUME NEW i \in At, m[b][i] # NULL
      PROVE  \E j \in At : j # d /\ m[b][i] = l[b][j] /\ (i < d => j = i) /\ (~ (i < d) => j = i + 1)
  <2>0. i \in Nat
    BY AtFacts
  <2>1. CASE i < d
    BY <1>6, <1>7, <2>0, <2>1
  <2>2. CASE ~ (i < d)
    <3>1. i # Size
      BY <1>7, <1>8
    <3>2. i + 1 \in At /\ m[b][i] = l[b][i + 1]
      BY <1>7, <2>2, <3>1
    <3>3. i + 1 # d
      BY <1>6, <2>0, <2>2
    <3> QED BY <2>2, <3>2, <3>3
  <2> QED BY <2>1, <2>2
<1>9. m \in [Buckets -> [At -> Heads]]
  <2>1. \A i \in At : (IF i < d THEN l[b][i] ELSE IF i = Size THEN NULL ELSE l[b][i + 1]) \in Heads
    <3>1. \A i \in At : l[b][i] \in Heads
      BY <1>1
    <3>2. \A i \in At : i # Size => l[b][i + 1] \in Heads
      BY <3>1, AtFacts
    <3> QED BY <3>1, <3>2 DEF Heads
  <2>2. Cut(l[b], d) \in [At -> Heads]
    BY <2>1 DEF Cut
  <2> QED BY <1>1, <1>4, <2>2
<1>10. ASSUME NEW c \in Buckets PROVE m[c][Size] = NULL
  BY <1>5, <1>7 DEF Shape
<1>11. ASSUME NEW c \in Buckets, NEW i \in 0 .. Size - 1, m[c][i] = NULL PROVE m[c][i + 1] = NULL
  <2>0. i \in At /\ i + 1 \in At /\ i # Size /\ i \in Nat
    BY <1>6 DEF At
  <2>1. CASE c = b /\ i + 1 < d
    <3>1. i < d /\ m[b][i] = l[b][i] /\ m[b][i + 1] = l[b][i + 1]
      BY <1>6, <1>7, <2>0, <2>1
    <3> QED BY <1>11, <2>1, <3>1 DEF Shape
  <2>2. CASE c = b /\ i < d /\ ~ (i + 1 < d)
    <3>1. l[b][i] = NULL /\ i <= d
      BY <1>6, <1>7, <1>11, <2>0, <2>2
    <3>2. l[b][d] = NULL
      BY <2>0, <3>1, EndStays
    <3> QED BY <3>2
  <2>3. CASE c = b /\ ~ (i < d)
    <3>1. l[b][i + 1] = NULL
      BY <1>7, <1>11, <2>0, <2>3
    <3>2. CASE i + 1 = Size
      BY <1>7, <2>3, <3>2
    <3>3. CASE i + 1 # Size
      <4>1. ~ (i + 1 < d) /\ i + 1 \in 0 .. Size - 1
        BY <1>6, <2>0, <2>3, <3>3, AtFacts
      <4>2. l[b][(i + 1) + 1] = NULL
        BY <3>1, <4>1 DEF Shape
      <4>3. m[b][i + 1] = l[b][(i + 1) + 1]
        BY <1>7, <2>0, <3>3, <4>1
      <4> QED BY <2>3, <4>2, <4>3
    <3> QED BY <3>2, <3>3
  <2>4. CASE c # b
    BY <1>5, <1>11, <2>4 DEF Shape
  <2> QED BY <2>1, <2>2, <2>3, <2>4
<1>12. ASSUME NEW c \in Buckets, NEW i \in At, m[c][i] # NULL
       PROVE  \E j \in At : /\ m[c][i] = l[c][j]
                            /\ (c = b => j # d)
                            /\ j = IF c = b /\ ~ (i < d) THEN i + 1 ELSE i
  <2>1. CASE c = b
    BY <1>8, <1>12, <2>1
  <2>2. CASE c # b
    BY <1>5, <2>2
  <2> QED BY <2>1, <2>2
<1>13. ASSUME NEW c \in Buckets, NEW e \in Buckets, NEW i \in At, NEW j \in At,
              m[c][i] # NULL, m[c][i] = m[e][j]
       PROVE  c = e /\ i = j
  <2>1. PICK y \in At : m[c][i] = l[c][y] /\ y = IF c = b /\ ~ (i < d) THEN i + 1 ELSE i
    BY <1>12, <1>13
  <2>2. m[e][j] # NULL
    BY <1>13
  <2>3. PICK z \in At : m[e][j] = l[e][z] /\ z = IF e = b /\ ~ (j < d) THEN j + 1 ELSE j
    BY <1>12, <2>2
  <2>4. l[c][y] # NULL /\ l[c][y] = l[e][z]
    BY <1>13, <2>1, <2>3
  <2>5. c = e /\ y = z
    BY <2>4, Apart
  <2>6. i \in Nat /\ j \in Nat
    BY AtFacts
  <2> QED BY <1>6, <2>1, <2>3, <2>5, <2>6
<1>14. ASSUME NEW c \in Buckets, NEW i \in At PROVE m[c][i] \notin C \cup {x}
  <2>1. CASE m[c][i] = NULL
    BY <1>1, <1>3, <2>1
  <2>2. CASE m[c][i] # NULL
    <3>1. PICK j \in At : m[c][i] = l[c][j] /\ (c = b => j # d)
      BY <1>12, <2>2
    <3>2. l[c][j] \notin C
      BY DEF Shape
    <3>3. l[c][j] # x
      <4> SUFFICES ASSUME l[c][j] = l[b][d] PROVE FALSE
        BY <1>2
      <4>1. b = c /\ d = j
        BY Apart
      <4> QED BY <3>1, <4>1
    <3> QED BY <3>1, <3>2, <3>3
  <2> QED BY <2>1, <2>2
<1>15. ASSUME NEW n \in Nodes \ (C \cup {x}) PROVE \E c \in Buckets : \E i \in At : m[c][i] = n
  <2>1. PICK c \in Buckets, i \in At : l[c][i] = n
    BY DEF Shape
  <2>2. CASE c # b
    BY <1>5, <2>1, <2>2
  <2>3. CASE c = b
    <3>0. i # d /\ i \in Nat
      BY <1>2, <2>1, <2>3, AtFacts
    <3>1. CASE i < d
      BY <1>7, <2>1, <2>3, <3>1
    <3>2. CASE ~ (i < d)
      <4>1. PICK j : j = i - 1 /\ j \in At /\ j + 1 = i /\ ~ (j < d) /\ j # Size
        BY <1>6, <3>0, <3>2, AtFacts
      <4>2. m[b][j] = n
        BY <1>7, <2>1, <2>3, <4>1
      <4> QED BY <4>1, <4>2
    <3> QED BY <3>1, <3>2
  <2> QED BY <2>2, <2>3
<1>16. C \cup {x} \subseteq Nodes
  BY <1>1, <1>3
<1>17. Shape(m, C \cup {x})
  BY <1>9, <1>10, <1>11, <1>13, <1>14, <1>15, <1>16 DEF Shape
<1> QED BY <1>2, <1>4, <1>17

----------------------------------------------------------------------------
(* The inductive invariant.                                                *)

\* The lists of all buckets, by position.
Lists == [b \in Buckets |-> Nth(b)]

HashTypes ==
  /\ buckets \in [Buckets -> Heads]
  /\ key \in [Nodes -> Keys]
  /\ value \in [Nodes -> Values]
  /\ next \in [Nodes -> Heads]

\* The fields have their types, the lists end and share no node, all nodes are in a list
\* or in the cache, and count is the number of those in a list.
HashInv ==
  /\ HashTypes
  /\ Shape(Lists, cached)
  /\ count = Cardinality(Nodes \ cached)

\* The nodes of a bucket follow the pointers from the bucket on.
LEMMA NthFacts ==
  ASSUME NEW b \in Buckets
  PROVE  /\ Lists[b] = Nth(b) /\ DOMAIN Nth(b) = At
         /\ Nth(b) = [i \in At |-> Nth(b)[i]] /\ Nth(b)[0] = buckets[b]
         /\ \A i \in 0 .. Size - 1 : Nth(b)[i + 1] = IF Nth(b)[i] = NULL THEN NULL ELSE next[Nth(b)[i]]
<1>1. PICK t : t = Nth(b)
  OBVIOUS
<1>2. Follows(t, buckets[b], next)
  BY <1>1, NthRuleHolds DEF NthRule
<1>3. /\ t = [i \in At |-> t[i]] /\ t[0] = buckets[b]
      /\ \A i \in 0 .. Size - 1 : t[i + 1] = IF t[i] = NULL THEN NULL ELSE next[t[i]]
  BY <1>2, FollowsSteps
<1>4. DOMAIN t = At
  BY <1>3
<1> QED BY <1>1, <1>3, <1>4 DEF Lists

\* What the lists of a state with the invariant have.
LEMMA ListFacts ==
  ASSUME HashInv, NEW b \in Buckets
  PROVE  /\ Nth(b) \in [At -> Heads] /\ Nth(b)[Size] = NULL
         /\ \A i, j \in At : i <= j /\ Nth(b)[i] = NULL => Nth(b)[j] = NULL
         /\ \A i, j \in At : Nth(b)[i] # NULL /\ Nth(b)[i] = Nth(b)[j] => i = j
         /\ \A i \in At : Nth(b)[i] \notin cached /\ (Nth(b)[i] # NULL => Nth(b)[i] \in Nodes)
<1>0. Lists[b] = Nth(b) /\ Shape(Lists, cached)
  BY NthFacts DEF HashInv
<1>1. Lists[b] \in [At -> Heads] /\ Lists[b][Size] = NULL
  BY <1>0 DEF Shape
<1>2. \A i, j \in At : i <= j /\ Lists[b][i] = NULL => Lists[b][j] = NULL
  BY <1>0, EndStays
<1>3. \A i, j \in At : Lists[b][i] # NULL /\ Lists[b][i] = Lists[b][j] => i = j
  BY <1>0, Apart
<1>4. \A i \in At : Lists[b][i] \notin cached
  BY <1>0 DEF Shape
<1>5. \A i \in At : Lists[b][i] # NULL => Lists[b][i] \in Nodes
  BY <1>1 DEF Heads
<1> QED BY <1>0, <1>1, <1>2, <1>3, <1>4, <1>5

\* The loops stop at the first node with the key, or at the end.
LEMMA StopFacts ==
  ASSUME HashInv, NEW k \in Keys, NEW b, b = hash_u64[k], NEW d, d = Min(Stops(k))
  PROVE  /\ b \in Buckets /\ d \in At /\ Found(k) = Nth(b)[d]
         /\ Nth(b)[d] # NULL => key[Nth(b)[d]] = k /\ d < Size
         /\ \A i \in At : i < d => Nth(b)[i] # NULL /\ key[Nth(b)[i]] # k
<1>1. b \in Buckets
  BY HashAssumption
<1>2. PICK t : t = Nth(b) /\ DOMAIN t = At /\ t[Size] = NULL
  BY <1>1, NthFacts, ListFacts
<1>3. PICK S : S = {i \in At : t[i] # NULL => key[t[i]] = k} /\ S = Stops(k)
  BY <1>2 DEF Stops
<1>4. S \in SUBSET Nat /\ Size \in S
  BY <1>2, <1>3, AtFacts
<1>5. d \in S /\ \A i \in S : d <= i
  BY <1>3, <1>4, MinIsLeast
<1>6. d \in At /\ d \in Nat /\ (t[d] # NULL => key[t[d]] = k)
  BY <1>3, <1>5, AtFacts
<1>7. \A i \in At : i < d => t[i] # NULL /\ key[t[i]] # k
  <2> TAKE i \in At
  <2>1. i < d => i \notin S
    BY <1>5, <1>6, AtFacts
  <2> QED BY <1>3, <2>1
<1>8. t[d] # NULL => d < Size
  BY <1>2, <1>6, AtFacts
<1>9. Found(k) = t[d]
  BY <1>2 DEF Found
<1> QED BY <1>1, <1>2, <1>6, <1>7, <1>8, <1>9

\* The empty table has the invariant.
LEMMA InitHolds == hashtable_init => HashInv
<1> SUFFICES ASSUME hashtable_init PROVE HashInv
  OBVIOUS
<1>1. HashTypes
  BY DEF hashtable_init, HashTypes, Heads
<1>2. ASSUME NEW b \in Buckets PROVE Nth(b) = [i \in At |-> NULL]
  <2>1. PICK t : t = [i \in At |-> NULL]
    OBVIOUS
  <2>2. t = [i \in At |-> t[i]] /\ t[0] = buckets[b]
    BY <2>1, AtFacts DEF hashtable_init
  <2>3. \A i \in 0 .. Size - 1 : t[i + 1] = IF t[i] = NULL THEN NULL ELSE next[t[i]]
    BY <2>1, SizeIsNat DEF At
  <2>4. Follows(t, buckets[b], next)
    BY <2>2, <2>3, FollowsIs
  <2>5. Follows(Nth(b), buckets[b], next)
    BY NthRuleHolds DEF NthRule
  <2>6. Nth(b) = t
    BY <2>4, <2>5, FollowsUnique
  <2> QED BY <2>1, <2>6
<1>3. PICK l : l = [b \in Buckets |-> [i \in At |-> NULL]]
  OBVIOUS
<1>4. Lists = l
  BY <1>2, <1>3 DEF Lists
<1>5. \A b \in Buckets : \A i \in At : l[b][i] = NULL
  BY <1>3
<1>6. Shape(l, Nodes)
  <2>1. l \in [Buckets -> [At -> Heads]]
    BY <1>3 DEF Heads
  <2>2. \A b \in Buckets : l[b][Size] = NULL
    BY <1>5, AtFacts
  <2>3. \A b \in Buckets : \A i \in 0 .. Size - 1 : l[b][i] = NULL => l[b][i + 1] = NULL
    BY <1>5, SizeIsNat DEF At
  <2>4. \A b \in Buckets : \A i \in At : l[b][i] \notin Nodes
    BY <1>5, HashAssumption
  <2> QED BY <1>5, <2>1, <2>2, <2>3, <2>4 DEF Shape
<1>7. count = Cardinality(Nodes \ cached)
  <2>1. Nodes \ cached = {} /\ count = 0
    BY DEF hashtable_init
  <2> QED BY <2>1, FS_EmptySet
<1>8. cached = Nodes
  BY DEF hashtable_init
<1> QED BY <1>1, <1>4, <1>6, <1>7, <1>8 DEF HashInv

----------------------------------------------------------------------------
(* The two operations and the lists.                                       *)

\* hashtable_insert with the node that the cache gives.
Inserts(k, v, n) ==
  /\ n \in cached
  /\ cached' = cached \ {n}
  /\ key' = [key EXCEPT ![n] = k]
  /\ value' = [value EXCEPT ![n] = v]
  /\ next' = [next EXCEPT ![n] = buckets[hash_u64[k]]]
  /\ buckets' = [buckets EXCEPT ![hash_u64[k]] = n]
  /\ count' = count + 1

\* Every insertion is one with some node of the cache.
LEMMA InsertTakes ==
  ASSUME NEW k, NEW v, hashtable_insert(k, v)
  PROVE  \E n : Inserts(k, v, n)
  BY DEF hashtable_insert, Linked, Inserts

\* hashtable_insert puts its node before the list of its bucket and leaves the others.
LEMMA InsertLists ==
  ASSUME HashInv, NEW k \in Keys, NEW v, NEW n, Inserts(k, v, n), NEW b, b = hash_u64[k]
  PROVE  /\ b \in Buckets /\ n \in Nodes
         /\ Nth(b)' = Pushed(Nth(b), n)
         /\ \A c \in Buckets : c # b => Nth(c)' = Nth(c)
<1>1. b \in Buckets /\ n \in Nodes /\ n # NULL /\ n \in cached
  BY HashAssumption DEF HashInv, Shape, Inserts
<1>2. /\ \A m \in Nodes : next'[m] = IF m = n THEN buckets[b] ELSE next[m]
      /\ \A c \in Buckets : buckets'[c] = IF c = b THEN n ELSE buckets[c]
  BY <1>1 DEF Inserts, HashInv, HashTypes
<1>3. Nth(b)' = Pushed(Nth(b), n)
  <2>1. PICK t, u : t = Nth(b) /\ u = Pushed(t, n)
    OBVIOUS
  <2>2. /\ t[0] = buckets[b]
        /\ \A i \in 0 .. Size - 1 : t[i + 1] = IF t[i] = NULL THEN NULL ELSE next[t[i]]
        /\ \A i \in At : t[i] # n /\ (t[i] # NULL => t[i] \in Nodes)
    BY <1>1, <2>1, NthFacts, ListFacts
  <2>3. /\ u = [i \in At |-> u[i]] /\ u[0] = n
        /\ \A i \in At : i # 0 => u[i] = t[i - 1]
    BY <2>1, AtFacts DEF Pushed
  <2>4. ASSUME NEW i \in 0 .. Size - 1 PROVE u[i + 1] = IF u[i] = NULL THEN NULL ELSE next'[u[i]]
    <3>1. i \in At /\ i + 1 \in At /\ i + 1 # 0 /\ (i + 1) - 1 = i
      BY SizeIsNat DEF At
    <3>2. u[i + 1] = t[i]
      BY <2>3, <3>1
    <3>3. CASE i = 0
      <4>1. u[i] = n /\ t[i] = buckets[b]
        BY <2>2, <2>3, <3>3
      <4> QED BY <1>1, <1>2, <3>2, <4>1
    <3>4. CASE i # 0
      <4>1. PICK j : j = i - 1 /\ j \in 0 .. Size - 1 /\ j \in At /\ j + 1 = i
        BY <3>1, <3>4, AtFacts
      <4>2. u[i] = t[j]
        BY <2>3, <3>1, <3>4, <4>1
      <4>3. t[i] = IF t[j] = NULL THEN NULL ELSE next[t[j]]
        BY <2>2, <4>1
      <4>4. t[j] # NULL => next'[t[j]] = next[t[j]]
        BY <1>2, <2>2, <4>1
      <4> QED BY <3>2, <4>2, <4>3, <4>4
    <3> QED BY <3>3, <3>4
  <2>5. u[0] = buckets'[b]
    BY <1>1, <1>2, <2>3
  <2>6. Follows(u, buckets'[b], next')
    BY <2>3, <2>4, <2>5, FollowsIs
  <2>7. Nth(b)' = u
    BY <2>6, NthNext
  <2> QED BY <2>1, <2>7
<1>4. ASSUME NEW c \in Buckets, c # b PROVE Nth(c)' = Nth(c)
  <2>1. PICK t : t = Nth(c)
    OBVIOUS
  <2>2. /\ t = [i \in At |-> t[i]] /\ t[0] = buckets[c]
        /\ \A i \in 0 .. Size - 1 : t[i + 1] = IF t[i] = NULL THEN NULL ELSE next[t[i]]
        /\ \A i \in At : t[i] # n /\ (t[i] # NULL => t[i] \in Nodes)
    BY <1>1, <2>1, NthFacts, ListFacts
  <2>3. \A i \in 0 .. Size - 1 : t[i + 1] = IF t[i] = NULL THEN NULL ELSE next'[t[i]]
    <3> TAKE i \in 0 .. Size - 1
    <3>1. i \in At
      BY SizeIsNat DEF At
    <3> QED BY <1>2, <2>2, <3>1
  <2>4. t[0] = buckets'[c]
    BY <1>2, <1>4, <2>2
  <2>5. Follows(t, buckets'[c], next')
    BY <2>2, <2>3, <2>4, FollowsIs
  <2>6. Nth(c)' = t
    BY <2>5, NthNext
  <2> QED BY <2>1, <2>6
<1> QED BY <1>1, <1>3, <1>4

\* hashtable_remove cuts one position out of the list of its bucket, whether it
\* overwrites the bucket or the next of a node, and leaves the others.
LEMMA RemoveLists ==
  ASSUME HashInv, NEW k \in Keys, hashtable_remove(k), NEW b, b = hash_u64[k], NEW d, d = Min(Stops(k))
  PROVE  /\ b \in Buckets /\ d \in At /\ Nth(b)[d] # NULL /\ Nth(b)[d] \in Nodes /\ cached' = cached \cup {Nth(b)[d]}
         /\ Nth(b)' = Cut(Nth(b), d)
         /\ \A c \in Buckets : c # b => Nth(c)' = Nth(c)
         /\ HashTypes'
<1>1. PICK t : t = Nth(b)
  OBVIOUS
<1>2. /\ b \in Buckets /\ d \in At /\ Found(k) = t[d] /\ t[d] # NULL
      /\ d < Size /\ \A i \in At : i < d => t[i] # NULL
  BY <1>1, StopFacts DEF hashtable_remove
<1>3. cached' = cached \cup {t[d]} /\ t[d] \in Nodes /\ t[d] \notin cached
  BY <1>1, <1>2, ListFacts DEF hashtable_remove
<1>4. /\ t = [i \in At |-> t[i]] /\ t[0] = buckets[b]
      /\ \A i \in 0 .. Size - 1 : t[i + 1] = IF t[i] = NULL THEN NULL ELSE next[t[i]]
      /\ \A i \in At : t[i] # NULL => t[i] \in Nodes
      /\ \A i, j \in At : t[i] # NULL /\ t[i] = t[j] => i = j
      /\ t[Size] = NULL
  BY <1>1, <1>2, NthFacts, ListFacts
<1>5. Size \in Nat /\ d \in Nat /\ d \in 0 .. Size - 1 /\ d + 1 \in At
  BY <1>2, AtFacts
<1>6. t[d + 1] = next[t[d]]
  BY <1>2, <1>4, <1>5
<1>7. /\ buckets \in [Buckets -> Heads] /\ next \in [Nodes -> Heads]
  BY DEF HashInv, HashTypes
<1>8. /\ d = 0 => buckets' = [buckets EXCEPT ![b] = t[d + 1]] /\ next' = next
      /\ d # 0 => next' = [next EXCEPT ![t[d - 1]] = t[d + 1]] /\ buckets' = buckets
  BY <1>1, <1>2, <1>6 DEF hashtable_remove, Unlinked
<1>9. d # 0 => d - 1 \in At /\ t[d - 1] \in Nodes /\ t[d - 1] # NULL
  <2>1. d # 0 => d - 1 \in At /\ d - 1 < d
    BY <1>2, <1>5, AtFacts
  <2> QED BY <1>2, <1>4, <2>1
<1>10. t[d + 1] \in Heads
  BY <1>4, <1>5 DEF Heads
<1>11. /\ buckets' \in [Buckets -> Heads] /\ next' \in [Nodes -> Heads]
       /\ \A c \in Buckets : buckets'[c] = IF c = b /\ d = 0 THEN t[d + 1] ELSE buckets[c]
       /\ \A n \in Nodes : next'[n] = IF d # 0 /\ n = t[d - 1] THEN t[d + 1] ELSE next[n]
  <2>1. CASE d = 0
    BY <1>2, <1>7, <1>8, <1>10, <2>1
  <2>2. CASE d # 0
    BY <1>2, <1>7, <1>8, <1>9, <1>10, <2>2
  <2> QED BY <2>1, <2>2
<1>12. HashTypes'
  BY <1>11 DEF HashInv, HashTypes, hashtable_remove, Heads
<1>13. Nth(b)' = Cut(t, d)
  <2>1. PICK u : u = Cut(t, d)
    OBVIOUS
  <2>2. /\ u = [i \in At |-> u[i]]
        /\ \A i \in At : u[i] = IF i < d THEN t[i] ELSE IF i = Size THEN NULL ELSE t[i + 1]
    BY <2>1 DEF Cut
  <2>3. u[0] = buckets'[b]
    <3>1. 0 \in At /\ 0 # Size /\ 0 + 1 = 1
      BY <1>2, <1>5, AtFacts
    <3>2. CASE d = 0
      <4>1. u[0] = t[0 + 1]
        BY <2>2, <3>1, <3>2
      <4> QED BY <1>2, <1>11, <3>2, <4>1
    <3>3. CASE d # 0
      <4>1. 0 < d
        BY <1>5, <3>3
      <4>2. u[0] = t[0]
        BY <2>2, <3>1, <4>1
      <4> QED BY <1>2, <1>4, <1>11, <3>3, <4>2
    <3> QED BY <3>2, <3>3
  <2>4. ASSUME NEW i \in 0 .. Size - 1 PROVE u[i + 1] = IF u[i] = NULL THEN NULL ELSE next'[u[i]]
    <3>1. i \in At /\ i + 1 \in At /\ i \in Nat /\ i # Size
      BY <1>5 DEF At
    <3>2. CASE i + 1 < d
      <4>1. i < d /\ u[i] = t[i] /\ u[i + 1] = t[i + 1]
        BY <1>5, <2>2, <3>1, <3>2
      <4>2. t[i] # NULL /\ t[i] \in Nodes
        BY <1>2, <1>4, <3>1, <4>1
      <4>3. d # 0 => t[i] # t[d - 1]
        <5>1. i # d - 1
          BY <1>5, <3>1, <3>2
        <5> QED BY <1>4, <1>9, <3>1, <4>2, <5>1
      <4>4. t[i + 1] = next[t[i]]
        BY <1>4, <4>2
      <4> QED BY <1>11, <4>1, <4>2, <4>3, <4>4
    <3>3. CASE i + 1 = d
      <4>1. i < d /\ d # 0 /\ d - 1 = i /\ d # Size /\ ~ (d < d)
        BY <1>2, <1>5, <3>1, <3>3
      <4>2. u[i] = t[i] /\ u[d] = t[d + 1]
        BY <1>2, <2>2, <3>1, <4>1
      <4>3. t[i] \in Nodes /\ t[i] # NULL
        BY <1>9, <4>1
      <4> QED BY <1>11, <3>3, <4>1, <4>2, <4>3
    <3>4. CASE i + 1 > d
      <4>1. ~ (i < d) /\ ~ (i + 1 < d)
        BY <1>5, <3>1, <3>4
      <4>2. u[i] = t[i + 1]
        BY <2>2, <3>1, <4>1
      <4>3. CASE i + 1 = Size
        <5>1. u[i] = NULL /\ u[i + 1] = NULL
          BY <1>4, <2>2, <3>1, <4>1, <4>2, <4>3
        <5> QED BY <5>1
      <4>4. CASE i + 1 # Size
        <5>1. i + 1 \in 0 .. Size - 1
          BY <3>1, <4>4, AtFacts
        <5>2. u[i + 1] = t[(i + 1) + 1]
          BY <2>2, <3>1, <4>1, <4>4
        <5>3. t[(i + 1) + 1] = IF t[i + 1] = NULL THEN NULL ELSE next[t[i + 1]]
          BY <1>4, <5>1
        <5>4. d # 0 /\ t[i + 1] # NULL => t[i + 1] # t[d - 1] /\ t[i + 1] \in Nodes
          <6>1. i + 1 # d - 1
            BY <1>5, <3>1, <3>4
          <6> QED BY <1>4, <1>9, <3>1, <6>1
        <5>5. t[i + 1] # NULL => next'[t[i + 1]] = next[t[i + 1]]
          BY <1>4, <1>11, <3>1, <5>4
        <5> QED BY <4>2, <5>2, <5>3, <5>5
      <4> QED BY <4>3, <4>4
    <3>5. i + 1 < d \/ i + 1 = d \/ i + 1 > d
      BY <1>5, <3>1
    <3> QED BY <3>2, <3>3, <3>4, <3>5
  <2>5. Follows(u, buckets'[b], next')
    BY <2>2, <2>3, <2>4, FollowsIs
  <2>6. Nth(b)' = u
    BY <2>5, NthNext
  <2> QED BY <2>1, <2>6
<1>14. ASSUME NEW c \in Buckets, c # b PROVE Nth(c)' = Nth(c)
  <2>1. PICK s : s = Nth(c)
    OBVIOUS
  <2>2. /\ s = [i \in At |-> s[i]] /\ s[0] = buckets[c]
        /\ \A i \in 0 .. Size - 1 : s[i + 1] = IF s[i] = NULL THEN NULL ELSE next[s[i]]
        /\ \A i \in At : s[i] # NULL => s[i] \in Nodes
    BY <2>1, NthFacts, ListFacts
  <2>3. \A i, j \in At : s[i] # NULL => s[i] # t[j]
    <3>1. Lists[c] = s /\ Lists[b] = t /\ Shape(Lists, cached)
      BY <1>1, <1>2, <2>1, NthFacts DEF HashInv
    <3>2. \A i, j \in At : Lists[c][i] # NULL => Lists[c][i] # Lists[b][j]
      BY <1>2, <1>14, <3>1, Apart
    <3> QED BY <3>1, <3>2
  <2>4. \A i \in 0 .. Size - 1 : s[i + 1] = IF s[i] = NULL THEN NULL ELSE next'[s[i]]
    <3> TAKE i \in 0 .. Size - 1
    <3>1. i \in At
      BY SizeIsNat DEF At
    <3>2. s[i] # NULL => next'[s[i]] = next[s[i]]
      BY <1>9, <1>11, <2>2, <2>3, <3>1
    <3> QED BY <2>2, <3>2
  <2>5. s[0] = buckets'[c]
    BY <1>11, <1>14, <2>2
  <2>6. Follows(s, buckets'[c], next')
    BY <2>2, <2>4, <2>5, FollowsIs
  <2>7. Nth(c)' = s
    BY <2>6, NthNext
  <2> QED BY <2>1, <2>7
<1> QED BY <1>1, <1>2, <1>3, <1>12, <1>13, <1>14

\* The lists after a step that changes the one of bucket b to t.
LEMMA ListsNext ==
  ASSUME NEW b \in Buckets, NEW t, Nth(b)' = t, \A c \in Buckets : c # b => Nth(c)' = Nth(c)
  PROVE  Lists' = [Lists EXCEPT ![b] = t]
<1>1. \A c \in Buckets : Nth(c)' = IF c = b THEN t ELSE Nth(c)
  OBVIOUS
<1>2. Lists' = [c \in Buckets |-> IF c = b THEN t ELSE Nth(c)]
  BY <1>1 DEF Lists
<1> QED BY <1>2 DEF Lists

\* Both operations keep the invariant.
LEMMA InsertKeeps ==
  ASSUME HashInv, NEW k \in Keys, NEW v \in Values, NEW n, Inserts(k, v, n)
  PROVE  HashInv'
<1>1. PICK b : b = hash_u64[k]
  OBVIOUS
<1>2. /\ b \in Buckets /\ n \in Nodes /\ n \in cached /\ Lists[b] = Nth(b)
      /\ Nth(b)' = Pushed(Nth(b), n) /\ \A c \in Buckets : c # b => Nth(c)' = Nth(c)
  <2>1. /\ b \in Buckets /\ n \in Nodes
        /\ Nth(b)' = Pushed(Nth(b), n) /\ \A c \in Buckets : c # b => Nth(c)' = Nth(c)
    BY <1>1, InsertLists
  <2>2. n \in cached
    BY DEF Inserts
  <2> QED BY <2>1, <2>2, NthFacts
<1>3. HashTypes'
  <2>1. buckets' \in [Buckets -> Heads]
    BY <1>1, <1>2 DEF HashInv, HashTypes, Inserts, Heads
  <2>2. next' \in [Nodes -> Heads]
    BY <1>1, <1>2 DEF HashInv, HashTypes, Inserts
  <2>3. key' \in [Nodes -> Keys] /\ value' \in [Nodes -> Values]
    BY DEF HashInv, HashTypes, Inserts
  <2> QED BY <2>1, <2>2, <2>3 DEF HashTypes, Heads
<1>4. Shape(Lists, cached)'
  <2>1. PICK l, D : l = Lists' /\ D = cached'
    OBVIOUS
  <2>2. l = [Lists EXCEPT ![b] = Pushed(Lists[b], n)] /\ D = cached \ {n}
    BY <1>2, <2>1, ListsNext DEF Inserts
  <2>3. Shape(l, D)
    BY <1>2, <2>2, InsertShape DEF HashInv
  <2> QED BY <2>1, <2>3 DEF Shape, Heads, At, Size
<1>5. (count = Cardinality(Nodes \ cached))'
  <2>1. IsFiniteSet(Nodes \ cached) /\ n \notin Nodes \ cached /\ Nodes \ cached' = (Nodes \ cached) \cup {n}
    BY <1>2, HashAssumption, FS_Difference DEF Inserts
  <2>2. Cardinality((Nodes \ cached) \cup {n}) = Cardinality(Nodes \ cached) + 1
    BY <2>1, FS_AddElement
  <2> QED BY <2>1, <2>2 DEF HashInv, Inserts
<1> QED BY <1>3, <1>4, <1>5 DEF HashInv

LEMMA RemoveKeeps ==
  ASSUME HashInv, NEW k \in Keys, hashtable_remove(k)
  PROVE  HashInv'
<1>1. PICK b, d : b = hash_u64[k] /\ d = Min(Stops(k))
  OBVIOUS
<1>2. /\ b \in Buckets /\ d \in At /\ Nth(b)[d] # NULL /\ Nth(b)[d] \in Nodes /\ cached' = cached \cup {Nth(b)[d]}
      /\ Nth(b)' = Cut(Nth(b), d) /\ \A c \in Buckets : c # b => Nth(c)' = Nth(c)
      /\ HashTypes'
  BY <1>1, RemoveLists
<1>3. Lists[b] = Nth(b) /\ Nth(b)[d] \notin cached
  BY <1>2, NthFacts, ListFacts
<1>4. Shape(Lists, cached)'
  <2>1. PICK l, D : l = Lists' /\ D = cached'
    OBVIOUS
  <2>2. l = [Lists EXCEPT ![b] = Cut(Lists[b], d)] /\ D = cached \cup {Lists[b][d]}
    BY <1>2, <1>3, <2>1, ListsNext
  <2>3. Shape(l, D)
    BY <1>2, <1>3, <2>2, RemoveShape DEF HashInv
  <2> QED BY <2>1, <2>3 DEF Shape, Heads, At, Size
<1>5. (count = Cardinality(Nodes \ cached))'
  <2>1. PICK n : n = Nth(b)[d]
    OBVIOUS
  <2>2. IsFiniteSet(Nodes \ cached) /\ n \in Nodes \ cached /\ Nodes \ cached' = (Nodes \ cached) \ {n}
    BY <1>2, <1>3, <2>1, HashAssumption, FS_Difference
  <2>3. Cardinality((Nodes \ cached) \ {n}) = Cardinality(Nodes \ cached) - 1
    BY <2>2, FS_RemoveElement
  <2> QED BY <2>2, <2>3 DEF HashInv, hashtable_remove
<1> QED BY <1>2, <1>4, <1>5 DEF HashInv

LEMMA NextKeeps == HashInv /\ [HashNext]_hashVars => HashInv'
<1> SUFFICES ASSUME HashInv, [HashNext]_hashVars PROVE HashInv'
  OBVIOUS
<1>1. ASSUME NEW k \in Keys, NEW v \in Values, hashtable_insert(k, v) PROVE HashInv'
  <2>1. PICK n : Inserts(k, v, n)
    BY <1>1, InsertTakes
  <2> QED BY <2>1, InsertKeeps
<1>2. ASSUME NEW k \in Keys, hashtable_remove(k) PROVE HashInv'
  BY <1>2, RemoveKeeps
<1>3. CASE UNCHANGED hashVars
  <2>1. \A b \in Buckets : Nth(b)' = Nth(b)
    <3> TAKE b \in Buckets
    <3>1. PICK t : t = Nth(b)
      OBVIOUS
    <3>2. Follows(t, buckets'[b], next')
      BY <1>3, <3>1, NthRuleHolds DEF NthRule, hashVars
    <3> QED BY <3>1, <3>2, NthNext
  <2>2. Lists' = Lists
    BY <2>1 DEF Lists
  <2>3. Shape(Lists', cached')
    BY <1>3, <2>2 DEF HashInv, hashVars
  <2>4. Shape(Lists, cached)'
    BY <2>3 DEF Shape, Heads, At, Size
  <2>5. HashTypes' /\ (count = Cardinality(Nodes \ cached))'
    BY <1>3 DEF HashInv, HashTypes, Heads, hashVars
  <2> QED BY <2>4, <2>5 DEF HashInv
<1> QED BY <1>1, <1>2, <1>3 DEF HashNext

\* The invariant holds in every state.
LEMMA HashInvHolds == HashSpec => []HashInv
<1> QED BY InitHolds, NextKeeps, PTL DEF HashSpec

----------------------------------------------------------------------------
(* Orders that change by a position.                                       *)

\* The types that an order has.
LEMMA OrderedFacts ==
  ASSUME NEW S \in SUBSET Nat, NEW p, Ordered(p, S)
  PROVE  /\ p \in Seq(S) /\ Len(p) \in Nat /\ DOMAIN p = 1 .. Len(p)
         /\ \A i \in 1 .. Len(p) : p[i] \in S /\ p[i] \in Nat
         /\ Len(p) = 0 <=> S = {}
<1>1. p \in Seq(S)
  BY DEF Ordered
<1>2. /\ Len(p) \in Nat /\ DOMAIN p = 1 .. Len(p) /\ \A i \in 1 .. Len(p) : p[i] \in S
  BY <1>1
<1>3. \A i \in 1 .. Len(p) : p[i] \in Nat
  BY <1>2
<1>4. ASSUME NEW x \in S PROVE Len(p) # 0
  <2>1. PICK i \in 1 .. Len(p) : p[i] = x
    BY DEF Ordered
  <2> QED BY <1>2, <2>1
<1>5. Len(p) # 0 => p[1] \in S
  BY <1>2
<1> QED BY <1>1, <1>2, <1>3, <1>4, <1>5

\* The first of an order is the least.
LEMMA OrderedFirst ==
  ASSUME NEW S \in SUBSET Nat, NEW p, Ordered(p, S), NEW d \in S, \A x \in S : d <= x
  PROVE  Len(p) # 0 /\ p[1] = d
<1>1. PICK n : n = Len(p) /\ n \in Nat /\ n # 0 /\ \A i \in 1 .. n : p[i] \in S /\ p[i] \in Nat
  BY OrderedFacts
<1>2. PICK i \in 1 .. n : p[i] = d
  BY <1>1 DEF Ordered
<1>3. 1 \in 1 .. n /\ d <= p[1] /\ d \in Nat
  BY <1>1
<1>4. CASE i = 1
  BY <1>1, <1>2, <1>4
<1>5. CASE i # 1
  <2>1. 1 < i
    BY <1>1, <1>5
  <2>2. p[1] < p[i]
    BY <1>1, <1>3, <2>1 DEF Ordered
  <2> QED BY <1>1, <1>2, <1>3, <2>2
<1> QED BY <1>4, <1>5

\* A function that keeps the order carries an order over.
LEMMA OrderedMap ==
  ASSUME NEW S \in SUBSET Nat, NEW p, Ordered(p, S), NEW f, NEW T,
         \A x \in S : f[x] \in T,
         \A x, y \in S : x < y => f[x] < f[y],
         \A z \in T : \E x \in S : f[x] = z,
         NEW q, q = [i \in 1 .. Len(p) |-> f[p[i]]]
  PROVE  Ordered(q, T)
<1>1. PICK n : n = Len(p) /\ n \in Nat /\ \A i \in 1 .. n : p[i] \in S
  BY OrderedFacts
<1>2. q = [i \in 1 .. n |-> f[p[i]]]
  BY <1>1
<1>3. q \in [1 .. n -> T]
  BY <1>1, <1>2
<1>4. q \in Seq(T) /\ Len(q) = n
  BY <1>1, <1>3
<1>5. ASSUME NEW i \in 1 .. n, NEW j \in 1 .. n, i < j PROVE q[i] < q[j]
  <2>1. p[i] < p[j]
    BY <1>1, <1>5 DEF Ordered
  <2>2. f[p[i]] < f[p[j]]
    BY <1>1, <2>1
  <2> QED BY <1>2, <2>2
<1>6. ASSUME NEW z \in T PROVE \E i \in 1 .. n : q[i] = z
  <2>1. PICK x \in S : f[x] = z
    OBVIOUS
  <2>2. PICK i \in 1 .. n : p[i] = x
    BY <1>1 DEF Ordered
  <2> QED BY <1>2, <2>1, <2>2
<1> QED BY <1>4, <1>5, <1>6 DEF Ordered

\* A new least position comes first.
LEMMA OrderedPush ==
  ASSUME NEW S \in SUBSET Nat, NEW p, Ordered(p, S), 0 \notin S
  PROVE  /\ Ordered(<<0>> \o p, S \cup {0}) /\ Len(<<0>> \o p) = Len(p) + 1
         /\ (<<0>> \o p)[1] = 0 /\ \A i \in 1 .. Len(p) : (<<0>> \o p)[i + 1] = p[i]
<1>1. PICK n : n = Len(p) /\ n \in Nat /\ \A i \in 1 .. n : p[i] \in S /\ p[i] \in Nat
  BY OrderedFacts
<1>2. PICK T : T = S \cup {0}
  OBVIOUS
<1>3. p \in Seq(T) /\ <<0>> \in Seq(T) /\ Len(<<0>>) = 1
  <2>1. p \in Seq(S)
    BY DEF Ordered
  <2> QED BY <1>2, <2>1
<1>4. PICK q : q = <<0>> \o p
  OBVIOUS
<1>5. /\ q \in Seq(T) /\ Len(q) = n + 1 /\ q[1] = 0
      /\ \A i \in 1 .. n : q[i + 1] = p[i]
  BY <1>1, <1>3, <1>4
<1>6. \A j \in 1 .. n + 1 : j # 1 => j - 1 \in 1 .. n /\ q[j] = p[j - 1]
  <2> SUFFICES ASSUME NEW j \in 1 .. n + 1, j # 1 PROVE j - 1 \in 1 .. n /\ q[j] = p[j - 1]
    OBVIOUS
  <2>1. j - 1 \in 1 .. n /\ (j - 1) + 1 = j
    BY <1>1
  <2>2. q[(j - 1) + 1] = p[j - 1]
    BY <1>5, <2>1
  <2> QED BY <2>1, <2>2
<1>7. ASSUME NEW i \in 1 .. n + 1, NEW j \in 1 .. n + 1, i < j PROVE q[i] < q[j]
  <2>1. j # 1
    BY <1>1, <1>7
  <2>2. j - 1 \in 1 .. n /\ q[j] = p[j - 1]
    BY <1>6, <2>1
  <2>3. CASE i = 1
    <3>1. p[j - 1] \in S /\ p[j - 1] \in Nat
      BY <1>1, <2>2
    <3>2. p[j - 1] # 0
      BY <3>1
    <3> QED BY <1>5, <2>2, <2>3, <3>1, <3>2
  <2>4. CASE i # 1
    <3>1. i - 1 \in 1 .. n /\ q[i] = p[i - 1]
      BY <1>6, <2>4
    <3>2. i - 1 < j - 1
      BY <1>1, <1>7
    <3>3. p[i - 1] < p[j - 1]
      BY <1>1, <2>2, <3>1, <3>2 DEF Ordered
    <3> QED BY <2>2, <3>1, <3>3
  <2> QED BY <2>3, <2>4
<1>8. ASSUME NEW x \in T PROVE \E i \in 1 .. n + 1 : q[i] = x
  <2>1. CASE x = 0
    BY <1>1, <1>5, <2>1
  <2>2. CASE x \in S
    <3>1. PICK i \in 1 .. n : p[i] = x
      BY <1>1, <2>2 DEF Ordered
    <3>2. i + 1 \in 1 .. n + 1 /\ q[i + 1] = x
      BY <1>1, <1>5, <3>1
    <3> QED BY <3>2
  <2> QED BY <1>2, <2>1, <2>2
<1>9. Ordered(q, T)
  BY <1>5, <1>7, <1>8 DEF Ordered
<1> QED BY <1>1, <1>2, <1>4, <1>5, <1>9

\* Without its least position an order loses its first.
LEMMA OrderedTail ==
  ASSUME NEW S \in SUBSET Nat, NEW p, Ordered(p, S), S # {}
  PROVE  /\ Ordered(Tail(p), S \ {p[1]}) /\ Len(Tail(p)) = Len(p) - 1 /\ Len(p) # 0
         /\ \A i \in 1 .. Len(p) - 1 : Tail(p)[i] = p[i + 1]
<1>1. PICK n : n = Len(p) /\ n \in Nat /\ n # 0 /\ \A i \in 1 .. n : p[i] \in S /\ p[i] \in Nat
  BY OrderedFacts
<1>2. p \in Seq(S)
  BY DEF Ordered
<1>3. PICK T, q : T = S \ {p[1]} /\ q = Tail(p)
  OBVIOUS
<1>4. Len(q) = n - 1 /\ DOMAIN q = 1 .. n - 1 /\ q \in Seq(S) /\ \A i \in 1 .. n - 1 : q[i] = p[i + 1]
  BY <1>1, <1>2, <1>3
<1>5. ASSUME NEW i \in 1 .. n - 1 PROVE q[i] \in T
  <2>1. i + 1 \in 1 .. n /\ 1 \in 1 .. n /\ 1 < i + 1
    BY <1>1
  <2>2. p[1] < p[i + 1]
    BY <1>1, <2>1 DEF Ordered
  <2>3. p[1] # p[i + 1]
    BY <1>1, <2>1, <2>2
  <2> QED BY <1>1, <1>3, <1>4, <2>1, <2>3
<1>6. q \in Seq(T)
  <2>1. q \in [1 .. n - 1 -> T]
    BY <1>4, <1>5
  <2>2. n - 1 \in Nat
    BY <1>1
  <2> QED BY <2>1, <2>2
<1>7. ASSUME NEW i \in 1 .. n - 1, NEW j \in 1 .. n - 1, i < j PROVE q[i] < q[j]
  <2>1. i + 1 \in 1 .. n /\ j + 1 \in 1 .. n /\ i + 1 < j + 1
    BY <1>1, <1>7
  <2>2. p[i + 1] < p[j + 1]
    BY <1>1, <2>1 DEF Ordered
  <2> QED BY <1>4, <2>2
<1>8. ASSUME NEW x \in T PROVE \E i \in 1 .. n - 1 : q[i] = x
  <2>1. PICK i \in 1 .. n : p[i] = x
    BY <1>1, <1>3 DEF Ordered
  <2>2. i # 1
    BY <1>3, <2>1
  <2>3. i - 1 \in 1 .. n - 1 /\ (i - 1) + 1 = i
    BY <1>1, <2>2
  <2>4. q[i - 1] = x
    BY <1>4, <2>1, <2>3
  <2> QED BY <2>3, <2>4
<1>9. Ordered(q, T)
  BY <1>4, <1>6, <1>7, <1>8 DEF Ordered
<1> QED BY <1>1, <1>3, <1>4, <1>9

----------------------------------------------------------------------------
(* The stacks that the lists stand for.                                    *)

\* The values at the positions of the order p.
Along(p, t, w) == [i \in 1 .. Len(p) |-> w[t[p[i]]]]

StackRule ==
  \A k \in Keys :
    /\ Places(k) = {i \in At : Nth(hash_u64[k])[i] # NULL /\ key[Nth(hash_u64[k])[i]] = k}
    /\ Places(k) \in SUBSET (0 .. Size - 1)
    /\ \A p : Ordered(p, Places(k)) => Stack(k) = Along(p, Nth(hash_u64[k]), value)

\* Any order of the positions of a key gives its stack.
LEMMA StackRuleHolds == HashInv => StackRule
<1> SUFFICES ASSUME HashInv, NEW k \in Keys
             PROVE  /\ Places(k) = {i \in At : Nth(hash_u64[k])[i] # NULL /\ key[Nth(hash_u64[k])[i]] = k}
                    /\ Places(k) \in SUBSET (0 .. Size - 1)
                    /\ \A p : Ordered(p, Places(k)) => Stack(k) = Along(p, Nth(hash_u64[k]), value)
  BY DEF StackRule
<1>1. PICK b : b = hash_u64[k] /\ b \in Buckets
  BY HashAssumption
<1>2. PICK t : t = Nth(b) /\ DOMAIN t = At /\ t[Size] = NULL
  BY <1>1, NthFacts, ListFacts
<1>3. PICK S : S = Places(k) /\ S = {i \in At : t[i] # NULL /\ key[t[i]] = k}
  BY <1>1, <1>2 DEF Places
<1>4. S \in SUBSET (0 .. Size - 1)
  <2>1. \A i \in S : i \in At /\ i # Size
    BY <1>2, <1>3
  <2> QED BY <2>1, AtFacts
<1>5. ASSUME NEW p, Ordered(p, S) PROVE Stack(k) = Along(p, t, value)
  <2>1. InOrder(S) = p
    BY <1>4, <1>5, InOrderIs
  <2>2. DOMAIN p = 1 .. Len(p)
    BY <1>5 DEF Ordered
  <2> QED BY <1>1, <1>2, <1>3, <2>1, <2>2 DEF Stack, Along
<1> QED BY <1>1, <1>2, <1>3, <1>4, <1>5

LEMMA StackRuleNext == HashInv' => StackRule'
  BY StackRuleHolds, PTL

\* The positions of a key, their order, and its stack.
LEMMA StackFacts ==
  ASSUME HashInv, NEW k \in Keys, NEW t, t = Nth(hash_u64[k])
  PROVE  /\ Places(k) = {i \in At : t[i] # NULL /\ key[t[i]] = k}
         /\ Places(k) \in SUBSET Nat /\ Places(k) \in SUBSET (0 .. Size - 1)
         /\ \E p : Ordered(p, Places(k)) /\ Stack(k) = Along(p, t, value)
<1>1. /\ Places(k) = {i \in At : t[i] # NULL /\ key[t[i]] = k}
      /\ Places(k) \in SUBSET (0 .. Size - 1)
      /\ \A p : Ordered(p, Places(k)) => Stack(k) = Along(p, t, value)
  BY StackRuleHolds DEF StackRule
<1>2. Size \in Nat
  BY SizeIsNat
<1>3. \E p : Ordered(p, Places(k))
  BY <1>1, <1>2, OrderedExists
<1>4. Places(k) \in SUBSET Nat
  <2>1. \A i \in 0 .. Size - 1 : i \in Nat
    BY <1>2
  <2> QED BY <1>1, <2>1, Zenon
<1>5. \E p : Ordered(p, Places(k)) /\ Stack(k) = Along(p, t, value)
  BY <1>1, <1>3, Zenon
<1> QED BY <1>1, <1>4, <1>5, Zenon

\* A stack is empty when there are no positions.
LEMMA AlongEmpty ==
  ASSUME NEW p, NEW t, NEW w, Len(p) \in Nat
  PROVE  Along(p, t, w) = <<>> <=> Len(p) = 0
<1>1. PICK n, s : n = Len(p) /\ n \in Nat /\ s = Along(p, t, w) /\ s = [i \in 1 .. n |-> w[t[p[i]]]]
  BY DEF Along
<1>2. s \in Seq({s[i] : i \in 1 .. n}) /\ Len(s) = n
  <2>1. s \in [1 .. n -> {s[i] : i \in 1 .. n}]
    BY <1>1
  <2> QED BY <1>1, <2>1
<1>3. s = <<>> <=> n = 0
  BY <1>2
<1> QED BY <1>1, <1>3

\* hashtable_lookup returns the top of the stack of its key.
LEMMA LookupIsHead ==
  ASSUME HashInv, NEW k \in Keys
  PROVE  hashtable_lookup(k) = IF Stack(k) = <<>> THEN NULL ELSE Head(Stack(k))
<1>1. PICK b, d, t : b = hash_u64[k] /\ d = Min(Stops(k)) /\ t = Nth(b)
  OBVIOUS
<1>2. /\ b \in Buckets /\ d \in At /\ Found(k) = t[d]
      /\ t[d] # NULL => key[t[d]] = k
      /\ \A i \in At : i < d => t[i] # NULL /\ key[t[i]] # k
  BY <1>1, StopFacts
<1>3. PICK S : /\ S = Places(k) /\ S = {i \in At : t[i] # NULL /\ key[t[i]] = k} /\ S \in SUBSET Nat
  BY <1>1, StackFacts
<1>4. PICK p : Ordered(p, S) /\ Stack(k) = Along(p, t, value)
  <2>1. t = Nth(hash_u64[k])
    BY <1>1
  <2>2. \E p : Ordered(p, Places(k)) /\ Stack(k) = Along(p, t, value)
    BY <2>1, StackFacts, Zenon
  <2> QED BY <1>3, <2>2, Zenon
<1>5. /\ Len(p) \in Nat /\ (Len(p) = 0 <=> S = {})
  BY <1>3, <1>4, OrderedFacts
<1>6. Stack(k) = <<>> <=> S = {}
  BY <1>4, <1>5, AlongEmpty
<1>7. CASE t[d] = NULL
  <2>1. ASSUME NEW i \in S PROVE FALSE
    <3>1. i \in At /\ t[i] # NULL /\ key[t[i]] = k
      BY <1>3, <2>1
    <3>2. ~ (i < d)
      BY <1>2, <3>1
    <3>3. d <= i
      BY <1>2, <3>1, <3>2, AtFacts
    <3>4. t[i] = NULL
      BY <1>1, <1>2, <1>7, <3>1, <3>3, ListFacts
    <3> QED BY <3>1, <3>4
  <2>2. Stack(k) = <<>>
    BY <1>6, <2>1
  <2> QED BY <1>2, <1>7, <2>2 DEF hashtable_lookup
<1>8. CASE t[d] # NULL
  <2>1. d \in S
    BY <1>2, <1>3, <1>8
  <2>2. \A i \in S : d <= i
    <3> TAKE i \in S
    <3>1. i \in At /\ ~ (i < d)
      BY <1>2, <1>3
    <3> QED BY <1>2, <3>1, AtFacts
  <2>3. Len(p) # 0 /\ p[1] = d
    BY <1>3, <1>4, <2>1, <2>2, OrderedFirst
  <2>4. PICK s : s = Stack(k) /\ s = [i \in 1 .. Len(p) |-> value[t[p[i]]]]
    BY <1>4 DEF Along
  <2>5. 1 \in 1 .. Len(p) /\ s[1] = value[t[d]]
    BY <1>5, <2>3, <2>4
  <2>6. Stack(k) # <<>>
    BY <1>6, <2>1
  <2>7. Head(Stack(k)) = s[1]
    BY <2>4
  <2> QED BY <1>2, <1>8, <2>5, <2>6, <2>7 DEF hashtable_lookup
<1> QED BY <1>7, <1>8

\* A list and its chain have the same nodes.
LEMMA ChainNodes ==
  ASSUME HashInv, NEW b \in Buckets
  PROVE  Range(Chain(b)) = {n \in Nodes : \E i \in At : Nth(b)[i] = n}
<1>1. PICK t : t = Nth(b)
  OBVIOUS
<1>2. /\ DOMAIN t = At /\ t[Size] = NULL
      /\ \A i, j \in At : i <= j /\ t[i] = NULL => t[j] = NULL
      /\ \A i \in At : t[i] # NULL => t[i] \in Nodes
  BY <1>1, NthFacts, ListFacts
<1>3. PICK E : E = {i \in At : t[i] = NULL} \cup {Size}
  OBVIOUS
<1>4. E \in SUBSET Nat /\ E # {} /\ \A i \in E : i \in At /\ t[i] = NULL
  BY <1>2, <1>3, AtFacts
<1>5. PICK e : e = Min(E) /\ e \in E /\ \A i \in E : e <= i
  BY <1>4, MinIsLeast
<1>6. e \in At /\ e \in Nat /\ t[e] = NULL
  BY <1>4, <1>5
<1>7. Chain(b) = [i \in 1 .. e |-> t[i - 1]]
  BY <1>1, <1>2, <1>3, <1>5 DEF Chain, Size
<1>8. ASSUME NEW i \in 1 .. e PROVE i - 1 \in At /\ t[i - 1] # NULL /\ t[i - 1] \in Nodes
  <2>1. i - 1 \in At /\ ~ (e <= i - 1)
    BY <1>6, AtFacts
  <2>2. t[i - 1] # NULL
    BY <1>3, <1>5, <2>1
  <2> QED BY <1>2, <2>1, <2>2
<1>9. ASSUME NEW n \in Nodes, NEW i \in At, t[i] = n PROVE \E j \in 1 .. e : t[j - 1] = n
  <2>1. n # NULL
    BY HashAssumption
  <2>2. ~ (e <= i)
    BY <1>2, <1>6, <1>9, <2>1
  <2>3. i + 1 \in 1 .. e /\ (i + 1) - 1 = i
    BY <1>6, <2>2, AtFacts
  <2> QED BY <1>9, <2>3
<1>10. PICK c : c = Chain(b) /\ c = [i \in 1 .. e |-> t[i - 1]]
  BY <1>7
<1>11. Range(c) = {c[i] : i \in 1 .. e}
  BY <1>10 DEF Range
<1>12. \A i \in 1 .. e : c[i] = t[i - 1]
  BY <1>10
<1> QED BY <1>1, <1>8, <1>9, <1>10, <1>11, <1>12

\* The invariant is strong enough.
LEMMA InvGivesListsExact == HashInv => ListsExact
<1> SUFFICES ASSUME HashInv PROVE ListsExact
  OBVIOUS
<1>1. ASSUME NEW b \in Buckets PROVE \E i \in DOMAIN Nth(b) : Nth(b)[i] = NULL
  <2>1. DOMAIN Nth(b) = At /\ Nth(b)[Size] = NULL
    BY NthFacts, ListFacts
  <2> QED BY <2>1, AtFacts
<1>2. ASSUME NEW b \in Buckets, NEW c \in Buckets, b # c PROVE Range(Chain(b)) \cap Range(Chain(c)) = {}
  <2> SUFFICES ASSUME NEW n \in Range(Chain(b)), n \in Range(Chain(c)) PROVE FALSE
    OBVIOUS
  <2>1. /\ n \in Nodes /\ \E i \in At : Nth(b)[i] = n
        /\ \E j \in At : Nth(c)[j] = n
    BY ChainNodes
  <2>2. PICK i \in At, j \in At : Nth(b)[i] = n /\ Nth(c)[j] = n
    BY <2>1
  <2>3. n # NULL
    BY <2>1, HashAssumption
  <2>4. Lists[b][i] # NULL /\ Lists[b][i] = Lists[c][j] /\ Shape(Lists, cached)
    BY <2>2, <2>3, NthFacts DEF HashInv
  <2>5. b = c
    BY <2>4, Apart
  <2> QED BY <1>2, <2>5
<1>3. UNION {Range(Chain(b)) : b \in Buckets} = Nodes \ cached
  <2>1. ASSUME NEW b \in Buckets, NEW n \in Range(Chain(b)) PROVE n \in Nodes \ cached
    <3>1. n \in Nodes /\ \E i \in At : Nth(b)[i] = n
      BY ChainNodes
    <3> QED BY <3>1, ListFacts
  <2>2. ASSUME NEW n \in Nodes \ cached PROVE \E b \in Buckets : n \in Range(Chain(b))
    <3>1. PICK b \in Buckets, i \in At : Lists[b][i] = n
      BY DEF HashInv, Shape
    <3>2. Nth(b)[i] = n
      BY <3>1, NthFacts
    <3> QED BY <3>2, ChainNodes
  <2> QED BY <2>1, <2>2
<1>4. count = Cardinality(Nodes \ cached)
  BY DEF HashInv
<1>5. \A k \in Keys : hashtable_lookup(k) = IF Stack(k) = <<>> THEN NULL ELSE Head(Stack(k))
  BY LookupIsHead
<1> QED BY <1>1, <1>2, <1>3, <1>4, <1>5 DEF ListsExact

\* The lists end, share no node, hold every node that is not in the cache, and
\* hashtable_lookup finds the latest value of its key, for any table, hash and nodes.
THEOREM ListsAreExact == HashSpec => []ListsExact
  BY HashInvHolds, InvGivesListsExact, PTL

----------------------------------------------------------------------------
(* The stacks after a step.                                                *)

\* The stack of a key after a step, from any order of its positions after it.
LEMMA StackNext ==
  ASSUME HashInv', NEW k \in Keys, NEW u, u = Nth(hash_u64[k])', NEW q,
         Ordered(q, {i \in At : u[i] # NULL /\ key'[u[i]] = k})
  PROVE  Stack(k)' = Along(q, u, value')
<1>1. /\ Places(k)' = {i \in At : u[i] # NULL /\ key'[u[i]] = k}
      /\ \A p : Ordered(p, Places(k)') => Stack(k)' = Along(p, u, value')
  <2>1. StackRule'
    BY StackRuleNext
  <2>2. /\ Places(k)' = {i \in At : u[i] # NULL /\ key'[u[i]] = k}
        /\ \A p : Ordered(p, Places(k))' => Stack(k)' = Along(p, u, value)'
    BY <2>1, Zenon DEF StackRule
  <2> QED BY <2>2
<1> QED BY <1>1

\* Two orders that lead to the same values.
LEMMA AlongEqual ==
  ASSUME NEW p, NEW q, NEW t, NEW u, NEW w, NEW x, Len(p) = Len(q),
         \A i \in 1 .. Len(p) : w[t[p[i]]] = x[u[q[i]]]
  PROVE  Along(p, t, w) = Along(q, u, x)
  BY DEF Along

\* A key whose list and nodes a step leaves alone keeps its stack.
LEMMA StackKept ==
  ASSUME HashInv, HashInv', NEW c \in Keys, Nth(hash_u64[c])' = Nth(hash_u64[c]),
         \A i \in At : Nth(hash_u64[c])[i] # NULL =>
            /\ key'[Nth(hash_u64[c])[i]] = key[Nth(hash_u64[c])[i]]
            /\ value'[Nth(hash_u64[c])[i]] = value[Nth(hash_u64[c])[i]]
  PROVE  Stack(c)' = Stack(c)
<1>1. PICK t : t = Nth(hash_u64[c])
  OBVIOUS
<1>2. PICK S : S = Places(c) /\ S = {i \in At : t[i] # NULL /\ key[t[i]] = c} /\ S \in SUBSET Nat
  BY <1>1, StackFacts
<1>3. PICK p : Ordered(p, S) /\ Stack(c) = Along(p, t, value)
  <2>1. \E p : Ordered(p, Places(c)) /\ Stack(c) = Along(p, t, value)
    BY <1>1, StackFacts, Zenon
  <2> QED BY <1>2, <2>1, Zenon
<1>4. \A i \in At : t[i] # NULL => key'[t[i]] = key[t[i]] /\ value'[t[i]] = value[t[i]]
  BY <1>1
<1>5. S = {i \in At : t[i] # NULL /\ key'[t[i]] = c}
  BY <1>2, <1>4
<1>6. t = Nth(hash_u64[c])'
  BY <1>1
<1>7. Stack(c)' = Along(p, t, value')
  BY <1>3, <1>5, <1>6, StackNext
<1>8. \A i \in 1 .. Len(p) : value'[t[p[i]]] = value[t[p[i]]]
  <2>1. \A i \in 1 .. Len(p) : p[i] \in S
    BY <1>2, <1>3, OrderedFacts
  <2> QED BY <1>2, <1>4, <2>1
<1>9. Along(p, t, value') = Along(p, t, value)
  BY <1>8 DEF Along
<1> QED BY <1>3, <1>7, <1>9

\* hashtable_insert pushes onto the stack of its key and no other.
LEMMA InsertStacks ==
  ASSUME HashInv, HashInv', NEW k \in Keys, NEW v \in Values, NEW n, Inserts(k, v, n), NEW c \in Keys
  PROVE  Stack(c)' = IF c = k THEN <<v>> \o Stack(c) ELSE Stack(c)
<1>1. PICK b : b = hash_u64[k]
  OBVIOUS
<1>2. /\ b \in Buckets /\ n \in Nodes /\ Nth(b)' = Pushed(Nth(b), n)
      /\ \A e \in Buckets : e # b => Nth(e)' = Nth(e)
  BY <1>1, InsertLists
<1>3. hash_u64[c] \in Buckets /\ n \in cached /\ n # NULL
  BY <1>2, HashAssumption DEF Inserts
<1>4. \A m \in Nodes : m # n => key'[m] = key[m] /\ value'[m] = value[m]
  BY DEF Inserts, HashInv, HashTypes
<1>5. key'[n] = k /\ value'[n] = v
  BY <1>2 DEF Inserts, HashInv, HashTypes
<1>6. PICK t : t = Nth(hash_u64[c])
  OBVIOUS
<1>7. \A i \in At : t[i] # n /\ (t[i] # NULL => t[i] \in Nodes)
  BY <1>3, <1>6, ListFacts
<1>8. \A i \in At : t[i] # NULL => key'[t[i]] = key[t[i]] /\ value'[t[i]] = value[t[i]]
  BY <1>4, <1>7
<1>9. CASE hash_u64[c] # b
  <2>1. Nth(hash_u64[c])' = Nth(hash_u64[c]) /\ c # k
    BY <1>1, <1>2, <1>3, <1>9
  <2>2. Stack(c)' = Stack(c)
    BY <1>6, <1>8, <2>1, StackKept
  <2> QED BY <2>1, <2>2
<1>10. CASE hash_u64[c] = b
  <2>1. PICK S : /\ S = Places(c) /\ S = {i \in At : t[i] # NULL /\ key[t[i]] = c}
                 /\ S \in SUBSET Nat /\ S \in SUBSET (0 .. Size - 1)
    BY <1>6, StackFacts
  <2>2. PICK p : Ordered(p, S) /\ Stack(c) = Along(p, t, value)
    <3>1. \E p : Ordered(p, Places(c)) /\ Stack(c) = Along(p, t, value)
      BY <1>6, StackFacts, Zenon
    <3> QED BY <2>1, <3>1, Zenon
  <2>3. PICK u : u = Nth(hash_u64[c])' /\ u = Pushed(t, n)
    BY <1>2, <1>6, <1>10
  <2>4. /\ u[0] = n /\ 0 \in At
        /\ \A i \in At : i # 0 => u[i] = t[i - 1] /\ i - 1 \in At
    BY <2>3, AtFacts DEF Pushed
  <2>5. PICK f : f = [i \in Nat |-> i + 1]
    OBVIOUS
  <2>6. PICK T : T = {f[i] : i \in S}
    OBVIOUS
  <2>7. PICK l : l = Len(p) /\ l \in Nat /\ \A i \in 1 .. l : p[i] \in S
    BY <2>1, <2>2, OrderedFacts
  <2>8. \A x \in S : f[x] = x + 1 /\ f[x] \in T /\ f[x] \in At /\ f[x] # 0 /\ f[x] - 1 = x
    <3> TAKE x \in S
    <3>1. x \in Nat /\ x \in 0 .. Size - 1
      BY <2>1
    <3>2. f[x] = x + 1 /\ f[x] \in T
      BY <2>5, <2>6, <3>1
    <3> QED BY <3>1, <3>2, SizeIsNat DEF At
  <2>9. PICK q : q = [i \in 1 .. l |-> f[p[i]]] /\ Ordered(q, T)
    <3>1. \A x, y \in S : x < y => f[x] < f[y]
      BY <2>1, <2>8
    <3>2. \A z \in T : \E x \in S : f[x] = z
      BY <2>6
    <3>3. PICK q : q = [i \in 1 .. Len(p) |-> f[p[i]]]
      OBVIOUS
    <3>4. S \in SUBSET Nat /\ Ordered(p, S) /\ \A x \in S : f[x] \in T
      BY <2>1, <2>2, <2>8
    <3>5. Ordered(q, T)
      BY <3>1, <3>2, <3>3, <3>4, OrderedMap
    <3> QED BY <2>7, <3>3, <3>5
  <2>10. Len(q) = l /\ \A i \in 1 .. l : q[i] = f[p[i]]
    BY <2>7, <2>9
  <2>11. T \in SUBSET Nat /\ 0 \notin T
    BY <2>1, <2>6, <2>8
  <2>12. \A x \in S : u[f[x]] = t[x] /\ value'[u[f[x]]] = value[t[x]]
    <3> TAKE x \in S
    <3>1. x \in At /\ t[x] # NULL
      BY <2>1
    <3>2. u[f[x]] = t[x]
      BY <2>4, <2>8
    <3> QED BY <1>8, <3>1, <3>2
  <2>13. {i \in At : u[i] # NULL /\ key'[u[i]] = c} = IF c = k THEN T \cup {0} ELSE T
    <3>1. PICK R : R = {i \in At : u[i] # NULL /\ key'[u[i]] = c}
      OBVIOUS
    <3>2. 0 \in R <=> c = k
      BY <1>3, <1>5, <2>4, <3>1
    <3>3. ASSUME NEW i \in R, i # 0 PROVE i \in T
      <4>1. i \in At /\ u[i] = t[i - 1] /\ i - 1 \in At /\ t[i - 1] # NULL /\ key'[t[i - 1]] = c
        BY <2>4, <3>1, <3>3
      <4>2. i - 1 \in S
        BY <1>8, <2>1, <4>1
      <4>3. f[i - 1] = i
        BY <2>8, <4>1, <4>2, AtFacts
      <4> QED BY <2>6, <4>2, <4>3
    <3>4. ASSUME NEW i \in T PROVE i \in R
      <4>1. PICK x \in S : i = f[x]
        BY <2>6
      <4>2. x \in At /\ t[x] # NULL /\ key[t[x]] = c
        BY <2>1
      <4>3. i \in At /\ u[i] = t[x]
        BY <2>8, <2>12, <4>1
      <4> QED BY <1>8, <3>1, <4>2, <4>3
    <3> QED BY <2>11, <3>1, <3>2, <3>3, <3>4
  <2>14. CASE c # k
    <3>1. Stack(c)' = Along(q, u, value')
      BY <2>3, <2>9, <2>13, <2>14, StackNext
    <3>2. \A i \in 1 .. l : value[t[p[i]]] = value'[u[q[i]]]
      BY <2>7, <2>10, <2>12
    <3>3. Along(p, t, value) = Along(q, u, value')
      BY <2>7, <2>10, <3>2, AlongEqual
    <3> QED BY <2>2, <2>14, <3>1, <3>3
  <2>15. CASE c = k
    <3>1. PICK r : r = <<0>> \o q
      OBVIOUS
    <3>2. /\ Ordered(r, T \cup {0}) /\ Len(r) = l + 1 /\ r[1] = 0
          /\ \A i \in 1 .. l : r[i + 1] = q[i]
      <4>1. /\ Ordered(<<0>> \o q, T \cup {0}) /\ Len(<<0>> \o q) = Len(q) + 1
            /\ (<<0>> \o q)[1] = 0 /\ \A i \in 1 .. Len(q) : (<<0>> \o q)[i + 1] = q[i]
        BY <2>9, <2>11, OrderedPush
      <4> QED BY <2>10, <3>1, <4>1
    <3>3. Stack(c)' = Along(r, u, value')
      BY <2>3, <2>13, <2>15, <3>2, StackNext
    <3>4. PICK s : s = Along(p, t, value) /\ s = [i \in 1 .. l |-> value[t[p[i]]]]
      BY <2>7 DEF Along
    <3>5. PICK z : z = Along(r, u, value') /\ z = [i \in 1 .. l + 1 |-> value'[u[r[i]]]]
      BY <3>2 DEF Along
    <3>6. z[1] = v
      BY <1>5, <2>4, <2>7, <3>2, <3>5
    <3>7. \A i \in 1 .. l : z[i + 1] = s[i]
      <4> TAKE i \in 1 .. l
      <4>1. i + 1 \in 1 .. l + 1
        BY <2>7
      <4>2. z[i + 1] = value'[u[q[i]]]
        BY <3>2, <3>5, <4>1
      <4>3. value'[u[q[i]]] = value[t[p[i]]]
        BY <2>7, <2>10, <2>12
      <4> QED BY <3>4, <4>2, <4>3
    <3>8. z = <<v>> \o s
      <4>1. PICK V : V = {v} \cup {s[i] : i \in 1 .. l}
        OBVIOUS
      <4>2. s \in [1 .. l -> V]
        BY <3>4, <4>1
      <4>3. s \in Seq(V) /\ Len(s) = l /\ <<v>> \in Seq(V)
        BY <2>7, <4>1, <4>2
      <4>4. PICK y : y = <<v>> \o s
        OBVIOUS
      <4>5. y \in Seq(V) /\ Len(y) = l + 1 /\ y[1] = v /\ \A i \in 1 .. l : y[i + 1] = s[i]
        BY <2>7, <4>3, <4>4
      <4>6. ASSUME NEW j \in 1 .. l + 1 PROVE y[j] = z[j]
        <5>1. CASE j = 1
          BY <3>6, <4>5, <5>1
        <5>2. CASE j # 1
          <6>1. PICK i : i = j - 1 /\ i \in 1 .. l /\ i + 1 = j
            BY <2>7, <5>2
          <6> QED BY <3>7, <4>5, <6>1
        <5> QED BY <5>1, <5>2
      <4>7. y = [j \in 1 .. l + 1 |-> y[j]]
        BY <4>5
      <4>8. z = [j \in 1 .. l + 1 |-> z[j]]
        BY <3>5
      <4> QED BY <4>4, <4>6, <4>7, <4>8
    <3> QED BY <2>2, <2>15, <3>3, <3>4, <3>5, <3>8
  <2> QED BY <2>14, <2>15
<1> QED BY <1>9, <1>10

\* hashtable_remove pops the stack of its key and no other, also in the same list.
LEMMA RemoveStacks ==
  ASSUME HashInv, HashInv', NEW k \in Keys, hashtable_remove(k), NEW c \in Keys
  PROVE  /\ Stack(k) # <<>>
         /\ Stack(c)' = IF c = k THEN Tail(Stack(c)) ELSE Stack(c)
<1>1. PICK b, d : b = hash_u64[k] /\ d = Min(Stops(k))
  OBVIOUS
<1>2. /\ b \in Buckets /\ d \in At /\ Nth(b)[d] # NULL /\ Nth(b)' = Cut(Nth(b), d)
      /\ \A e \in Buckets : e # b => Nth(e)' = Nth(e)
  BY <1>1, RemoveLists
<1>3. key' = key /\ value' = value
  BY DEF hashtable_remove
<1>4. PICK h : h = Nth(b)
  OBVIOUS
<1>5. /\ key[h[d]] = k /\ d < Size /\ \A i \in At : i < d => h[i] # NULL /\ key[h[i]] # k
  BY <1>1, <1>2, <1>4, StopFacts
<1>6. Size \in Nat /\ d \in Nat
  BY <1>2, AtFacts
<1>7. PICK t : t = Nth(hash_u64[c])
  OBVIOUS
<1>8. PICK S : /\ S = Places(c) /\ S = {i \in At : t[i] # NULL /\ key[t[i]] = c}
               /\ S \in SUBSET Nat /\ S \in SUBSET (0 .. Size - 1)
  BY <1>7, StackFacts
<1>9. PICK p : Ordered(p, S) /\ Stack(c) = Along(p, t, value)
  <2>1. \E p : Ordered(p, Places(c)) /\ Stack(c) = Along(p, t, value)
    BY <1>7, StackFacts, Zenon
  <2> QED BY <1>8, <2>1, Zenon
<1>10. Stack(k) # <<>>
  <2>2. PICK M : M = Places(k) /\ M = {i \in At : h[i] # NULL /\ key[h[i]] = k} /\ M \in SUBSET Nat
    BY <1>1, <1>4, StackFacts
  <2>3. PICK r : Ordered(r, M) /\ Stack(k) = Along(r, h, value)
    <3>1. \E r : Ordered(r, Places(k)) /\ Stack(k) = Along(r, h, value)
      BY <1>1, <1>4, StackFacts, Zenon
    <3> QED BY <2>2, <3>1, Zenon
  <2>4. d \in M
    BY <1>2, <1>4, <1>5, <2>2
  <2>5. Len(r) \in Nat /\ (Len(r) = 0 <=> M = {})
    BY <2>2, <2>3, OrderedFacts
  <2> QED BY <2>3, <2>4, <2>5, AlongEmpty
<1>11. CASE hash_u64[c] # b
  <2>1. Nth(hash_u64[c])' = Nth(hash_u64[c]) /\ c # k
    BY <1>1, <1>2, <1>11, HashAssumption
  <2>2. Stack(c)' = Stack(c)
    BY <1>3, <2>1, StackKept
  <2> QED BY <1>10, <2>1, <2>2
<1>12. CASE hash_u64[c] = b
  <2>1. t = h
    BY <1>4, <1>7, <1>12
  <2>2. PICK u : u = Nth(hash_u64[c])' /\ u = Cut(t, d)
    BY <1>2, <1>4, <1>12, <2>1
  <2>3. \A i \in At : u[i] = IF i < d THEN t[i] ELSE IF i = Size THEN NULL ELSE t[i + 1]
    BY <2>2 DEF Cut
  <2>4. d \in S <=> c = k
    BY <1>2, <1>4, <1>5, <1>8, <2>1
  \* The positions that stay, and where they go.
  <2>5. PICK R : R = S \ {d} /\ R \in SUBSET Nat
    BY <1>8
  <2>6. PICK f : f = [i \in Nat |-> IF i < d THEN i ELSE i - 1]
    OBVIOUS
  <2>7. PICK T : T = {f[i] : i \in R}
    OBVIOUS
  <2>8. ASSUME NEW x \in R
        PROVE  /\ x \in Nat /\ x # d /\ x \in At /\ t[x] # NULL /\ key[t[x]] = c
               /\ f[x] = (IF x < d THEN x ELSE x - 1) /\ f[x] \in T /\ f[x] \in At /\ u[f[x]] = t[x]
    <3>1. x \in Nat /\ x # d /\ x \in At /\ t[x] # NULL /\ key[t[x]] = c /\ x \in 0 .. Size - 1
      BY <1>8, <2>5, <2>8
    <3>2. f[x] = (IF x < d THEN x ELSE x - 1) /\ f[x] \in T
      BY <2>6, <2>7, <3>1
    <3>3. CASE x < d
      BY <2>3, <3>1, <3>2, <3>3
    <3>4. CASE ~ (x < d)
      <4>1. PICK y : y = x - 1 /\ y \in At /\ ~ (y < d) /\ y # Size /\ y + 1 = x
        BY <1>6, <3>1, <3>4, AtFacts
      <4>2. u[y] = t[x]
        BY <2>3, <4>1
      <4> QED BY <3>1, <3>2, <3>4, <4>1, <4>2
    <3> QED BY <3>3, <3>4
  <2>9. T = {i \in At : u[i] # NULL /\ key'[u[i]] = c}
    <3>1. ASSUME NEW i \in T PROVE i \in At /\ u[i] # NULL /\ key'[u[i]] = c
      <4>1. PICK x \in R : i = f[x]
        BY <2>7
      <4> QED BY <1>3, <2>8, <4>1
    <3>2. ASSUME NEW i \in At, u[i] # NULL, key'[u[i]] = c PROVE i \in T
      <4>0. i \in Nat /\ i <= Size
        BY AtFacts
      <4>1. CASE i < d
        <5>1. u[i] = t[i]
          BY <2>3, <4>1
        <5>2. i \in R
          BY <1>3, <1>6, <1>8, <2>5, <3>2, <4>0, <4>1, <5>1
        <5>3. f[i] = i
          BY <2>8, <4>1, <5>2
        <5> QED BY <2>7, <5>2, <5>3
      <4>2. CASE ~ (i < d)
        <5>1. i # Size /\ u[i] = t[i + 1]
          BY <2>3, <3>2, <4>2
        <5>2. PICK x : x = i + 1 /\ x \in At /\ x \in Nat /\ x # d /\ ~ (x < d) /\ x - 1 = i
          BY <1>6, <4>0, <4>2, <5>1, AtFacts
        <5>3. x \in R
          BY <1>3, <1>8, <2>5, <3>2, <5>1, <5>2
        <5>4. f[x] = i
          BY <2>8, <5>2, <5>3
        <5> QED BY <2>7, <5>3, <5>4
      <4> QED BY <4>1, <4>2
    <3> QED BY <3>1, <3>2
  <2>10. ASSUME NEW r, Ordered(r, R) PROVE Stack(c)' = Along(r, t, value)
    <3>1. PICK l : l = Len(r) /\ l \in Nat /\ \A i \in 1 .. l : r[i] \in R
      BY <2>5, <2>10, OrderedFacts
    <3>2. PICK q : q = [i \in 1 .. Len(r) |-> f[r[i]]]
      OBVIOUS
    <3>3. \A x, y \in R : x < y => f[x] < f[y]
      <4> SUFFICES ASSUME NEW x \in R, NEW y \in R, x < y PROVE f[x] < f[y]
        OBVIOUS
      <4>1. /\ x \in Nat /\ x # d /\ f[x] = IF x < d THEN x ELSE x - 1
            /\ y \in Nat /\ y # d /\ f[y] = IF y < d THEN y ELSE y - 1
        BY <2>8
      <4> QED BY <1>6, <4>1
    <3>4. \A z \in T : \E x \in R : f[x] = z
      BY <2>7
    <3>5. \A x \in R : f[x] \in T
      BY <2>8
    <3>6. Ordered(q, T)
      BY <2>5, <2>10, <3>2, <3>3, <3>4, <3>5, OrderedMap
    <3>7. Stack(c)' = Along(q, u, value')
      BY <2>2, <2>9, <3>6, StackNext
    <3>8. Len(q) = Len(r) /\ \A i \in 1 .. Len(r) : q[i] = f[r[i]]
      BY <3>1, <3>2
    <3>9. \A i \in 1 .. Len(r) : value[t[r[i]]] = value'[u[q[i]]]
      BY <1>3, <2>8, <3>1, <3>8
    <3>10. Along(r, t, value) = Along(q, u, value')
      BY <3>8, <3>9, AlongEqual
    <3> QED BY <3>7, <3>10
  <2>11. CASE c # k
    <3>1. R = S
      BY <2>4, <2>5, <2>11
    <3>2. Stack(c)' = Along(p, t, value)
      BY <1>9, <2>10, <3>1
    <3> QED BY <1>9, <1>10, <2>11, <3>2
  <2>12. CASE c = k
    <3>1. \A x \in S : d <= x
      <4> TAKE x \in S
      <4>1. x \in At /\ x \in Nat /\ key[t[x]] = k
        BY <1>8, <2>12
      <4>2. ~ (x < d)
        BY <1>5, <2>1, <4>1
      <4> QED BY <1>6, <4>1, <4>2
    <3>2. p[1] = d
      BY <1>8, <1>9, <2>4, <2>12, <3>1, OrderedFirst
    <3>3. S # {}
      BY <2>4, <2>12
    <3>4. /\ Ordered(Tail(p), R) /\ Len(Tail(p)) = Len(p) - 1 /\ Len(p) # 0
          /\ \A i \in 1 .. Len(p) - 1 : Tail(p)[i] = p[i + 1]
      BY <1>8, <1>9, <2>5, <3>2, <3>3, OrderedTail
    <3>5. Stack(c)' = Along(Tail(p), t, value)
      BY <2>10, <3>4
    <3>6. PICK l : l = Len(p) /\ l \in Nat /\ l # 0
      BY <1>8, <1>9, <3>4, OrderedFacts
    <3>7. PICK s : s = Along(p, t, value) /\ s = [i \in 1 .. l |-> value[t[p[i]]]]
      BY <3>6 DEF Along
    <3>8. PICK z : z = Along(Tail(p), t, value) /\ z = [i \in 1 .. l - 1 |-> value[t[p[i + 1]]]]
      <4>1. Along(Tail(p), t, value) = [i \in 1 .. l - 1 |-> value[t[Tail(p)[i]]]]
        BY <3>4, <3>6 DEF Along
      <4>2. \A i \in 1 .. l - 1 : Tail(p)[i] = p[i + 1]
        BY <3>4, <3>6
      <4> QED BY <4>1, <4>2
    <3>9. z = Tail(s)
      <4>1. PICK V : V = {s[i] : i \in 1 .. l}
        OBVIOUS
      <4>2. s \in [1 .. l -> V]
        BY <3>7, <4>1
      <4>3. s \in Seq(V) /\ Len(s) = l
        BY <3>6, <4>2
      <4>4. PICK y : y = Tail(s)
        OBVIOUS
      <4>5. y = [i \in 1 .. l - 1 |-> s[i + 1]]
        <5>1. s # <<>>
          BY <3>6, <4>3
        <5>2. y \in Seq(V) /\ Len(y) = l - 1 /\ \A i \in 1 .. l - 1 : y[i] = s[i + 1]
          BY <3>6, <4>3, <4>4, <5>1
        <5>3. y = [i \in 1 .. l - 1 |-> y[i]]
          BY <5>2
        <5> QED BY <5>2, <5>3
      <4>6. \A i \in 1 .. l - 1 : s[i + 1] = value[t[p[i + 1]]]
        BY <3>6, <3>7
      <4> QED BY <3>8, <4>4, <4>5, <4>6
    <3> QED BY <1>9, <1>10, <2>12, <3>5, <3>7, <3>8, <3>9
  <2> QED BY <2>11, <2>12
<1> QED BY <1>11, <1>12

----------------------------------------------------------------------------
(* The refinement.                                                         *)

Stacks == [k \in Keys |-> Stack(k)]

\* The empty table has empty stacks.
LEMMA InitImplements == hashtable_init => ByKey!Init
<1> SUFFICES ASSUME hashtable_init PROVE ByKey!Init
  OBVIOUS
<1>1. HashInv
  BY InitHolds
<1>2. ASSUME NEW k \in Keys PROVE Stack(k) = <<>>
  <2>1. PICK t : t = Nth(hash_u64[k])
    OBVIOUS
  <2>2. hash_u64[k] \in Buckets
    BY HashAssumption
  <2>3. t[0] = NULL
    BY <2>1, <2>2, NthFacts DEF hashtable_init
  <2>4. \A i \in At : t[i] = NULL
    <3>1. \A i \in At : 0 <= i /\ 0 \in At
      BY AtFacts
    <3> QED BY <1>1, <2>1, <2>2, <2>3, <3>1, ListFacts
  <2>5. Places(k) = {}
    BY <1>1, <2>1, <2>4, StackFacts
  <2>6. PICK p : Ordered(p, {}) /\ Stack(k) = Along(p, t, value)
    BY <1>1, <2>1, <2>5, StackFacts
  <2>7. Len(p) = 0
    BY <2>6, OrderedFacts
  <2> QED BY <2>6, <2>7 DEF Along
<1>3. [k \in Keys |-> Stack(k)] = [k \in Keys |-> <<>>]
  BY <1>2
<1> QED BY <1>3 DEF hashtable_init, ByKey!Init

\* Every step of the table is a step of the stacks, or leaves them.
LEMMA StepImplements == HashInv /\ HashInv' /\ [HashNext]_hashVars => [ByKey!Next]_<<Stacks, count>>
<1> SUFFICES ASSUME HashInv, HashInv', [HashNext]_hashVars
             PROVE  ByKey!Next \/ (Stacks' = Stacks /\ count' = count)
  OBVIOUS
<1>1. ASSUME NEW k \in Keys, NEW v \in Values, hashtable_insert(k, v) PROVE ByKey!Next
  <2>1. PICK n : Inserts(k, v, n)
    BY <1>1, InsertTakes
  <2>2. \A c \in Keys : Stack(c)' = IF c = k THEN <<v>> \o Stack(c) ELSE Stack(c)
    BY <2>1, InsertStacks
  <2>3. Stacks' = [Stacks EXCEPT ![k] = <<v>> \o @]
    BY <2>2 DEF Stacks
  <2>4. ByKey!Insert(k, v)
    BY <2>1, <2>3 DEF ByKey!Insert, Stacks, Inserts
  <2> QED BY <2>4 DEF ByKey!Next
<1>2. ASSUME NEW k \in Keys, hashtable_remove(k) PROVE ByKey!Next
  <2>1. /\ Stack(k) # <<>>
        /\ \A c \in Keys : Stack(c)' = IF c = k THEN Tail(Stack(c)) ELSE Stack(c)
    BY <1>2, RemoveStacks
  <2>2. Stacks' = [Stacks EXCEPT ![k] = Tail(@)] /\ Stacks[k] # <<>>
    BY <2>1 DEF Stacks
  <2>3. ByKey!Remove(k)
    BY <1>2, <2>2 DEF ByKey!Remove, Stacks, hashtable_remove
  <2> QED BY <2>3 DEF ByKey!Next
<1>3. CASE UNCHANGED hashVars
  <2>1. ASSUME NEW b \in Buckets PROVE Nth(b)' = Nth(b)
    <3>1. PICK t : t = Nth(b)
      OBVIOUS
    <3>2. Follows(t, buckets'[b], next')
      BY <1>3, <3>1, NthRuleHolds DEF NthRule, hashVars
    <3> QED BY <3>1, <3>2, NthNext
  <2>2. ASSUME NEW c \in Keys PROVE Stack(c)' = Stack(c)
    <3>1. Nth(hash_u64[c])' = Nth(hash_u64[c])
      BY <2>1, HashAssumption
    <3>2. key' = key /\ value' = value
      BY <1>3 DEF hashVars
    <3> QED BY <3>1, <3>2, StackKept
  <2> QED BY <1>3, <2>2 DEF Stacks, hashVars
<1> QED BY <1>1, <1>2, <1>3 DEF HashNext

\* The pointer lists implement one stack of values for each key, for any hash.
THEOREM TableImplementsKeyStacks == HashSpec => ImplementsKeyStacks
<1>1. hashtable_init => ByKey!Init
  BY InitImplements
<1>2. HashInv /\ HashInv' /\ [HashNext]_hashVars => [ByKey!Next]_<<[k \in Keys |-> Stack(k)], count>>
  BY StepImplements DEF Stacks
<1> QED BY <1>1, <1>2, HashInvHolds, PTL DEF HashSpec, ImplementsKeyStacks, ByKey!Spec
=============================================================================
