------------------------ MODULE ObjectManager_proofs ------------------------
(***************************************************************************)
(* The object manager, for every set of threads and of slots and every     *)
(* size of the counters: type correctness, NoDoubleFree, LockHasHolder and *)
(* HandlesStable; IdTableExact as long as the ids do not come round;       *)
(* NoLostDestruction as long as refcount does not; and, on one CPU,        *)
(* RefsAlive and NoLateAccess.                                             *)
(***************************************************************************)
EXTENDS ObjectManager, TLAPS, SequenceTheorems, FiniteSetTheorems,
        WellFoundedInduction

----------------------------------------------------------------------------
(* Lemmas about the helpers.                                               *)

\* Every nonempty set of positions has a least element, and Min returns it.
LEMMA MinIsLeast ==
  ASSUME NEW S \in SUBSET Nat, S # {}
  PROVE  Min(S) \in S /\ \A x \in S : Min(S) <= x
<1> DEFINE Less == OpToRel(<, Nat)
<1>1. \E m \in S : \A x \in S : ~ (<<x, m>> \in Less)
  <2>1. IsWellFoundedOn(Less, Nat)
    BY NatLessThanWellFounded
  <2> HIDE DEF Less
  <2> QED BY <2>1, WFMin
<1>2. \A x, m \in S : x < m => <<x, m>> \in Less
  BY DEF OpToRel
<1>3. \E m \in S : \A x \in S : m <= x
  <2> HIDE DEF Less
  <2>1. PICK m \in S : \A x \in S : ~ (<<x, m>> \in Less)
    BY <1>1
  <2>2. \A x \in S : m <= x
    <3> TAKE x \in S
    <3>1. ~ (x < m)
      BY <2>1, <1>2, Zenon
    <3> QED BY <3>1
  <2> QED BY <2>2
<1> QED BY <1>3 DEF Min

\* Counters stay in 0 .. CountMod - 1.
LEMMA CounterType ==
  ASSUME NEW var \in [Slots -> Counts], NEW s \in Slots
  PROVE  /\ atomic_fetch_add(var, s) \in [Slots -> Counts]
         /\ atomic_fetch_sub(var, s) \in [Slots -> Counts]
<1>1. CountMod \in Nat /\ CountMod > 1
  BY ConstAssumption
<1>2. \A n \in Int : n % CountMod \in Counts
  BY <1>1 DEF Counts
<1>3. var[s] \in Int
  BY <1>1 DEF Counts
<1> QED
  BY <1>1, <1>2, <1>3 DEF atomic_fetch_add, atomic_fetch_sub

\* A table with room has a first free entry.
LEMMA FirstFreeType ==
  ASSUME TypeOK, FreeProbes # {}
  PROVE  FirstFree \in Handles
<1>1. CAP_TABLE_MAX \in Nat \ {0}
  BY ConstAssumption
<1>2. FreeProbes \in SUBSET Nat
  BY <1>1 DEF FreeProbes, Handles
<1>3. Min(FreeProbes) \in Nat
  BY <1>2, MinIsLeast
<1>4. next_free_hint \in Nat
  BY <1>1 DEF TypeOK
<1> QED BY <1>1, <1>3, <1>4 DEF FirstFree, Probe, Handles

Nodes == (0 .. IdMod - 1) \X Slots

\* Insertion and removal keep the table a sequence of nodes.
LEMMA IdTableType ==
  ASSUME id_table \in Seq(Nodes), NEW key \in 0 .. IdMod - 1, NEW s \in Slots
  PROVE  /\ hashtable_insert(key, s) \in Seq(Nodes)
         /\ hashtable_remove(key) \in Seq(Nodes)
<1>1. << <<key, s>> >> \in Seq(Nodes)
  BY DEF Nodes
<1>2. hashtable_insert(key, s) \in Seq(Nodes)
  BY <1>1, ConcatProperties DEF hashtable_insert
<1>3. hashtable_remove(key) \in Seq(Nodes)
  <2> DEFINE hits == {n \in 1 .. Len(id_table) : id_table[n][1] = key}
             drop(n) == SubSeq(id_table, 1, n - 1) \o SubSeq(id_table, n + 1, Len(id_table))
  <2>1. CASE hits = {}
    BY <2>1 DEF hashtable_remove
  <2>2. CASE hits # {}
    <3>1. Min(hits) \in hits
      <4>1. hits \in SUBSET Nat
        OBVIOUS
      <4> HIDE DEF hits
      <4> QED BY <2>2, <4>1, MinIsLeast
    <3>2. Min(hits) \in 1 .. Len(id_table) /\ Len(id_table) \in Nat
      BY <3>1
    <3> HIDE DEF hits
    <3>3. ASSUME NEW n \in 1 .. Len(id_table) PROVE drop(n) \in Seq(Nodes)
      <4>1. SubSeq(id_table, 1, n - 1) \in Seq(Nodes)
        <5>1. n - 1 \in 0 .. Len(id_table)
          BY <3>2
        <5> QED BY <5>1, SubSeqProperties
      <4>2. SubSeq(id_table, n + 1, Len(id_table)) \in Seq(Nodes)
        BY <3>2, SubSeqProperties
      <4> QED BY <4>1, <4>2, ConcatProperties
    <3>4. hashtable_remove(key) = drop(Min(hits))
      BY <2>2 DEF hashtable_remove, hits
    <3> QED BY <3>2, <3>3, <3>4
  <2> QED BY <2>1, <2>2
<1> QED BY <1>2, <1>3

----------------------------------------------------------------------------
(* Type correctness.                                                       *)

LEMMA InitType == Init => TypeOK
<1> SUFFICES ASSUME Init PROVE TypeOK
  OBVIOUS
<1>1. CountMod \in Nat /\ CountMod > 1 /\ IdMod \in Nat /\ IdMod > 1
      /\ CAP_TABLE_MAX \in Nat \ {0} /\ FreshDestroyed \subseteq BOOLEAN
  BY ConstAssumption
<1>2. 0 \in Counts /\ 1 \in Counts
  BY <1>1 DEF Counts
<1>3. destroyed \in [Slots -> BOOLEAN]
  BY <1>1 DEF Init
<1>4. id_table \in Seq((0 .. IdMod - 1) \X Slots)
  BY DEF Init
<1>5. entries \in [Handles -> Entries]
  BY DEF Init, EmptyEntry, Entries
<1>6. lock \in [Slots -> BOOLEAN] /\ wild \in BOOLEAN
  BY DEF Init
<1>7. /\ refcount \in [Slots -> Counts] /\ handle_count \in [Slots -> Counts]
      /\ generation \in [Slots -> {0}] /\ object_id \in [Slots -> 0 .. IdMod - 1]
  BY <1>1, <1>2 DEF Init
<1>8. /\ slab \in SUBSET Slots /\ next_object_id \in 0 .. IdMod - 1
      /\ next_free_hint \in 0 .. CAP_TABLE_MAX
      /\ held \in [Threads -> [Slots -> Nat]]
  BY <1>1 DEF Init
<1>9. /\ pc \in [Threads -> Labels] /\ obj \in [Threads -> Slots \cup {NULL}]
      /\ \A t \in Threads : pc[t] = "idle" <=> obj[t] = NULL
  BY DEF Init, Labels
<1> QED
  BY <1>3, <1>4, <1>5, <1>6, <1>7, <1>8, <1>9, Zenon DEF TypeOK

\* What Hold and Drop do to a thread's references.
LEMMA HeldType ==
  ASSUME held \in [Threads -> [Slots -> Nat]], NEW t \in Threads, NEW s \in Slots
  PROVE  /\ Hold(t, s) => held' \in [Threads -> [Slots -> Nat]]
         /\ Drop(t, s) /\ held[t][s] > 0 => held' \in [Threads -> [Slots -> Nat]]
<1>1. held[t] \in [Slots -> Nat] /\ held[t][s] \in Nat
  OBVIOUS
<1>2. ASSUME Hold(t, s) PROVE held' \in [Threads -> [Slots -> Nat]]
  <2>1. [held[t] EXCEPT ![s] = held[t][s] + 1] \in [Slots -> Nat]
    BY <1>1
  <2>2. held' = [held EXCEPT ![t] = [held[t] EXCEPT ![s] = held[t][s] + 1]]
    BY <1>2 DEF Hold
  <2> QED BY <2>1, <2>2
<1>3. ASSUME Drop(t, s), held[t][s] > 0 PROVE held' \in [Threads -> [Slots -> Nat]]
  <2>1. [held[t] EXCEPT ![s] = held[t][s] - 1] \in [Slots -> Nat]
    <3>1. held[t][s] - 1 \in Nat
      BY <1>1, <1>3
    <3> QED BY <1>1, <3>1
  <2>2. held' = [held EXCEPT ![t] = [held[t] EXCEPT ![s] = held[t][s] - 1]]
    BY <1>3 DEF Drop
  <2> QED BY <2>1, <2>2
<1> QED BY <1>2, <1>3

\* What Enter and Return do to the two variables of a thread.
LEMMA EnterType ==
  ASSUME TypeOK, NEW t \in Threads, NEW label \in Labels \ {"idle"}, NEW s \in Slots
  PROVE  /\ Enter(t, label, s) =>
              /\ pc' \in [Threads -> Labels]
              /\ obj' \in [Threads -> Slots \cup {NULL}]
              /\ \A u \in Threads : pc'[u] = "idle" <=> obj'[u] = NULL
         /\ Return(t) =>
              /\ pc' \in [Threads -> Labels]
              /\ obj' \in [Threads -> Slots \cup {NULL}]
              /\ \A u \in Threads : pc'[u] = "idle" <=> obj'[u] = NULL
         /\ Goto(t, label) /\ pc[t] # "idle" /\ UNCHANGED obj =>
              /\ pc' \in [Threads -> Labels]
              /\ obj' \in [Threads -> Slots \cup {NULL}]
              /\ \A u \in Threads : pc'[u] = "idle" <=> obj'[u] = NULL
<1>1. NULL \notin Slots /\ label # "idle" /\ label \in Labels /\ "idle" \in Labels
  BY ConstAssumption DEF Labels
<1>2. /\ pc \in [Threads -> Labels] /\ obj \in [Threads -> Slots \cup {NULL}]
      /\ \A u \in Threads : pc[u] = "idle" <=> obj[u] = NULL
  BY DEF TypeOK
<1>3. ASSUME NEW l \in Labels, NEW o \in Slots \cup {NULL}, l = "idle" <=> o = NULL,
             pc' = [pc EXCEPT ![t] = l], obj' = [obj EXCEPT ![t] = o]
      PROVE  /\ pc' \in [Threads -> Labels]
             /\ obj' \in [Threads -> Slots \cup {NULL}]
             /\ \A u \in Threads : pc'[u] = "idle" <=> obj'[u] = NULL
  <2>1. pc' \in [Threads -> Labels] /\ obj' \in [Threads -> Slots \cup {NULL}]
    BY <1>2, <1>3
  <2>2. ASSUME NEW u \in Threads PROVE pc'[u] = "idle" <=> obj'[u] = NULL
    <3>1. CASE u = t
      BY <1>2, <1>3, <3>1
    <3>2. CASE u # t
      BY <1>2, <1>3, <3>2
    <3> QED BY <3>1, <3>2
  <2> QED BY <2>1, <2>2
<1>4. CASE Enter(t, label, s)
  BY <1>1, <1>3, <1>4 DEF Enter, Goto
<1>5. CASE Return(t)
  BY <1>1, <1>3, <1>5 DEF Return, Enter, Goto
<1>6. CASE Goto(t, label) /\ pc[t] # "idle" /\ UNCHANGED obj
  <2>1. pc' \in [Threads -> Labels] /\ obj' \in [Threads -> Slots \cup {NULL}]
    BY <1>1, <1>2, <1>6 DEF Goto
  <2>2. ASSUME NEW u \in Threads PROVE pc'[u] = "idle" <=> obj'[u] = NULL
    <3>1. CASE u = t
      BY <1>1, <1>2, <1>6, <3>1 DEF Goto
    <3>2. CASE u # t
      BY <1>2, <1>6, <3>2 DEF Goto
    <3> QED BY <3>1, <3>2
  <2> QED BY <2>1, <2>2
<1> QED BY <1>4, <1>5, <1>6

LEMMA CreateType ==
  ASSUME TypeOK, NEW t \in Threads,
         \/ object_create(t) \/ object_create_init(t)
         \/ object_create_abort(t) \/ object_create_insert(t)
  PROVE  TypeOK'
<1>1. CountMod \in Nat /\ CountMod > 1 /\ IdMod \in Nat /\ IdMod > 1
  BY ConstAssumption
<1>2. 0 \in Counts /\ 1 \in Counts
  BY <1>1 DEF Counts
<1> USE DEF TypeOK
<1>3. CASE object_create(t)
  BY <1>3, EnterType DEF object_create, headerVars, tableVars, capVars, Labels
<1>4. CASE object_create_init(t)
  <2>1. obj[t] \in Slots
    BY <1>4 DEF object_create_init
  <2>2. next_object_id' \in 0 .. IdMod - 1
    BY <1>1, <1>4 DEF object_create_init
  <2>3. object_id' \in [Slots -> 0 .. IdMod - 1]
    BY <1>4 DEF object_create_init
  <2>4. /\ pc' \in [Threads -> Labels]
        /\ \A u \in Threads : pc'[u] = "idle" <=> obj'[u] = NULL
    BY <1>4, <2>1, ConstAssumption DEF object_create_init, Goto, Labels
  <2> QED
    BY <1>2, <1>4, <2>2, <2>3, <2>4 DEF object_create_init, capVars
<1>5. CASE object_create_abort(t)
  <2>1. obj[t] \in Slots
    BY <1>5 DEF object_create_abort
  <2> QED
    BY <1>2, <1>5, <2>1, EnterType DEF object_create_abort, slab_free, tableVars, capVars, Labels
<1>6. CASE object_create_insert(t)
  <2>1. obj[t] \in Slots
    BY <1>6 DEF object_create_insert
  <2>2. id_table' \in Seq((0 .. IdMod - 1) \X Slots)
    BY <1>6, <2>1, IdTableType DEF object_create_insert, Nodes
  <2>3. held' \in [Threads -> [Slots -> Nat]]
    BY <1>6, <2>1, HeldType DEF object_create_insert
  <2> QED
    BY <1>6, <2>1, <2>2, <2>3, EnterType DEF object_create_insert, headerVars, capVars, Labels
<1> QED BY <1>3, <1>4, <1>5, <1>6

LEMMA RefType ==
  ASSUME TypeOK, NEW t \in Threads, NEW s \in Slots,
         object_ref(t, s) \/ object_deref(t, s)
  PROVE  TypeOK'
<1>0. /\ atomic_fetch_add(refcount, s) \in [Slots -> Counts]
      /\ atomic_fetch_sub(refcount, s) \in [Slots -> Counts]
  <2>1. refcount \in [Slots -> Counts]
    BY DEF TypeOK
  <2> QED BY <2>1, CounterType
<1>1. refcount' \in [Slots -> Counts]
  BY <1>0 DEF object_ref, object_deref
<1>2. held' \in [Threads -> [Slots -> Nat]]
  <2>1. held \in [Threads -> [Slots -> Nat]]
    BY DEF TypeOK
  <2> QED BY <2>1, HeldType DEF object_ref, object_deref
<1> USE DEF TypeOK
<1>3. CASE object_ref(t, s)
  BY <1>1, <1>2, <1>3 DEF object_ref, Uses, tableVars, capVars
<1>4. CASE object_deref(t, s)
  <2>1. /\ pc' \in [Threads -> Labels]
        /\ obj' \in [Threads -> Slots \cup {NULL}]
        /\ \A u \in Threads : pc'[u] = "idle" <=> obj'[u] = NULL
    BY <1>4, EnterType DEF object_deref, Labels
  <2>2. /\ UNCHANGED <<handle_count, generation, object_id, lock, destroyed, slab>>
        /\ UNCHANGED <<tableVars, capVars>>
        /\ wild' \in BOOLEAN
    BY <1>4 DEF object_deref, Uses
  <2> QED BY <1>1, <1>2, <2>1, <2>2 DEF tableVars, capVars
<1> QED BY <1>3, <1>4

LEMMA DestroyType ==
  ASSUME TypeOK, NEW t \in Threads,
         \/ object_maybe_destroy(t) \/ object_maybe_destroy_load(t)
         \/ object_maybe_destroy_set(t) \/ object_maybe_destroy_remove(t)
         \/ object_maybe_destroy_free(t)
  PROVE  TypeOK'
<1> USE DEF TypeOK
<1>1. obj[t] \in Slots /\ pc[t] # "idle"
  BY DEF object_maybe_destroy, object_maybe_destroy_load, object_maybe_destroy_set,
         object_maybe_destroy_remove, object_maybe_destroy_free
<1>2. CASE object_maybe_destroy(t)
  BY <1>1, <1>2, EnterType DEF object_maybe_destroy, Acquire, tableVars, capVars, Labels
<1>3. CASE object_maybe_destroy_load(t)
  BY <1>1, <1>3, EnterType DEF object_maybe_destroy_load, tableVars, capVars, Labels
<1>4. CASE object_maybe_destroy_set(t)
  BY <1>1, <1>4, EnterType DEF object_maybe_destroy_set, tableVars, capVars, Labels
<1>5. CASE object_maybe_destroy_remove(t)
  <2>1. id_table' \in Seq((0 .. IdMod - 1) \X Slots)
    BY <1>1, <1>5, IdTableType DEF object_maybe_destroy_remove, Nodes
  <2> QED
    BY <1>1, <1>5, <2>1, EnterType DEF object_maybe_destroy_remove, headerVars, capVars, Labels
<1>6. CASE object_maybe_destroy_free(t)
  <2>1. 0 \in Counts
    BY ConstAssumption DEF Counts
  <2> QED
    BY <1>1, <1>6, <2>1, EnterType DEF object_maybe_destroy_free, slab_free, tableVars, capVars, Labels
<1> QED BY <1>2, <1>3, <1>4, <1>5, <1>6

LEMMA DetachType ==
  ASSUME TypeOK, NEW t \in Threads, NEW h \in Handles,
         entries[h].object # NULL, Detach(t, h)
  PROVE  /\ entries' \in [Handles -> Entries]
         /\ pc' \in [Threads -> Labels]
         /\ obj' \in [Threads -> Slots \cup {NULL}]
         /\ \A u \in Threads : pc'[u] = "idle" <=> obj'[u] = NULL
<1>1. entries[h] \in Entries /\ entries[h].object \in Slots
  BY DEF TypeOK, Entries
<1>2. entries' \in [Handles -> Entries]
  BY <1>1 DEF Detach, TypeOK, Entries
<1> QED BY <1>1, <1>2, EnterType DEF Detach, Labels

LEMMA CapType ==
  ASSUME TypeOK, NEW t \in Threads,
         \/ \E s \in Slots, r \in SUBSET Rights : object_grant(t, s, r)
         \/ object_grant_count(t)
         \/ \E h \in Handles : object_close(t, h)
         \/ object_close_count(t)
         \/ \E h \in Handles, r \in SUBSET Rights : cap_lookup(t, h, r)
  PROVE  TypeOK'
<1> USE DEF TypeOK
<1>1. ASSUME NEW s \in Slots, NEW r \in SUBSET Rights, object_grant(t, s, r)
      PROVE  TypeOK'
  <2>1. CAP_TABLE_MAX \in Nat \ {0} /\ StoreKeepsValue \in BOOLEAN
    BY ConstAssumption
  <2>2. FirstFree \in Handles
    BY <1>1, FirstFreeType DEF object_grant
  <2>3. next_free_hint' \in 0 .. CAP_TABLE_MAX
    BY <1>1, <2>1, <2>2 DEF object_grant, atomic_store_release, Handles
  <2>4. [object |-> s, rights |-> r, generation |-> generation[s]] \in Entries
    BY DEF Entries
  <2>5. entries' \in [Handles -> Entries]
    BY <1>1, <2>4 DEF object_grant
  <2> QED
    BY <1>1, <2>3, <2>5, EnterType DEF object_grant, Uses, headerVars, tableVars, Labels
<1>2. CASE object_grant_count(t) \/ object_close_count(t)
  <2>1. obj[t] \in Slots /\ pc[t] # "idle"
    BY <1>2 DEF object_grant_count, object_close_count
  <2>2. handle_count' \in [Slots -> Counts]
    <3>1. /\ atomic_fetch_add(handle_count, obj[t]) \in [Slots -> Counts]
          /\ atomic_fetch_sub(handle_count, obj[t]) \in [Slots -> Counts]
      <4>1. handle_count \in [Slots -> Counts]
        BY DEF TypeOK
      <4> QED BY <2>1, <4>1, CounterType
    <3> QED BY <1>2, <3>1 DEF object_grant_count, object_close_count
  <2> QED
    BY <1>2, <2>1, <2>2, EnterType DEF object_grant_count, object_close_count, tableVars, capVars, Labels
<1>3. ASSUME NEW h \in Handles, object_close(t, h) PROVE TypeOK'
  BY <1>3, DetachType DEF object_close, headerVars, tableVars
<1>4. ASSUME NEW h \in Handles, NEW r \in SUBSET Rights, cap_lookup(t, h, r)
      PROVE  TypeOK'
  <2>1. entries[h].object \in Slots
    BY <1>4 DEF cap_lookup, Entries
  <2>2. CASE generation[entries[h].object] # entries[h].generation
    BY <1>4, <2>2, DetachType DEF cap_lookup, tableVars
  <2>3. CASE generation[entries[h].object] = entries[h].generation
    <3>1. refcount' \in [Slots -> Counts]
      <4>1. refcount \in [Slots -> Counts]
        BY DEF TypeOK
      <4>2. atomic_fetch_add(refcount, entries[h].object) \in [Slots -> Counts]
        BY <2>1, <4>1, CounterType
      <4> QED BY <1>4, <2>3, <4>2 DEF cap_lookup
    <3>2. held' \in [Threads -> [Slots -> Nat]]
      BY <1>4, <2>1, <2>3, HeldType DEF cap_lookup
    <3> QED BY <1>4, <2>3, <3>1, <3>2 DEF cap_lookup, Uses, tableVars
  <2> QED BY <2>2, <2>3
<1> QED BY <1>1, <1>2, <1>3, <1>4

LEMMA NextType == TypeOK /\ [Next]_vars => TypeOK'
<1> SUFFICES ASSUME TypeOK, [Next]_vars PROVE TypeOK'
  OBVIOUS
<1>1. CASE UNCHANGED vars
  BY <1>1 DEF vars, TypeOK
<1>2. ASSUME NEW t \in Threads, Call(t) \/ Continue(t) PROVE TypeOK'
  BY <1>2, CreateType, RefType, DestroyType, CapType DEF Call, Continue
<1> QED BY <1>1, <1>2 DEF Next

\* Type correctness of the object manager and the capability table.
THEOREM TypeCorrect == Spec => []TypeOK
  BY InitType, NextType, PTL DEF Spec

----------------------------------------------------------------------------
(* The inductive invariant of NoDoubleFree.                                *)

InSection(t) == pc[t] \in {"md_handle", "md_set"}

\* Whoever destroys an object has marked it.  No step clears the mark.
DyingMarked == \A t \in Threads : Dying(t) => destroyed[obj[t]]

\* Whoever is about to mark an object found it unmarked.
SetUnmarked == \A t \in Threads : pc[t] = "md_set" => ~destroyed[obj[t]]

\* The section of an unmarked object's lock has one thread, which has the lock.
\* On a marked one it may have several, for object_create resets the lock of a
\* slot that a late thread may be in: they all leave it without destroying.
SectionExclusive ==
  \A t \in Threads : InSection(t) /\ ~destroyed[obj[t]] =>
    /\ lock[obj[t]]
    /\ \A u \in Threads \ {t} : InSection(u) => obj[u] # obj[t]

Fresh(s) == ~destroyed[s] /\ (s \in slab \/ \E c \in Threads : Creating(c) /\ obj[c] = s)

\* An unmarked slot that is free or under construction is known to nobody but
\* its creator.
FreshUnknown ==
  \A s \in Slots : Fresh(s) =>
    /\ \A t \in Threads : held[t][s] = 0
    /\ \A h \in Handles : entries[h].object # s
    /\ \A t \in Threads : obj[t] = s => Creating(t)

SafeInv == NoDoubleFree /\ DyingMarked /\ SetUnmarked /\ SectionExclusive /\ FreshUnknown

LEMMA InitSafe == Init => SafeInv
<1> SUFFICES ASSUME Init PROVE SafeInv
  OBVIOUS
<1>1. \A t \in Threads : pc[t] = "idle" /\ obj[t] = NULL
  BY DEF Init
<1>2. FreshUnknown
  <2>1. \A t \in Threads, s \in Slots : held[t][s] = 0
    BY DEF Init
  <2>2. \A h \in Handles, s \in Slots : entries[h].object # s
    BY ConstAssumption DEF Init, EmptyEntry
  <2> QED BY <1>1, <2>1, <2>2, ConstAssumption DEF FreshUnknown
<1> QED
  BY <1>1, <1>2 DEF SafeInv, NoDoubleFree, DyingMarked, SetUnmarked,
       SectionExclusive, InSection, Owns, Creating, Dying

LEMMA CreateSafe ==
  ASSUME TypeOK, SafeInv, NEW t \in Threads, object_create(t)
  PROVE  SafeInv'
<1>1. PICK s \in slab : slab' = slab \ {s} /\ Enter(t, "cr_init", s)
  BY DEF object_create
<1>2. /\ UNCHANGED <<destroyed, lock, held, entries>>
      /\ pc' = [pc EXCEPT ![t] = "cr_init"] /\ obj' = [obj EXCEPT ![t] = s]
      /\ pc[t] = "idle" /\ obj[t] = NULL /\ s \in Slots /\ NULL \notin Slots
  BY <1>1, ConstAssumption DEF object_create, headerVars, capVars, Enter, Goto, Ready, TypeOK
<1>3. pc \in [Threads -> Labels] /\ obj \in [Threads -> Slots \cup {NULL}]
  BY DEF TypeOK
<1>4. NoDoubleFree'
  BY <1>1, <1>2, <1>3 DEF SafeInv, NoDoubleFree, Owns, Creating, Dying
<1>5. DyingMarked' /\ SetUnmarked'
  BY <1>2, <1>3 DEF SafeInv, DyingMarked, SetUnmarked, Dying
<1>6. SectionExclusive'
  BY <1>2, <1>3 DEF SafeInv, SectionExclusive, InSection
<1>7. FreshUnknown'
  <2> SUFFICES ASSUME NEW r \in Slots, Fresh(r)'
               PROVE  /\ \A u \in Threads : held[u][r] = 0
                      /\ \A h \in Handles : entries[h].object # r
                      /\ \A u \in Threads : obj'[u] = r => Creating(u)'
    BY <1>2 DEF FreshUnknown
  <2>1. Fresh(r)
    BY <1>1, <1>2, <1>3 DEF Fresh, Creating
  <2> QED BY <1>2, <1>3, <2>1 DEF SafeInv, FreshUnknown, Creating
<1> QED BY <1>4, <1>5, <1>6, <1>7 DEF SafeInv

LEMMA CreateInitSafe ==
  ASSUME TypeOK, SafeInv, NEW t \in Threads, object_create_init(t)
  PROVE  SafeInv'
<1>1. /\ UNCHANGED <<destroyed, slab, obj, held, entries>>
      /\ lock' = [lock EXCEPT ![obj[t]] = FALSE]
      /\ pc[t] = "cr_init"
      /\ \E label \in {"cr_insert", "cr_abort"} : pc' = [pc EXCEPT ![t] = label]
  BY DEF object_create_init, capVars, Goto
<1>2. pc \in [Threads -> Labels] /\ obj[t] \in Slots /\ lock \in [Slots -> BOOLEAN]
      /\ obj \in [Threads -> Slots \cup {NULL}]
  BY <1>1 DEF TypeOK
<1>3. \A u \in Threads : /\ Owns(u)' <=> Owns(u)
                         /\ Creating(u)' <=> Creating(u)
                         /\ Dying(u)' <=> Dying(u)
                         /\ InSection(u)' <=> InSection(u)
                         /\ pc'[u] = "md_set" <=> pc[u] = "md_set"
  BY <1>1, <1>2 DEF Owns, Creating, Dying, InSection
<1>4. NoDoubleFree' /\ DyingMarked' /\ SetUnmarked'
  BY <1>1, <1>3 DEF SafeInv, NoDoubleFree, DyingMarked, SetUnmarked
<1>5. SectionExclusive'
  <2>1. ASSUME NEW u \in Threads, InSection(u), ~destroyed[obj[u]] PROVE obj[u] # obj[t]
    <3>1. SUFFICES ASSUME obj[u] = obj[t] PROVE FALSE
      OBVIOUS
    <3>2. Fresh(obj[t])
      BY <1>1, <2>1, <3>1 DEF Fresh, Creating
    <3>3. Creating(u)
      BY <1>2, <3>1, <3>2 DEF SafeInv, FreshUnknown
    <3> QED BY <2>1, <3>3 DEF Creating, InSection
  <2>2. ASSUME NEW u \in Threads, InSection(u), ~destroyed[obj[u]] PROVE lock'[obj[u]]
    <3>1. lock[obj[u]] /\ obj[u] # obj[t]
      BY <2>1, <2>2 DEF SafeInv, SectionExclusive
    <3>2. obj[u] \in Slots
      BY <2>2 DEF TypeOK, InSection
    <3> QED BY <1>1, <1>2, <3>1, <3>2
  <2> QED BY <1>1, <1>3, <2>2 DEF SafeInv, SectionExclusive
<1>6. FreshUnknown'
  BY <1>1, <1>3 DEF SafeInv, FreshUnknown, Fresh
<1> QED BY <1>4, <1>5, <1>6 DEF SafeInv

LEMMA CreateEndSafe ==
  ASSUME TypeOK, SafeInv, NEW t \in Threads,
         object_create_abort(t) \/ object_create_insert(t)
  PROVE  SafeInv'
<1>1. /\ UNCHANGED <<destroyed, lock, entries>>
      /\ pc' = [pc EXCEPT ![t] = "idle"] /\ obj' = [obj EXCEPT ![t] = NULL]
      /\ pc[t] \in {"cr_insert", "cr_abort"}
      /\ \/ slab' = slab \cup {obj[t]} /\ held' = held
         \/ slab' = slab /\ held' = [held EXCEPT ![t][obj[t]] = @ + 1]
  BY DEF object_create_abort, object_create_insert, slab_free, Return, Enter, Goto,
         headerVars, capVars, Hold
<1>2. /\ pc \in [Threads -> Labels] /\ obj[t] \in Slots /\ NULL \notin Slots
      /\ obj \in [Threads -> Slots \cup {NULL}]
      /\ held \in [Threads -> [Slots -> Nat]]
      /\ \A u \in Threads : pc[u] = "idle" <=> obj[u] = NULL
  BY <1>1, ConstAssumption DEF TypeOK
<1>3. Owns(t) /\ Creating(t) /\ obj[t] \notin slab
  BY <1>1 DEF Owns, Creating, SafeInv, NoDoubleFree
<1>4. NoDoubleFree'
  BY <1>1, <1>2, <1>3 DEF SafeInv, NoDoubleFree, Owns, Creating, Dying
<1>5. DyingMarked' /\ SetUnmarked'
  BY <1>1, <1>2 DEF SafeInv, DyingMarked, SetUnmarked, Dying
<1>6. SectionExclusive'
  BY <1>1, <1>2 DEF SafeInv, SectionExclusive, InSection
<1>7. FreshUnknown'
  <2> SUFFICES ASSUME NEW r \in Slots, Fresh(r)'
               PROVE  /\ \A u \in Threads : held'[u][r] = 0
                      /\ \A h \in Handles : entries[h].object # r
                      /\ \A u \in Threads : obj'[u] = r => Creating(u)'
    BY <1>1 DEF FreshUnknown
  <2>1. Fresh(r)
    BY <1>1, <1>2, <1>3 DEF Fresh, Creating
  <2>2. CASE slab' = slab \cup {obj[t]} /\ held' = held
    BY <1>1, <1>2, <2>1, <2>2 DEF SafeInv, FreshUnknown, Creating
  <2>3. CASE slab' = slab /\ held' = [held EXCEPT ![t][obj[t]] = @ + 1]
    <3>1. r # obj[t]
      <4>1. SUFFICES ASSUME r = obj[t] PROVE FALSE
        OBVIOUS
      <4>2. r \notin slab'
        BY <1>3, <2>3, <4>1
      <4>3. PICK c \in Threads : Creating(c)' /\ obj'[c] = r
        BY <4>2 DEF Fresh
      <4>4. c # t
        BY <1>1, <1>2, <4>3
      <4>5. Owns(c) /\ obj[c] = obj[t]
        BY <1>1, <1>2, <4>1, <4>3, <4>4 DEF Owns, Creating
      <4> QED BY <1>3, <4>4, <4>5 DEF SafeInv, NoDoubleFree
    <3>2. \A u \in Threads : held'[u][r] = held[u][r]
      BY <1>2, <2>3, <3>1
    <3> QED BY <1>1, <1>2, <2>1, <3>2 DEF SafeInv, FreshUnknown, Creating
  <2> QED BY <1>1, <2>2, <2>3
<1> QED BY <1>4, <1>5, <1>6, <1>7 DEF SafeInv

\* A step of t on a slot s that is not fresh, outside construction, destruction
\* and the lock's section, which touches references and entries of s alone.
LEMMA KnownStep ==
  ASSUME TypeOK, SafeInv, NEW t \in Threads, NEW s \in Slots, ~Fresh(s),
         UNCHANGED <<destroyed, slab, lock>>,
         pc[t] \in {"idle", "gr_count", "cl_count", "md_lock"},
         pc'[t] \in {"idle", "gr_count", "cl_count", "md_lock"},
         obj'[t] \in {s, NULL},
         \A u \in Threads \ {t} : pc'[u] = pc[u] /\ obj'[u] = obj[u],
         \A u \in Threads, r \in Slots \ {s} : held'[u][r] = held[u][r],
         \A h \in Handles : entries'[h].object \in {entries[h].object, s, NULL}
  PROVE  SafeInv'
<1>1. NULL \notin Slots
  BY ConstAssumption
<1>2. /\ ~Owns(t) /\ ~Owns(t)' /\ ~InSection(t) /\ ~InSection(t)'
      /\ ~Creating(t) /\ ~Creating(t)' /\ ~Dying(t)' /\ pc'[t] # "md_set"
  BY DEF Owns, Creating, Dying, InSection
<1>3. \A u \in Threads \ {t} :
        /\ Owns(u)' <=> Owns(u)
        /\ Creating(u)' <=> Creating(u)
        /\ Dying(u)' <=> Dying(u)
        /\ InSection(u)' <=> InSection(u)
  BY DEF Owns, Creating, Dying, InSection
<1>4. NoDoubleFree'
  BY <1>2, <1>3 DEF SafeInv, NoDoubleFree
<1>5. DyingMarked' /\ SetUnmarked'
  BY <1>2, <1>3 DEF SafeInv, DyingMarked, SetUnmarked
<1>6. SectionExclusive'
  BY <1>2, <1>3 DEF SafeInv, SectionExclusive
<1>7. FreshUnknown'
  <2> SUFFICES ASSUME NEW r \in Slots, Fresh(r)'
               PROVE  /\ \A u \in Threads : held'[u][r] = 0
                      /\ \A h \in Handles : entries'[h].object # r
                      /\ \A u \in Threads : obj'[u] = r => Creating(u)'
    BY DEF FreshUnknown
  <2>1. Fresh(r)
    BY <1>2, <1>3 DEF Fresh
  <2>2. r # s /\ r # NULL
    BY <1>1, <2>1
  <2> QED BY <1>3, <2>1, <2>2 DEF SafeInv, FreshUnknown
<1> QED BY <1>4, <1>5, <1>6, <1>7 DEF SafeInv

\* An object that someone has a reference, a handle or a pending call to is not
\* fresh.
LEMMA KnownNotFresh ==
  ASSUME TypeOK, SafeInv, NEW s \in Slots,
         \/ \E t \in Threads : held[t][s] > 0
         \/ \E h \in Handles : entries[h].object = s
         \/ \E t \in Threads : obj[t] = s /\ ~Creating(t)
  PROVE  ~Fresh(s)
  BY DEF SafeInv, FreshUnknown

LEMMA RefSafe ==
  ASSUME TypeOK, SafeInv, NEW t \in Threads, NEW s \in Slots,
         object_ref(t, s) \/ object_deref(t, s)
  PROVE  SafeInv'
<1>1. /\ pc \in [Threads -> Labels] /\ obj \in [Threads -> Slots \cup {NULL}]
      /\ held \in [Threads -> [Slots -> Nat]]
      /\ pc[t] = "idle" /\ obj[t] = NULL
  BY DEF TypeOK, object_ref, object_deref, Ready
<1>2. held[t][s] > 0
  BY <1>1 DEF object_ref, object_deref
<1>3. ~Fresh(s)
  BY <1>2, KnownNotFresh
<1>4. UNCHANGED <<destroyed, slab, lock, entries>>
  BY DEF object_ref, object_deref, capVars
<1>5. /\ pc'[t] \in {"idle", "md_lock"} /\ obj'[t] \in {s, NULL}
      /\ \A u \in Threads \ {t} : pc'[u] = pc[u] /\ obj'[u] = obj[u]
  BY <1>1 DEF object_ref, object_deref, Enter, Goto
<1>6. \A u \in Threads, r \in Slots \ {s} : held'[u][r] = held[u][r]
  BY <1>1 DEF object_ref, object_deref, Hold, Drop
<1> QED BY <1>1, <1>3, <1>4, <1>5, <1>6, KnownStep

LEMMA CountSafe ==
  ASSUME TypeOK, SafeInv, NEW t \in Threads,
         object_grant_count(t) \/ object_close_count(t)
  PROVE  SafeInv'
<1>1. /\ pc \in [Threads -> Labels] /\ obj \in [Threads -> Slots \cup {NULL}]
      /\ pc[t] \in {"gr_count", "cl_count"} /\ obj[t] \in Slots
  BY DEF TypeOK, object_grant_count, object_close_count
<1>2. ~Fresh(obj[t])
  BY <1>1, KnownNotFresh DEF Creating
<1>3. UNCHANGED <<destroyed, slab, lock, entries, held>>
  BY DEF object_grant_count, object_close_count, capVars
<1>4. /\ pc'[t] \in {"idle", "md_lock"} /\ obj'[t] \in {obj[t], NULL}
      /\ \A u \in Threads \ {t} : pc'[u] = pc[u] /\ obj'[u] = obj[u]
  BY <1>1 DEF object_grant_count, object_close_count, Return, Enter, Goto
<1> QED BY <1>1, <1>2, <1>3, <1>4, KnownStep

LEMMA GrantSafe ==
  ASSUME TypeOK, SafeInv, NEW t \in Threads, NEW s \in Slots,
         NEW r \in SUBSET Rights, object_grant(t, s, r)
  PROVE  SafeInv'
<1>1. /\ pc \in [Threads -> Labels] /\ obj \in [Threads -> Slots \cup {NULL}]
      /\ entries \in [Handles -> Entries]
      /\ pc[t] = "idle" /\ held[t][s] > 0
  BY DEF TypeOK, object_grant, Ready
<1>2. ~Fresh(s)
  BY <1>1, KnownNotFresh
<1>3. UNCHANGED <<destroyed, slab, lock, held>>
  BY DEF object_grant, headerVars
<1>4. /\ pc'[t] = "gr_count" /\ obj'[t] = s
      /\ \A u \in Threads \ {t} : pc'[u] = pc[u] /\ obj'[u] = obj[u]
  BY <1>1 DEF object_grant, Enter, Goto
<1>5. \A h \in Handles : entries'[h].object \in {entries[h].object, s, NULL}
  BY <1>1 DEF object_grant
<1> QED BY <1>1, <1>2, <1>3, <1>4, <1>5, KnownStep

LEMMA CloseLookupSafe ==
  ASSUME TypeOK, SafeInv, NEW t \in Threads, NEW h \in Handles,
         object_close(t, h) \/ \E r \in SUBSET Rights : cap_lookup(t, h, r)
  PROVE  SafeInv'
<1> DEFINE s == entries[h].object
<1>1. /\ pc \in [Threads -> Labels] /\ obj \in [Threads -> Slots \cup {NULL}]
      /\ entries \in [Handles -> Entries] /\ held \in [Threads -> [Slots -> Nat]]
      /\ pc[t] = "idle" /\ obj[t] = NULL /\ s \in Slots
  BY DEF TypeOK, object_close, cap_lookup, Ready, Entries
<1>2. ~Fresh(s)
  BY <1>1, KnownNotFresh
<1>3. UNCHANGED <<destroyed, slab, lock>>
  BY DEF object_close, cap_lookup, headerVars
<1>4. \/ Detach(t, h) /\ UNCHANGED held
      \/ Hold(t, s) /\ UNCHANGED <<entries, pc, obj>>
  BY DEF object_close, cap_lookup
<1>5. CASE Detach(t, h) /\ UNCHANGED held
  <2>1. /\ pc'[t] = "cl_count" /\ obj'[t] = s
        /\ \A u \in Threads \ {t} : pc'[u] = pc[u] /\ obj'[u] = obj[u]
    BY <1>1, <1>5 DEF Detach, Enter, Goto
  <2>2. \A g \in Handles : entries'[g].object \in {entries[g].object, s, NULL}
    BY <1>1, <1>5 DEF Detach, Entries
  <2> QED BY <1>1, <1>2, <1>3, <1>5, <2>1, <2>2, KnownStep
<1>6. CASE Hold(t, s) /\ UNCHANGED <<entries, pc, obj>>
  <2>1. \A u \in Threads, r \in Slots \ {s} : held'[u][r] = held[u][r]
    BY <1>1, <1>6 DEF Hold
  <2> QED BY <1>1, <1>2, <1>3, <1>6, <2>1, KnownStep
<1> QED BY <1>4, <1>5, <1>6

LEMMA MaybeDestroySafe ==
  ASSUME TypeOK, SafeInv, NEW t \in Threads, object_maybe_destroy(t)
  PROVE  SafeInv'
<1> DEFINE s == obj[t]
<1>1. /\ pc \in [Threads -> Labels] /\ obj \in [Threads -> Slots \cup {NULL}]
      /\ lock \in [Slots -> BOOLEAN]
      /\ pc[t] = "md_lock" /\ s \in Slots /\ ~lock[s]
  BY DEF TypeOK, object_maybe_destroy, Acquire
<1>2. ~Fresh(s)
  BY <1>1, KnownNotFresh DEF Creating
<1>3. UNCHANGED <<destroyed, slab, held, entries>>
  BY DEF object_maybe_destroy, capVars
<1>4. CASE refcount[s] # 0
  <2>1. /\ UNCHANGED lock /\ pc'[t] = "idle" /\ obj'[t] = NULL
        /\ \A u \in Threads \ {t} : pc'[u] = pc[u] /\ obj'[u] = obj[u]
    BY <1>1, <1>4 DEF object_maybe_destroy, Return, Enter, Goto
  <2> QED BY <1>1, <1>2, <1>3, <2>1, KnownStep
<1>5. CASE refcount[s] = 0
  <2>1. /\ lock' = [lock EXCEPT ![s] = TRUE]
        /\ pc' = [pc EXCEPT ![t] = "md_handle"] /\ obj' = obj
    BY <1>1, <1>5 DEF object_maybe_destroy, Acquire, Enter, Goto
  <2>2. \A u \in Threads : /\ Owns(u)' <=> Owns(u)
                           /\ Creating(u)' <=> Creating(u)
                           /\ Dying(u)' <=> Dying(u)
                           /\ pc'[u] = "md_set" <=> pc[u] = "md_set"
                           /\ InSection(u)' <=> InSection(u) \/ u = t
    BY <1>1, <2>1 DEF Owns, Creating, Dying, InSection
  <2>3. NoDoubleFree' /\ DyingMarked' /\ SetUnmarked'
    BY <1>3, <2>1, <2>2 DEF SafeInv, NoDoubleFree, DyingMarked, SetUnmarked
  <2>4. SectionExclusive'
    <3>1. ASSUME NEW u \in Threads, InSection(u)', ~destroyed'[obj'[u]]
          PROVE  /\ lock'[obj'[u]]
                 /\ \A v \in Threads \ {u} : InSection(v)' => obj'[v] # obj'[u]
      <4>1. obj[u] \in Slots /\ ~destroyed[obj[u]]
        BY <1>1, <1>3, <2>1, <2>2, <3>1 DEF TypeOK, InSection
      <4>2. CASE u = t
        BY <1>1, <2>1, <2>2, <4>1, <4>2 DEF SafeInv, SectionExclusive
      <4>3. CASE u # t
        <5>1. InSection(u) /\ lock[obj[u]]
          BY <2>2, <3>1, <4>1, <4>3 DEF SafeInv, SectionExclusive
        <5>2. obj[u] # s
          BY <1>1, <5>1
        <5> QED BY <1>1, <2>1, <2>2, <4>1, <5>1, <5>2 DEF SafeInv, SectionExclusive
      <4> QED BY <4>2, <4>3
    <3> QED BY <3>1 DEF SectionExclusive
  <2>5. FreshUnknown'
    BY <1>3, <2>1, <2>2 DEF SafeInv, FreshUnknown, Fresh
  <2> QED BY <2>3, <2>4, <2>5 DEF SafeInv
<1> QED BY <1>4, <1>5

LEMMA LoadSafe ==
  ASSUME TypeOK, SafeInv, NEW t \in Threads, object_maybe_destroy_load(t)
  PROVE  SafeInv'
<1> DEFINE s == obj[t]
<1>1. /\ pc \in [Threads -> Labels] /\ obj \in [Threads -> Slots \cup {NULL}]
      /\ lock \in [Slots -> BOOLEAN] /\ NULL \notin Slots
      /\ pc[t] = "md_handle" /\ s \in Slots
  BY ConstAssumption DEF TypeOK, object_maybe_destroy_load
<1>2. UNCHANGED <<destroyed, slab, held, entries>>
  BY DEF object_maybe_destroy_load, capVars
<1>3. CASE handle_count[s] = 0 /\ ~destroyed[s]
  <2>1. UNCHANGED lock /\ pc' = [pc EXCEPT ![t] = "md_set"] /\ obj' = obj
    BY <1>1, <1>3 DEF object_maybe_destroy_load, Enter, Goto
  <2>2. \A u \in Threads : /\ Owns(u)' <=> Owns(u)
                           /\ Creating(u)' <=> Creating(u)
                           /\ Dying(u)' <=> Dying(u)
                           /\ InSection(u)' <=> InSection(u)
                           /\ pc'[u] = "md_set" <=> pc[u] = "md_set" \/ u = t
    BY <1>1, <2>1 DEF Owns, Creating, Dying, InSection
  <2>3. NoDoubleFree' /\ DyingMarked' /\ SetUnmarked'
    BY <1>2, <1>3, <2>1, <2>2 DEF SafeInv, NoDoubleFree, DyingMarked, SetUnmarked
  <2>4. SectionExclusive' /\ FreshUnknown'
    BY <1>2, <2>1, <2>2 DEF SafeInv, SectionExclusive, FreshUnknown, Fresh
  <2> QED BY <2>3, <2>4 DEF SafeInv
<1>4. CASE ~ (handle_count[s] = 0 /\ ~destroyed[s])
  <2>1. /\ lock' = [lock EXCEPT ![s] = FALSE]
        /\ pc' = [pc EXCEPT ![t] = "idle"] /\ obj' = [obj EXCEPT ![t] = NULL]
    BY <1>4 DEF object_maybe_destroy_load, Return, Enter, Goto
  <2>2. ~Owns(t) /\ ~Owns(t)' /\ ~Creating(t) /\ ~Creating(t)' /\ ~InSection(t)' /\ InSection(t)
        /\ ~Dying(t)' /\ pc'[t] # "md_set" /\ obj'[t] = NULL
    BY <1>1, <2>1 DEF Owns, Creating, Dying, InSection
  <2>3. \A u \in Threads \ {t} : /\ Owns(u)' <=> Owns(u)
                                 /\ Creating(u)' <=> Creating(u)
                                 /\ Dying(u)' <=> Dying(u)
                                 /\ InSection(u)' <=> InSection(u)
                                 /\ pc'[u] = pc[u] /\ obj'[u] = obj[u]
    BY <1>1, <2>1 DEF Owns, Creating, Dying, InSection
  <2>4. NoDoubleFree' /\ DyingMarked' /\ SetUnmarked'
    BY <1>2, <2>2, <2>3 DEF SafeInv, NoDoubleFree, DyingMarked, SetUnmarked
  <2>5. SectionExclusive'
    <3>1. ASSUME NEW u \in Threads, InSection(u)', ~destroyed'[obj'[u]]
          PROVE  /\ lock'[obj'[u]]
                 /\ \A v \in Threads \ {u} : InSection(v)' => obj'[v] # obj'[u]
      <4>1. u # t /\ InSection(u) /\ obj'[u] = obj[u] /\ ~destroyed[obj[u]]
        BY <1>2, <2>2, <2>3, <3>1
      <4>2. /\ lock[obj[u]] /\ obj[u] # s
            /\ \A v \in Threads \ {u} : InSection(v) => obj[v] # obj[u]
        BY <2>2, <4>1 DEF SafeInv, SectionExclusive
      <4>3. obj[u] \in Slots
        BY <4>1 DEF TypeOK, InSection
      <4> QED BY <1>1, <2>1, <2>2, <2>3, <4>1, <4>2, <4>3
    <3> QED BY <3>1 DEF SectionExclusive
  <2>6. FreshUnknown'
    <3>1. \A r \in Slots : Fresh(r)' => Fresh(r)
      BY <1>2, <2>2, <2>3 DEF Fresh
    <3> QED BY <1>1, <1>2, <2>2, <2>3, <3>1 DEF SafeInv, FreshUnknown
  <2> QED BY <2>4, <2>5, <2>6 DEF SafeInv
<1> QED BY <1>3, <1>4

LEMMA SetSafe ==
  ASSUME TypeOK, SafeInv, NEW t \in Threads, object_maybe_destroy_set(t)
  PROVE  SafeInv'
<1> DEFINE s == obj[t]
<1>1. /\ pc \in [Threads -> Labels] /\ obj \in [Threads -> Slots \cup {NULL}]
      /\ lock \in [Slots -> BOOLEAN] /\ destroyed \in [Slots -> BOOLEAN]
      /\ pc[t] = "md_set" /\ s \in Slots
  BY DEF TypeOK, object_maybe_destroy_set
<1>2. /\ UNCHANGED <<slab, held, entries, obj>>
      /\ destroyed' = [destroyed EXCEPT ![s] = TRUE]
      /\ lock' = [lock EXCEPT ![s] = FALSE]
      /\ pc' = [pc EXCEPT ![t] = "md_remove"]
  BY DEF object_maybe_destroy_set, capVars, Goto
<1>3. ~destroyed[s] /\ ~Fresh(s)
  BY <1>1, KnownNotFresh DEF SafeInv, SetUnmarked, Creating
<1>4. /\ Dying(t)' /\ Owns(t)' /\ ~Owns(t) /\ ~Creating(t) /\ ~Creating(t)'
      /\ InSection(t) /\ ~InSection(t)' /\ pc'[t] # "md_set"
  BY <1>1, <1>2 DEF Owns, Creating, Dying, InSection
<1>5. \A u \in Threads \ {t} : /\ Owns(u)' <=> Owns(u)
                               /\ Creating(u)' <=> Creating(u)
                               /\ Dying(u)' <=> Dying(u)
                               /\ InSection(u)' <=> InSection(u)
                               /\ pc'[u] = pc[u]
  BY <1>1, <1>2 DEF Owns, Creating, Dying, InSection
<1>6. NoDoubleFree'
  <2>1. s \notin slab
    BY <1>3 DEF Fresh
  <2>2. \A u \in Threads \ {t} : Owns(u) => obj[u] # s
    BY <1>3 DEF Fresh, Owns, SafeInv, DyingMarked
  <2> QED BY <1>2, <1>4, <1>5, <2>1, <2>2 DEF SafeInv, NoDoubleFree
<1>7. DyingMarked'
  <2>1. ASSUME NEW u \in Threads, Dying(u)' PROVE destroyed'[obj'[u]]
    <3>1. CASE u = t
      BY <1>1, <1>2, <3>1
    <3>2. CASE u # t
      <4>1. Dying(u) /\ destroyed[obj[u]]
        BY <1>5, <2>1, <3>2 DEF SafeInv, DyingMarked
      <4>2. obj[u] \in Slots
        BY <4>1 DEF TypeOK, Dying
      <4> QED BY <1>1, <1>2, <4>1, <4>2
    <3> QED BY <3>1, <3>2
  <2> QED BY <2>1 DEF DyingMarked
<1>8. \A u \in Threads \ {t} : InSection(u) => obj[u] # s
  BY <1>3, <1>4 DEF SafeInv, SectionExclusive
<1>9. SetUnmarked'
  <2>1. ASSUME NEW u \in Threads, pc'[u] = "md_set" PROVE ~destroyed'[obj'[u]]
    <3>1. u # t /\ pc[u] = "md_set" /\ InSection(u)
      BY <1>4, <1>5, <2>1 DEF InSection
    <3>2. obj[u] # s /\ ~destroyed[obj[u]] /\ obj[u] \in Slots
      BY <1>8, <3>1 DEF SafeInv, SetUnmarked, TypeOK
    <3> QED BY <1>1, <1>2, <3>2
  <2> QED BY <2>1 DEF SetUnmarked
<1>10. SectionExclusive'
  <2>1. ASSUME NEW u \in Threads, InSection(u)', ~destroyed'[obj'[u]]
        PROVE  /\ lock'[obj'[u]]
               /\ \A v \in Threads \ {u} : InSection(v)' => obj'[v] # obj'[u]
    <3>1. u # t /\ InSection(u) /\ obj[u] # s
      BY <1>4, <1>5, <1>8, <2>1
    <3>2. obj[u] \in Slots
      BY <3>1 DEF TypeOK, InSection
    <3>3. ~destroyed[obj[u]]
      BY <1>1, <1>2, <2>1, <3>1, <3>2
    <3>4. /\ lock[obj[u]]
          /\ \A v \in Threads \ {u} : InSection(v) => obj[v] # obj[u]
      BY <3>1, <3>3 DEF SafeInv, SectionExclusive
    <3>5. lock'[obj'[u]]
      BY <1>1, <1>2, <3>1, <3>2, <3>4
    <3> QED BY <1>2, <1>4, <1>5, <3>4, <3>5
  <2> QED BY <2>1 DEF SectionExclusive
<1>11. FreshUnknown'
  <2>1. ASSUME NEW r \in Slots, Fresh(r)' PROVE Fresh(r) /\ r # s
    BY <1>1, <1>2, <1>4, <1>5, <2>1 DEF Fresh
  <2> QED BY <1>2, <1>4, <1>5, <2>1 DEF SafeInv, FreshUnknown
<1> QED BY <1>6, <1>7, <1>9, <1>10, <1>11 DEF SafeInv

LEMMA RemoveFreeSafe ==
  ASSUME TypeOK, SafeInv, NEW t \in Threads,
         object_maybe_destroy_remove(t) \/ object_maybe_destroy_free(t)
  PROVE  SafeInv'
<1> DEFINE s == obj[t]
<1>1. /\ pc \in [Threads -> Labels] /\ obj \in [Threads -> Slots \cup {NULL}]
      /\ NULL \notin Slots
      /\ Dying(t) /\ s \in Slots /\ destroyed[s]
  BY ConstAssumption DEF TypeOK, object_maybe_destroy_remove, object_maybe_destroy_free,
       Dying, SafeInv, DyingMarked
<1>2. UNCHANGED <<destroyed, lock, held, entries>>
  BY DEF object_maybe_destroy_remove, object_maybe_destroy_free, headerVars, capVars
<1>3. /\ \/ slab' = slab /\ obj' = obj /\ pc'[t] = "md_free"
         \/ slab' = slab \cup {s} /\ obj'[t] = NULL /\ pc'[t] = "idle"
      /\ \A u \in Threads \ {t} : pc'[u] = pc[u] /\ obj'[u] = obj[u]
  BY <1>1 DEF object_maybe_destroy_remove, object_maybe_destroy_free, slab_free,
       Return, Enter, Goto
<1>4. /\ ~Creating(t) /\ ~Creating(t)' /\ ~InSection(t) /\ ~InSection(t)' /\ pc'[t] # "md_set"
      /\ Owns(t)
  BY <1>1, <1>3 DEF Creating, InSection, Dying, Owns
<1>5. \A u \in Threads \ {t} : /\ Owns(u)' <=> Owns(u)
                               /\ Creating(u)' <=> Creating(u)
                               /\ Dying(u)' <=> Dying(u)
                               /\ InSection(u)' <=> InSection(u)
  BY <1>3 DEF Owns, Creating, Dying, InSection
<1>6. NoDoubleFree'
  <2>1. CASE slab' = slab /\ obj' = obj /\ pc'[t] = "md_free"
    BY <1>4, <1>5, <2>1 DEF SafeInv, NoDoubleFree
  <2>2. CASE slab' = slab \cup {s} /\ obj'[t] = NULL /\ pc'[t] = "idle"
    <3>1. ~Owns(t)'
      BY <2>2 DEF Owns, Creating, Dying
    <3> QED BY <1>3, <1>4, <1>5, <2>2, <3>1 DEF SafeInv, NoDoubleFree
  <2> QED BY <1>3, <2>1, <2>2
<1>7. DyingMarked' /\ SetUnmarked'
  <2>1. Dying(t)' => destroyed'[obj'[t]]
    BY <1>1, <1>2, <1>3 DEF Dying
  <2> QED BY <1>2, <1>3, <1>4, <1>5, <2>1 DEF SafeInv, DyingMarked, SetUnmarked
<1>8. SectionExclusive'
  BY <1>2, <1>3, <1>4, <1>5 DEF SafeInv, SectionExclusive
<1>9. FreshUnknown'
  <2>1. ASSUME NEW r \in Slots, Fresh(r)' PROVE Fresh(r) /\ r # s
    BY <1>1, <1>2, <1>3, <1>4, <1>5, <2>1 DEF Fresh
  <2>2. ASSUME NEW r \in Slots, Fresh(r)', NEW u \in Threads, obj'[u] = r PROVE Creating(u)'
    BY <1>1, <1>3, <1>5, <2>1, <2>2 DEF SafeInv, FreshUnknown
  <2> QED BY <1>2, <2>1, <2>2 DEF SafeInv, FreshUnknown
<1> QED BY <1>6, <1>7, <1>8, <1>9 DEF SafeInv

LEMMA NextSafe == TypeOK /\ SafeInv /\ [Next]_vars => SafeInv'
<1> SUFFICES ASSUME TypeOK, SafeInv, [Next]_vars PROVE SafeInv'
  OBVIOUS
<1>1. CASE UNCHANGED vars
  BY <1>1 DEF vars, SafeInv, NoDoubleFree, DyingMarked, SetUnmarked, SectionExclusive,
       FreshUnknown, Fresh, Owns, Creating, Dying, InSection
<1>2. ASSUME NEW t \in Threads, Call(t) \/ Continue(t) PROVE SafeInv'
  BY <1>2, CreateSafe, CreateInitSafe, CreateEndSafe, RefSafe, CountSafe, GrantSafe,
     CloseLookupSafe, MaybeDestroySafe, LoadSafe, SetSafe, RemoveFreeSafe DEF Call, Continue
<1> QED BY <1>1, <1>2 DEF Next

\* SafeInv holds in every reachable state.
THEOREM Invariance == Spec => [](TypeOK /\ SafeInv)
  BY InitType, InitSafe, NextType, NextSafe, PTL DEF Spec

\* No interleaving of the threads destroys an object twice, puts it on the free
\* list twice or hands it out while it is being destroyed.
THEOREM DestroyedOnce == Spec => []NoDoubleFree
<1>1. SafeInv => NoDoubleFree
  BY DEF SafeInv
<1> QED BY <1>1, Invariance, PTL

----------------------------------------------------------------------------
(* Locks and handles.                                                      *)

\* A taken object lock always has a thread in its section to release it.
THEOREM LockReleased == Spec => []LockHasHolder
<1>1. Init => LockHasHolder
  BY DEF Init, LockHasHolder
<1>2. TypeOK /\ LockHasHolder /\ [Next]_vars => LockHasHolder'
  <2> SUFFICES ASSUME TypeOK, LockHasHolder, [Next]_vars, NEW s \in Slots, lock'[s]
               PROVE  \E t \in Threads : obj'[t] = s /\ pc'[t] \in {"md_handle", "md_set"}
    BY DEF LockHasHolder
  <2>1. CASE UNCHANGED vars
    BY <2>1 DEF vars, LockHasHolder
  <2>2. ASSUME NEW t \in Threads, Call(t) \/ Continue(t)
        PROVE  \E u \in Threads : obj'[u] = s /\ pc'[u] \in {"md_handle", "md_set"}
    <3>1. /\ pc \in [Threads -> Labels] /\ obj \in [Threads -> Slots \cup {NULL}]
          /\ lock \in [Slots -> BOOLEAN]
      BY DEF TypeOK
    <3> DEFINE Rest == /\ UNCHANGED lock
                       /\ pc[t] \notin {"md_handle", "md_set"}
                       /\ \A u \in Threads \ {t} : pc'[u] = pc[u] /\ obj'[u] = obj[u]
    <3>2. CASE Rest
      BY <3>1, <3>2, <2>2 DEF LockHasHolder
    <3>3. CASE Call(t)
      <4>1. pc[t] = "idle" /\ UNCHANGED lock
        BY <3>3 DEF Call, Ready, object_create, object_ref, object_deref, object_grant,
             object_close, cap_lookup, headerVars
      <4>2. \A u \in Threads \ {t} : pc'[u] = pc[u] /\ obj'[u] = obj[u]
        BY <3>1, <3>3 DEF Call, object_create, object_ref, object_deref, object_grant,
             object_close, cap_lookup, Detach, Enter, Goto
      <4> QED BY <3>2, <4>1, <4>2
    <3>4. CASE object_create_init(t)
      <4>1. s # obj[t] /\ lock[s] /\ pc[t] = "cr_init"
        BY <2>2, <3>1, <3>4 DEF object_create_init, TypeOK
      <4> QED BY <3>1, <3>4, <4>1 DEF object_create_init, Goto, LockHasHolder
    <3>5. CASE \/ object_create_abort(t) \/ object_create_insert(t)
               \/ object_maybe_destroy_remove(t) \/ object_maybe_destroy_free(t)
               \/ object_grant_count(t) \/ object_close_count(t)
      <4>1. UNCHANGED lock /\ pc[t] \notin {"md_handle", "md_set"}
        BY <3>5 DEF object_create_abort, object_create_insert, object_maybe_destroy_remove,
             object_maybe_destroy_free, object_grant_count, object_close_count, headerVars
      <4>2. \A u \in Threads \ {t} : pc'[u] = pc[u] /\ obj'[u] = obj[u]
        BY <3>1, <3>5 DEF object_create_abort, object_create_insert, object_maybe_destroy_remove,
             object_maybe_destroy_free, object_grant_count, object_close_count, Return, Enter, Goto
      <4> QED BY <3>2, <4>1, <4>2
    <3>6. CASE object_maybe_destroy(t)
      BY <3>1, <3>6 DEF object_maybe_destroy, Acquire, Return, Enter, Goto, LockHasHolder
    <3>7. CASE object_maybe_destroy_load(t) \/ object_maybe_destroy_set(t)
      BY <3>1, <3>7 DEF object_maybe_destroy_load, object_maybe_destroy_set, Return, Enter,
           Goto, LockHasHolder
    <3> QED BY <2>2, <3>3, <3>4, <3>5, <3>6, <3>7 DEF Continue
  <2> QED BY <2>1, <2>2 DEF Next
<1> QED BY <1>1, <1>2, Invariance, PTL DEF Spec

\* An occupied entry of the capability table changes only by being emptied.
THEOREM HandlesAreStable == Spec => HandlesStable
<1> DEFINE A == \A h \in Handles : entries[h].object # NULL =>
                  entries'[h].object = NULL \/ entries'[h] = entries[h]
<1>1. TypeOK /\ [Next]_vars => [A]_vars
  <2> SUFFICES ASSUME TypeOK, NEW t \in Threads, Call(t) \/ Continue(t) PROVE A
    BY DEF Next
  <2>1. entries \in [Handles -> Entries]
    BY DEF TypeOK
  <2>2. CASE UNCHANGED entries
    BY <2>2
  <2>3. ASSUME NEW s \in Slots, NEW r \in SUBSET Rights, object_grant(t, s, r) PROVE A
    <3>1. FreeProbes # {} /\ FreeProbes \in SUBSET Nat
      BY <2>3, ConstAssumption DEF object_grant, FreeProbes, Handles
    <3>2. Min(FreeProbes) \in FreeProbes
      BY <3>1, MinIsLeast
    <3>3. entries[FirstFree].object = NULL
      BY <3>2 DEF FreeProbes, FirstFree
    <3> QED BY <2>1, <2>3, <3>3 DEF object_grant
  <2>4. ASSUME NEW h \in Handles, Detach(t, h) PROVE A
    BY <2>1, <2>4 DEF Detach, Entries
  <2>5. CASE Call(t)
    BY <2>2, <2>3, <2>4, <2>5 DEF Call, object_create, object_ref, object_deref,
         object_close, cap_lookup, capVars
  <2>6. CASE Continue(t)
    BY <2>2, <2>6 DEF Continue, object_create_init, object_create_abort,
         object_create_insert, object_maybe_destroy, object_maybe_destroy_load,
         object_maybe_destroy_set, object_maybe_destroy_remove,
         object_maybe_destroy_free, object_grant_count, object_close_count, capVars
  <2> QED BY <2>5, <2>6
<1> QED BY <1>1, TypeCorrect, PTL DEF Spec, HandlesStable

----------------------------------------------------------------------------
(* The id table.                                                           *)

\* The slots whose id is in use: those of the table and those about to enter.
Numbered(s) == Registered(s) \/ \E t \in Threads : pc[t] = "cr_insert" /\ obj[t] = s

\* Two objects never have the same id, and ids still to come are larger.
IdsDistinct ==
  /\ \A s, r \in Slots : Numbered(s) /\ Numbered(r) /\ object_id[s] = object_id[r] => s = r
  /\ \A s \in Slots : Numbered(s) => object_id[s] < next_object_id

\* Between the steps of its creation and of its destruction, when an object is
\* in the table.
TablePhase ==
  \A t \in Threads : /\ Creating(t) \/ pc[t] = "md_free" => ~Registered(obj[t])
                     /\ pc[t] = "md_remove" => Registered(obj[t])

IdInv == IdTableExact /\ IdsDistinct /\ TablePhase

\* The ids do not come round: fewer than IdMod objects have been created.
NoIdWrap == [][next_object_id' >= next_object_id]_vars

\* Insertion puts its node before the nodes of the table.
LEMMA InsertNodes ==
  ASSUME id_table \in Seq(Nodes), NEW key \in 0 .. IdMod - 1, NEW s \in Slots,
         NEW T, T = hashtable_insert(key, s)
  PROVE  /\ Len(id_table) \in Nat /\ Len(T) = Len(id_table) + 1
         /\ T[1] = <<key, s>>
         /\ \A n \in 1 .. Len(id_table) : T[n + 1] = id_table[n]
<1>1. << <<key, s>> >> \in Seq(Nodes)
  BY DEF Nodes
<1>2. Len(<< <<key, s>> >>) = 1 /\ << <<key, s>> >>[1] = <<key, s>>
  OBVIOUS
<1>3. Len(id_table) \in Nat
  OBVIOUS
<1>4. T = << <<key, s>> >> \o id_table
  BY DEF hashtable_insert
<1> HIDE DEF hashtable_insert
<1> QED BY <1>1, <1>2, <1>3, <1>4, ConcatProperties

\* Removal drops the first node with the key and closes the gap, or, if no node
\* has it, leaves the table as it is.
LEMMA RemoveNodes ==
  ASSUME id_table \in Seq(Nodes), NEW key, NEW T, T = hashtable_remove(key)
  PROVE  /\ Len(id_table) \in Nat
         /\ \/ T = id_table /\ \A m \in 1 .. Len(id_table) : id_table[m][1] # key
            \/ \E n \in 1 .. Len(id_table) :
                 /\ id_table[n][1] = key
                 /\ Len(T) = Len(id_table) - 1
                 /\ \A m \in 1 .. Len(T) :
                      T[m] = IF m < n THEN id_table[m] ELSE id_table[m + 1]
<1> DEFINE hits == {m \in 1 .. Len(id_table) : id_table[m][1] = key}
           n == Min(hits)
           A == SubSeq(id_table, 1, n - 1)
           B == SubSeq(id_table, n + 1, Len(id_table))
<1>1. CASE hits = {}
  BY <1>1 DEF hashtable_remove
<1>2. CASE hits # {}
  <2>1. n \in hits
    <3>1. hits \in SUBSET Nat
      OBVIOUS
    <3> HIDE DEF hits
    <3> QED BY <1>2, <3>1, MinIsLeast
  <2>2. n \in 1 .. Len(id_table) /\ id_table[n][1] = key
    BY <2>1
  <2>3. T = A \o B
    BY <1>2 DEF hashtable_remove
  <2> HIDE DEF n, hits
  <2>4. Len(id_table) \in Nat /\ n - 1 \in 0 .. Len(id_table) /\ n \in Nat
    BY <2>2
  <2>5. /\ A \in Seq(Nodes) /\ Len(A) = n - 1
        /\ \A m \in 1 .. n - 1 : A[m] = id_table[m]
    BY <2>4, SubSeqProperties
  <2>6. /\ B \in Seq(Nodes) /\ Len(B) = Len(id_table) - n
        /\ \A m \in 1 .. Len(id_table) - n : B[m] = id_table[n + m]
    BY <2>2, <2>4, SubSeqProperties
  <2> HIDE DEF A, B
  <2>7. /\ Len(T) = Len(A) + Len(B)
        /\ \A m \in 1 .. Len(A) + Len(B) : T[m] = IF m <= Len(A) THEN A[m] ELSE B[m - Len(A)]
    <3>1. A \in Seq(Nodes) /\ B \in Seq(Nodes)
      BY <2>5, <2>6
    <3>2. /\ Len(A \o B) = Len(A) + Len(B)
          /\ \A m \in 1 .. Len(A) + Len(B) :
               (A \o B)[m] = IF m <= Len(A) THEN A[m] ELSE B[m - Len(A)]
      BY <3>1, ConcatProperties
    <3> QED BY <2>3, <3>2
  <2>8. Len(T) = Len(id_table) - 1
    BY <2>4, <2>5, <2>6, <2>7
  <2>9. ASSUME NEW m \in 1 .. Len(T)
        PROVE  T[m] = IF m < n THEN id_table[m] ELSE id_table[m + 1]
    <3>1. CASE m < n
      BY <2>4, <2>5, <2>6, <2>7, <3>1
    <3>2. CASE m >= n
      <4>1. T[m] = B[m - (n - 1)] /\ m - (n - 1) \in 1 .. Len(id_table) - n
        BY <2>4, <2>5, <2>6, <2>7, <3>2
      <4>2. B[m - (n - 1)] = id_table[n + (m - (n - 1))] /\ n + (m - (n - 1)) = m + 1
        BY <2>4, <2>6, <4>1
      <4> QED BY <2>4, <3>2, <4>1, <4>2
    <3> QED BY <2>4, <3>1, <3>2
  <2> QED BY <2>2, <2>4, <2>8, <2>9
<1> QED BY <1>1, <1>2

\* Whatever node leaves the table, no other object enters it.
LEMMA RemoveKeeps ==
  ASSUME id_table \in Seq(Nodes), NEW key, id_table' = hashtable_remove(key),
         NEW s \in Slots, Registered(s)'
  PROVE  Registered(s)
<1>1. PICK m \in 1 .. Len(id_table') : id_table'[m][2] = s
  BY DEF Registered
<1>2. CASE id_table' = id_table
  BY <1>2 DEF Registered
<1>3. CASE \E n \in 1 .. Len(id_table) :
             /\ id_table[n][1] = key
             /\ Len(id_table') = Len(id_table) - 1
             /\ \A k \in 1 .. Len(id_table') :
                  id_table'[k] = IF k < n THEN id_table[k] ELSE id_table[k + 1]
  <2>1. m \in 1 .. Len(id_table) /\ m + 1 \in 1 .. Len(id_table)
    BY <1>1, <1>3
  <2>2. id_table[m][2] = s \/ id_table[m + 1][2] = s
    BY <1>1, <1>3
  <2> QED BY <2>1, <2>2 DEF Registered
<1> QED BY <1>2, <1>3, RemoveNodes

\* What the nodes of the table are.
LEMMA NodeFacts ==
  ASSUME TypeOK
  PROVE  /\ Len(id_table) \in Nat
         /\ \A n \in 1 .. Len(id_table) :
              /\ id_table[n][1] \in 0 .. IdMod - 1 /\ id_table[n][2] \in Slots
              /\ Registered(id_table[n][2])
         /\ \A s \in Slots : object_id[s] \in 0 .. IdMod - 1
         /\ next_object_id \in 0 .. IdMod - 1 /\ IdMod \in Nat
<1>1. id_table \in Seq((0 .. IdMod - 1) \X Slots)
  BY DEF TypeOK
<1>2. \A n \in 1 .. Len(id_table) : id_table[n] \in (0 .. IdMod - 1) \X Slots
  BY <1>1
<1> QED BY <1>1, <1>2, ConstAssumption DEF TypeOK, Registered

OwnerLabels == {"cr_init", "cr_insert", "cr_abort", "md_remove", "md_free"}

\* A step that neither touches the table, the ids and the slab nor begins or ends
\* the ownership of a slot.
LEMMA IdFrame ==
  ASSUME IdInv, UNCHANGED <<id_table, object_id, next_object_id, slab>>,
         \A u \in Threads : pc[u] \in OwnerLabels \/ pc'[u] \in OwnerLabels
                              => pc'[u] = pc[u] /\ obj'[u] = obj[u]
  PROVE  IdInv'
<1>1. \A s \in Slots : Registered(s)' <=> Registered(s)
  BY DEF Registered
<1>2. \A u \in Threads : /\ Creating(u)' <=> Creating(u)
                         /\ pc'[u] = "md_free" <=> pc[u] = "md_free"
                         /\ pc'[u] = "md_remove" <=> pc[u] = "md_remove"
                         /\ pc'[u] = "cr_insert" <=> pc[u] = "cr_insert"
                         /\ Creating(u) \/ pc[u] \in OwnerLabels => obj'[u] = obj[u]
  BY DEF OwnerLabels, Creating
<1>3. IdTableExact'
  BY <1>1, <1>2 DEF IdInv, IdTableExact, OwnerLabels
<1>4. IdsDistinct'
  <2>1. \A s \in Slots : Numbered(s)' <=> Numbered(s)
    BY <1>1, <1>2 DEF Numbered, OwnerLabels
  <2> QED BY <2>1 DEF IdInv, IdsDistinct
<1>5. TablePhase'
  BY <1>2 DEF IdInv, TablePhase, OwnerLabels, Registered
<1> QED BY <1>3, <1>4, <1>5 DEF IdInv

LEMMA CreateId ==
  ASSUME TypeOK, IdInv, NEW t \in Threads, object_create(t)
  PROVE  IdInv'
<1>1. PICK s \in slab : slab' = slab \ {s} /\ Enter(t, "cr_init", s)
  BY DEF object_create
<1>2. /\ UNCHANGED <<id_table, object_id, next_object_id>>
      /\ pc' = [pc EXCEPT ![t] = "cr_init"] /\ obj' = [obj EXCEPT ![t] = s]
      /\ pc[t] = "idle" /\ s \in Slots
      /\ pc \in [Threads -> Labels] /\ obj \in [Threads -> Slots \cup {NULL}]
  BY <1>1 DEF object_create, headerVars, tableVars, Enter, Goto, Ready, TypeOK
<1>3. \A r \in Slots : Registered(r)' <=> Registered(r)
  BY <1>2 DEF Registered
<1>4. \A u \in Threads \ {t} : pc'[u] = pc[u] /\ obj'[u] = obj[u]
  BY <1>2
<1>5. Creating(t)' /\ pc'[t] = "cr_init" /\ obj'[t] = s
  BY <1>2 DEF Creating
<1>6. ~Registered(s)
  BY <1>1 DEF IdInv, IdTableExact, Registered
<1>7. IdTableExact'
  <2>1. ASSUME NEW r \in Slots \ slab'
        PROVE  Registered(r)' \/ \E u \in Threads : obj'[u] = r /\ (Creating(u)' \/ pc'[u] = "md_free")
    <3>1. CASE r = s
      BY <1>5, <3>1
    <3>2. CASE r # s
      <4>1. Registered(r) \/ \E u \in Threads : obj[u] = r /\ (Creating(u) \/ pc[u] = "md_free")
        BY <1>1, <3>2 DEF IdInv, IdTableExact
      <4> QED BY <1>2, <1>3, <1>4, <4>1 DEF Creating
    <3> QED BY <3>1, <3>2
  <2> QED BY <1>1, <1>2, <2>1 DEF IdInv, IdTableExact
<1>8. IdsDistinct'
  <2>1. \A r \in Slots : Numbered(r)' <=> Numbered(r)
    BY <1>2, <1>3, <1>4, <1>5 DEF Numbered
  <2> QED BY <1>2, <2>1 DEF IdInv, IdsDistinct
<1>9. TablePhase'
  <2>1. ~Registered(s)'
    BY <1>2, <1>3, <1>6
  <2> QED BY <1>2, <1>4, <1>5, <2>1 DEF IdInv, TablePhase, Creating, Registered
<1> QED BY <1>7, <1>8, <1>9 DEF IdInv

LEMMA CreateInitId ==
  ASSUME TypeOK, SafeInv, IdInv, NEW t \in Threads, object_create_init(t),
         next_object_id' >= next_object_id
  PROVE  IdInv'
<1> DEFINE s == obj[t]
<1>1. /\ UNCHANGED <<id_table, slab, obj>>
      /\ object_id' = [object_id EXCEPT ![s] = next_object_id]
      /\ next_object_id' = (next_object_id + 1) % IdMod
      /\ pc[t] = "cr_init" /\ pc'[t] \in {"cr_insert", "cr_abort"}
      /\ \A u \in Threads \ {t} : pc'[u] = pc[u]
      /\ s \in Slots /\ object_id \in [Slots -> 0 .. IdMod - 1]
  BY DEF object_create_init, Goto, TypeOK, Labels
<1>2. next_object_id' = next_object_id + 1
  <2>1. next_object_id \in 0 .. IdMod - 1 /\ IdMod \in Nat /\ IdMod > 1
    BY ConstAssumption DEF TypeOK
  <2>2. CASE next_object_id + 1 = IdMod
    <3>1. next_object_id' = 0
      BY <1>1, <2>1, <2>2
    <3> QED BY <2>1, <2>2, <3>1
  <2>3. CASE next_object_id + 1 < IdMod
    BY <1>1, <2>1, <2>3
  <2> QED BY <2>1, <2>2, <2>3
<1>3. \A r \in Slots : Registered(r)' <=> Registered(r)
  BY <1>1 DEF Registered
<1>4. \A u \in Threads : Creating(u)' <=> Creating(u)
  BY <1>1 DEF Creating
<1>5. ~Registered(s)
  BY <1>1 DEF IdInv, TablePhase, Creating
<1>6. \A r \in Slots \ {s} : object_id'[r] = object_id[r]
  BY <1>1
<1>7. IdTableExact'
  <2>1. ASSUME NEW n \in 1 .. Len(id_table) PROVE object_id'[id_table[n][2]] = id_table[n][1]
    <3>1. id_table[n][2] \in Slots \ {s}
      BY <1>5, NodeFacts
    <3> QED BY <1>6, <3>1 DEF IdInv, IdTableExact
  <2> QED BY <1>1, <1>3, <1>4, <2>1 DEF IdInv, IdTableExact
<1>8. IdsDistinct'
  <2>1. ASSUME NEW r \in Slots \ {s}, Numbered(r)' PROVE Numbered(r)
    BY <1>1, <1>3, <2>1 DEF Numbered
  <2>2. \A r \in Slots \ {s} : Numbered(r)' => object_id'[r] = object_id[r] /\ object_id[r] < next_object_id
    BY <1>6, <2>1 DEF IdInv, IdsDistinct
  <2>3. object_id'[s] = next_object_id
    BY <1>1
  <2>4. \A r \in Slots : object_id'[r] \in Int /\ next_object_id \in Int
    BY <1>1 DEF TypeOK
  <2> QED BY <1>2, <2>1, <2>2, <2>3, <2>4 DEF IdInv, IdsDistinct
<1>9. TablePhase'
  BY <1>1, <1>3, <1>4, <1>5 DEF IdInv, TablePhase, Creating, Registered
<1> QED BY <1>7, <1>8, <1>9 DEF IdInv

LEMMA FreeId ==
  ASSUME TypeOK, SafeInv, IdInv, NEW t \in Threads,
         object_create_abort(t) \/ object_maybe_destroy_free(t)
  PROVE  IdInv'
<1> DEFINE s == obj[t]
<1>1. /\ UNCHANGED <<id_table, object_id, next_object_id>>
      /\ slab' = slab \cup {s} /\ pc'[t] = "idle" /\ obj'[t] = NULL
      /\ pc[t] \in {"cr_abort", "md_free"}
      /\ \A u \in Threads \ {t} : pc'[u] = pc[u] /\ obj'[u] = obj[u]
      /\ s \in Slots
  BY DEF object_create_abort, object_maybe_destroy_free, slab_free, tableVars, Return,
         Enter, Goto, TypeOK, Labels
<1>2. \A r \in Slots : Registered(r)' <=> Registered(r)
  BY <1>1 DEF Registered
<1>3. ~Registered(s)
  BY <1>1 DEF IdInv, TablePhase, Creating
<1>4. IdTableExact'
  <2>1. \A n \in 1 .. Len(id_table) : id_table[n][2] # s
    BY <1>3, NodeFacts
  <2>2. ASSUME NEW r \in Slots \ slab'
        PROVE  Registered(r)' \/ \E u \in Threads : obj'[u] = r /\ (Creating(u)' \/ pc'[u] = "md_free")
    <3>1. Registered(r) \/ \E u \in Threads : obj[u] = r /\ (Creating(u) \/ pc[u] = "md_free")
      BY <1>1, <2>2 DEF IdInv, IdTableExact
    <3>2. r # s
      BY <1>1, <2>2
    <3> QED BY <1>1, <1>2, <3>1, <3>2 DEF Creating
  <2> QED BY <1>1, <2>1, <2>2 DEF IdInv, IdTableExact
<1>5. IdsDistinct'
  <2>1. \A r \in Slots : Numbered(r)' => Numbered(r)
    BY <1>1, <1>2 DEF Numbered
  <2> QED BY <1>1, <2>1 DEF IdInv, IdsDistinct
<1>6. TablePhase'
  BY <1>1 DEF IdInv, TablePhase, Creating, Registered
<1> QED BY <1>4, <1>5, <1>6 DEF IdInv

LEMMA InsertId ==
  ASSUME TypeOK, SafeInv, IdInv, NEW t \in Threads, object_create_insert(t)
  PROVE  IdInv'
<1>0. PICK s \in Slots : s = obj[t]
  BY DEF object_create_insert, TypeOK
<1>1. /\ UNCHANGED <<slab, object_id, next_object_id>>
      /\ id_table' = hashtable_insert(object_id[s], s) /\ pc'[t] = "idle" /\ obj'[t] = NULL
      /\ pc[t] = "cr_insert"
      /\ \A u \in Threads \ {t} : pc'[u] = pc[u] /\ obj'[u] = obj[u]
      /\ s \in Slots /\ object_id[s] \in 0 .. IdMod - 1 /\ id_table \in Seq(Nodes)
  BY <1>0 DEF object_create_insert, headerVars, Return, Enter, Goto, TypeOK, Labels, Nodes
<1>2. /\ Len(id_table) \in Nat /\ Len(id_table') = Len(id_table) + 1
      /\ id_table'[1] = <<object_id[s], s>>
      /\ \A n \in 1 .. Len(id_table) : id_table'[n + 1] = id_table[n]
  BY <1>1, InsertNodes
<1>3. /\ id_table'[1][1] = object_id[s] /\ id_table'[1][2] = s
      /\ \A n \in 1 .. Len(id_table') : n = 1 \/ (n - 1 \in 1 .. Len(id_table) /\ id_table'[n] = id_table[n - 1])
  <2>1. ASSUME NEW n \in 1 .. Len(id_table'), n # 1
        PROVE  n - 1 \in 1 .. Len(id_table) /\ id_table'[n] = id_table[n - 1]
    <3>1. n - 1 \in 1 .. Len(id_table) /\ (n - 1) + 1 = n
      BY <1>2, <2>1
    <3> QED BY <1>2, <3>1
  <2> QED BY <1>2, <2>1
<1>4. \A r \in Slots : Registered(r)' <=> Registered(r) \/ r = s
  <2>1. Registered(s)'
    <3>1. 1 \in 1 .. Len(id_table')
      BY <1>2
    <3> QED BY <1>3, <3>1 DEF Registered
  <2>2. ASSUME NEW r \in Slots, Registered(r) PROVE Registered(r)'
    <3>1. PICK n \in 1 .. Len(id_table) : id_table[n][2] = r
      BY <2>2 DEF Registered
    <3>2. n + 1 \in 1 .. Len(id_table') /\ id_table'[n + 1][2] = r
      BY <1>2, <3>1
    <3> QED BY <3>2 DEF Registered
  <2>3. ASSUME NEW r \in Slots, Registered(r)' PROVE Registered(r) \/ r = s
    BY <1>3, <2>3 DEF Registered
  <2> QED BY <2>1, <2>2, <2>3
<1>5. ~Registered(s) /\ s \notin slab /\ \A u \in Threads \ {t} : Owns(u) => obj[u] # s
  BY <1>0, <1>1 DEF IdInv, TablePhase, Creating, SafeInv, NoDoubleFree, Owns
<1>6. IdTableExact'
  <2>1. \A n \in 1 .. Len(id_table) : id_table[n][2] # s
    BY <1>5, NodeFacts
  <2>2. ASSUME NEW m \in 1 .. Len(id_table'), NEW n \in 1 .. Len(id_table'),
               id_table'[m][2] = id_table'[n][2]
        PROVE  m = n
    <3>1. CASE m = 1 \/ n = 1
      BY <1>3, <2>1, <2>2, <3>1
    <3>2. CASE m # 1 /\ n # 1
      <4>1. /\ m - 1 \in 1 .. Len(id_table) /\ n - 1 \in 1 .. Len(id_table)
            /\ id_table[m - 1][2] = id_table[n - 1][2]
        BY <1>3, <2>2, <3>2
      <4>2. m - 1 = n - 1
        BY <4>1 DEF IdInv, IdTableExact
      <4> QED BY <1>2, <4>2
    <3> QED BY <3>1, <3>2
  <2>3. ASSUME NEW n \in 1 .. Len(id_table')
        PROVE  object_id[id_table'[n][2]] = id_table'[n][1] /\ id_table'[n][2] \notin slab
    BY <1>3, <1>5, <2>3 DEF IdInv, IdTableExact
  <2>4. ASSUME NEW r \in Slots \ slab
        PROVE  Registered(r)' \/ \E u \in Threads : obj'[u] = r /\ (Creating(u)' \/ pc'[u] = "md_free")
    <3>1. Registered(r) \/ \E u \in Threads : obj[u] = r /\ (Creating(u) \/ pc[u] = "md_free")
      BY <2>4 DEF IdInv, IdTableExact
    <3> QED BY <1>0, <1>1, <1>4, <3>1 DEF Creating
  <2> QED BY <1>1, <2>2, <2>3, <2>4 DEF IdTableExact
<1>7. IdsDistinct'
  <2>1. \A r \in Slots : Numbered(r)' => Numbered(r)
    BY <1>0, <1>1, <1>4 DEF Numbered
  <2> QED BY <1>1, <2>1 DEF IdInv, IdsDistinct
<1>8. TablePhase'
  <2>1. ASSUME NEW u \in Threads, Creating(u)' \/ pc'[u] = "md_free" PROVE ~Registered(obj[u])'
    <3>1. u # t /\ (Creating(u) \/ pc[u] = "md_free") /\ obj'[u] = obj[u] /\ Owns(u)
      BY <1>1, <2>1 DEF Creating, Owns, Dying
    <3>2. obj[u] \in Slots /\ obj[u] # s /\ ~Registered(obj[u])
      BY <1>5, <3>1 DEF TypeOK, Creating, IdInv, TablePhase
    <3> QED BY <1>4, <3>1, <3>2 DEF Registered
  <2>2. ASSUME NEW u \in Threads, pc'[u] = "md_remove" PROVE Registered(obj[u])'
    <3>1. u # t /\ pc[u] = "md_remove" /\ obj'[u] = obj[u] /\ obj[u] \in Slots
      BY <1>1, <2>2 DEF TypeOK
    <3> QED BY <1>4, <3>1 DEF IdInv, TablePhase, Registered
  <2> QED BY <2>1, <2>2 DEF TablePhase
<1> QED BY <1>6, <1>7, <1>8 DEF IdInv

LEMMA SetId ==
  ASSUME TypeOK, SafeInv, IdInv, NEW t \in Threads, object_maybe_destroy_set(t)
  PROVE  IdInv'
<1>0. PICK s \in Slots : s = obj[t]
  BY DEF object_maybe_destroy_set, TypeOK
<1>1. /\ UNCHANGED <<id_table, object_id, next_object_id, slab, obj>>
      /\ pc[t] = "md_set" /\ pc'[t] = "md_remove"
      /\ \A u \in Threads \ {t} : pc'[u] = pc[u]
  BY DEF object_maybe_destroy_set, tableVars, Goto, TypeOK
<1>2. \A r \in Slots : Registered(r)' <=> Registered(r)
  BY <1>1 DEF Registered
<1>3. Registered(s)
  <2>1. ~destroyed[s] /\ ~Fresh(s)
    BY <1>0, <1>1, KnownNotFresh DEF SafeInv, SetUnmarked, Creating
  <2>2. s \notin slab /\ \A u \in Threads : obj[u] = s => ~Creating(u) /\ pc[u] # "md_free"
    BY <2>1 DEF Fresh, SafeInv, DyingMarked, Dying
  <2> QED BY <2>2 DEF IdInv, IdTableExact
<1>4. \A u \in Threads : /\ Creating(u)' <=> Creating(u)
                         /\ pc'[u] = "md_free" <=> pc[u] = "md_free"
                         /\ pc'[u] = "cr_insert" <=> pc[u] = "cr_insert"
  BY <1>1 DEF Creating
<1>5. IdTableExact'
  BY <1>1, <1>2, <1>4 DEF IdInv, IdTableExact
<1>6. IdsDistinct'
  <2>1. \A r \in Slots : Numbered(r)' <=> Numbered(r)
    BY <1>1, <1>2, <1>4 DEF Numbered
  <2> QED BY <1>1, <2>1 DEF IdInv, IdsDistinct
<1>7. TablePhase'
  BY <1>0, <1>1, <1>3, <1>4 DEF IdInv, TablePhase, Registered
<1> QED BY <1>5, <1>6, <1>7 DEF IdInv

LEMMA RemoveId ==
  ASSUME TypeOK, SafeInv, IdInv, NEW t \in Threads, object_maybe_destroy_remove(t)
  PROVE  IdInv'
<1>0. PICK s \in Slots : s = obj[t]
  BY DEF object_maybe_destroy_remove, TypeOK
<1>1. /\ UNCHANGED <<slab, object_id, next_object_id, obj>>
      /\ id_table' = hashtable_remove(object_id[s])
      /\ pc[t] = "md_remove" /\ pc'[t] = "md_free"
      /\ \A u \in Threads \ {t} : pc'[u] = pc[u]
      /\ id_table \in Seq(Nodes)
  BY <1>0 DEF object_maybe_destroy_remove, headerVars, Goto, TypeOK, Nodes
<1>2. PICK n \in 1 .. Len(id_table) : id_table[n][2] = s
  BY <1>0, <1>1 DEF IdInv, TablePhase, Registered
<1>3. /\ id_table[n][1] = object_id[s]
      /\ \A m \in 1 .. Len(id_table) : id_table[m][1] = object_id[s] => m = n
  <2>1. ASSUME NEW m \in 1 .. Len(id_table), id_table[m][1] = object_id[s] PROVE m = n
    <3>1. /\ id_table[m][2] \in Slots
          /\ Numbered(id_table[m][2]) /\ Numbered(s)
      BY <1>2, NodeFacts DEF Numbered
    <3>2. object_id[id_table[m][2]] = object_id[s]
      BY <2>1 DEF IdInv, IdTableExact
    <3>3. id_table[m][2] = s
      BY <3>1, <3>2 DEF IdInv, IdsDistinct
    <3> QED BY <1>2, <3>3 DEF IdInv, IdTableExact
  <2> QED BY <1>2, <2>1 DEF IdInv, IdTableExact
<1>4. /\ Len(id_table) \in Nat /\ Len(id_table') = Len(id_table) - 1
      /\ \A m \in 1 .. Len(id_table') :
           id_table'[m] = IF m < n THEN id_table[m] ELSE id_table[m + 1]
  <2>1. ~ (\A m \in 1 .. Len(id_table) : id_table[m][1] # object_id[s])
    BY <1>3
  <2>2. PICK key : key = object_id[s]
    OBVIOUS
  <2>3. id_table \in Seq(Nodes) /\ id_table' = hashtable_remove(key)
    BY <1>1, <2>2
  <2>4. /\ Len(id_table) \in Nat
        /\ \/ id_table' = id_table /\ \A m \in 1 .. Len(id_table) : id_table[m][1] # key
           \/ \E k \in 1 .. Len(id_table) :
                /\ id_table[k][1] = key
                /\ Len(id_table') = Len(id_table) - 1
                /\ \A m \in 1 .. Len(id_table') :
                     id_table'[m] = IF m < k THEN id_table[m] ELSE id_table[m + 1]
    BY <2>3, RemoveNodes
  <2> QED BY <1>3, <2>1, <2>2, <2>4
<1> DEFINE old(m) == IF m < n THEN m ELSE m + 1
<1>5. \A m \in 1 .. Len(id_table') : /\ old(m) \in 1 .. Len(id_table) /\ old(m) # n
                                     /\ id_table'[m] = id_table[old(m)]
  BY <1>4
<1>6. \A m \in 1 .. Len(id_table) : m # n => \E k \in 1 .. Len(id_table') : old(k) = m
  <2> TAKE m \in 1 .. Len(id_table)
  <2> HAVE m # n
  <2>1. CASE m < n
    BY <1>4, <2>1
  <2>2. CASE m > n
    <3>1. m - 1 \in 1 .. Len(id_table') /\ old(m - 1) = m
      BY <1>4, <2>2
    <3> QED BY <3>1
  <2> QED BY <1>4, <2>1, <2>2
<1>7. \A m, k \in 1 .. Len(id_table') : old(m) = old(k) => m = k
  BY <1>4
<1> HIDE DEF old
<1>8. \A r \in Slots : Registered(r)' <=> Registered(r) /\ r # s
  <2>1. ASSUME NEW r \in Slots, Registered(r)' PROVE Registered(r) /\ r # s
    <3>1. PICK m \in 1 .. Len(id_table') : id_table'[m][2] = r
      BY <2>1 DEF Registered
    <3>2. old(m) \in 1 .. Len(id_table) /\ old(m) # n /\ id_table[old(m)][2] = r
      BY <1>5, <3>1
    <3> QED BY <1>2, <3>2 DEF Registered, IdInv, IdTableExact
  <2>2. ASSUME NEW r \in Slots, Registered(r), r # s PROVE Registered(r)'
    <3>1. PICK m \in 1 .. Len(id_table) : id_table[m][2] = r
      BY <2>2 DEF Registered
    <3>2. PICK k \in 1 .. Len(id_table') : old(k) = m
      BY <1>2, <1>6, <2>2, <3>1
    <3> QED BY <1>5, <3>1, <3>2 DEF Registered
  <2> QED BY <2>1, <2>2
<1>9. \A u \in Threads : /\ Creating(u)' <=> Creating(u)
                         /\ pc'[u] = "md_free" <=> pc[u] = "md_free" \/ u = t
                         /\ pc'[u] = "md_remove" <=> pc[u] = "md_remove" /\ u # t
                         /\ pc'[u] = "cr_insert" <=> pc[u] = "cr_insert"
  BY <1>1 DEF Creating
<1>10. IdTableExact'
  <2>1. ASSUME NEW m \in 1 .. Len(id_table'), NEW k \in 1 .. Len(id_table'),
               id_table'[m][2] = id_table'[k][2]
        PROVE  m = k
    <3>1. old(m) = old(k)
      BY <1>5, <2>1 DEF IdInv, IdTableExact
    <3> QED BY <1>7, <3>1
  <2>2. ASSUME NEW m \in 1 .. Len(id_table')
        PROVE  object_id[id_table'[m][2]] = id_table'[m][1] /\ id_table'[m][2] \notin slab
    BY <1>5, <2>2 DEF IdInv, IdTableExact
  <2>3. ASSUME NEW r \in Slots \ slab
        PROVE  Registered(r)' \/ \E u \in Threads : obj[u] = r /\ (Creating(u)' \/ pc'[u] = "md_free")
    <3>1. Registered(r) \/ \E u \in Threads : obj[u] = r /\ (Creating(u) \/ pc[u] = "md_free")
      BY <2>3 DEF IdInv, IdTableExact
    <3> QED BY <1>0, <1>8, <1>9, <3>1
  <2> QED BY <1>1, <2>1, <2>2, <2>3 DEF IdTableExact
<1>11. IdsDistinct'
  <2>1. \A r \in Slots : Numbered(r)' => Numbered(r)
    BY <1>1, <1>8, <1>9 DEF Numbered
  <2> QED BY <1>1, <2>1 DEF IdInv, IdsDistinct
<1>12. TablePhase'
  <2>1. ASSUME NEW u \in Threads, Creating(u)' \/ pc'[u] = "md_free" PROVE ~Registered(obj[u])'
    <3>1. obj[u] \in Slots /\ (Registered(obj[u]) => obj[u] = s)
      BY <1>0, <1>9, <2>1 DEF TypeOK, Creating, IdInv, TablePhase
    <3> QED BY <1>1, <1>8, <3>1 DEF Registered
  <2>2. ASSUME NEW u \in Threads, pc'[u] = "md_remove" PROVE Registered(obj[u])'
    <3>1. u # t /\ pc[u] = "md_remove" /\ obj[u] \in Slots /\ Owns(u) /\ Owns(t)
      BY <1>1, <1>9, <2>2 DEF TypeOK, Owns, Dying
    <3>2. obj[u] # s
      BY <1>0, <3>1 DEF SafeInv, NoDoubleFree
    <3> QED BY <1>1, <1>8, <3>1, <3>2 DEF IdInv, TablePhase, Registered
  <2> QED BY <2>1, <2>2 DEF TablePhase
<1> QED BY <1>10, <1>11, <1>12 DEF IdInv

\* The steps that have nothing to do with the table.
LEMMA OtherId ==
  ASSUME TypeOK, SafeInv, IdInv, NEW t \in Threads,
         \/ \E s \in Slots : object_ref(t, s) \/ object_deref(t, s)
         \/ \E s \in Slots, r \in SUBSET Rights : object_grant(t, s, r)
         \/ \E h \in Handles : object_close(t, h)
         \/ \E h \in Handles, r \in SUBSET Rights : cap_lookup(t, h, r)
         \/ object_grant_count(t) \/ object_close_count(t)
         \/ object_maybe_destroy(t) \/ object_maybe_destroy_load(t)
  PROVE  IdInv'
<1>1. UNCHANGED <<id_table, object_id, next_object_id, slab>>
  BY DEF object_ref, object_deref, object_grant, object_close, cap_lookup,
         object_grant_count, object_close_count, object_maybe_destroy,
         object_maybe_destroy_load, headerVars, tableVars
<1>2. /\ pc \in [Threads -> Labels] /\ obj \in [Threads -> Slots \cup {NULL}]
  BY DEF TypeOK
<1>3. /\ pc[t] \notin OwnerLabels /\ pc'[t] \notin OwnerLabels
      /\ \A u \in Threads \ {t} : pc'[u] = pc[u] /\ obj'[u] = obj[u]
  BY <1>2 DEF object_ref, object_deref, object_grant, object_close, cap_lookup, Detach,
         object_grant_count, object_close_count, object_maybe_destroy,
         object_maybe_destroy_load, Ready, Return, Enter, Goto, OwnerLabels
<1> QED BY <1>1, <1>3, IdFrame

LEMMA NextId ==
  TypeOK /\ SafeInv /\ IdInv /\ [Next]_vars /\ next_object_id' >= next_object_id => IdInv'
<1> SUFFICES ASSUME TypeOK, SafeInv, IdInv, [Next]_vars, next_object_id' >= next_object_id
             PROVE  IdInv'
  OBVIOUS
<1>1. CASE UNCHANGED vars
  BY <1>1, IdFrame DEF vars
<1>2. ASSUME NEW t \in Threads, Call(t) \/ Continue(t) PROVE IdInv'
  BY <1>2, CreateId, CreateInitId, FreeId, InsertId, SetId, RemoveId, OtherId DEF Call, Continue
<1> QED BY <1>1, <1>2 DEF Next

LEMMA InitId == Init => IdInv
<1> SUFFICES ASSUME Init PROVE IdInv
  OBVIOUS
<1>1. \A n \in 1 .. Len(id_table) : FALSE
  BY DEF Init
<1>2. \A t \in Threads : pc[t] = "idle"
  BY DEF Init
<1>3. slab = Slots
  BY DEF Init
<1> QED BY <1>1, <1>2, <1>3 DEF IdInv, IdTableExact, IdsDistinct, TablePhase, Numbered,
             Registered, Creating

\* As long as the 32-bit ids have not come round, the id table holds one node for
\* each live object, under its own id, and no other, however the threads interleave.
THEOREM IdTableIsExact == Spec /\ NoIdWrap => []IdTableExact
<1>1. TypeOK /\ SafeInv /\ IdInv /\ [Next]_vars /\ [next_object_id' >= next_object_id]_vars => IdInv'
  <2>1. CASE UNCHANGED vars
    BY <2>1, NextId, NodeFacts DEF vars
  <2>2. CASE next_object_id' >= next_object_id
    BY <2>2, NextId
  <2> QED BY <2>1, <2>2
<1>2. IdInv => IdTableExact
  BY DEF IdInv
<1> QED BY <1>1, <1>2, InitId, Invariance, PTL DEF Spec, NoIdWrap

----------------------------------------------------------------------------
(* The decision to destroy is not lost.                                    *)

\* An object of a slot used for the first time, from the end of object_create
\* until it is marked.
Live(s) == ~destroyed[s] /\ ~Fresh(s)

\* The references to s, one pair for each.
Refs(s) == {x \in Threads \X Nat : 1 <= x[2] /\ x[2] <= held[x[1]][s]}

\* No object has as many references as the counter has values.
RefsFit == \A s \in Slots : Cardinality(Refs(s)) < CountMod

\* The counter of a live object counts its references.
RefsCounted == \A s \in Slots : Live(s) => /\ IsFiniteSet(Refs(s))
                                           /\ refcount[s] = Cardinality(Refs(s))

\* A creator enters the table with the one reference it returns.
CreatedWithOne ==
  \A t \in Threads : pc[t] = "cr_insert" /\ ~destroyed[obj[t]] => refcount[obj[t]] = 1

\* A thread inside object_grant has a reference.
GrantHolds == \A t \in Threads : pc[t] = "gr_count" => held[t][obj[t]] > 0

RegisteredKnown == \A s \in Slots : Registered(s) => ~Fresh(s)

LiveDecided ==
  \A s \in Slots : Live(s) /\ refcount[s] = 0 /\ handle_count[s] = 0
    => \E t \in Threads : InDestroy(t, s)

\* What a step of t leaves alone.
LEMMA StepFrame ==
  ASSUME TypeOK, NEW t \in Threads, Call(t) \/ Continue(t)
  PROVE  /\ \A u \in Threads \ {t} : pc'[u] = pc[u] /\ obj'[u] = obj[u] /\ held'[u] = held[u]
         /\ \A s \in Slots : destroyed[s] => destroyed'[s]
<1>1. /\ pc \in [Threads -> Labels] /\ obj \in [Threads -> Slots \cup {NULL}]
      /\ held \in [Threads -> [Slots -> Nat]] /\ destroyed \in [Slots -> BOOLEAN]
  BY DEF TypeOK
<1>2. CASE Call(t)
  <2>1. UNCHANGED destroyed
    BY <1>2 DEF Call, object_create, object_ref, object_deref, object_grant, object_close,
         cap_lookup, headerVars
  <2>2. \A u \in Threads \ {t} : pc'[u] = pc[u] /\ obj'[u] = obj[u]
    BY <1>1, <1>2 DEF Call, object_create, object_ref, object_deref, object_grant,
         object_close, cap_lookup, Detach, Enter, Goto
  <2>3. \A u \in Threads \ {t} : held'[u] = held[u]
    BY <1>1, <1>2 DEF Call, object_create, object_ref, object_deref, object_grant,
         object_close, cap_lookup, Hold, Drop
  <2> QED BY <2>1, <2>2, <2>3
<1>3. CASE Continue(t)
  <2>1. \A s \in Slots : destroyed[s] => destroyed'[s]
    BY <1>1, <1>3 DEF Continue, object_create_init, object_create_abort,
         object_create_insert, object_maybe_destroy, object_maybe_destroy_load,
         object_maybe_destroy_set, object_maybe_destroy_remove,
         object_maybe_destroy_free, object_grant_count, object_close_count, headerVars
  <2>2. \A u \in Threads \ {t} : pc'[u] = pc[u] /\ obj'[u] = obj[u]
    BY <1>1, <1>3 DEF Continue, object_create_init, object_create_abort,
         object_create_insert, object_maybe_destroy, object_maybe_destroy_load,
         object_maybe_destroy_set, object_maybe_destroy_remove,
         object_maybe_destroy_free, object_grant_count, object_close_count, Return,
         Enter, Goto
  <2>3. \A u \in Threads \ {t} : held'[u] = held[u]
    BY <1>1, <1>3 DEF Continue, object_create_init, object_create_abort,
         object_create_insert, object_maybe_destroy, object_maybe_destroy_load,
         object_maybe_destroy_set, object_maybe_destroy_remove,
         object_maybe_destroy_free, object_grant_count, object_close_count, Hold
  <2> QED BY <2>1, <2>2, <2>3
<1> QED BY <1>2, <1>3

\* A slot that is known stays so, unless its memory is used again; an unmarked one
\* becomes live only at the end of its creation.
LEMMA LiveStep ==
  ASSUME TypeOK, SafeInv, NEW t \in Threads, Call(t) \/ Continue(t), NEW r \in Slots
  PROVE  /\ Fresh(r)' => Fresh(r)
         /\ Live(r)' => Live(r) \/ (object_create_insert(t) /\ obj[t] = r)
<1>1. \A u \in Threads \ {t} : /\ pc'[u] = pc[u] /\ obj'[u] = obj[u]
                               /\ Creating(u)' <=> Creating(u)
  BY StepFrame DEF Creating
<1>2. destroyed[r] => destroyed'[r]
  BY StepFrame
<1>3. /\ pc \in [Threads -> Labels] /\ obj \in [Threads -> Slots \cup {NULL}]
  BY DEF TypeOK
<1>4. CASE object_create(t)
  <2>1. PICK s \in slab : slab' = slab \ {s} /\ Enter(t, "cr_init", s)
    BY <1>4 DEF object_create
  <2>2. pc'[t] = "cr_init" /\ obj'[t] = s /\ pc[t] = "idle" /\ UNCHANGED destroyed
    BY <1>3, <1>4, <2>1 DEF object_create, Enter, Goto, Ready, headerVars
  <2> QED BY <1>1, <2>1, <2>2 DEF Fresh, Live, Creating
<1>5. CASE object_create_init(t)
  <2>1. /\ Creating(t) /\ Creating(t)' /\ UNCHANGED <<obj, slab, destroyed>>
    BY <1>3, <1>5 DEF object_create_init, Goto, Creating
  <2> QED BY <1>1, <2>1 DEF Fresh, Live
<1>6. CASE object_create_abort(t)
  <2>1. /\ Creating(t) /\ ~Creating(t)' /\ slab' = slab \cup {obj[t]} /\ UNCHANGED destroyed
    BY <1>3, <1>6 DEF object_create_abort, slab_free, Return, Enter, Goto, Creating
  <2> QED BY <1>1, <2>1 DEF Fresh, Live
<1>7. CASE object_create_insert(t)
  <2>1. /\ Creating(t) /\ ~Creating(t)' /\ UNCHANGED <<slab, destroyed>>
    BY <1>3, <1>7 DEF object_create_insert, headerVars, Return, Enter, Goto, Creating
  <2> QED BY <1>1, <1>7, <2>1 DEF Fresh, Live
<1>8. CASE object_maybe_destroy_free(t)
  <2>1. /\ Dying(t) /\ ~Creating(t) /\ ~Creating(t)' /\ slab' = slab \cup {obj[t]}
        /\ UNCHANGED destroyed
    BY <1>3, <1>8 DEF object_maybe_destroy_free, slab_free, Return, Enter, Goto, Creating, Dying
  <2>2. destroyed[obj[t]]
    BY <2>1 DEF SafeInv, DyingMarked
  <2> QED BY <1>1, <2>1, <2>2 DEF Fresh, Live
<1>9. ASSUME ~Creating(t), ~Creating(t)', UNCHANGED slab
      PROVE  (Fresh(r)' => Fresh(r)) /\ (Live(r)' => Live(r))
  BY <1>1, <1>2, <1>9 DEF Fresh, Live
<1>10. CASE \/ object_maybe_destroy(t) \/ object_maybe_destroy_load(t)
            \/ object_maybe_destroy_set(t) \/ object_maybe_destroy_remove(t)
            \/ object_grant_count(t) \/ object_close_count(t)
  <2>1. ~Creating(t) /\ ~Creating(t)' /\ UNCHANGED slab
    BY <1>3, <1>10 DEF object_maybe_destroy, object_maybe_destroy_load,
         object_maybe_destroy_set, object_maybe_destroy_remove, object_grant_count,
         object_close_count, Return, Enter, Goto, Creating
  <2> QED BY <1>9, <2>1
<1>11. CASE \/ \E s \in Slots : object_ref(t, s) \/ object_deref(t, s)
            \/ \E s \in Slots, x \in SUBSET Rights : object_grant(t, s, x)
            \/ \E h \in Handles : object_close(t, h)
            \/ \E h \in Handles, x \in SUBSET Rights : cap_lookup(t, h, x)
  <2>1. ~Creating(t) /\ ~Creating(t)' /\ UNCHANGED slab
    BY <1>3, <1>11 DEF object_ref, object_deref, object_grant, object_close, cap_lookup,
         Detach, Ready, Enter, Goto, Creating, headerVars
  <2> QED BY <1>9, <2>1
<1> QED BY <1>4, <1>5, <1>6, <1>7, <1>8, <1>10, <1>11 DEF Call, Continue

\* Hold adds one reference to the set, Drop takes one away.
LEMMA HoldRefs ==
  ASSUME TypeOK, NEW t \in Threads, NEW s \in Slots, Hold(t, s)
  PROVE  /\ Refs(s)' = Refs(s) \cup {<<t, held[t][s] + 1>>}
         /\ <<t, held[t][s] + 1>> \notin Refs(s)
         /\ \A r \in Slots \ {s} : Refs(r)' = Refs(r)
<1>1. held \in [Threads -> [Slots -> Nat]]
  BY DEF TypeOK
<1>2. /\ held'[t][s] = held[t][s] + 1 /\ held[t][s] \in Nat
      /\ \A u \in Threads \ {t} : held'[u][s] = held[u][s]
      /\ \A u \in Threads, r \in Slots \ {s} : held'[u][r] = held[u][r]
  BY <1>1 DEF Hold
<1>3. \A r \in Slots \ {s} : Refs(r)' = Refs(r)
  BY <1>2 DEF Refs
<1>4. ASSUME NEW x \in Threads \X Nat PROVE x \in Refs(s)' <=> x \in Refs(s) \/ x = <<t, held[t][s] + 1>>
  <2>1. PICK u \in Threads, i \in Nat : x = <<u, i>>
    OBVIOUS
  <2>2. x[1] = u /\ x[2] = i
    BY <2>1
  <2>3. x \in Refs(s)' <=> 1 <= i /\ i <= held'[u][s]
    BY <2>2 DEF Refs
  <2>4. x \in Refs(s) <=> 1 <= i /\ i <= held[u][s]
    BY <2>2 DEF Refs
  <2>5. CASE u = t
    BY <1>2, <2>1, <2>3, <2>4, <2>5
  <2>6. CASE u # t
    BY <1>2, <2>1, <2>3, <2>4, <2>6
  <2> QED BY <2>5, <2>6
<1>5. Refs(s)' \subseteq Threads \X Nat /\ Refs(s) \subseteq Threads \X Nat
  BY DEF Refs
<1>6. <<t, held[t][s] + 1>> \in Threads \X Nat /\ <<t, held[t][s] + 1>> \notin Refs(s)
  BY <1>2 DEF Refs
<1> QED BY <1>3, <1>4, <1>5, <1>6

LEMMA DropRefs ==
  ASSUME TypeOK, NEW t \in Threads, NEW s \in Slots, held[t][s] > 0, Drop(t, s)
  PROVE  /\ Refs(s)' = Refs(s) \ {<<t, held[t][s]>>}
         /\ <<t, held[t][s]>> \in Refs(s)
         /\ \A r \in Slots \ {s} : Refs(r)' = Refs(r)
<1>1. held \in [Threads -> [Slots -> Nat]]
  BY DEF TypeOK
<1>2. /\ held'[t][s] = held[t][s] - 1 /\ held[t][s] \in Nat
      /\ \A u \in Threads \ {t} : held'[u][s] = held[u][s]
      /\ \A u \in Threads, r \in Slots \ {s} : held'[u][r] = held[u][r]
  BY <1>1 DEF Drop
<1>3. \A r \in Slots \ {s} : Refs(r)' = Refs(r)
  BY <1>2 DEF Refs
<1>4. ASSUME NEW x \in Threads \X Nat PROVE x \in Refs(s)' <=> x \in Refs(s) /\ x # <<t, held[t][s]>>
  <2>1. PICK u \in Threads, i \in Nat : x = <<u, i>>
    OBVIOUS
  <2>2. x[1] = u /\ x[2] = i
    BY <2>1
  <2>3. x \in Refs(s)' <=> 1 <= i /\ i <= held'[u][s]
    BY <2>2 DEF Refs
  <2>4. x \in Refs(s) <=> 1 <= i /\ i <= held[u][s]
    BY <2>2 DEF Refs
  <2>5. CASE u = t
    BY <1>2, <2>1, <2>3, <2>4, <2>5
  <2>6. CASE u # t
    BY <1>2, <2>1, <2>3, <2>4, <2>6
  <2> QED BY <2>5, <2>6
<1>5. Refs(s)' \subseteq Threads \X Nat /\ Refs(s) \subseteq Threads \X Nat
  BY DEF Refs
<1>6. <<t, held[t][s]>> \in Refs(s)
  BY <1>2 DEF Refs
<1> QED BY <1>3, <1>4, <1>5, <1>6

\* What the atomic operations do to a counter, at the two ends of its range too.
LEMMA CounterStep ==
  ASSUME NEW var \in [Slots -> Counts], NEW s \in Slots
  PROVE  /\ var[s] \in Nat /\ var[s] < CountMod
         /\ atomic_fetch_add(var, s)[s] = IF var[s] + 1 = CountMod THEN 0 ELSE var[s] + 1
         /\ atomic_fetch_sub(var, s)[s] = IF var[s] = 0 THEN CountMod - 1 ELSE var[s] - 1
         /\ \A r \in Slots \ {s} : /\ atomic_fetch_add(var, s)[r] = var[r]
                                   /\ atomic_fetch_sub(var, s)[r] = var[r]
<1>1. CountMod \in Nat /\ CountMod > 1
  BY ConstAssumption
<1>2. var[s] \in Nat /\ var[s] < CountMod
  BY <1>1 DEF Counts
<1>3. /\ atomic_fetch_add(var, s)[s] = (var[s] + 1) % CountMod
      /\ atomic_fetch_sub(var, s)[s] = (var[s] + CountMod - 1) % CountMod
  BY DEF atomic_fetch_add, atomic_fetch_sub
<1>4. (var[s] + 1) % CountMod = IF var[s] + 1 = CountMod THEN 0 ELSE var[s] + 1
  <2>1. CASE var[s] + 1 = CountMod
    BY <1>1, <2>1
  <2>2. CASE var[s] + 1 < CountMod
    BY <1>1, <1>2, <2>2
  <2> QED BY <1>1, <1>2, <2>1, <2>2
<1>5. (var[s] + CountMod - 1) % CountMod = IF var[s] = 0 THEN CountMod - 1 ELSE var[s] - 1
  <2>1. CASE var[s] = 0
    BY <1>1, <2>1
  <2>2. CASE var[s] > 0
    <3>1. /\ var[s] + CountMod - 1 = 1 * CountMod + (var[s] - 1)
          /\ var[s] - 1 \in 0 .. CountMod - 1
      BY <1>1, <1>2, <2>2
    <3> QED BY <1>1, <1>2, <2>2, <3>1
  <2> QED BY <1>2, <2>1, <2>2
<1> QED BY <1>2, <1>3, <1>4, <1>5 DEF atomic_fetch_add, atomic_fetch_sub

\* The steps that take or drop no reference leave the count of a live object alone.
LEMMA RefcountFrame ==
  ASSUME TypeOK, SafeInv, NEW t \in Threads, Call(t) \/ Continue(t)
  PROVE  \/ object_create_insert(t) /\ Hold(t, obj[t]) /\ UNCHANGED refcount
         \/ \E s \in Slots : Hold(t, s) /\ refcount' = atomic_fetch_add(refcount, s)
         \/ \E s \in Slots : object_deref(t, s)
         \/ /\ UNCHANGED held /\ ~object_create_insert(t)
            /\ \A r \in Slots : Live(r)' => refcount'[r] = refcount[r]
<1>1. refcount \in [Slots -> Counts] /\ obj \in [Threads -> Slots \cup {NULL}]
  BY DEF TypeOK
<1>2. CASE object_create_insert(t)
  BY <1>2 DEF object_create_insert, headerVars
<1>3. CASE UNCHANGED <<refcount, held>> /\ ~object_create_insert(t)
  BY <1>3
<1>4. CASE object_create_init(t)
  <2>1. Creating(t)' /\ pc[t] = "cr_init" /\ UNCHANGED <<obj, held>> /\ obj[t] \in Slots
        /\ refcount' = [refcount EXCEPT ![obj[t]] = 1]
    BY <1>4 DEF object_create_init, Goto, Creating, TypeOK
  <2>2. ASSUME NEW r \in Slots, Live(r)' PROVE r # obj[t]
    BY <2>1, <2>2 DEF Live, Fresh
  <2> QED BY <1>1, <2>1, <2>2 DEF object_create_insert
<1>5. CASE object_create_abort(t) \/ object_maybe_destroy_free(t)
  <2>1. /\ obj[t] \in slab' /\ UNCHANGED held /\ pc[t] \in {"cr_abort", "md_free"}
        /\ obj[t] \in Slots /\ refcount' = [refcount EXCEPT ![obj[t]] = 0]
    BY <1>5 DEF object_create_abort, object_maybe_destroy_free, slab_free, TypeOK
  <2>2. ASSUME NEW r \in Slots, Live(r)' PROVE r # obj[t]
    BY <2>1, <2>2 DEF Live, Fresh
  <2> QED BY <1>1, <2>1, <2>2 DEF object_create_insert
<1>6. CASE \/ object_maybe_destroy(t) \/ object_maybe_destroy_load(t)
           \/ object_maybe_destroy_set(t) \/ object_maybe_destroy_remove(t)
           \/ object_grant_count(t) \/ object_close_count(t) \/ object_create(t)
  <2>1. UNCHANGED <<refcount, held>> /\ ~object_create_insert(t)
    BY <1>6 DEF object_maybe_destroy, object_maybe_destroy_load,
         object_maybe_destroy_set, object_maybe_destroy_remove, object_grant_count,
         object_close_count, object_create, object_create_insert, headerVars, Ready
  <2> QED BY <1>3, <2>1
<1>7. ASSUME NEW s \in Slots, object_ref(t, s)
      PROVE  Hold(t, s) /\ refcount' = atomic_fetch_add(refcount, s)
  BY <1>7 DEF object_ref
<1>8. CASE \/ \E s \in Slots, x \in SUBSET Rights : object_grant(t, s, x)
           \/ \E h \in Handles : object_close(t, h)
  <2>1. UNCHANGED <<refcount, held>> /\ ~object_create_insert(t)
    BY <1>8 DEF object_grant, object_close, object_create_insert, headerVars, Ready
  <2> QED BY <1>3, <2>1
<1>9. ASSUME NEW h \in Handles, NEW x \in SUBSET Rights, cap_lookup(t, h, x)
      PROVE  \/ /\ UNCHANGED <<refcount, held>> /\ ~object_create_insert(t)
             \/ /\ entries[h].object \in Slots /\ Hold(t, entries[h].object)
                /\ refcount' = atomic_fetch_add(refcount, entries[h].object)
  <2>1. entries[h].object \in Slots
    BY <1>9 DEF cap_lookup, TypeOK, Entries
  <2> QED BY <1>9, <2>1 DEF cap_lookup, object_create_insert, Ready
<1> QED BY <1>2, <1>3, <1>4, <1>5, <1>6, <1>7, <1>8, <1>9 DEF Call, Continue

LEMMA RefsCountedStep ==
  ASSUME TypeOK, SafeInv, RefsCounted, CreatedWithOne, RefsFit',
         NEW t \in Threads, Call(t) \/ Continue(t)
  PROVE  RefsCounted'
<1>1. refcount \in [Slots -> Counts] /\ CountMod \in Nat /\ CountMod > 1
  BY ConstAssumption DEF TypeOK
<1>2. SUFFICES ASSUME NEW r \in Slots, Live(r)'
               PROVE  IsFiniteSet(Refs(r)') /\ refcount'[r] = Cardinality(Refs(r)')
  BY DEF RefsCounted
<1>3. Live(r) => IsFiniteSet(Refs(r)) /\ refcount[r] = Cardinality(Refs(r))
  BY DEF RefsCounted
<1>4. CASE object_create_insert(t) /\ Hold(t, obj[t]) /\ UNCHANGED refcount
  <2>1. PICK s \in Slots : s = obj[t]
    BY <1>4 DEF object_create_insert, TypeOK
  <2>2. CASE r # s
    BY <1>2, <1>3, <1>4, <2>1, <2>2, LiveStep, HoldRefs
  <2>3. CASE r = s
    <3>1. ~destroyed[r] /\ Fresh(r) /\ pc[t] = "cr_insert"
      <4>1. ~destroyed[r]
        BY <1>2, StepFrame DEF Live
      <4> QED BY <1>4, <2>1, <2>3, <4>1 DEF Fresh, Creating, object_create_insert
    <3>2. refcount[r] = 1
      BY <2>1, <2>3, <3>1 DEF CreatedWithOne
    <3>3. \A u \in Threads : held[u][r] = 0
      BY <3>1 DEF SafeInv, FreshUnknown
    <3>4. Refs(r) = {}
      BY <3>3 DEF Refs
    <3>5. Refs(r)' = Refs(r) \cup {<<t, held[t][r] + 1>>} /\ <<t, held[t][r] + 1>> \notin Refs(r)
      BY <1>4, <2>1, <2>3, HoldRefs
    <3>6. IsFiniteSet(Refs(r)') /\ Cardinality(Refs(r)') = 1
      <4>1. IsFiniteSet(Refs(r)) /\ Cardinality(Refs(r)) = 0
        BY <3>4, FS_EmptySet
      <4>2. /\ IsFiniteSet(Refs(r)') /\ Cardinality(Refs(r)') = Cardinality(Refs(r)) + 1
        BY <3>5, <4>1, FS_AddElement
      <4> QED BY <4>1, <4>2
    <3> QED BY <1>4, <3>2, <3>6
  <2> QED BY <2>2, <2>3
<1>5. ASSUME NEW s \in Slots, Hold(t, s), refcount' = atomic_fetch_add(refcount, s),
             ~object_create_insert(t)
      PROVE  IsFiniteSet(Refs(r)') /\ refcount'[r] = Cardinality(Refs(r)')
  <2>1. Live(r)
    BY <1>2, <1>5, LiveStep
  <2>2. CASE r # s
    BY <1>1, <1>3, <1>5, <2>1, <2>2, HoldRefs, CounterStep
  <2>3. CASE r = s
    <3>1. Refs(r)' = Refs(r) \cup {<<t, held[t][r] + 1>>} /\ <<t, held[t][r] + 1>> \notin Refs(r)
      BY <1>5, <2>3, HoldRefs
    <3>2. /\ IsFiniteSet(Refs(r)') /\ Cardinality(Refs(r)') = Cardinality(Refs(r)) + 1
      BY <1>3, <2>1, <3>1, FS_AddElement
    <3>3. Cardinality(Refs(r)') < CountMod
      BY DEF RefsFit
    <3>4. /\ refcount[r] \in Nat /\ refcount[r] < CountMod
          /\ refcount'[r] = IF refcount[r] + 1 = CountMod THEN 0 ELSE refcount[r] + 1
      BY <1>1, <1>5, <2>3, CounterStep
    <3> QED BY <1>1, <1>3, <2>1, <3>2, <3>3, <3>4
  <2> QED BY <2>2, <2>3
<1>6. ASSUME NEW s \in Slots, object_deref(t, s), ~object_create_insert(t)
      PROVE  IsFiniteSet(Refs(r)') /\ refcount'[r] = Cardinality(Refs(r)')
  <2>0. held[t][s] > 0 /\ Drop(t, s) /\ refcount' = atomic_fetch_sub(refcount, s)
    BY <1>6 DEF object_deref
  <2>1. Live(r)
    BY <1>2, <1>6, LiveStep
  <2>2. CASE r # s
    <3>1. Refs(r)' = Refs(r)
      BY <2>0, <2>2, DropRefs
    <3>2. refcount'[r] = refcount[r]
      BY <1>1, <2>0, <2>2, CounterStep
    <3> QED BY <1>3, <2>1, <3>1, <3>2
  <2>3. CASE r = s
    <3>1. Refs(r)' = Refs(r) \ {<<t, held[t][r]>>} /\ <<t, held[t][r]>> \in Refs(r)
      BY <2>0, <2>3, DropRefs
    <3>2. /\ IsFiniteSet(Refs(r)') /\ Cardinality(Refs(r)') = Cardinality(Refs(r)) - 1
          /\ Cardinality(Refs(r)) # 0
      BY <1>3, <2>1, <3>1, FS_RemoveElement, FS_EmptySet
    <3>3. /\ refcount[r] \in Nat /\ refcount[r] < CountMod
          /\ refcount'[r] = IF refcount[r] = 0 THEN CountMod - 1 ELSE refcount[r] - 1
      BY <1>1, <2>0, <2>3, CounterStep
    <3> QED BY <1>1, <1>3, <2>1, <3>2, <3>3
  <2> QED BY <2>2, <2>3
<1>7. CASE /\ UNCHANGED held /\ ~object_create_insert(t)
           /\ \A q \in Slots : Live(q)' => refcount'[q] = refcount[q]
  <2>1. Refs(r)' = Refs(r)
    BY <1>7 DEF Refs
  <2> QED BY <1>2, <1>3, <1>7, <2>1, LiveStep
<1>8. CASE object_create_insert(t)
  BY <1>4, <1>8 DEF object_create_insert, headerVars
<1>9. CASE ~object_create_insert(t)
  BY <1>5, <1>6, <1>7, <1>9, RefcountFrame
<1> QED BY <1>8, <1>9

LEMMA CreatedWithOneStep ==
  ASSUME TypeOK, SafeInv, CreatedWithOne, NEW t \in Threads, Call(t) \/ Continue(t)
  PROVE  CreatedWithOne'
<1> SUFFICES ASSUME NEW u \in Threads, pc'[u] = "cr_insert", ~destroyed'[obj'[u]]
             PROVE  refcount'[obj'[u]] = 1
  BY DEF CreatedWithOne
<1>1. /\ refcount \in [Slots -> Counts]
      /\ pc \in [Threads -> Labels] /\ obj \in [Threads -> Slots \cup {NULL}]
  BY DEF TypeOK
<1>2. CASE u = t
  <2>1. object_create_init(t)
    <3>1. CASE Call(t)
      BY <1>1, <1>2, <3>1 DEF Call, object_create, object_ref, object_deref, object_grant,
           object_close, cap_lookup, Detach, Enter, Goto, Ready
    <3>2. CASE Continue(t)
      BY <1>1, <1>2, <3>2 DEF Continue, object_create_abort,
           object_create_insert, object_maybe_destroy, object_maybe_destroy_load,
           object_maybe_destroy_set, object_maybe_destroy_remove,
           object_maybe_destroy_free, object_grant_count, object_close_count, Return,
           Enter, Goto
    <3> QED BY <3>1, <3>2
  <2> QED BY <1>1, <1>2, <2>1 DEF object_create_init, TypeOK
<1>3. CASE u # t
  <2>1. pc[u] = "cr_insert" /\ obj'[u] = obj[u]
    BY <1>3, StepFrame
  <2>2. PICK s \in Slots : s = obj[u]
    BY <2>1 DEF TypeOK
  <2>3. ~destroyed[s] /\ refcount[s] = 1 /\ Fresh(s)
    BY <2>1, <2>2, StepFrame DEF CreatedWithOne, Fresh, Creating
  <2>4. /\ \A v \in Threads : held[v][s] = 0
        /\ \A h \in Handles : entries[h].object # s
    BY <2>3 DEF SafeInv, FreshUnknown
  <2>5. Owns(u) /\ (Owns(t) => obj[t] # s)
    BY <1>3, <2>1, <2>2 DEF Owns, Creating, SafeInv, NoDoubleFree
  <2>6. CASE Call(t)
    <3>1. ASSUME NEW q \in Slots, refcount' = atomic_fetch_add(refcount, q) \/ refcount' = atomic_fetch_sub(refcount, q),
                 q # s
          PROVE  refcount'[s] = refcount[s]
      BY <1>1, <3>1, CounterStep
    <3>2. ASSUME NEW q \in Slots, object_ref(t, q) \/ object_deref(t, q) PROVE refcount'[s] = refcount[s]
      <4>1. q # s
        BY <2>4, <3>2 DEF object_ref, object_deref
      <4> QED BY <3>1, <3>2, <4>1 DEF object_ref, object_deref
    <3>3. ASSUME NEW h \in Handles, NEW x \in SUBSET Rights, cap_lookup(t, h, x)
          PROVE  refcount'[s] = refcount[s]
      <4>1. entries[h].object \in Slots /\ entries[h].object # s
        BY <2>4, <3>3 DEF cap_lookup, TypeOK, Entries
      <4> QED BY <3>1, <3>3, <4>1 DEF cap_lookup
    <3>4. refcount'[s] = refcount[s]
      BY <2>6, <3>2, <3>3 DEF Call, object_create, object_grant, object_close, headerVars
    <3> QED BY <2>1, <2>2, <2>3, <3>4
  <2>7. CASE Continue(t)
    <3>1. refcount'[s] = refcount[s]
      BY <1>1, <2>5, <2>7 DEF Continue, object_create_init, object_create_abort,
           object_create_insert, object_maybe_destroy, object_maybe_destroy_load,
           object_maybe_destroy_set, object_maybe_destroy_remove,
           object_maybe_destroy_free, object_grant_count, object_close_count,
           slab_free, headerVars, Owns, Creating, Dying
    <3> QED BY <2>1, <2>2, <2>3, <3>1
  <2> QED BY <2>6, <2>7
<1> QED BY <1>2, <1>3

LEMMA GrantHoldsStep ==
  ASSUME TypeOK, GrantHolds, NEW t \in Threads, Call(t) \/ Continue(t)
  PROVE  GrantHolds'
<1> SUFFICES ASSUME NEW u \in Threads, pc'[u] = "gr_count" PROVE held'[u][obj'[u]] > 0
  BY DEF GrantHolds
<1>1. pc \in [Threads -> Labels] /\ obj \in [Threads -> Slots \cup {NULL}]
  BY DEF TypeOK
<1>2. CASE u = t
  <2>1. \E s \in Slots, x \in SUBSET Rights : object_grant(t, s, x)
    <3>1. CASE Call(t)
      BY <1>1, <1>2, <3>1 DEF Call, object_create, object_ref, object_deref,
           object_close, cap_lookup, Detach, Enter, Goto, Ready
    <3>2. CASE Continue(t)
      BY <1>1, <1>2, <3>2 DEF Continue, object_create_init, object_create_abort,
           object_create_insert, object_maybe_destroy, object_maybe_destroy_load,
           object_maybe_destroy_set, object_maybe_destroy_remove,
           object_maybe_destroy_free, object_grant_count, object_close_count, Return,
           Enter, Goto
    <3> QED BY <3>1, <3>2
  <2> QED BY <1>1, <1>2, <2>1 DEF object_grant, Enter, Goto
<1>3. CASE u # t
  BY <1>3, StepFrame DEF GrantHolds
<1> QED BY <1>2, <1>3

LEMMA RegisteredKnownStep ==
  ASSUME TypeOK, SafeInv, RegisteredKnown, NEW t \in Threads, Call(t) \/ Continue(t)
  PROVE  RegisteredKnown'
<1> SUFFICES ASSUME NEW r \in Slots, Registered(r)', Fresh(r)' PROVE FALSE
  BY DEF RegisteredKnown
<1>1. Fresh(r)
  BY LiveStep
<1>2. ~Registered(r)
  BY <1>1 DEF RegisteredKnown
<1>3. CASE UNCHANGED id_table
  BY <1>2, <1>3 DEF Registered
<1>4. CASE object_create_insert(t)
  <2>1. PICK s \in Slots : s = obj[t]
    BY <1>4 DEF object_create_insert, TypeOK
  <2>2. /\ id_table' = hashtable_insert(object_id[s], s) /\ id_table \in Seq(Nodes)
        /\ object_id[s] \in 0 .. IdMod - 1
    BY <1>4, <2>1 DEF object_create_insert, TypeOK, Nodes
  <2>3. r = s
    <3>1. PICK n \in 1 .. Len(id_table') : id_table'[n][2] = r
      BY DEF Registered
    <3>2. /\ Len(id_table) \in Nat /\ Len(id_table') = Len(id_table) + 1
          /\ id_table'[1] = <<object_id[s], s>>
          /\ \A m \in 1 .. Len(id_table) : id_table'[m + 1] = id_table[m]
      BY <2>2, InsertNodes
    <3>3. CASE n = 1
      BY <3>1, <3>2, <3>3
    <3>4. CASE n # 1
      <4>1. n - 1 \in 1 .. Len(id_table) /\ (n - 1) + 1 = n
        BY <3>1, <3>2, <3>4
      <4>2. id_table[n - 1][2] = r
        BY <3>1, <3>2, <4>1
      <4> QED BY <1>2, <4>1, <4>2 DEF Registered
    <3> QED BY <3>3, <3>4
  <2>4. Owns(t) /\ s \notin slab /\ slab' = slab /\ pc'[t] = "idle"
        /\ \A u \in Threads \ {t} : Creating(u)' => Owns(u) /\ obj'[u] # s
    <3>1. Owns(t) /\ slab' = slab /\ pc'[t] = "idle"
      BY <1>4 DEF object_create_insert, Owns, Creating, Return, Enter, Goto, TypeOK
    <3>2. \A u \in Threads \ {t} : Creating(u)' => Owns(u) /\ obj'[u] = obj[u]
      BY StepFrame DEF Creating, Owns
    <3> QED BY <2>1, <3>1, <3>2 DEF SafeInv, NoDoubleFree
  <2> QED BY <2>3, <2>4 DEF Fresh, Creating
<1>5. CASE object_maybe_destroy_remove(t)
  <2>1. id_table \in Seq(Nodes) /\ id_table' = hashtable_remove(object_id[obj[t]])
    BY <1>5 DEF object_maybe_destroy_remove, TypeOK, Nodes
  <2>2. PICK key : key = object_id[obj[t]]
    OBVIOUS
  <2>3. id_table' = hashtable_remove(key)
    BY <2>1, <2>2
  <2> QED BY <1>2, <2>1, <2>3, RemoveKeeps
<1>6. CASE Call(t)
  BY <1>3, <1>6 DEF Call, object_create, object_ref, object_deref, object_grant,
       object_close, cap_lookup, tableVars
<1>7. CASE Continue(t)
  BY <1>3, <1>4, <1>5, <1>7 DEF Continue, object_create_init, object_create_abort,
       object_maybe_destroy, object_maybe_destroy_load, object_maybe_destroy_set,
       object_maybe_destroy_free, object_grant_count, object_close_count, tableVars
<1> QED BY <1>6, <1>7

\* What changes the count of handles of a live object.
LEMMA HandleFrame ==
  ASSUME TypeOK, NEW t \in Threads, Call(t) \/ Continue(t), NEW r \in Slots, Live(r)',
         handle_count'[r] # handle_count[r]
  PROVE  obj[t] = r /\ (object_grant_count(t) \/ object_close_count(t))
<1>1. handle_count \in [Slots -> Counts] /\ obj \in [Threads -> Slots \cup {NULL}]
  BY DEF TypeOK
<1>2. CASE Call(t)
  BY <1>2 DEF Call, object_create, object_ref, object_deref, object_grant, object_close,
       cap_lookup, headerVars
<1>3. CASE object_create_init(t)
  <2>1. /\ Creating(t)' /\ UNCHANGED obj /\ obj[t] \in Slots
        /\ handle_count' = [handle_count EXCEPT ![obj[t]] = 0]
    BY <1>3 DEF object_create_init, Goto, Creating, TypeOK
  <2>2. r # obj[t]
    BY <2>1 DEF Live, Fresh
  <2> QED BY <1>1, <2>1, <2>2
<1>4. CASE object_grant_count(t) \/ object_close_count(t)
  <2>1. obj[t] \in Slots
    BY <1>4 DEF object_grant_count, object_close_count, TypeOK
  <2> QED BY <1>1, <1>4, <2>1, CounterStep DEF object_grant_count, object_close_count
<1>5. CASE \/ object_create_abort(t) \/ object_create_insert(t)
           \/ object_maybe_destroy(t) \/ object_maybe_destroy_load(t)
           \/ object_maybe_destroy_set(t) \/ object_maybe_destroy_remove(t)
           \/ object_maybe_destroy_free(t)
  BY <1>5 DEF object_create_abort, object_create_insert, object_maybe_destroy,
       object_maybe_destroy_load, object_maybe_destroy_set, object_maybe_destroy_remove,
       object_maybe_destroy_free, headerVars
<1> QED BY <1>2, <1>3, <1>4, <1>5 DEF Continue

LEMMA LiveDecidedStep ==
  ASSUME TypeOK, SafeInv, RefsCounted, RefsCounted', CreatedWithOne, GrantHolds, LiveDecided,
         NEW t \in Threads, Call(t) \/ Continue(t)
  PROVE  LiveDecided'
<1> SUFFICES ASSUME NEW r \in Slots, Live(r)', refcount'[r] = 0, handle_count'[r] = 0
             PROVE  \E u \in Threads : InDestroy(u, r)'
  BY DEF LiveDecided
<1>1. /\ refcount \in [Slots -> Counts] /\ handle_count \in [Slots -> Counts]
      /\ pc \in [Threads -> Labels] /\ obj \in [Threads -> Slots \cup {NULL}]
  BY DEF TypeOK
<1>2. IsFiniteSet(Refs(r)') /\ Refs(r)' = {}
  BY FS_EmptySet DEF RefsCounted
<1>3. ASSUME NEW s \in Slots, Hold(t, s) PROVE s # r
  BY <1>2, <1>3, HoldRefs
<1>4. Live(r)
  <2>1. ASSUME object_create_insert(t), obj[t] = r PROVE FALSE
    BY <1>3, <2>1 DEF object_create_insert
  <2> QED BY <2>1, LiveStep
<1>5. CASE refcount[r] = 0 /\ handle_count[r] = 0
  <2>1. PICK u \in Threads : InDestroy(u, r)
    BY <1>4, <1>5 DEF LiveDecided
  <2>2. CASE u # t
    BY <2>1, <2>2, StepFrame DEF InDestroy
  <2>3. CASE u = t
    <3>1. ~destroyed[r] /\ ~destroyed'[r]
      BY <1>4 DEF Live
    <3>2. \/ object_maybe_destroy(t) \/ object_maybe_destroy_load(t)
          \/ object_maybe_destroy_set(t)
      BY <2>1, <2>3 DEF InDestroy, Call, Continue, Ready, object_create, object_ref,
           object_deref, object_grant, object_close, cap_lookup, object_create_init,
           object_create_abort, object_create_insert, object_maybe_destroy_remove,
           object_maybe_destroy_free, object_grant_count, object_close_count
    <3>3. ~object_maybe_destroy_set(t)
      <4>1. destroyed \in [Slots -> BOOLEAN]
        BY DEF TypeOK
      <4> QED BY <2>1, <2>3, <3>1, <4>1 DEF object_maybe_destroy_set, InDestroy
    <3>4. CASE object_maybe_destroy(t)
      BY <1>1, <1>5, <2>1, <2>3, <3>4 DEF object_maybe_destroy, Enter, Goto, InDestroy
    <3>5. CASE object_maybe_destroy_load(t)
      BY <1>1, <1>5, <2>1, <2>3, <3>1, <3>5 DEF object_maybe_destroy_load, Enter, Goto, InDestroy
    <3> QED BY <3>2, <3>3, <3>4, <3>5
  <2> QED BY <2>2, <2>3
<1>6. CASE refcount[r] # 0
  <2>1. PICK s \in Slots : object_deref(t, s)
    <3>1. CASE object_create_insert(t)
      BY <1>6, <3>1 DEF object_create_insert, headerVars
    <3>2. ASSUME NEW s \in Slots, Hold(t, s), refcount' = atomic_fetch_add(refcount, s) PROVE FALSE
      BY <1>1, <1>3, <1>6, <3>2, CounterStep
    <3> QED BY <1>6, <3>1, <3>2, RefcountFrame
  <2>2. refcount' = atomic_fetch_sub(refcount, s)
    BY <2>1 DEF object_deref
  <2>3. r = s
    BY <1>1, <1>6, <2>2, CounterStep
  <2>4. refcount[r] = 1
    <3>1. refcount[r] \in Nat /\ refcount'[r] = IF refcount[r] = 0 THEN CountMod - 1 ELSE refcount[r] - 1
      BY <1>1, <2>2, <2>3, CounterStep
    <3> QED BY <1>6, <3>1
  <2> QED BY <1>1, <2>1, <2>3, <2>4 DEF object_deref, Enter, Goto, InDestroy
<1>7. CASE handle_count[r] # 0 /\ refcount[r] = 0
  <2>1. obj[t] = r /\ (object_grant_count(t) \/ object_close_count(t))
    BY <1>7, HandleFrame
  <2>2. CASE object_close_count(t)
    BY <1>1, <2>1, <2>2 DEF object_close_count, Goto, InDestroy
  <2>3. CASE object_grant_count(t)
    <3>1. held[t][r] > 0 /\ UNCHANGED held /\ held[t][r] \in Nat
      BY <2>1, <2>3 DEF object_grant_count, GrantHolds, TypeOK
    <3>2. <<t, 1>> \in Refs(r)'
      BY <3>1 DEF Refs
    <3> QED BY <1>2, <3>2
  <2> QED BY <2>1, <2>2, <2>3
<1> QED BY <1>5, <1>6, <1>7

LiveInv == RefsCounted /\ CreatedWithOne /\ GrantHolds /\ RegisteredKnown /\ LiveDecided

LEMMA InitLive == Init => LiveInv
<1> SUFFICES ASSUME Init PROVE LiveInv
  OBVIOUS
<1>1. \A t \in Threads : pc[t] = "idle"
  BY DEF Init
<1>2. \A s \in Slots : ~Live(s)
  BY DEF Init, Live, Fresh
<1>3. \A n \in 1 .. Len(id_table) : FALSE
  BY DEF Init
<1> QED BY <1>1, <1>2, <1>3 DEF LiveInv, RefsCounted, CreatedWithOne, GrantHolds,
             RegisteredKnown, LiveDecided, Registered

LEMMA NextLive == TypeOK /\ SafeInv /\ LiveInv /\ RefsFit' /\ [Next]_vars => LiveInv'
<1> SUFFICES ASSUME TypeOK, SafeInv, LiveInv, RefsFit', [Next]_vars PROVE LiveInv'
  OBVIOUS
<1>1. CASE UNCHANGED vars
  BY <1>1 DEF vars, LiveInv, RefsCounted, CreatedWithOne, GrantHolds, RegisteredKnown,
       LiveDecided, Live, Fresh, Refs, Registered, Creating, InDestroy
<1>2. ASSUME NEW t \in Threads, Call(t) \/ Continue(t) PROVE LiveInv'
  <2>1. RefsCounted /\ CreatedWithOne /\ GrantHolds /\ RegisteredKnown /\ LiveDecided
    BY DEF LiveInv
  <2>2. RefsCounted' /\ CreatedWithOne' /\ GrantHolds' /\ RegisteredKnown'
    BY <1>2, <2>1, RefsCountedStep, CreatedWithOneStep, GrantHoldsStep, RegisteredKnownStep
  <2>3. LiveDecided'
    BY <1>2, <2>1, <2>2, LiveDecidedStep
  <2> QED BY <2>2, <2>3 DEF LiveInv
<1> QED BY <1>1, <1>2 DEF Next

\* With fewer than CountMod references to an object at a time, the destruction of
\* an object whose two counters are 0 is never lost, whatever the interleaving and
\* even where handle_count wraps below 0.
THEOREM DestructionNotLost == Spec /\ []RefsFit => []NoLostDestruction
<1>1. LiveInv => NoLostDestruction
  BY DEF LiveInv, LiveDecided, RegisteredKnown, Live, NoLostDestruction
<1> QED BY <1>1, InitLive, NextLive, Invariance, PTL DEF Spec

----------------------------------------------------------------------------
(* One CPU.                                                                *)

\* A slot that is free, under construction or being torn down.
Gone(c, s) == s \in slab \/ (Owns(c) /\ obj[c] = s)

HandlesTo(s) == {h \in Handles : entries[h].object = s}

Pending(c, s, label) == IF pc[c] = label /\ obj[c] = s THEN 1 ELSE 0

\* With nobody else running, the counters of a slot are exact but for the one
\* count that a call under way still owes, and nothing refers to a slot that is gone.
SlotExact(c, s) ==
  /\ Gone(c, s) => held[c][s] = 0 /\ HandlesTo(s) = {}
  /\ ~Gone(c, s) =>
       /\ refcount[s] = held[c][s] /\ held[c][s] <= MaxHeld
       /\ handle_count[s] + Pending(c, s, "gr_count")
            = Cardinality(HandlesTo(s)) + Pending(c, s, "cl_count")

\* What a thread inside a call has established about its object.
CallExact(c) ==
  /\ pc[c] \in {"md_lock", "md_handle", "md_set", "gr_count", "cl_count"} => obj[c] \notin slab
  /\ pc[c] \in {"md_handle", "md_set"} => refcount[obj[c]] = 0
  /\ pc[c] = "md_set" => handle_count[obj[c]] = 0
  /\ pc[c] = "cr_insert" => refcount[obj[c]] = 1 /\ handle_count[obj[c]] = 0
  /\ Owns(c) => obj[c] \notin slab

OneInv(c) == (\A s \in Slots : SlotExact(c, s)) /\ CallExact(c)

\* There are at most CAP_TABLE_MAX handles to an object.
LEMMA HandlesToFinite ==
  ASSUME NEW s
  PROVE  /\ IsFiniteSet(HandlesTo(s)) /\ Cardinality(HandlesTo(s)) \in Nat
         /\ Cardinality(HandlesTo(s)) <= CAP_TABLE_MAX
<1>1. CAP_TABLE_MAX \in Nat \ {0}
  BY ConstAssumption
<1>2. IsFiniteSet(Handles) /\ Cardinality(Handles) = CAP_TABLE_MAX
  <2>1. IsFiniteSet(0 .. CAP_TABLE_MAX - 1) /\ Cardinality(0 .. CAP_TABLE_MAX - 1) = CAP_TABLE_MAX
    BY <1>1, FS_Interval
  <2> QED BY <2>1 DEF Handles
<1>3. HandlesTo(s) \in SUBSET Handles
  BY DEF HandlesTo
<1>4. IsFiniteSet(HandlesTo(s)) /\ Cardinality(HandlesTo(s)) <= Cardinality(Handles)
  BY <1>2, <1>3, FS_Subset
<1> QED BY <1>2, <1>4, FS_CardinalityType

\* A slot that the step does not concern.
LEMMA SlotFrame ==
  ASSUME NEW c \in Threads, NEW r \in Slots, SlotExact(c, r),
         obj[c] # r, obj'[c] # r,
         held'[c][r] = held[c][r], refcount'[r] = refcount[r],
         handle_count'[r] = handle_count[r], HandlesTo(r)' = HandlesTo(r),
         r \in slab' <=> r \in slab
  PROVE  SlotExact(c, r)'
<1>1. Gone(c, r)' <=> Gone(c, r)
  BY DEF Gone
<1>2. /\ Pending(c, r, "gr_count") = 0 /\ Pending(c, r, "gr_count")' = 0
      /\ Pending(c, r, "cl_count") = 0 /\ Pending(c, r, "cl_count")' = 0
  BY DEF Pending
<1> QED BY <1>1, <1>2 DEF SlotExact

LEMMA CreateOne ==
  ASSUME TypeOK, NEW c \in Threads, OneInv(c),
         object_create(c) \/ object_create_init(c) \/ object_create_abort(c)
  PROVE  OneInv(c)'
<1>1. /\ pc \in [Threads -> Labels] /\ obj \in [Threads -> Slots \cup {NULL}]
      /\ refcount \in [Slots -> Counts] /\ handle_count \in [Slots -> Counts]
      /\ NULL \notin Slots
  BY ConstAssumption DEF TypeOK
<1>2. UNCHANGED <<held, entries>>
  BY DEF object_create, object_create_init, object_create_abort, capVars
<1>3. PICK s \in Slots :
        /\ Gone(c, s) /\ Gone(c, s)'
        /\ obj[c] \in {s, NULL} /\ obj'[c] \in {s, NULL}
        /\ \A r \in Slots \ {s} : /\ refcount'[r] = refcount[r]
                                  /\ handle_count'[r] = handle_count[r]
                                  /\ r \in slab' <=> r \in slab
        /\ CallExact(c)'
  <2>1. CASE object_create(c)
    <3>1. PICK s \in slab : slab' = slab \ {s} /\ Enter(c, "cr_init", s)
      BY <2>1 DEF object_create
    <3>2. /\ s \in Slots /\ UNCHANGED <<refcount, handle_count>>
          /\ pc'[c] = "cr_init" /\ obj'[c] = s /\ obj[c] = NULL /\ pc[c] = "idle"
      BY <1>1, <2>1, <3>1 DEF object_create, headerVars, Enter, Goto, Ready, TypeOK
    <3>3. CallExact(c)'
      BY <3>1, <3>2 DEF CallExact
    <3> QED BY <3>1, <3>2, <3>3 DEF Gone, Owns, Creating
  <2>2. CASE object_create_init(c)
    <3>1. PICK s \in Slots : s = obj[c]
      BY <2>2 DEF object_create_init, TypeOK
    <3>2. /\ UNCHANGED <<slab, obj>> /\ pc[c] = "cr_init" /\ pc'[c] \in {"cr_insert", "cr_abort"}
          /\ refcount' = [refcount EXCEPT ![s] = 1] /\ handle_count' = [handle_count EXCEPT ![s] = 0]
      BY <1>1, <2>2, <3>1 DEF object_create_init, Goto
    <3>3. Owns(c) /\ Owns(c)' /\ s \notin slab
      BY <3>1, <3>2 DEF Owns, Creating, OneInv, CallExact
    <3>4. CallExact(c)'
      BY <1>1, <3>1, <3>2, <3>3 DEF CallExact
    <3> QED BY <1>1, <3>1, <3>2, <3>3, <3>4 DEF Gone
  <2>3. CASE object_create_abort(c)
    <3>1. PICK s \in Slots : s = obj[c]
      BY <2>3 DEF object_create_abort, TypeOK
    <3>2. /\ slab' = slab \cup {s} /\ obj'[c] = NULL /\ pc[c] = "cr_abort" /\ pc'[c] = "idle"
          /\ refcount' = [refcount EXCEPT ![s] = 0] /\ UNCHANGED handle_count
      BY <1>1, <2>3, <3>1 DEF object_create_abort, slab_free, Return, Enter, Goto
    <3>3. CallExact(c)'
      BY <3>2 DEF CallExact, Owns, Creating, Dying
    <3> QED BY <1>1, <3>1, <3>2, <3>3 DEF Gone, Owns, Creating
  <2> QED BY <2>1, <2>2, <2>3
<1>4. ASSUME NEW r \in Slots PROVE SlotExact(c, r)'
  <2>1. SlotExact(c, r) /\ HandlesTo(r)' = HandlesTo(r) /\ held'[c][r] = held[c][r]
    BY <1>2 DEF OneInv, HandlesTo
  <2>2. CASE r = s
    BY <1>3, <2>1, <2>2 DEF SlotExact
  <2>3. CASE r # s
    <3>1. obj[c] # r /\ obj'[c] # r
      BY <1>1, <1>3, <2>3
    <3> QED BY <1>3, <2>1, <2>3, <3>1, SlotFrame
  <2> QED BY <2>2, <2>3
<1> QED BY <1>3, <1>4 DEF OneInv

LEMMA InsertOne ==
  ASSUME TypeOK, NEW c \in Threads, OneInv(c), object_create_insert(c), MaxHeld >= 1
  PROVE  OneInv(c)'
<1>1. /\ pc \in [Threads -> Labels] /\ obj \in [Threads -> Slots \cup {NULL}]
      /\ held \in [Threads -> [Slots -> Nat]] /\ NULL \notin Slots
  BY ConstAssumption DEF TypeOK
<1>2. PICK s \in Slots : s = obj[c]
  BY DEF object_create_insert, TypeOK
<1>3. /\ UNCHANGED <<refcount, handle_count, slab, entries>>
      /\ pc[c] = "cr_insert" /\ pc'[c] = "idle" /\ obj'[c] = NULL
      /\ held'[c][s] = held[c][s] + 1
      /\ \A r \in Slots \ {s} : held'[c][r] = held[c][r]
  BY <1>1, <1>2 DEF object_create_insert, headerVars, capVars, Return, Enter, Goto, Hold
<1>4. Gone(c, s) /\ s \notin slab /\ refcount[s] = 1 /\ handle_count[s] = 0
  BY <1>2, <1>3 DEF Gone, Owns, Creating, OneInv, CallExact
<1>5. ASSUME NEW r \in Slots PROVE SlotExact(c, r)'
  <2>1. SlotExact(c, r) /\ HandlesTo(r)' = HandlesTo(r)
    BY <1>3 DEF OneInv, HandlesTo
  <2>2. CASE r = s
    <3>1. held[c][r] = 0 /\ HandlesTo(r) = {}
      BY <1>4, <2>1, <2>2 DEF SlotExact
    <3>2. Cardinality(HandlesTo(r)) = 0
      BY <3>1, FS_EmptySet
    <3>3. Pending(c, r, "gr_count")' = 0 /\ Pending(c, r, "cl_count")' = 0 /\ ~Gone(c, r)'
      BY <1>1, <1>3, <1>4, <2>2 DEF Pending, Gone
    <3> QED BY <1>3, <1>4, <2>1, <2>2, <3>1, <3>2, <3>3 DEF SlotExact
  <2>3. CASE r # s
    <3>1. obj[c] # r /\ obj'[c] # r
      BY <1>1, <1>2, <1>3, <2>3
    <3> QED BY <1>3, <2>1, <2>3, <3>1, SlotFrame
  <2> QED BY <2>2, <2>3
<1>6. CallExact(c)'
  BY <1>3 DEF CallExact, Owns, Creating, Dying
<1> QED BY <1>5, <1>6 DEF OneInv

\* A slot that a reference or a handle names is not gone.
LEMMA NamedNotGone ==
  ASSUME NEW c \in Threads, OneInv(c), NEW s \in Slots,
         held[c][s] > 0 \/ \E h \in Handles : entries[h].object = s
  PROVE  ~Gone(c, s)
<1>1. SlotExact(c, s)
  BY DEF OneInv
<1>2. CASE held[c][s] > 0
  BY <1>1, <1>2 DEF SlotExact
<1>3. CASE \E h \in Handles : entries[h].object = s
  BY <1>1, <1>3 DEF SlotExact, HandlesTo
<1> QED BY <1>2, <1>3

\* One reference more or less on a slot in use.
LEMMA RefOne ==
  ASSUME TypeOK, NEW c \in Threads, OneInv(c), MaxHeld < CountMod, NEW s \in Slots,
         pc[c] = "idle", ~Gone(c, s),
         UNCHANGED <<handle_count, slab, entries>>,
         \/ /\ Hold(c, s) /\ held[c][s] < MaxHeld
            /\ refcount' = atomic_fetch_add(refcount, s) /\ UNCHANGED <<pc, obj>>
         \/ /\ Drop(c, s) /\ held[c][s] > 0
            /\ refcount' = atomic_fetch_sub(refcount, s)
            /\ \/ UNCHANGED <<pc, obj>>
               \/ Enter(c, "md_lock", s)
  PROVE  OneInv(c)'
<1>1. /\ pc \in [Threads -> Labels] /\ obj \in [Threads -> Slots \cup {NULL}]
      /\ held \in [Threads -> [Slots -> Nat]] /\ refcount \in [Slots -> Counts]
      /\ NULL \notin Slots /\ obj[c] = NULL /\ CountMod \in Nat /\ MaxHeld \in Nat
  BY ConstAssumption DEF TypeOK
<1>2. /\ pc'[c] \in {"idle", "md_lock"} /\ obj'[c] \in {s, NULL}
      /\ pc'[c] = "md_lock" => obj'[c] = s
  BY <1>1 DEF Enter, Goto
<1>3. /\ \A r \in Slots \ {s} : held'[c][r] = held[c][r] /\ refcount'[r] = refcount[r]
      /\ held[c][s] \in Nat /\ refcount[s] = held[c][s] /\ held[c][s] <= MaxHeld
  <2>1. \A r \in Slots \ {s} : held'[c][r] = held[c][r]
    BY <1>1 DEF Hold, Drop
  <2>2. \A r \in Slots \ {s} : refcount'[r] = refcount[r]
    BY <1>1, CounterStep
  <2> QED BY <1>1, <2>1, <2>2 DEF OneInv, SlotExact
<1>4. refcount'[s] = held'[c][s] /\ held'[c][s] <= MaxHeld
  <2>1. CASE Hold(c, s) /\ held[c][s] < MaxHeld /\ refcount' = atomic_fetch_add(refcount, s)
    <3>1. held'[c][s] = held[c][s] + 1
      BY <1>1, <2>1 DEF Hold
    <3>2. refcount'[s] = IF refcount[s] + 1 = CountMod THEN 0 ELSE refcount[s] + 1
      BY <1>1, <2>1, CounterStep
    <3> QED BY <1>1, <1>3, <2>1, <3>1, <3>2
  <2>2. CASE Drop(c, s) /\ held[c][s] > 0 /\ refcount' = atomic_fetch_sub(refcount, s)
    <3>1. held'[c][s] = held[c][s] - 1
      BY <1>1, <2>2 DEF Drop
    <3>2. refcount'[s] = IF refcount[s] = 0 THEN CountMod - 1 ELSE refcount[s] - 1
      BY <1>1, <2>2, CounterStep
    <3> QED BY <1>1, <1>3, <2>2, <3>1, <3>2
  <2> QED BY <2>1, <2>2
<1>5. s \notin slab
  BY DEF Gone
<1>6. ASSUME NEW r \in Slots PROVE SlotExact(c, r)'
  <2>1. SlotExact(c, r) /\ HandlesTo(r)' = HandlesTo(r)
    BY DEF OneInv, HandlesTo
  <2>2. CASE r = s
    <3>1. /\ Pending(c, r, "gr_count") = 0 /\ Pending(c, r, "cl_count") = 0
          /\ Pending(c, r, "gr_count")' = 0 /\ Pending(c, r, "cl_count")' = 0
      BY <1>2 DEF Pending
    <3>2. ~Gone(c, r)'
      BY <1>2, <1>5, <2>2 DEF Gone, Owns, Creating, Dying
    <3> QED BY <1>4, <2>1, <2>2, <3>1, <3>2 DEF SlotExact
  <2>3. CASE r # s
    <3>1. obj[c] # r /\ obj'[c] # r
      BY <1>1, <1>2, <2>3
    <3> QED BY <1>3, <2>1, <2>3, <3>1, SlotFrame
  <2> QED BY <2>2, <2>3
<1>7. CallExact(c)'
  BY <1>2, <1>5 DEF CallExact, Owns, Creating, Dying
<1> QED BY <1>6, <1>7 DEF OneInv

\* A step of a call on s that leaves references, slab and lock section alone: the
\* owed count and the set of handles decide.
LEMMA HandleOne ==
  ASSUME TypeOK, NEW c \in Threads, OneInv(c), NEW s \in Slots, ~Gone(c, s),
         UNCHANGED <<refcount, slab, held>>,
         obj[c] \in {s, NULL}, obj'[c] \in {s, NULL},
         pc'[c] \in {"idle", "gr_count", "cl_count", "md_lock"},
         pc'[c] # "idle" => obj'[c] = s,
         \A r \in Slots \ {s} : handle_count'[r] = handle_count[r] /\ HandlesTo(r)' = HandlesTo(r),
         handle_count'[s] + Pending(c, s, "gr_count")'
           = Cardinality(HandlesTo(s)') + Pending(c, s, "cl_count")'
  PROVE  OneInv(c)'
<1>1. NULL \notin Slots /\ s \notin slab /\ ~Owns(c)'
  BY ConstAssumption DEF Gone, Owns, Creating, Dying
<1>2. ASSUME NEW r \in Slots PROVE SlotExact(c, r)'
  <2>1. SlotExact(c, r)
    BY DEF OneInv
  <2>2. CASE r = s
    <3>1. ~Gone(c, r)'
      BY <1>1, <2>2 DEF Gone
    <3> QED BY <2>1, <2>2, <3>1 DEF SlotExact
  <2>3. CASE r # s
    <3>1. obj[c] # r /\ obj'[c] # r
      BY <1>1, <2>3
    <3> QED BY <2>1, <2>3, <3>1, SlotFrame
  <2> QED BY <2>2, <2>3
<1>3. CallExact(c)'
  BY <1>1 DEF CallExact
<1> QED BY <1>2, <1>3 DEF OneInv

LEMMA GrantOne ==
  ASSUME TypeOK, NEW c \in Threads, OneInv(c), NEW s \in Slots, NEW x \in SUBSET Rights,
         object_grant(c, s, x)
  PROVE  OneInv(c)'
<1>1. /\ pc \in [Threads -> Labels] /\ obj \in [Threads -> Slots \cup {NULL}]
      /\ entries \in [Handles -> Entries] /\ NULL \notin Slots
      /\ pc[c] = "idle" /\ obj[c] = NULL /\ held[c][s] > 0
  BY ConstAssumption DEF TypeOK, object_grant, Ready
<1>2. ~Gone(c, s)
  BY <1>1, NamedNotGone
<1>3. /\ UNCHANGED <<refcount, handle_count, slab, held>>
      /\ pc'[c] = "gr_count" /\ obj'[c] = s
  BY <1>1 DEF object_grant, headerVars, Enter, Goto
<1>4. PICK f \in Handles : f = FirstFree
  BY FirstFreeType DEF object_grant
<1>5. /\ entries' = [entries EXCEPT ![f] =
                       [object |-> s, rights |-> x, generation |-> generation[s]]]
      /\ entries[f].object = NULL
  <2>1. FreeProbes # {} /\ FreeProbes \in SUBSET Nat
    BY ConstAssumption DEF object_grant, FreeProbes, Handles
  <2>2. Min(FreeProbes) \in FreeProbes
    BY <2>1, MinIsLeast
  <2> QED BY <1>4, <2>2 DEF object_grant, FreeProbes, FirstFree
<1>6. /\ entries'[f].object = s
      /\ \A h \in Handles \ {f} : entries'[h] = entries[h]
  BY <1>1, <1>5
<1>7. \A r \in Slots \ {s} : HandlesTo(r)' = HandlesTo(r)
  BY <1>1, <1>5, <1>6 DEF HandlesTo
<1>8. HandlesTo(s)' = HandlesTo(s) \cup {f} /\ f \notin HandlesTo(s)
  BY <1>1, <1>5, <1>6 DEF HandlesTo
<1>9. Cardinality(HandlesTo(s)') = Cardinality(HandlesTo(s)) + 1
  BY <1>8, HandlesToFinite, FS_AddElement
<1>10. handle_count[s] = Cardinality(HandlesTo(s)) /\ Cardinality(HandlesTo(s)) \in Nat
  <2>1. Pending(c, s, "gr_count") = 0 /\ Pending(c, s, "cl_count") = 0
    BY <1>1 DEF Pending
  <2>2. handle_count[s] \in Int
    BY ConstAssumption DEF TypeOK, Counts
  <2> QED BY <1>2, <2>1, <2>2, HandlesToFinite DEF OneInv, SlotExact
<1>11. Pending(c, s, "gr_count")' = 1 /\ Pending(c, s, "cl_count")' = 0
  BY <1>3 DEF Pending
<1>12. handle_count'[s] + Pending(c, s, "gr_count")'
           = Cardinality(HandlesTo(s)') + Pending(c, s, "cl_count")'
  BY <1>3, <1>9, <1>10, <1>11
<1> QED BY <1>1, <1>2, <1>3, <1>7, <1>12, HandleOne

LEMMA DetachOne ==
  ASSUME TypeOK, NEW c \in Threads, OneInv(c), NEW h \in Handles, entries[h].object # NULL,
         pc[c] = "idle", Detach(c, h), UNCHANGED <<refcount, handle_count, slab, held>>
  PROVE  OneInv(c)'
<1>1. PICK s \in Slots : s = entries[h].object
  BY DEF TypeOK, Entries
<1>2. /\ pc \in [Threads -> Labels] /\ obj \in [Threads -> Slots \cup {NULL}]
      /\ entries \in [Handles -> Entries] /\ NULL \notin Slots /\ obj[c] = NULL
  BY ConstAssumption DEF TypeOK
<1>3. ~Gone(c, s)
  BY <1>1, NamedNotGone
<1>4. pc'[c] = "cl_count" /\ obj'[c] = s
  BY <1>1, <1>2 DEF Detach, Enter, Goto
<1>5. /\ entries'[h].object = NULL
      /\ \A g \in Handles \ {h} : entries'[g] = entries[g]
  BY <1>2 DEF Detach, Entries
<1>6. \A r \in Slots \ {s} : HandlesTo(r)' = HandlesTo(r)
  BY <1>1, <1>2, <1>5 DEF HandlesTo
<1>7. HandlesTo(s)' = HandlesTo(s) \ {h} /\ h \in HandlesTo(s)
  BY <1>1, <1>2, <1>5 DEF HandlesTo
<1>8. Cardinality(HandlesTo(s)') = Cardinality(HandlesTo(s)) - 1
  BY <1>7, HandlesToFinite, FS_RemoveElement
<1>9. handle_count[s] = Cardinality(HandlesTo(s)) /\ Cardinality(HandlesTo(s)) \in Nat
  <2>1. Pending(c, s, "gr_count") = 0 /\ Pending(c, s, "cl_count") = 0
    BY DEF Pending
  <2>2. handle_count[s] \in Int
    BY ConstAssumption DEF TypeOK, Counts
  <2> QED BY <1>3, <2>1, <2>2, HandlesToFinite DEF OneInv, SlotExact
<1>10. Pending(c, s, "gr_count")' = 0 /\ Pending(c, s, "cl_count")' = 1
  BY <1>4 DEF Pending
<1>11. handle_count'[s] + Pending(c, s, "gr_count")'
           = Cardinality(HandlesTo(s)') + Pending(c, s, "cl_count")'
  BY <1>8, <1>9, <1>10
<1> QED BY <1>2, <1>3, <1>4, <1>6, <1>11, HandleOne

LEMMA CountOne ==
  ASSUME TypeOK, NEW c \in Threads, OneInv(c), CAP_TABLE_MAX < CountMod,
         object_grant_count(c) \/ object_close_count(c)
  PROVE  OneInv(c)'
<1>1. /\ pc \in [Threads -> Labels] /\ obj \in [Threads -> Slots \cup {NULL}]
      /\ handle_count \in [Slots -> Counts] /\ NULL \notin Slots
      /\ CountMod \in Nat /\ CAP_TABLE_MAX \in Nat
  BY ConstAssumption DEF TypeOK
<1>2. PICK s \in Slots : s = obj[c]
  BY DEF object_grant_count, object_close_count, TypeOK
<1>3. UNCHANGED <<refcount, slab, held, entries>>
  BY DEF object_grant_count, object_close_count, capVars
<1>4. ~Gone(c, s)
  BY <1>2 DEF object_grant_count, object_close_count, OneInv, CallExact, Gone, Owns,
       Creating, Dying
<1>5. \A r \in Slots : HandlesTo(r)' = HandlesTo(r)
  BY <1>3 DEF HandlesTo
<1>6. /\ handle_count[s] \in Nat /\ Cardinality(HandlesTo(s)) \in Nat
      /\ Cardinality(HandlesTo(s)) <= CAP_TABLE_MAX
      /\ handle_count[s] + Pending(c, s, "gr_count")
           = Cardinality(HandlesTo(s)) + Pending(c, s, "cl_count")
  BY <1>1, <1>4, HandlesToFinite, CounterStep DEF OneInv, SlotExact
<1>7. Pending(c, s, "gr_count")' = 0 /\ Pending(c, s, "cl_count")' = 0
  BY <1>1 DEF Pending, object_grant_count, object_close_count, Return, Enter, Goto
<1>8. CASE object_grant_count(c)
  <2>1. /\ Pending(c, s, "gr_count") = 1 /\ Pending(c, s, "cl_count") = 0
        /\ pc'[c] = "idle" /\ obj'[c] = NULL
        /\ handle_count' = atomic_fetch_add(handle_count, s)
    BY <1>1, <1>2, <1>8 DEF object_grant_count, Pending, Return, Enter, Goto
  <2>2. /\ handle_count'[s] = IF handle_count[s] + 1 = CountMod THEN 0 ELSE handle_count[s] + 1
        /\ \A r \in Slots \ {s} : handle_count'[r] = handle_count[r]
    BY <1>1, <2>1, CounterStep
  <2>3. handle_count'[s] = Cardinality(HandlesTo(s)')
    BY <1>1, <1>5, <1>6, <2>1, <2>2
  <2>4. handle_count'[s] + Pending(c, s, "gr_count")'
           = Cardinality(HandlesTo(s)') + Pending(c, s, "cl_count")'
    BY <1>7, <2>3
  <2> QED BY <1>2, <1>3, <1>4, <1>5, <2>1, <2>2, <2>4, HandleOne
<1>9. CASE object_close_count(c)
  <2>1. /\ Pending(c, s, "gr_count") = 0 /\ Pending(c, s, "cl_count") = 1
        /\ pc'[c] = "md_lock" /\ obj'[c] = s
        /\ handle_count' = atomic_fetch_sub(handle_count, s)
    BY <1>1, <1>2, <1>9 DEF object_close_count, Pending, Goto
  <2>2. /\ handle_count'[s] = IF handle_count[s] = 0 THEN CountMod - 1 ELSE handle_count[s] - 1
        /\ \A r \in Slots \ {s} : handle_count'[r] = handle_count[r]
    BY <1>1, <2>1, CounterStep
  <2>3. handle_count'[s] = Cardinality(HandlesTo(s)')
    BY <1>1, <1>5, <1>6, <2>1, <2>2
  <2>4. handle_count'[s] + Pending(c, s, "gr_count")'
           = Cardinality(HandlesTo(s)') + Pending(c, s, "cl_count")'
    BY <1>7, <2>3
  <2> QED BY <1>2, <1>3, <1>4, <1>5, <2>1, <2>2, <2>4, HandleOne
<1> QED BY <1>8, <1>9

\* The steps of object_maybe_destroy before the mark.
LEMMA SectionOne ==
  ASSUME TypeOK, NEW c \in Threads, OneInv(c),
         object_maybe_destroy(c) \/ object_maybe_destroy_load(c)
  PROVE  OneInv(c)'
<1>1. /\ pc \in [Threads -> Labels] /\ obj \in [Threads -> Slots \cup {NULL}]
      /\ NULL \notin Slots
  BY ConstAssumption DEF TypeOK
<1>2. PICK s \in Slots : s = obj[c]
  BY DEF object_maybe_destroy, object_maybe_destroy_load, TypeOK
<1>3. UNCHANGED <<refcount, handle_count, slab, held, entries>>
  BY DEF object_maybe_destroy, object_maybe_destroy_load, capVars
<1>4. /\ pc[c] \in {"md_lock", "md_handle"}
      /\ \/ pc'[c] = "idle" /\ obj'[c] = NULL
         \/ pc'[c] = "md_handle" /\ obj'[c] = s /\ refcount[s] = 0
         \/ pc'[c] = "md_set" /\ obj'[c] = s /\ refcount[s] = 0 /\ handle_count[s] = 0
  BY <1>1, <1>2 DEF object_maybe_destroy, object_maybe_destroy_load, Return, Enter, Goto,
       OneInv, CallExact
<1>5. s \notin slab /\ ~Owns(c) /\ ~Owns(c)'
  BY <1>2, <1>4 DEF OneInv, CallExact, Owns, Creating, Dying
<1>6. ASSUME NEW r \in Slots PROVE SlotExact(c, r)'
  <2>1. SlotExact(c, r) /\ HandlesTo(r)' = HandlesTo(r)
    BY <1>3 DEF OneInv, HandlesTo
  <2>2. /\ Pending(c, r, "gr_count") = 0 /\ Pending(c, r, "gr_count")' = 0
        /\ Pending(c, r, "cl_count") = 0 /\ Pending(c, r, "cl_count")' = 0
    BY <1>4 DEF Pending
  <2>3. Gone(c, r)' <=> Gone(c, r)
    BY <1>3, <1>5 DEF Gone
  <2> QED BY <1>3, <2>1, <2>2, <2>3 DEF SlotExact
<1>7. CallExact(c)'
  BY <1>3, <1>4, <1>5 DEF CallExact
<1> QED BY <1>6, <1>7 DEF OneInv

\* The mark and the teardown behind it.
LEMMA TeardownOne ==
  ASSUME TypeOK, NEW c \in Threads, OneInv(c),
         \/ object_maybe_destroy_set(c) \/ object_maybe_destroy_remove(c)
         \/ object_maybe_destroy_free(c)
  PROVE  OneInv(c)'
<1>1. /\ pc \in [Threads -> Labels] /\ obj \in [Threads -> Slots \cup {NULL}]
      /\ NULL \notin Slots /\ refcount \in [Slots -> Counts]
  BY ConstAssumption DEF TypeOK
<1>2. PICK s \in Slots : s = obj[c]
  BY DEF object_maybe_destroy_set, object_maybe_destroy_remove, object_maybe_destroy_free, TypeOK
<1>3. UNCHANGED <<handle_count, held, entries>>
  BY DEF object_maybe_destroy_set, object_maybe_destroy_remove, object_maybe_destroy_free,
       headerVars, capVars
<1>4. /\ pc[c] \in {"md_set", "md_remove", "md_free"}
      /\ \/ pc'[c] \in {"md_remove", "md_free"} /\ obj'[c] = s /\ UNCHANGED <<slab, refcount>>
         \/ pc'[c] = "idle" /\ obj'[c] = NULL /\ slab' = slab \cup {s}
            /\ refcount' = [refcount EXCEPT ![s] = 0]
  BY <1>1, <1>2 DEF object_maybe_destroy_set, object_maybe_destroy_remove,
       object_maybe_destroy_free, slab_free, headerVars, Return, Enter, Goto
<1>5. s \notin slab
  BY <1>2, <1>4 DEF OneInv, CallExact, Owns, Dying
<1>6. held[c][s] = 0 /\ HandlesTo(s) = {}
  <2>1. SlotExact(c, s)
    BY DEF OneInv
  <2>2. CASE pc[c] = "md_set"
    <3>1. ~Gone(c, s) /\ refcount[s] = 0 /\ handle_count[s] = 0
      BY <1>2, <1>5, <2>2 DEF OneInv, CallExact, Gone, Owns, Creating, Dying
    <3>2. Pending(c, s, "gr_count") = 0 /\ Pending(c, s, "cl_count") = 0
      BY <2>2 DEF Pending
    <3>3. Cardinality(HandlesTo(s)) = 0
      BY <2>1, <3>1, <3>2, HandlesToFinite DEF SlotExact
    <3> QED BY <2>1, <3>1, <3>3, HandlesToFinite, FS_EmptySet DEF SlotExact
  <2>3. CASE pc[c] # "md_set"
    <3>1. Gone(c, s)
      BY <1>2, <1>4, <2>3 DEF Gone, Owns, Dying
    <3> QED BY <2>1, <3>1 DEF SlotExact
  <2> QED BY <2>2, <2>3
<1>7. ASSUME NEW r \in Slots PROVE SlotExact(c, r)'
  <2>1. SlotExact(c, r) /\ HandlesTo(r)' = HandlesTo(r)
    BY <1>3 DEF OneInv, HandlesTo
  <2>2. CASE r = s
    <3>1. Gone(c, r)'
      BY <1>4, <2>2 DEF Gone, Owns, Dying
    <3> QED BY <1>3, <1>6, <2>1, <2>2, <3>1 DEF SlotExact
  <2>3. CASE r # s
    <3>1. obj[c] # r /\ obj'[c] # r
      BY <1>1, <1>2, <1>4, <2>3
    <3> QED BY <1>1, <1>3, <1>4, <2>1, <2>3, <3>1, SlotFrame
  <2> QED BY <2>2, <2>3
<1>8. CallExact(c)'
  BY <1>4, <1>5 DEF CallExact, Owns, Creating, Dying
<1> QED BY <1>7, <1>8 DEF OneInv

LEMMA NextOne ==
  ASSUME NEW c, Threads = {c}, MaxHeld \in 1 .. CountMod - 1, CAP_TABLE_MAX < CountMod,
         TypeOK, OneInv(c), [Next]_vars
  PROVE  OneInv(c)'
<1>1. c \in Threads /\ MaxHeld >= 1 /\ MaxHeld < CountMod
  BY ConstAssumption
<1>2. CASE UNCHANGED vars
  BY <1>2 DEF vars, OneInv, SlotExact, CallExact, Gone, Owns, Creating, Dying, HandlesTo, Pending
<1>3. ASSUME NEW s \in Slots, object_ref(c, s) \/ object_deref(c, s) PROVE OneInv(c)'
  <2>1. held[c][s] > 0 /\ held[c][s] \in Nat /\ pc[c] = "idle"
        /\ UNCHANGED <<handle_count, slab, entries>>
    BY <1>1, <1>3 DEF object_ref, object_deref, Ready, capVars, TypeOK
  <2>2. ~Gone(c, s)
    BY <1>1, <2>1, NamedNotGone
  <2>3. \/ /\ Hold(c, s) /\ held[c][s] < MaxHeld
           /\ refcount' = atomic_fetch_add(refcount, s) /\ UNCHANGED <<pc, obj>>
        \/ /\ Drop(c, s) /\ held[c][s] > 0
           /\ refcount' = atomic_fetch_sub(refcount, s)
           /\ \/ UNCHANGED <<pc, obj>>
              \/ Enter(c, "md_lock", s)
    BY <1>1, <1>3 DEF object_ref, object_deref
  <2> QED BY <1>1, <2>1, <2>2, <2>3, RefOne
<1>4. ASSUME NEW h \in Handles, object_close(c, h) PROVE OneInv(c)'
  BY <1>1, <1>4, DetachOne DEF object_close, Ready, headerVars
<1>5. ASSUME NEW h \in Handles, NEW x \in SUBSET Rights, cap_lookup(c, h, x) PROVE OneInv(c)'
  <2>1. PICK s \in Slots : s = entries[h].object
    BY <1>5 DEF cap_lookup, TypeOK, Entries
  <2>2. pc[c] = "idle" /\ UNCHANGED <<handle_count, slab>> /\ entries[h].object # NULL
    BY <1>5 DEF cap_lookup, Ready
  <2>3. CASE Detach(c, h) /\ UNCHANGED <<refcount, held>>
    BY <1>1, <2>2, <2>3, DetachOne
  <2>4. CASE /\ Hold(c, s) /\ held[c][s] < MaxHeld /\ UNCHANGED <<entries, pc, obj>>
             /\ refcount' = atomic_fetch_add(refcount, s)
    <3>1. ~Gone(c, s)
      BY <1>1, <2>1, NamedNotGone
    <3> QED BY <1>1, <2>2, <2>4, <3>1, RefOne
  <2> QED BY <1>5, <2>1, <2>3, <2>4 DEF cap_lookup
<1>6. ASSUME Call(c) \/ Continue(c) PROVE OneInv(c)'
  BY <1>1, <1>3, <1>4, <1>5, <1>6, CreateOne, InsertOne, GrantOne, CountOne, SectionOne,
     TeardownOne DEF Call, Continue
<1> QED BY <1>2, <1>6 DEF Next

\* The counters are exact on one CPU, apart from what the call under way owes.
THEOREM OneCpuExact ==
  ASSUME NEW c, Threads = {c}, MaxHeld \in 1 .. CountMod - 1, CAP_TABLE_MAX < CountMod
  PROVE  Spec => [](TypeOK /\ OneInv(c))
<1>1. Init => OneInv(c)
  <2> SUFFICES ASSUME Init PROVE OneInv(c)
    OBVIOUS
  <2>1. c \in Threads /\ pc[c] = "idle" /\ slab = Slots /\ \A s \in Slots : held[c][s] = 0
    BY DEF Init
  <2>2. \A s \in Slots : HandlesTo(s) = {}
    BY ConstAssumption DEF Init, EmptyEntry, HandlesTo
  <2> QED BY <2>1, <2>2 DEF OneInv, SlotExact, CallExact, Gone, Owns, Creating, Dying
<1>2. TypeOK /\ OneInv(c) /\ [Next]_vars => OneInv(c)'
  BY NextOne
<1> QED BY <1>1, <1>2, TypeCorrect, PTL DEF Spec

\* On one CPU no object is destroyed while a reference or a handle to it is left.
THEOREM OneCpuRefsAlive ==
  ASSUME NEW c, Threads = {c}, MaxHeld \in 1 .. CountMod - 1, CAP_TABLE_MAX < CountMod
  PROVE  Spec => []RefsAlive
<1>1. TypeOK /\ OneInv(c) => RefsAlive
  <2> SUFFICES ASSUME TypeOK, OneInv(c) PROVE RefsAlive
    OBVIOUS
  <2>1. ASSUME NEW s \in Slots, Dead(s) PROVE Gone(c, s)
    BY <2>1 DEF Dead, Gone, Owns
  <2>2. \A t \in Threads, s \in Slots : held[t][s] > 0 => ~Dead(s)
    BY <2>1, NamedNotGone
  <2>3. ASSUME NEW h \in Handles, entries[h].object # NULL PROVE ~Dead(entries[h].object)
    <3>1. entries[h].object \in Slots
      BY <2>3 DEF TypeOK, Entries
    <3> QED BY <2>1, <3>1, NamedNotGone
  <2> QED BY <2>2, <2>3 DEF RefsAlive
<1> QED BY <1>1, OneCpuExact, PTL

\* On one CPU no call reads or writes the header of an object that is back in its
\* slab.
THEOREM OneCpuNoLateAccess ==
  ASSUME NEW c, Threads = {c}, MaxHeld \in 1 .. CountMod - 1, CAP_TABLE_MAX < CountMod
  PROVE  Spec => []NoLateAccess
<1>1. OneInv(c) => NoLateAccess
  BY DEF NoLateAccess, OneInv, CallExact
<1> QED BY <1>1, OneCpuExact, PTL
=============================================================================
