--------------------------- MODULE ObjectManager ---------------------------
(***************************************************************************)
(* Objects, their two counters and their destruction (base/ob/ob.c), and   *)
(* the capability table that hands out handles to them (base/ob/cap.c).    *)
(*                                                                         *)
(* Threads call the operations; each has a pc.  A step is one access to    *)
(* memory that no lock protects, together with the locked accesses around  *)
(* it: a critical section of the capability table, of the id table or of a *)
(* slab cache, which has at most one such access, is one step, and the     *)
(* section of obj->lock, which has two, is split at them.  That a spinlock *)
(* excludes is what Spinlock shows.                                        *)
(*                                                                         *)
(* One object type is modelled: every type has a slab cache of its own,    *)
(* and nothing else in an operation depends on the type but                *)
(* default_rights.  A slot is the address of an object in that cache.      *)
(***************************************************************************)
EXTENDS Integers, Sequences, FiniteSetsExt

CONSTANTS
  Threads,         \* who calls into the object manager
  Slots,           \* addresses the type's slab cache can hand out
  NULL,
  CAP_TABLE_MAX,
  Rights,          \* the RIGHT_* bits
  DefaultRights,   \* type->default_rights
  IdMod,           \* 2^32: next_object_id is an atomic_uint32_t
  CountMod,        \* 2^32: so are refcount and handle_count
  FreshDestroyed,  \* what `destroyed' may hold in memory never used before
  StoreKeepsValue, \* does atomic_store_release store its argument?
  MaxId,           \* bound: creates stop once next_object_id is above it
  MaxHeld          \* bound: references a thread takes to one object

ASSUME ConstAssumption ==
  /\ NULL \notin Slots
  /\ CAP_TABLE_MAX \in Nat \ {0}
  /\ DefaultRights \subseteq Rights
  /\ IdMod \in Nat /\ IdMod > 1
  /\ CountMod \in Nat /\ CountMod > 1
  /\ FreshDestroyed \subseteq BOOLEAN
  /\ StoreKeepsValue \in BOOLEAN
  /\ MaxId \in Nat /\ MaxHeld \in Nat

Handles == 0 .. CAP_TABLE_MAX - 1

VARIABLES
  refcount, handle_count, generation, object_id, lock, destroyed, \* object_header_t
  slab,            \* free_objects of the type's cache
  id_table,        \* g_om.id_table: <<key, value>> pairs, the newest first
  next_object_id,
  entries,         \* cap_table_t
  next_free_hint,
  pc, obj,         \* per thread: where it is, and its local obj while in a call
  held,            \* history: references thread t owns to slot s
  wild             \* a thread used the header of a slot that is on the free list

headerVars == <<refcount, handle_count, generation, object_id, lock, destroyed>>
tableVars  == <<id_table, next_object_id>>
capVars    == <<entries, next_free_hint>>
vars == <<refcount, handle_count, generation, object_id, lock, destroyed, slab,
          id_table, next_object_id, entries, next_free_hint, pc, obj, held, wild>>

EmptyEntry == [object |-> NULL, rights |-> {}, generation |-> 0]

\* ob_init, object_type_register and cap_table_create have run.
Init ==
  /\ refcount = [s \in Slots |-> 0]
  /\ handle_count = [s \in Slots |-> 0]
  /\ generation = [s \in Slots |-> 0]
  /\ object_id = [s \in Slots |-> 0]
  /\ lock = [s \in Slots |-> FALSE]
  /\ destroyed \in [Slots -> FreshDestroyed]
  /\ slab = Slots
  /\ id_table = << >>
  /\ next_object_id = 1
  /\ entries = [h \in Handles |-> EmptyEntry]
  /\ next_free_hint = 0
  /\ pc = [t \in Threads |-> "idle"]
  /\ obj = [t \in Threads |-> NULL]
  /\ held = [t \in Threads |-> [s \in Slots |-> 0]]
  /\ wild = FALSE

----------------------------------------------------------------------------
(* Helpers.                                                                *)

\* Mutant: the difference is kept in a wider, signed count.
atomic_fetch_sub_wide(var, s) == [var EXCEPT ![s] = @ - 1]

atomic_fetch_add(var, s) == [var EXCEPT ![s] = (@ + 1) % CountMod]
atomic_fetch_sub(var, s) == [var EXCEPT ![s] = (@ + CountMod - 1) % CountMod]

Goto(t, label) == pc' = [pc EXCEPT ![t] = label]
Enter(t, label, s) == Goto(t, label) /\ obj' = [obj EXCEPT ![t] = s]
Return(t) == Enter(t, "idle", NULL)
Hold(t, s)     == held' = [held EXCEPT ![t][s] = @ + 1]
Drop(t, s)     == held' = [held EXCEPT ![t][s] = @ - 1]

\* A thread that is between two calls, in a kernel that is still sane.
Ready(t) == pc[t] = "idle" /\ ~wild

\* A client call on s goes through its header.  In a free slot, type_id and
\* refcount are the link of the free list: what happens then is not modelled.
Uses(s) == wild' = (s \in slab)

\* slab_free: the link written over the header's first eight bytes has an
\* upper half, at refcount, of 0, for every address is below 4 GB.
slab_free(s) ==
  /\ slab' = slab \cup {s}
  /\ refcount' = [refcount EXCEPT ![s] = 0]

hashtable_insert(key, value) == << <<key, value>> >> \o id_table

\* Mutant: the walk starts behind the head of the chain.
hashtable_remove_tail(key) ==
  IF id_table # << >> /\ Head(id_table)[1] = key
  THEN id_table
  ELSE SelectSeq(id_table, LAMBDA node : node[1] # key)

\* The first node with the key leaves its chain.
hashtable_remove(key) ==
  LET hits == {n \in 1 .. Len(id_table) : id_table[n][1] = key}
      drop(n) == SubSeq(id_table, 1, n - 1) \o SubSeq(id_table, n + 1, Len(id_table))
  IN  IF hits = {} THEN id_table ELSE drop(Min(hits))

----------------------------------------------------------------------------
(* object_create.                                                          *)

object_create(t) ==
  /\ Ready(t)
  /\ next_object_id <= MaxId
  /\ \E s \in slab : slab' = slab \ {s} /\ Enter(t, "cr_init", s)
  /\ UNCHANGED <<headerVars, tableVars, capVars, held, wild>>

\* The header is filled in, all but `destroyed', and the type's create
\* callback succeeds or fails.
object_create_init(t) ==
  LET s == obj[t] IN
  /\ pc[t] = "cr_init" /\ ~wild
  /\ refcount' = [refcount EXCEPT ![s] = 1]
  /\ handle_count' = [handle_count EXCEPT ![s] = 0]
  /\ generation' = [generation EXCEPT ![s] = 0]
  /\ object_id' = [object_id EXCEPT ![s] = next_object_id]
  /\ next_object_id' = (next_object_id + 1) % IdMod
  /\ lock' = [lock EXCEPT ![s] = FALSE]
  /\ \E label \in {"cr_insert", "cr_abort"} : Goto(t, label)
  /\ UNCHANGED <<destroyed, slab, id_table, capVars, obj, held, wild>>

object_create_abort(t) ==
  /\ pc[t] = "cr_abort" /\ ~wild
  /\ slab_free(obj[t])
  /\ Return(t)
  /\ UNCHANGED <<handle_count, generation, object_id, lock, destroyed,
                 tableVars, capVars, held, wild>>

object_create_insert(t) ==
  /\ pc[t] = "cr_insert" /\ ~wild
  /\ id_table' = hashtable_insert(object_id[obj[t]], obj[t])
  /\ Hold(t, obj[t])
  /\ Return(t)
  /\ UNCHANGED <<headerVars, slab, next_object_id, capVars, wild>>

----------------------------------------------------------------------------
(* References.                                                             *)

object_ref(t, s) ==
  /\ Ready(t)
  /\ held[t][s] \in 1 .. MaxHeld - 1
  /\ Uses(s)
  /\ refcount' = atomic_fetch_add(refcount, s)
  /\ Hold(t, s)
  /\ UNCHANGED <<handle_count, generation, object_id, lock, destroyed, slab,
                 tableVars, capVars, pc, obj>>

\* Mutant: the new count, not the old one, is compared with 1.
object_deref_late(t, s) ==
  /\ Ready(t)
  /\ held[t][s] > 0
  /\ Uses(s)
  /\ refcount' = atomic_fetch_sub(refcount, s)
  /\ Drop(t, s)
  /\ IF refcount'[s] = 1
     THEN Enter(t, "md_lock", s)
     ELSE UNCHANGED <<pc, obj>>
  /\ UNCHANGED <<handle_count, generation, object_id, lock, destroyed, slab,
                 tableVars, capVars>>

object_deref(t, s) ==
  /\ Ready(t)
  /\ held[t][s] > 0
  /\ Uses(s)
  /\ refcount' = atomic_fetch_sub(refcount, s)
  /\ Drop(t, s)
  /\ IF refcount[s] = 1
     THEN Enter(t, "md_lock", s)
     ELSE UNCHANGED <<pc, obj>>
  /\ UNCHANGED <<handle_count, generation, object_id, lock, destroyed, slab,
                 tableVars, capVars>>

----------------------------------------------------------------------------
(* object_maybe_destroy.                                                   *)

\* Mutant: the section is entered without taking the lock.
AcquireNot(s) == UNCHANGED lock

\* spin_lock(&obj->lock), for a thread that stays inside.
Acquire(s) == ~lock[s] /\ lock' = [lock EXCEPT ![s] = TRUE]

\* Mutant: refcount is not looked at.
object_maybe_destroy_any(t) ==
  /\ pc[t] = "md_lock" /\ ~wild
  /\ Acquire(obj[t])
  /\ Goto(t, "md_handle")
  /\ UNCHANGED <<refcount, handle_count, generation, object_id, destroyed, slab,
                 tableVars, capVars, obj, held, wild>>

\* The lock is taken and refcount is loaded; && stops at a value that is not 0.
object_maybe_destroy(t) ==
  LET s == obj[t] IN
  /\ pc[t] = "md_lock" /\ ~wild
  /\ IF refcount[s] = 0
     THEN Acquire(s) /\ Enter(t, "md_handle", s)
     ELSE ~lock[s] /\ Return(t) /\ UNCHANGED lock
  /\ UNCHANGED <<refcount, handle_count, generation, object_id, destroyed, slab,
                 tableVars, capVars, held, wild>>

\* Mutant: the early return keeps the lock.
object_maybe_destroy_load_keep(t) ==
  LET s == obj[t] IN
  /\ pc[t] = "md_handle" /\ ~wild
  /\ IF handle_count[s] = 0 /\ ~destroyed[s]
     THEN Enter(t, "md_set", s)
     ELSE Return(t)
  /\ UNCHANGED <<refcount, handle_count, generation, object_id, lock, destroyed,
                 slab, tableVars, capVars, held, wild>>

\* handle_count and `destroyed' are loaded.
object_maybe_destroy_load(t) ==
  LET s == obj[t] IN
  /\ pc[t] = "md_handle" /\ ~wild
  /\ IF handle_count[s] = 0 /\ ~destroyed[s]
     THEN Enter(t, "md_set", s) /\ UNCHANGED lock
     ELSE Return(t) /\ lock' = [lock EXCEPT ![s] = FALSE]
  /\ UNCHANGED <<refcount, handle_count, generation, object_id, destroyed, slab,
                 tableVars, capVars, held, wild>>

object_maybe_destroy_set(t) ==
  /\ pc[t] = "md_set" /\ ~wild
  /\ destroyed' = [destroyed EXCEPT ![obj[t]] = TRUE]
  /\ lock' = [lock EXCEPT ![obj[t]] = FALSE]
  /\ Goto(t, "md_remove")
  /\ UNCHANGED <<refcount, handle_count, generation, object_id, slab,
                 tableVars, capVars, obj, held, wild>>

\* The type's destroy callback, then the id leaves the table.
object_maybe_destroy_remove(t) ==
  /\ pc[t] = "md_remove" /\ ~wild
  /\ id_table' = hashtable_remove(object_id[obj[t]])
  /\ Goto(t, "md_free")
  /\ UNCHANGED <<headerVars, slab, next_object_id, capVars, obj, held, wild>>

object_maybe_destroy_free(t) ==
  /\ pc[t] = "md_free" /\ ~wild
  /\ slab_free(obj[t])
  /\ Return(t)
  /\ UNCHANGED <<handle_count, generation, object_id, lock, destroyed,
                 tableVars, capVars, held, wild>>

----------------------------------------------------------------------------
(* The capability table.                                                   *)

\* The i-th index object_grant looks at.
Probe(i) == (next_free_hint + i) % CAP_TABLE_MAX

FreeProbes == {i \in Handles : entries[Probe(i)].object = NULL}

\* Mutant: the scan stops at the hint, free or not.
FirstFreeAtHint == Probe(0)

FirstFree == Probe(Min(FreeProbes))

\* atomic_store_release: on RISC-V it stores 0 whatever the argument.
atomic_store_release(val) == IF StoreKeepsValue THEN val ELSE 0

\* The other two outcomes, rights that exceed default_rights and a full table,
\* change nothing.
object_grant(t, s, rights) ==
  /\ Ready(t)
  /\ held[t][s] > 0
  /\ Uses(s)
  /\ rights \subseteq DefaultRights
  /\ FreeProbes # {}
  /\ entries' = [entries EXCEPT ![FirstFree] =
                   [object |-> s, rights |-> rights, generation |-> generation[s]]]
  /\ next_free_hint' = atomic_store_release(FirstFree + 1)
  /\ Enter(t, "gr_count", s)
  /\ UNCHANGED <<headerVars, slab, tableVars, held>>

object_grant_count(t) ==
  /\ pc[t] = "gr_count" /\ ~wild
  /\ handle_count' = atomic_fetch_add(handle_count, obj[t])
  /\ Return(t)
  /\ UNCHANGED <<refcount, generation, object_id, lock, destroyed, slab,
                 tableVars, capVars, held, wild>>

\* Mutant: the entry is left in place.
DetachNot(t, h) ==
  /\ Enter(t, "cl_count", entries[h].object)
  /\ UNCHANGED entries

\* The entry's object, and nothing else of it, is cleared; the caller goes on
\* to drop the handle's count.
Detach(t, h) ==
  /\ Enter(t, "cl_count", entries[h].object)
  /\ entries' = [entries EXCEPT ![h].object = NULL]

object_close(t, h) ==
  /\ Ready(t)
  /\ entries[h].object # NULL
  /\ Detach(t, h)
  /\ UNCHANGED <<headerVars, slab, tableVars, next_free_hint, held, wild>>

\* Mutant: object_close does not call object_maybe_destroy.
object_close_count_only(t) ==
  /\ pc[t] = "cl_count" /\ ~wild
  /\ handle_count' = atomic_fetch_sub(handle_count, obj[t])
  /\ Return(t)
  /\ UNCHANGED <<refcount, generation, object_id, lock, destroyed, slab,
                 tableVars, capVars, held, wild>>

object_close_count(t) ==
  /\ pc[t] = "cl_count" /\ ~wild
  /\ handle_count' = atomic_fetch_sub(handle_count, obj[t])
  /\ Goto(t, "md_lock")
  /\ UNCHANGED <<refcount, generation, object_id, lock, destroyed, slab,
                 tableVars, capVars, obj, held, wild>>

\* Rights the entry does not have: nothing changes.
cap_lookup(t, h, required_rights) ==
  LET e == entries[h]
      s == e.object IN
  /\ Ready(t)
  /\ s # NULL
  /\ IF generation[s] # e.generation
     THEN /\ Detach(t, h)
          /\ UNCHANGED <<refcount, held, wild>>
     ELSE /\ required_rights \subseteq e.rights
          /\ held[t][s] < MaxHeld
          /\ Uses(s)
          /\ refcount' = atomic_fetch_add(refcount, s)
          /\ Hold(t, s)
          /\ UNCHANGED <<entries, pc, obj>>
  /\ UNCHANGED <<handle_count, generation, object_id, lock, destroyed, slab,
                 tableVars, next_free_hint>>

----------------------------------------------------------------------------

\* The steps a thread inside a call takes by itself.
Continue(t) ==
  \/ object_create_init(t)
  \/ object_create_abort(t)
  \/ object_create_insert(t)
  \/ object_maybe_destroy(t)
  \/ object_maybe_destroy_load(t)
  \/ object_maybe_destroy_set(t)
  \/ object_maybe_destroy_remove(t)
  \/ object_maybe_destroy_free(t)
  \/ object_grant_count(t)
  \/ object_close_count(t)

Call(t) ==
  \/ object_create(t)
  \/ \E s \in Slots : object_ref(t, s)
  \/ \E s \in Slots : object_deref(t, s)
  \/ \E s \in Slots, r \in SUBSET Rights : object_grant(t, s, r)
  \/ \E h \in Handles : object_close(t, h)
  \/ \E h \in Handles, r \in SUBSET Rights : cap_lookup(t, h, r)

Next == \E t \in Threads : Call(t) \/ Continue(t)

Spec == Init /\ [][Next]_vars

\* A thread inside a call keeps running.  Nothing obliges it to make calls.
FairSpec == Spec /\ \A t \in Threads : WF_vars(Continue(t))

----------------------------------------------------------------------------
(* Properties.                                                             *)

Labels == {"idle", "cr_init", "cr_insert", "cr_abort", "md_lock", "md_handle",
           "md_set", "md_remove", "md_free", "gr_count", "cl_count"}

Counts  == 0 .. CountMod - 1
Entries == [object : Slots \cup {NULL}, rights : SUBSET Rights, generation : {0}]

\* Every variable keeps its type; a thread inside a call has an object.
TypeOK ==
  /\ refcount \in [Slots -> Counts]
  /\ handle_count \in [Slots -> Counts]
  /\ generation \in [Slots -> {0}]
  /\ object_id \in [Slots -> 0 .. IdMod - 1]
  /\ lock \in [Slots -> BOOLEAN]
  /\ destroyed \in [Slots -> BOOLEAN]
  /\ slab \in SUBSET Slots
  /\ id_table \in Seq((0 .. IdMod - 1) \X Slots)
  /\ next_object_id \in 0 .. IdMod - 1
  /\ entries \in [Handles -> Entries]
  /\ next_free_hint \in 0 .. CAP_TABLE_MAX
  /\ pc \in [Threads -> Labels]
  /\ obj \in [Threads -> Slots \cup {NULL}]
  /\ held \in [Threads -> [Slots -> Nat]]
  /\ wild \in BOOLEAN
  /\ \A t \in Threads : pc[t] = "idle" <=> obj[t] = NULL

Creating(t) == pc[t] \in {"cr_init", "cr_insert", "cr_abort"}
Dying(t)    == pc[t] \in {"md_remove", "md_free"}
Owns(t)     == Creating(t) \/ Dying(t)

\* A slot under construction or being torn down belongs to one thread and is
\* not on the free list: whatever the interleaving of object_create,
\* object_deref and object_close, no object is destroyed twice, returned to its
\* slab twice, or handed out by slab_alloc while it is being destroyed.
NoDoubleFree ==
  \A t \in Threads : Owns(t) =>
    /\ obj[t] \notin slab
    /\ \A u \in Threads \ {t} : Owns(u) => obj[u] # obj[t]

\* An object lock that is taken has a thread inside its section, which gives it
\* back: no path out of object_maybe_destroy keeps the lock, even when the slot
\* was recycled under the thread, so nobody spins on it for ever.
LockHasHolder ==
  \A s \in Slots : lock[s] =>
    \E t \in Threads : obj[t] = s /\ pc[t] \in {"md_handle", "md_set"}

Registered(s) == \E n \in 1 .. Len(id_table) : id_table[n][2] = s
InDestroy(t, s) == obj[t] = s /\ pc[t] \in {"md_lock", "md_handle", "md_set"}

\* An object of the id table whose two counters are both 0 and that is not
\* marked destroyed has a thread on its way through object_maybe_destroy: the
\* decision to destroy is never lost between the two decrements.
NoLostDestruction ==
  \A s \in Slots :
    Registered(s) /\ refcount[s] = 0 /\ handle_count[s] = 0 /\ ~destroyed[s]
      => \E t \in Threads : InDestroy(t, s)

\* The id table holds one node for each object from the end of object_create
\* to the hashtable_remove of its destruction, under its own id, and no other.
IdTableExact ==
  /\ \A m, n \in 1 .. Len(id_table) : id_table[m][2] = id_table[n][2] => m = n
  /\ \A n \in 1 .. Len(id_table) :
       /\ object_id[id_table[n][2]] = id_table[n][1]
       /\ id_table[n][2] \notin slab
  /\ \A s \in Slots \ slab :
       Registered(s) \/ \E t \in Threads : obj[t] = s /\ (Creating(t) \/ pc[t] = "md_free")

\* A handle in use is never redirected: object_grant and cap_lookup leave an
\* occupied entry alone, object_close empties it.
HandlesStable ==
  [][\A h \in Handles : entries[h].object # NULL =>
       entries'[h].object = NULL \/ entries'[h] = entries[h]]_vars

Dead(s) == s \in slab \/ \E t \in Threads : Dying(t) /\ obj[t] = s

\* An object to which some thread owns a reference, or that an entry of the
\* capability table names, is neither being destroyed nor back in its slab:
\* object_maybe_destroy requires that "both" counts are zero (ob.c).
RefsAlive ==
  /\ \A t \in Threads, s \in Slots : held[t][s] > 0 => ~Dead(s)
  /\ \A h \in Handles : entries[h].object # NULL => ~Dead(entries[h].object)

\* object_maybe_destroy, object_grant and object_close do not read or write the
\* header of an object whose memory is back in the slab.
NoLateAccess ==
  \A t \in Threads :
    pc[t] \in {"md_lock", "md_handle", "md_set", "gr_count", "cl_count"} => obj[t] \notin slab

Unused(s) == (\A t \in Threads : held[t][s] = 0) /\ (\A h \in Handles : entries[h].object # s)

\* An object whose references and handles are all gone is destroyed and its
\* memory returned, if its header began with `destroyed' clear.
UnusedIsFreed ==
  \A s \in Slots : (Registered(s) /\ Unused(s) /\ ~destroyed[s]) ~> s \in slab

\* The same for every object, recycled memory or not.  It does not hold, and is in
\* no run: object_create leaves `destroyed' set in recycled memory (README).
EveryUnusedIsFreed == \A s \in Slots : (Registered(s) /\ Unused(s)) ~> s \in slab
=============================================================================
