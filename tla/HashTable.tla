----------------------------- MODULE HashTable -----------------------------
(***************************************************************************)
(* The chained hash table (libkern/hash.c): nodes from a slab cache, one   *)
(* list for each bucket, linked by pointers.  The caller holds the lock    *)
(* that guards the table (base/ob/ob.c takes table_lock around each call), *)
(* so a call is one step.                                                  *)
(***************************************************************************)
EXTENDS Naturals, FiniteSetsExt, SequencesExt

CONSTANTS
  Keys, Values,
  Buckets,
  hash_u64,        \* the bucket of each key
  Nodes,           \* bound: the nodes that node_cache can supply
  NULL

ASSUME HashAssumption ==
  /\ hash_u64 \in [Keys -> Buckets]
  /\ IsFiniteSet(Nodes) /\ NULL \notin Nodes

VARIABLES
  buckets,         \* the first node of each list
  key, value, next, \* the fields of the nodes
  cached,          \* the nodes that are in node_cache
  count

hashVars == <<buckets, key, value, next, cached, count>>

\* A node of a fresh slab has arbitrary fields.
hashtable_init ==
  /\ buckets = [b \in Buckets |-> NULL]
  /\ key \in {[n \in Nodes |-> k] : k \in Keys}
  /\ value \in {[n \in Nodes |-> v] : v \in Values}
  /\ next = [n \in Nodes |-> NULL]
  /\ cached = Nodes
  /\ count = 0

Linked(n, b) == next' = [next EXCEPT ![n] = buckets[b]]

hashtable_insert(k, v) ==
  LET b == hash_u64[k] IN
  \E n \in cached :
    /\ cached' = cached \ {n}
    /\ key' = [key EXCEPT ![n] = k]
    /\ value' = [value EXCEPT ![n] = v]
    /\ Linked(n, b)
    /\ buckets' = [buckets EXCEPT ![b] = n]
    /\ count' = count + 1

\* The i-th node of the list of a bucket, from 0 on.
Nth(b) ==
  LET nth[i \in 0 .. Cardinality(Nodes)] ==
        IF i = 0 THEN buckets[b]
        ELSE LET before == nth[i - 1] IN IF before = NULL THEN NULL ELSE next[before]
  IN  nth

\* Mutant: the loops do not compare the key.
Stops_first(k) == {0}

\* The positions at which the loops of lookup and remove stop.
Stops(k) ==
  LET nth == Nth(hash_u64[k])
  IN  {i \in DOMAIN nth : nth[i] # NULL => key[nth[i]] = k}

\* The node the loops stop at, NULL at the end of the list.
Found(k) == Nth(hash_u64[k])[Min(Stops(k))]

hashtable_lookup(k) == IF Found(k) = NULL THEN NULL ELSE value[Found(k)]

\* Mutant: the bucket, not the pointer before the node, is overwritten.
Unlinked_head(k) ==
  /\ buckets' = [buckets EXCEPT ![hash_u64[k]] = next[Found(k)]]
  /\ UNCHANGED next

\* *pp = dead->next, where pp is the bucket or the next of the node before.
Unlinked(k) ==
  LET b    == hash_u64[k]
      i    == Min(Stops(k))
      dead == Found(k)
  IN  IF i = 0
      THEN buckets' = [buckets EXCEPT ![b] = next[dead]] /\ UNCHANGED next
      ELSE next' = [next EXCEPT ![Nth(b)[i - 1]] = next[dead]] /\ UNCHANGED buckets

hashtable_remove(k) ==
  /\ Found(k) # NULL
  /\ Unlinked(k)
  /\ cached' = cached \cup {Found(k)}
  /\ count' = count - 1
  /\ UNCHANGED <<key, value>>

HashNext ==
  \E k \in Keys :
    \/ \E v \in Values : hashtable_insert(k, v)
    \/ hashtable_remove(k)

HashSpec == hashtable_init /\ [][HashNext]_hashVars

----------------------------------------------------------------------------
(* Properties.                                                             *)

\* The list of a bucket.
Chain(b) ==
  LET nth == Nth(b)
      len == Min({i \in DOMAIN nth : nth[i] = NULL} \cup {Cardinality(Nodes)})
  IN  [i \in 1 .. len |-> nth[i - 1]]

\* The positions of a key in its list, and any set of positions in their order.
Places(k) ==
  LET nth == Nth(hash_u64[k])
  IN  {i \in DOMAIN nth : nth[i] # NULL /\ key[nth[i]] = k}
InOrder(S) ==
  CHOOSE p \in BoundedSeq(S, Cardinality(Nodes)) :
    /\ \A i, j \in DOMAIN p : i < j => p[i] < p[j]
    /\ Range(p) = S

\* The values of a key, in the order of its list.
Stack(k) ==
  LET p == InOrder(Places(k)) IN [i \in DOMAIN p |-> value[Nth(hash_u64[k])[p[i]]]]

\* The lists end, share no node, and hold every node that is not in the cache: none
\* is lost, and none is free and linked at once.  hashtable_lookup returns the latest
\* value inserted for the key and not removed, also past the nodes of other keys.
ListsExact ==
  /\ \A b \in Buckets : \E i \in DOMAIN Nth(b) : Nth(b)[i] = NULL
  /\ \A b, c \in Buckets : b # c => Range(Chain(b)) \cap Range(Chain(c)) = {}
  /\ UNION {Range(Chain(b)) : b \in Buckets} = Nodes \ cached
  /\ count = Cardinality(Nodes \ cached)
  /\ \A k \in Keys : hashtable_lookup(k) = IF Stack(k) = <<>> THEN NULL ELSE Head(Stack(k))

ByKey == INSTANCE KeyStacks WITH stacks <- [k \in Keys |-> Stack(k)], size <- count

\* The pointer lists implement a stack of values for each key, whatever the
\* collisions: removing a key takes its latest value only.
ImplementsKeyStacks == ByKey!Spec
=============================================================================
