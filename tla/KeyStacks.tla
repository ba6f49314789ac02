----------------------------- MODULE KeyStacks -----------------------------
(* What the hash table promises: a stack of values for each key.  Inserting  *)
(* hides the earlier value of a key, removing brings it back.                *)
EXTENDS Naturals, Sequences

CONSTANTS Keys, Values

VARIABLES
  stacks,     \* the values of each key, the one that a lookup finds first
  size

Init ==
  /\ stacks = [k \in Keys |-> <<>>]
  /\ size = 0

Insert(k, v) ==
  /\ stacks' = [stacks EXCEPT ![k] = <<v>> \o @]
  /\ size' = size + 1

Remove(k) ==
  /\ stacks[k] # <<>>
  /\ stacks' = [stacks EXCEPT ![k] = Tail(@)]
  /\ size' = size - 1

Next == \E k \in Keys : Remove(k) \/ \E v \in Values : Insert(k, v)

Spec == Init /\ [][Next]_<<stacks, size>>
=============================================================================
