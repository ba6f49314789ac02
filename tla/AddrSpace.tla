----------------------------- MODULE AddrSpace -----------------------------
(* What page tables promise.  An address space is a partial map from pages.  *)
(* A request to map or unmap a page ends in one step, in which that page of  *)
(* that space takes the target asked for and nothing else changes, or in a   *)
(* failure that changes nothing.                                             *)
CONSTANTS Spaces, Pages, Targets, None

VARIABLES
  map,     \* map[s][p]: where page p of space s leads
  req      \* the request in progress: space, page, target

Empty == [p \in Pages |-> None]
NoReq == <<>>

Init ==
  /\ map = [s \in Spaces |-> Empty]
  /\ req = NoReq

Request ==
  /\ req = NoReq
  /\ req' \in Spaces \X Pages \X (Targets \cup {None})
  /\ UNCHANGED map

Done ==
  /\ req # NoReq
  /\ map' = [map EXCEPT ![req[1]][req[2]] = req[3]]
  /\ req' = NoReq

Fail ==
  /\ req # NoReq
  /\ req' = NoReq
  /\ UNCHANGED map

\* Space s is given up.
Clear(s) ==
  /\ req = NoReq
  /\ map' = [map EXCEPT ![s] = Empty]
  /\ UNCHANGED req

Next == Request \/ Done \/ Fail \/ \E s \in Spaces : Clear(s)

Spec == Init /\ [][Next]_<<map, req>>
=============================================================================
