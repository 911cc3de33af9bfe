----------------------------- MODULE SetSource -----------------------------
(***************************************************************************)
(* What an iterator over armor sets promises to the pruner it feeds: every *)
(* set of a fixed collection exactly once, in an order of its own, then    *)
(* "no more"; and all of them again after a Reset.                         *)
(***************************************************************************)
CONSTANT None \* nothing was given: before the first set, or no more

VARIABLES
  all,  \* the armor sets to give
  left, \* those not given since the last Reset
  out   \* the set given last

Init == left = all /\ out = None

Give(set) ==
  /\ set \in left
  /\ out' = set
  /\ left' = left \ {set}
  /\ UNCHANGED all

NoMore ==
  /\ left = {}
  /\ out' = None
  /\ UNCHANGED <<all, left>>

Reset ==
  /\ left' = all
  /\ out' = None
  /\ UNCHANGED all

Next == (\E set \in left : Give(set)) \/ NoMore \/ Reset

Spec == Init /\ [][Next]_<<all, left, out>>
=============================================================================
