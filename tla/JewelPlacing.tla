---------------------------- MODULE JewelPlacing ----------------------------
(***************************************************************************)
(* The jewels of one armor tree from the first pruner to the last slot:    *)
(* the pruners choose jewels by what GetResidual says is left of the slots *)
(* in the key of the tree (JewelStuffing); later the Finalizer takes an    *)
(* armor set of that tree, gives the assigner its parts and the jewels of  *)
(* a plan for the key, and places them (JewelAssigner).  Neither side goes *)
(* back to ask the other.                                                  *)
(*                                                                         *)
(* `slots` counts the parts other than a multiplied body, the ones the     *)
(* Finalizer adds; jewels of a multiplied body go to it directly.          *)
(***************************************************************************)
EXTENDS JewelStuffing, JewelAssigner

chosen == <<slots, body, stuffed, extra, stage>>
assigner == <<slots_part_, slots_jewel_, slots_, capacity, placed, phase>>

PlacingInit ==
  /\ StuffInit /\ Init
  /\ slots[1] + slots[2] + slots[3] <= Parts

(* A pruner's turn.                                                        *)
Choose(add, inner) == Prune(add, inner) /\ UNCHANGED assigner

AddUpTo(s, t) == s[1] <= t[1] /\ s[2] <= t[2] /\ s[3] <= t[3]

(* The parts of an armor set of the tree: together they have the slots of  *)
(* its key (KeysTellTheSets of ForestGrowth).                              *)
PlacePart(free) ==
  /\ stage = MaxStages
  /\ AddPart(free)
  /\ AddUpTo(Lens(slots_part_'), slots)
  /\ UNCHANGED chosen

StartJewels ==
  /\ stage = MaxStages
  /\ Lens(slots_part_) = slots
  /\ PartsAdded
  /\ UNCHANGED chosen

(* The plan of JewelSolver has as many jewels of each size as the key says.*)
PlaceJewel(size) ==
  /\ Len(slots_jewel_[size]) < stuffed[size]
  /\ PushJewel(size)
  /\ UNCHANGED chosen

StartPop ==
  /\ Lens(slots_jewel_) = stuffed
  /\ JewelsAdded
  /\ UNCHANGED chosen

PlacingNext ==
  \/ \E add \in Fitting(Residual(slots, stuffed)),
        inner \in Fitting(BodyAlignment(body - extra)) : Choose(add, inner)
  \/ \E free \in 0..3 : PlacePart(free)
  \/ StartJewels
  \/ \E size \in Sizes : PlaceJewel(size)
  \/ StartPop
  \/ Pop /\ UNCHANGED chosen
  \/ PopFails /\ UNCHANGED chosen

placing_vars == <<chosen, assigner>>

PlacingSpec == PlacingInit /\ [][PlacingNext]_placing_vars
-----------------------------------------------------------------------------
(* The armor set shown holds exactly the jewels that the pruners chose for *)
(* its tree: none was dropped on the way, none placed twice.               *)
Count(list, size) == Cardinality({ n \in DOMAIN list : list[n][2] = size })

ShownAsChosen ==
  phase = "done" => \A size \in Sizes : Count(placed, size) = stuffed[size]
=============================================================================
