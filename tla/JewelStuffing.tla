---------------------------- MODULE JewelStuffing ----------------------------
(***************************************************************************)
(* One armor tree on its way through the pruners: JewelPruner and          *)
(* SkillSplitPruner each take the jewels already chosen for the tree,      *)
(* compute the slots they leave (GetResidual, for the body slots the       *)
(* difference of the hole sums) and add jewels that the slot client says   *)
(* fit there, without ever going back to the original alignment.           *)
(***************************************************************************)
EXTENDS Slots

CONSTANTS
  MaxSlots, \* bound on the slots of each size of a tree
  MaxStages \* number of effects of the query

ASSUME BoundsAssumption == MaxSlots \in Nat /\ MaxStages \in Nat

VARIABLES
  slots,   \* the alignment in the key of the tree
  body,    \* BodySlotSum of the key: holes of the body armor, 0 if multiplier 1
  stuffed, \* <<ones, twos, threes>> of the jewel key chosen so far
  extra,   \* body holes the jewel key takes: its BodySlotSum
  stage    \* pruners passed

stuff_vars == <<slots, body, stuffed, extra, stage>>

Alignments == (0..MaxSlots) \X (0..MaxSlots) \X (0..MaxSlots)
BodyAlignment(holes) == << IF holes = 1 THEN 1 ELSE 0,
                           IF holes = 2 THEN 1 ELSE 0,
                           IF holes = 3 THEN 1 ELSE 0 >>

StuffTypeOK ==
  /\ slots \in Counts
  /\ body \in 0..3
  /\ stuffed \in Counts
  /\ extra \in Nat
  /\ stage \in 0..MaxStages

StuffInit ==
  /\ slots \in Alignments
  /\ body \in 0..3
  /\ stuffed = <<0, 0, 0>>
  /\ extra = 0
  /\ stage = 0

(* One jewel key of slot_client_.Query on the residual: ordinary jewels    *)
(* `add` and body jewels `inner`, which fit the one slot of the body.      *)
Prune(add, inner) ==
  /\ stage < MaxStages
  /\ stuffed' = Plus(stuffed, add)
  /\ extra' = extra + Holes(inner)
  /\ stage' = stage + 1
  /\ UNCHANGED <<slots, body>>

StuffNext == \E add \in Fitting(Residual(slots, stuffed)),
           inner \in Fitting(BodyAlignment(body - extra)) : Prune(add, inner)

StuffSpec == StuffInit /\ [][StuffNext]_stuff_vars

-----------------------------------------------------------------------------
(* The jewels chosen over all stages fit the slots the tree really has:    *)
(* the assigner that later places them finds a slot for every one.         *)
NeverOverstuffed == Fits(stuffed, slots) /\ extra <= body

(* What GetResidual reports is a real alignment with exactly the holes     *)
(* that are left: a negative count would index the slot client's buffer    *)
(* out of bounds.                                                          *)
ResidualIsReal ==
  /\ Residual(slots, stuffed) \in Counts
  /\ Holes(Residual(slots, stuffed)) = Holes(slots) - Holes(stuffed)
=============================================================================
