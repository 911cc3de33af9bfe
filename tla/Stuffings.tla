------------------------------ MODULE Stuffings ------------------------------
(***************************************************************************)
(* What a slot client of cpp/utils/jewels_query.h promises: the keys it is *)
(* built from, and every sum of them that fits an alignment of slots.      *)
(***************************************************************************)
EXTENDS Signature, Slots

(* The constructor's jewel keys of a size: those of the jewels that pass    *)
(* the filter and help one of the skills.                                  *)
ValidKeys(skill_ids, filter, effects, slots) ==
  { JewelKey(JewelData[id], effects) :
      id \in { q \in DOMAIN JewelData :
                 /\ ValidJewel(filter, q)
                 /\ JewelData[q].slots = slots
                 /\ JewelIsValid(JewelData[q], skill_ids) } }

ClientKeys(skill_ids, filter, effects) ==
  [slots \in 1..3 |-> ValidKeys(skill_ids, filter, effects, slots)]

SetProduct(a, b) == { x ++ y : x \in a, y \in b }

OneSlot(extra) == << IF extra = 1 THEN 1 ELSE 0,
                     IF extra = 2 THEN 1 ELSE 0,
                     IF extra = 3 THEN 1 ELSE 0 >>

(* Sums of n jewels of a size, repetition allowed; zero is the empty sum.   *)
SumsOf(zero, keys, n) ==
  LET sums[m \in 0..n] ==
        IF m = 0 THEN {zero} ELSE SetProduct(sums[m - 1], keys)
  IN  sums[n]

(* The sums of the jewels that fit the alignment s.                         *)
Stuffed(zero, jewel_keys, s) ==
  UNION { SetProduct(SetProduct(SumsOf(zero, jewel_keys[1], c[1]),
                                SumsOf(zero, jewel_keys[2], c[2])),
                     SumsOf(zero, jewel_keys[3], c[3])) : c \in Fitting(s) }

(* The same with a body that has `extra` holes and counts multiplier times. *)
BodyStuffed(zero, jewel_keys, s, extra, multiplier) ==
  IF multiplier < 2 \/ extra = 0 THEN Stuffed(zero, jewel_keys, s)
  ELSE { x ++ BodyRefactor(y, multiplier) :
           x \in Stuffed(zero, jewel_keys, s),
           y \in Stuffed(zero, jewel_keys, OneSlot(extra)) }
=============================================================================
