----------------------------- MODULE Signature -----------------------------
(***************************************************************************)
(* cpp/utils/signature.h: the 16-byte key the search groups and prunes by. *)
(*                                                                         *)
(* The three header bytes keep their packed form, so that a carry from one *)
(* field into the next behaves as in the code:                             *)
(*    b0 : number of 1-slots                                               *)
(*    b1 : number of 3-slots * 16 + number of 2-slots                      *)
(*    b2 : torso multiplier (bits 0-2), body 1-slots (bits 3-4), body      *)
(*         2-slot (bit 5), body 3-slot (bit 6)                             *)
(* pts holds the effect bytes that the query uses, one per effect of the   *)
(* query; the remaining bytes of the code are zero in every signature.     *)
(* A byte is a signed char: arithmetic on it wraps around at 8 bits.       *)
(***************************************************************************)
EXTENDS Dataset

Char8(x) == ((x + 128) % 256) - 128
Byte == -128 .. 127

ZeroPts(n) == [e \in 1..n |-> 0]

(* Signature() *)
ZeroKey(n) == [b0 |-> 0, b1 |-> 0, b2 |-> 0, pts |-> ZeroPts(n)]

(* The header bytes of an item that has or takes `slots` slots. *)
SlotBytes(slots) == [b0 |-> IF slots = 1 THEN 1 ELSE 0,
                     b1 |-> CASE slots = 2 -> 1 [] slots = 3 -> 16
                              [] OTHER -> 0]

(* The points of an effect list for the first k of the n effects asked. *)
PtsOf(item, effects, k) ==
  [e \in 1..Len(effects) |->
     IF e <= k THEN Char8(EffectPoints(item.effects, effects[e].id)) ELSE 0]

(* Signature(const Armor &, effects), where effects is the first k ones. *)
ArmorKey(armor, effects, k) ==
  IF IsTorsoUp(armor)
  THEN [ZeroKey(Len(effects)) EXCEPT !.b2 = 1]
  ELSE [b0  |-> SlotBytes(armor.slots).b0,
        b1  |-> SlotBytes(armor.slots).b1,
        b2  |-> IF armor.part = "BODY" THEN 1 ELSE 0,
        pts |-> PtsOf(armor, effects, k)]

(* Signature(const Jewel &, skill_ids, effects, &valid): the jewels that   *)
(* are valid, and the key of a valid jewel.                                *)
JewelIsValid(jewel, skill_ids) ==
  \E skill \in skill_ids : EffectPoints(jewel.effects, skill) > 0

JewelKey(jewel, effects) ==
  [b0  |-> SlotBytes(jewel.slots).b0,
   b1  |-> SlotBytes(jewel.slots).b1,
   b2  |-> 0,
   pts |-> PtsOf(jewel, effects, Len(effects))]

-----------------------------------------------------------------------------
(* sig::KeySlots and the body fields of byte 2. *)
Ones(key)   == key.b0
Twos(key)   == key.b1 % 16
Threes(key) == key.b1 \div 16
BodyOnes(key)   == (key.b2 \div 8) % 4
BodyTwos(key)   == (key.b2 \div 32) % 2
BodyThrees(key) == (key.b2 \div 64) % 2
Multiplier(key) == key.b2 % 8

(* A mutant: the 2-slot of a body is overlooked.                           *)
BodySlotSum_NoTwos(key) == IF BodyThrees(key) # 0 THEN 3 ELSE BodyOnes(key)

BodySlotSum(key) ==
  IF BodyThrees(key) # 0 THEN 3 ELSE 2 * BodyTwos(key) + BodyOnes(key)

Scale(pts, m) == [e \in DOMAIN pts |-> Char8(pts[e] * m)]

(* A mutant: the points are left as they are.                              *)
BodyRefactor_KeepsPoints(key, m) ==
  IF m <= 1 THEN key
  ELSE [b0  |-> 0,
        b1  |-> 0,
        b2  |-> Char8(key.b2 + 8 * key.b0
                      + (IF Twos(key) # 0 THEN 32 ELSE 0)
                      + (IF Threes(key) # 0 THEN 64 ELSE 0)),
        pts |-> key.pts]

(* Signature::BodyRefactor. The |= of the code is a sum here: the body     *)
(* bits of the keys it is applied to are clear and b0 is at most 3.        *)
BodyRefactor(key, m) ==
  IF m <= 1 THEN key
  ELSE [b0  |-> 0,
        b1  |-> 0,
        b2  |-> Char8(key.b2 + 8 * key.b0
                      + (IF Twos(key) # 0 THEN 32 ELSE 0)
                      + (IF Threes(key) # 0 THEN 64 ELSE 0)),
        pts |-> Scale(key.pts, m)]

AddPts(p, q) == [e \in DOMAIN p |-> Char8(p[e] + q[e])]

(* operator+ and += *)
a ++ b == [b0  |-> Char8(a.b0 + b.b0),
           b1  |-> Char8(a.b1 + b.b1),
           b2  |-> Char8(a.b2 + b.b2),
           pts |-> AddPts(a.pts, b.pts)]

(* operator| adds the effect bytes and leaves the header zero. *)
a || b == [b0 |-> 0, b1 |-> 0, b2 |-> 0, pts |-> AddPts(a.pts, b.pts)]

(* sig::InverseKey over the effects selected by mask. *)
InverseKey(effects, mask) ==
  [ZeroKey(Len(effects)) EXCEPT !.pts =
     [e \in 1..Len(effects) |->
        IF e \in mask THEN Char8(-effects[e].points) ELSE 0]]

(* sig::AddPoints and sig::GetPoints *)
AddPoints(key, e, points) == [key EXCEPT !.pts[e] = Char8(@ + points)]
GetPoints(key, e) == key.pts[e]

(* A mutant: one point too few is enough.                                  *)
Satisfy_OffByOne(test, inverse) ==
  \A e \in DOMAIN test.pts : test.pts[e] + inverse.pts[e] >= -1

(* sig::Satisfy compares every effect byte, the ones the inverse target    *)
(* does not mention included.                                              *)
Satisfy(test, inverse) ==
  \A e \in DOMAIN test.pts : test.pts[e] + inverse.pts[e] >= 0
=============================================================================
